------------------------------ MODULE ServiceLife ------------------------------
(***************************************************************************)
(* The life of the non-resident service around its database: it is started *)
(* on demand, every call puts off a task that asks to be unloaded, the     *)
(* system ability manager asks whether the service is idle before it stops *)
(* it, and the process ends, whatever its threads are doing.               *)
(*                                                                         *)
(* The service is alone in its process, so a stopped service is started    *)
(* again only in a new process.  The event a start is for is handled by    *)
(* the module BundlePreserve.                                              *)
(***************************************************************************)
EXTENDS PolicyDatabase

VARIABLES
  state,     \* "down", "running", "stopped", or "unpublished" after a failing Publish
  delayed,   \* isDelayedToUnload_
  calls,     \* callFuncRunningNum_
  unload,    \* the task "SandboxManagerUnload" is posted
  asked,     \* the system ability manager is asked to unload the service
  missed     \* the last task could not be posted or could not ask

svcvars == <<state, delayed, calls, unload, asked, missed>>
vars == <<disk, txn, db, handler, cleanup, work, ops, faults,
          state, delayed, calls, unload, asked, missed>>

Init ==
  /\ DbInit
  /\ state = "down"
  /\ delayed = FALSE /\ calls = 0
  /\ unload = FALSE /\ asked = FALSE /\ missed = FALSE

DelayUnloadService == unload' = TRUE /\ missed' = FALSE

(* A database that does not open does not stop the service.                   *)
Initialize == \E o \in OpenDatabaseInternal : RdbInit(o)

(* OnStart clears the mark of a delayed unload, and a start for an event       *)
(* leaves it as it is.                                                         *)
OnStart ==
  /\ state \in {"down", "unpublished"}
  /\ Initialize
  /\ state' = "running"
  /\ DelayUnloadService
  /\ delayed' \in {FALSE, delayed}
  /\ UNCHANGED <<txn, cleanup, work, ops, calls, asked>>

OnStartFails ==
  /\ state \in {"down", "unpublished"}
  /\ \E o \in OpenDatabaseInternal :
       /\ ~o.fault /\ Fault
       /\ disk' = o.disk /\ db' = o.db /\ handler' = (handler \/ o.ok)
  /\ state' = "unpublished"
  /\ UNCHANGED <<txn, cleanup, work, ops, delayed, calls, unload, asked, missed>>

(* CallbackEnter, and the handler puts off the unloading.                      *)
CallbackEnter(t) ==
  /\ state \in {"running", "stopped"}
  /\ \E op \in Ops : Ask(t, op)
  /\ calls' = calls + 1
  /\ \/ DelayUnloadService /\ UNCHANGED faults
     \/ Fault /\ ~unload /\ missed' = TRUE /\ UNCHANGED unload
  /\ UNCHANGED <<disk, txn, db, handler, cleanup, state, delayed, asked>>

CallbackExit(t) == calls' = calls - 1

Return(t) ==
  /\ work[t].at \in {"ok", "failed"}
  /\ work' = [work EXCEPT ![t] = IdleWork]
  /\ CallbackExit(t)
  /\ UNCHANGED <<disk, txn, db, handler, cleanup, ops, faults, state, delayed, unload, asked, missed>>

(* The task: mark the unloading as delayed and ask for it; neither step is     *)
(* tried again if it fails.                                                    *)
UnmarkedUnload ==
  /\ asked' = TRUE
  /\ UNCHANGED <<delayed, missed, faults>>

UnloadAsks ==
  /\ delayed' = TRUE
  /\ asked' = TRUE
  /\ UNCHANGED <<missed, faults>>

UnloadMisses ==
  /\ Fault
  /\ missed' = TRUE
  /\ delayed' \in {delayed, TRUE}
  /\ UNCHANGED asked

UnloadTask ==
  /\ unload /\ unload' = FALSE
  /\ state # "down"
  /\ UnloadAsks \/ UnloadMisses
  /\ UNCHANGED <<disk, txn, db, handler, cleanup, work, ops, state, calls>>

IsAllowedUnloadService == calls = 0

(* OnIdle, asked for the task or for low memory, and OnStop if it agrees.      *)
OnIdle ==
  /\ state = "running"
  /\ delayed \/ IsAllowedUnloadService
  /\ state' = "stopped" /\ asked' = FALSE
  /\ UNCHANGED <<disk, txn, db, handler, cleanup, work, ops, faults, delayed, calls, unload, missed>>

OnIdleRefuses ==
  /\ state = "running"
  /\ ~(delayed \/ IsAllowedUnloadService)
  /\ asked' = FALSE
  /\ UNCHANGED <<disk, txn, db, handler, cleanup, work, ops, faults, state, delayed, calls, unload, missed>>

ProcessEnds ==
  /\ Forget
  /\ state' = "down"
  /\ delayed' = FALSE /\ calls' = 0 /\ unload' = FALSE /\ asked' = FALSE /\ missed' = FALSE

Exit == state = "stopped" /\ ProcessEnds /\ UNCHANGED faults
Crash == state # "down" /\ ProcessEnds /\ Fault

Step(t) == DbStep(t) /\ UNCHANGED svcvars
Cleanup == CleanupDbInternal /\ UNCHANGED svcvars
Damage == Corrupt /\ UNCHANGED svcvars

Next ==
  \/ OnStart \/ OnStartFails
  \/ UnloadTask \/ OnIdle \/ OnIdleRefuses \/ Exit \/ Crash
  \/ Cleanup \/ Damage
  \/ \E t \in Threads : CallbackEnter(t) \/ Step(t) \/ Return(t)

(* Threads run, posted tasks are run, and the system ability manager finishes  *)
(* an unload it was asked for.                                                 *)
FairSpec ==
  /\ Init /\ [][Next]_vars
  /\ \A t \in Threads : WF_vars(Step(t)) /\ WF_vars(Return(t))
  /\ WF_vars(Cleanup) /\ WF_vars(UnloadTask)
  /\ WF_vars(asked /\ (OnIdle \/ OnIdleRefuses)) /\ WF_vars(Exit)

-----------------------------------------------------------------------------
TypeOK ==
  /\ disk \in [version : 0..Version, tables : SUBSET Tables, stamp : BOOLEAN,
               rows : [Keys -> {"none", "new", "changed"}], damaged : BOOLEAN]
  /\ txn \in [open : BOOLEAN, rows : [Keys -> {"none", "new", "changed"}]]
  /\ db \in BOOLEAN /\ handler \in BOOLEAN /\ cleanup \in BOOLEAN
  /\ work \in [Threads -> [at : {"idle", "get", "lock", "begin", "statement", "commit",
                                 "exec", "query", "schedule", "ok", "failed"},
                           op : Ops \cup {NoOp}, left : SUBSET Keys,
                           guard : {"none", "read", "write"}, hit : BOOLEAN,
                           found : [rows : [Keys -> {"none", "new", "changed"}],
                                    cut : BOOLEAN]]]
  /\ ops \in 0..MaxOps /\ faults \in 0..MaxFaults
  /\ state \in {"down", "running", "stopped", "unpublished"}
  /\ calls = Cardinality({t \in Threads : work[t].at # "idle"})
  /\ delayed \in BOOLEAN /\ unload \in BOOLEAN /\ asked \in BOOLEAN /\ missed \in BOOLEAN

(* Whatever version the service found and however often an upgrade was         *)
(* interrupted, a store that operations can reach has every table and column   *)
(* they name (OnCreate, OnUpgrade); and an operation fails only if a call of   *)
(* its own failed or the file was damaged: never because the delayed cleanup   *)
(* took the connection away, nor because an upgrade was begun before (GetRdb,  *)
(* AddVolumeUnmountTsColumn).                                                  *)
StoreIsUsable ==
  /\ db \/ (\E t \in Threads : work[t].at \notin {"idle", "get", "failed"}) =>
       disk.version = Version /\ disk.tables = Tables /\ disk.stamp
  /\ \A t \in Threads : work[t].at = "failed" => work[t].hit

(* How far an operation is, as its caller could tell.                          *)
CallOf(w) ==
  [op |-> w.op, found |-> w.found,
   at |-> IF w.at = "idle" THEN "idle"
          ELSE IF w.at \in {"schedule", "ok"} THEN "applied"
          ELSE IF w.at = "failed" THEN "refused" ELSE "asked"]

Table == INSTANCE AtomicTable WITH
  table <- disk.rows,
  call <- [t \in Threads |-> CallOf(work[t])]

(* The tables behave as AtomicTable: transactions, the lock, the rollback, the *)
(* restore and the end of the process never show through, not even in the rows *)
(* a failing cursor leaves of a query.                                         *)
KeepsTable == Table!Spec

(* What the service opened and started comes to rest: after an operation that  *)
(* succeeded the connection is closed, whatever later operations do, since the *)
(* cleanup they take back they post again (ScheduleDbCleanup; Init must have    *)
(* made the event handler); and a running service stops, even if the task      *)
(* found calls at work, unless the task could not be posted or could not ask   *)
(* (DelayUnloadService, OnIdle).                                               *)
ComesToRest ==
  /\ \A t \in Threads : (work[t].at = "ok" /\ handler /\ ~work[t].hit) ~> ~db
  /\ state = "running" ~> (state # "running" \/ missed)
=============================================================================
