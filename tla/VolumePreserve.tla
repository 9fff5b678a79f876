---------------------------- MODULE VolumePreserve ----------------------------
(***************************************************************************)
(* Persisted policies on external volumes: VolumePreserveManager.          *)
(*                                                                         *)
(* When a volume is removed, DeactivePolicyByPath stamps the rows below    *)
(* its mount path with the time and takes their rules from the kernel.     *)
(* When one is mounted, ActivePolicyByPath first deletes the rows of all   *)
(* volumes that are out for longer than the time to live, then sets the    *)
(* rules of the rows below the mount path again and clears their stamps.   *)
(* Each is a sequence of single table accesses and ioctls, and other       *)
(* handlers change the same rows and rules in between.                     *)
(***************************************************************************)
EXTENDS Naturals, FiniteSets

CONSTANTS
  Rows,        \* keys of persisted_policy: token, path and mode of a policy
  Volumes,     \* mount paths
  VolumeOf,    \* VolumeOf[r]: the volume the path of r is on
  Threads,     \* IPC threads
  Ttl,         \* agingTtlMs_
  MaxTime,     \* bound: the clock shows 1..MaxTime
  MaxCalls,    \* bound: calls of the two handlers
  MaxOthers,   \* bound: steps of other handlers
  MaxFaults    \* bound: failing accesses

ASSUME VolumeAssumption ==
  /\ VolumeOf \in [Rows -> Volumes] /\ Volumes # {}
  /\ Ttl \in Nat /\ MaxTime \in Nat \ {0}
  /\ MaxCalls \in Nat /\ MaxOthers \in Nat /\ MaxFaults \in Nat

VARIABLES
  rows,      \* the rows of the table
  stamp,     \* stamp[r]: volumeUnmountTs of row r, 0 for a mounted volume
  rules,     \* the policies the kernel enforces
  clock,     \* system_clock; it may be set to anything
  job,       \* job[t]: the handler of thread t
  bounds,    \* [calls, others, faults] so far
  touched    \* history: touched[t] is what others changed since job[t] began

vars == <<rows, stamp, rules, clock, job, bounds, touched>>

Times == 0..MaxTime
Copies == [row : Rows, ts : Times]    \* a row as a query returned it

Jobs == [op : {"none", "deactive", "active"}, vol : Volumes, now : Times,
         pc : {"idle", "query", "stamp", "unset", "clean",
               "age", "purge", "set", "clear", "done"},
         todo : SUBSET Copies, cur : SUBSET Rows, ok : BOOLEAN,
         missed : SUBSET Rows,  \* history: rows a query of the call lost
         kept : SUBSET Rows]    \* history: rules the kernel kept unnoticed

Count(what) == bounds' = [bounds EXCEPT ![what] = @ + 1]

(* An access succeeds, or fails while the bound allows it.                    *)
Access(fails) ==
  IF fails THEN bounds.faults < MaxFaults /\ Count("faults") ELSE UNCHANGED bounds

(* A query finds R; a cursor error ends its loop early and goes unnoticed, so *)
(* that it returns the rows F read until then.                                *)
Find(R, F) == F \subseteq R /\ Access(F # R)

RowsOf(S) == {c.row : c \in S}

(* The other threads see that the rows or rules S changed.                    *)
Touch(t, S) ==
  touched' = [u \in Threads |-> IF u = t THEN touched[u] ELSE touched[u] \cup S]

(* UPDATE ... SET volumeUnmountTs of the rows S that still exist.             *)
SetStamp(S, ts) == stamp' = [r \in Rows |-> IF r \in S \cap rows THEN ts ELSE stamp[r]]

Begin(t, op, v, pc) ==
  /\ job[t].pc \in {"idle", "done"}
  /\ bounds.calls < MaxCalls
  /\ Count("calls")
  /\ job' = [job EXCEPT ![t] = [op |-> op, vol |-> v, now |-> clock, pc |-> pc,
                                todo |-> {}, cur |-> {}, ok |-> TRUE,
                                missed |-> {}, kept |-> {}]]
  /\ touched' = [touched EXCEPT ![t] = {}]
  /\ UNCHANGED <<rows, stamp, rules, clock>>

(* FindSubPathIgnoreCase: the rows at or below the mount path.                *)
QuerySubPathRecords(v) ==
  {[row |-> r, ts |-> stamp[r]] : r \in {x \in rows : VolumeOf[x] = v}}

-----------------------------------------------------------------------------
(* Removal *)

DeactivePolicyByPath(t) == \E v \in Volumes : Begin(t, "deactive", v, "query")

DeactiveQuery(t) ==
  LET all == QuerySubPathRecords(job[t].vol)
  IN /\ job[t].op = "deactive" /\ job[t].pc = "query"
     /\ \E found \in SUBSET all :
          /\ Find(all, found)
          /\ job' = [job EXCEPT ![t].todo = found, ![t].now = clock,
                                ![t].missed = @ \cup RowsOf(all \ found),
                                ![t].pc = IF found = {} THEN "done" ELSE "stamp"]
     /\ UNCHANGED <<rows, stamp, rules, clock, touched>>

(* DeactiveRecords, first half of the loop body: stamp one row.  A failure is *)
(* remembered and the loop goes on.                                           *)
DeactiveStamp(t) ==
  /\ job[t].pc = "stamp"
  /\ \E c \in job[t].todo, fails \in BOOLEAN :
       /\ Access(fails)
       /\ job' = [job EXCEPT ![t].pc = "unset", ![t].todo = @ \ {c},
                             ![t].cur = {c.row}, ![t].ok = @ /\ ~ fails]
       /\ IF fails THEN UNCHANGED stamp ELSE SetStamp({c.row}, job[t].now)
       /\ Touch(t, {c.row})
  /\ UNCHANGED <<rows, rules, clock>>

(* Second half: take the rule from the kernel.  The ioctl may fail, which is  *)
(* remembered, or refuse the entry, which UnSetPolicyToMac never looks at.    *)
(* After the last row, and only when nothing failed, what is left below the   *)
(* mount path is cleaned.                                                     *)
DeactiveUnset(t) ==
  /\ job[t].pc = "unset"
  /\ \E result \in {"unset", "refused", "fails"} :
       /\ Access(result = "fails")
       /\ rules' = IF result = "unset" THEN rules \ job[t].cur ELSE rules
       /\ job' = [job EXCEPT ![t].ok = @ /\ result # "fails",
            ![t].kept = IF result = "refused" THEN @ \cup (job[t].cur \cap rules) ELSE @,
            ![t].pc = IF job[t].todo # {} THEN "stamp"
                      ELSE IF job[t].ok /\ result # "fails" THEN "clean" ELSE "done"]
  /\ Touch(t, job[t].cur)
  /\ UNCHANGED <<rows, stamp, clock>>

(* CleanMacPolicyByPath takes the rules of the foreground user, if there is   *)
(* one, that the kernel does not refuse; a failing ioctl is only logged.      *)
CleanMacPolicyByPath(t) ==
  LET below == {r \in Rows : VolumeOf[r] = job[t].vol}
  IN /\ job[t].pc = "clean"
     /\ \E gone \in SUBSET below : rules' = rules \ gone
     /\ job' = [job EXCEPT ![t].pc = "done"]
     /\ Touch(t, below)
     /\ UNCHANGED <<rows, stamp, clock, bounds>>

-----------------------------------------------------------------------------
(* Mounting *)

ActivePolicyByPath(t) == \E v \in Volumes : Begin(t, "active", v, "age")

(* FindExpiredVolumeRecords: 0 < volumeUnmountTs < now - ttl, on any volume.  *)
Expired(now) == {c \in Copies : c.row \in rows /\ c.ts = stamp[c.row]
                                /\ c.ts > 0 /\ c.ts + Ttl < now}

FindExpiredVolumeRecords(t) ==
  LET all == Expired(job[t].now)
  IN /\ job[t].pc = "age"
     /\ \E found \in SUBSET all :
          /\ Find(all, found)
          /\ job' = [job EXCEPT ![t].todo = found,
                                ![t].missed = @ \cup RowsOf(all \ found),
                                ![t].pc = IF found = {} THEN "query" ELSE "purge"]
     /\ UNCHANGED <<rows, stamp, rules, clock, touched>>

(* Remove with whole rows as conditions: a row that was stamped again, or     *)
(* persisted again, since the query does not match any more.                  *)
MatchedMutant(S) == RowsOf(S)
Matched(S) == RowsOf({c \in S : c.ts = stamp[c.row]})

DeleteExpiredRecords(t) ==
  /\ job[t].pc = "purge"
  /\ rows' = rows \ Matched(job[t].todo)
  /\ stamp' = [r \in Rows |-> IF r \in rows' THEN stamp[r] ELSE 0]
  /\ job' = [job EXCEPT ![t].todo = {}, ![t].pc = "query"]
  /\ Touch(t, rows \ rows')
  /\ UNCHANGED <<rules, clock, bounds>>

(* FilterRestorableRecords.                                                   *)
RestorableMutant(c, now) == c.ts > 0 /\ now < c.ts + Ttl
Restorable(c, now) == c.ts > 0 /\ now <= c.ts + Ttl

ActiveQuery(t) ==
  LET all == QuerySubPathRecords(job[t].vol)
  IN /\ job[t].op = "active" /\ job[t].pc = "query"
     /\ \E found \in SUBSET all :
          LET fresh == {c \in found : Restorable(c, job[t].now)}
          IN /\ Find(all, found)
             /\ job' = [job EXCEPT ![t].todo = fresh,
                                   ![t].missed = @ \cup RowsOf(all \ found),
                                   ![t].pc = IF fresh = {} THEN "done" ELSE "set"]
     /\ UNCHANGED <<rows, stamp, rules, clock, touched>>

(* ActivateRecords, first half of the loop body: set the rule.  The ioctl may *)
(* fail, which is remembered, or refuse the entry, which is not looked at.    *)
ActivateSet(t) ==
  /\ job[t].pc = "set"
  /\ \E c \in job[t].todo, result \in {"set", "refused", "fails"} :
       /\ Access(result = "fails")
       /\ rules' = IF result = "set" THEN rules \cup {c.row} ELSE rules
       /\ job' = [job EXCEPT ![t].pc = "clear", ![t].todo = @ \ {c},
                             ![t].cur = {c.row}, ![t].ok = @ /\ result # "fails"]
       /\ Touch(t, {c.row})
  /\ UNCHANGED <<rows, stamp, clock>>

(* Second half: clear the stamp, whether the rule was set or not.             *)
ActivateClear(t) ==
  /\ job[t].pc = "clear"
  /\ \E fails \in BOOLEAN :
       /\ Access(fails)
       /\ job' = [job EXCEPT ![t].ok = @ /\ ~ fails,
                             ![t].pc = IF job[t].todo = {} THEN "done" ELSE "set"]
       /\ IF fails THEN UNCHANGED stamp ELSE SetStamp(job[t].cur, 0)
  /\ Touch(t, job[t].cur)
  /\ UNCHANGED <<rows, rules, clock>>

(* A query or the deleting transaction fails: the handler returns at once.    *)
DbError(t) ==
  /\ job[t].pc \in {"query", "age", "purge"}
  /\ Access(TRUE)
  /\ job' = [job EXCEPT ![t].pc = "done", ![t].ok = FALSE]
  /\ UNCHANGED <<rows, stamp, rules, clock, touched>>

-----------------------------------------------------------------------------
(* The other handlers (module PolicyManager), one step of theirs at a time,   *)
(* and the clock                                                              *)

Other(r) ==
  /\ bounds.others < MaxOthers
  /\ Count("others")
  /\ touched' = [t \in Threads |-> touched[t] \cup {r}]
  /\ UNCHANGED <<clock, job>>

(* PersistPolicy: REPLACE writes a row without a stamp, IGNORE keeps an old   *)
(* row with its stamp.                                                        *)
Persist(r) ==
  /\ Other(r)
  /\ rows' = rows \cup {r}
  /\ \E replace \in BOOLEAN :
       stamp' = IF replace THEN [stamp EXCEPT ![r] = 0] ELSE stamp
  /\ UNCHANGED rules

(* UnPersistPolicy or the removal of the application.                         *)
RemoveRow(r) ==
  /\ r \in rows
  /\ Other(r)
  /\ rows' = rows \ {r}
  /\ stamp' = [stamp EXCEPT ![r] = 0]
  /\ UNCHANGED rules

(* SetPolicy, StartAccessingPolicy and their counterparts.                    *)
ChangeRule(r) ==
  /\ Other(r)
  /\ rules' = IF r \in rules THEN rules \ {r} ELSE rules \cup {r}
  /\ UNCHANGED <<rows, stamp>>

SetClock ==
  /\ clock' \in 1..MaxTime
  /\ UNCHANGED <<rows, stamp, rules, job, bounds, touched>>

-----------------------------------------------------------------------------
(* The service starts over any table and any rules.                          *)
Init ==
  /\ rows \in SUBSET Rows
  /\ stamp \in [Rows -> Times]
  /\ \A r \in Rows \ rows : stamp[r] = 0
  /\ rules \in SUBSET Rows
  /\ clock \in 1..MaxTime
  /\ job = [t \in Threads |->
       [op |-> "none", vol |-> CHOOSE v \in Volumes : TRUE, now |-> 0, pc |-> "idle",
        todo |-> {}, cur |-> {}, ok |-> TRUE, missed |-> {}, kept |-> {}]]
  /\ bounds = [calls |-> 0, others |-> 0, faults |-> 0]
  /\ touched = [t \in Threads |-> {}]

Step(t) ==
  \/ DeactivePolicyByPath(t) \/ DeactiveQuery(t) \/ DeactiveStamp(t)
  \/ DeactiveUnset(t) \/ CleanMacPolicyByPath(t)
  \/ ActivePolicyByPath(t) \/ FindExpiredVolumeRecords(t) \/ DeleteExpiredRecords(t)
  \/ ActiveQuery(t) \/ ActivateSet(t) \/ ActivateClear(t)
  \/ DbError(t)

Next ==
  \/ \E t \in Threads : Step(t)
  \/ \E r \in Rows : Persist(r) \/ RemoveRow(r) \/ ChangeRule(r)
  \/ SetClock

Spec == Init /\ [][Next]_vars

-----------------------------------------------------------------------------
(* Properties *)

TypeOK ==
  /\ rows \subseteq Rows
  /\ stamp \in [Rows -> Times]
  /\ \A r \in Rows \ rows : stamp[r] = 0
  /\ rules \subseteq Rows
  /\ clock \in 1..MaxTime
  /\ job \in [Threads -> Jobs]
  /\ bounds \in [{"calls", "others", "faults"} -> Nat]
  /\ touched \in [Threads -> SUBSET Rows]

(* sandbox_manager_kit.h: "Preserve persisted policies on external volume     *)
(* remove".  Aging deletes a row only when its stamp, at the moment of the    *)
(* deletion and not only when the rows were queried, is older than the time   *)
(* to live: a volume removed again or a policy persisted again in between     *)
(* keeps the row.                                                             *)
AgingSparesFreshRows ==
  [][\A t \in Threads : job[t].pc = "purge" /\ job'[t].pc = "query" =>
       \A r \in rows \ rows' : stamp[r] > 0 /\ stamp[r] + Ttl < job[t].now]_vars

(* What a handler that waits to delete holds is expired.                      *)
PurgeListExpired ==
  \A t \in Threads : job[t].pc = "purge" =>
    \A c \in job[t].todo : c.ts > 0 /\ c.ts + Ttl < job[t].now

(* What an answer OK means, except for rows others changed meanwhile and for  *)
(* rows a truncated query of the call lost.  After ActivePolicyByPath no row  *)
(* of the volume carries a stamp: what was too old is gone and all the rest   *)
(* is in use again, with no age between the two; a row that kept its stamp    *)
(* would be deleted later although its volume is mounted.  After              *)
(* DeactivePolicyByPath every row of the volume is stamped with its time, and *)
(* its only rules left are those the kernel refused to remove.                *)
VolumeAnswersTruthfully ==
  \A t \in Threads : job[t].pc = "done" /\ job[t].ok =>
    \A r \in {q \in rows \ (touched[t] \cup job[t].missed) : VolumeOf[q] = job[t].vol} :
      /\ job[t].op = "active" => stamp[r] = 0
      /\ job[t].op = "deactive" =>
           stamp[r] = job[t].now /\ (r \in rules => r \in job[t].kept)
=============================================================================
