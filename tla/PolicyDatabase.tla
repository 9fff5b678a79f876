---------------------------- MODULE PolicyDatabase ----------------------------
(***************************************************************************)
(* SandboxManagerRdb and its open callback: the schema of the database     *)
(* file and its upgrades, the connection that is opened on demand and      *)
(* closed by a delayed task, and the operations on a table, each on the    *)
(* store it got, under the lock of readers and writers.                    *)
(*                                                                         *)
(* A row is its key and whether it was modified since it was added.  The   *)
(* engine keeps a second copy of every committed row (dual write), so      *)
(* disk.rows is what a restore brings back; while disk.damaged holds, the  *)
(* main copy answers every statement with a corruption error, and the next *)
(* open rebuilds it.  OnCreate restores once more if a backup of the time  *)
(* before the dual write exists: none is modelled.                         *)
(***************************************************************************)
EXTENDS Integers, Sequences, FiniteSets, SequencesExt

CONSTANTS
  Threads,           \* the threads that serve calls
  Keys,              \* the rows a table may hold
  Ops,               \* the operations callers ask for
  InitialVersions,   \* versions of the file the service may find, 0 for none
  MaxOps,            \* bound: operations in a behaviour
  MaxFaults          \* bound: failing calls, corruptions and crashes

ASSUME BoundsAssumption == MaxOps \in Nat /\ MaxFaults \in Nat

ASSUME OpsAssumption == \A op \in Ops : op.keys \subseteq Keys

VARIABLES
  disk,      \* the file: version, tables, stamp column, rows, damage
  txn,       \* the open transaction and the rows as it sees them
  db,        \* db_ # nullptr
  handler,   \* eventHandler_ # nullptr
  cleanup,   \* the task "DbCleanup" is posted
  work,      \* work[t]: the operation of a thread and how far it is
  ops,       \* operations started
  faults     \* faults injected

dbvars == <<disk, txn, db, handler, cleanup, work, ops>>

Version == 5

ASSUME VersionsAssumption == InitialVersions \subseteq 0..Version

Tables == {"policy", "bundle", "shared", "ugc"}
Empty == [k \in Keys |-> "none"]
NoOp == [kind |-> "none", keys |-> {}]
Nothing == [rows |-> Empty, cut |-> FALSE]
IdleWork == [at |-> "idle", op |-> NoOp, left |-> {}, guard |-> "none",
             hit |-> FALSE, found |-> Nothing]
NoTxn == [open |-> FALSE, rows |-> Empty]

(* Tables and columns a file of a version has.                                *)
SchemaOf(v) ==
  IF v = 0 THEN {}
  ELSE {"policy"} \cup (IF v >= 2 THEN {"bundle"} ELSE {})
                  \cup (IF v >= 3 THEN {"shared"} ELSE {})
                  \cup (IF v >= 5 THEN {"ugc"} ELSE {})

DbInit ==
  /\ \E v \in InitialVersions :
       \E rows \in IF v = 0 THEN {Empty} ELSE {Empty, [k \in Keys |-> "new"]} :
         disk = [version |-> v, tables |-> SchemaOf(v), stamp |-> v >= 4,
                 rows |-> rows, damaged |-> FALSE]
  /\ txn = NoTxn
  /\ db = FALSE /\ handler = FALSE /\ cleanup = FALSE
  /\ work = [t \in Threads |-> IdleWork]
  /\ ops = 0 /\ faults = 0

Fault == faults < MaxFaults /\ faults' = faults + 1

-----------------------------------------------------------------------------
(* Opening the file.                                                          *)

WithRows(d, rows, damaged) ==
  [version |-> d.version, tables |-> d.tables, stamp |-> d.stamp,
   rows |-> rows, damaged |-> damaged]

OnCreate == <<"policy", "bundle", "shared", "ugc">>

OnUpgrade(v) ==
  (IF v = 1 THEN <<"bundle">> ELSE <<>>) \o (IF v < 3 THEN <<"shared">> ELSE <<>>)
    \o (IF v < 4 THEN <<"stamp">> ELSE <<>>) \o (IF v < 5 THEN <<"ugc">> ELSE <<>>)

Callback(d) ==
  IF d.version = 0 THEN OnCreate ELSE IF d.version < Version THEN OnUpgrade(d.version) ELSE <<>>

(* A statement of the callback the file itself refuses: adding a column that  *)
(* exists is refused by the engine and taken for done by the callback.        *)
AlterOnly(d, step) == step = "stamp" /\ d.stamp

AddVolumeUnmountTsColumn(d, step) == step = "stamp" /\ "policy" \notin d.tables

(* The file after some statements of the callback.  Tables are created if     *)
(* they do not exist; a new policy table has the column.                      *)
Migrated(d, steps) ==
  [version |-> d.version, rows |-> d.rows, damaged |-> d.damaged,
   tables |-> d.tables \cup (ToSet(steps) \ {"stamp"}),
   stamp |-> d.stamp \/ "stamp" \in ToSet(steps)
                     \/ ("policy" \in ToSet(steps) /\ "policy" \notin d.tables)]

(* GetRdbStore: a damaged file is replaced by a new one, whose rows wait for   *)
(* the restore.  The version is written once every statement succeeded.        *)
Found(d) ==
  IF ~d.damaged THEN d
  ELSE [version |-> 0, tables |-> {}, stamp |-> FALSE, rows |-> d.rows, damaged |-> TRUE]

(* The file once every statement succeeded and its rows are restored.          *)
Opened(d, rows) ==
  [version |-> Version, tables |-> d.tables, stamp |-> d.stamp, rows |-> rows, damaged |-> FALSE]

Refused(d) ==
  {i \in 1..Len(Callback(d)) : AddVolumeUnmountTsColumn(Migrated(d, SubSeq(Callback(d), 1, i - 1)), Callback(d)[i])}

(* Outcomes of opening: the file, the answer, whether db_ is set, and whether  *)
(* a fault is needed; restoring a damaged file may fail without another one.  *)
OpenFails ==
  LET d == Found(disk)
      stop(n) == IF disk.damaged THEN disk ELSE Migrated(d, SubSeq(Callback(d), 1, n))
      prefixes == IF Refused(d) = {} THEN 0..Len(Callback(d))
                  ELSE 0..(CHOOSE i \in Refused(d) : \A j \in Refused(d) : i <= j) - 1
  IN {[disk |-> stop(n), ok |-> FALSE, db |-> FALSE, fault |-> TRUE] : n \in prefixes}
       \cup IF Refused(d) = {} THEN {}
            ELSE {[disk |-> stop(CHOOSE n \in prefixes : \A m \in prefixes : m <= n),
                   ok |-> FALSE, db |-> FALSE, fault |-> FALSE]}

OpenSucceeds ==
  LET d == Migrated(Found(disk), Callback(Found(disk)))
  IN IF Refused(Found(disk)) # {} THEN {}
     ELSE {[disk |-> Opened(d, d.rows), ok |-> TRUE, db |-> TRUE, fault |-> FALSE]}
            \cup IF disk.damaged
                 THEN {[disk |-> Opened(d, Empty), ok |-> FALSE, db |-> TRUE, fault |-> FALSE]}
                 ELSE {}

(* RdbHelper keeps one store per file: while an operation holds it, whoever    *)
(* opens the file gets the same one.                                           *)
Held == \E t \in Threads : work[t].at = "lock" \/ work[t].guard # "none"

OpenDatabaseInternal ==
  IF ~db /\ ~Held THEN OpenFails \cup OpenSucceeds
  ELSE {[disk |-> disk, ok |-> TRUE, db |-> TRUE, fault |-> FALSE]}
         \cup IF db THEN {} ELSE {[disk |-> disk, ok |-> FALSE, db |-> FALSE, fault |-> TRUE]}

Paid(o) == IF o.fault THEN Fault ELSE UNCHANGED faults

(* Init: an open that fails leaves no event handler, and a failing restore     *)
(* leaves the store it could not restore.                                      *)
RdbInit(o) ==
  /\ Paid(o)
  /\ disk' = o.disk
  /\ db' = o.db
  /\ handler' = (handler \/ o.ok)

-----------------------------------------------------------------------------
(* The operations.  A thread gets the store, waits for the lock, works, and    *)
(* schedules the cleanup if it succeeded; the lock is held until it returns.   *)

Batch(op) == op.kind \in {"add", "replace", "erase"}

(* What a step does to the record of its thread.                               *)
To(w, at) == [w EXCEPT !.at = at]
Hit(w, hit) == [w EXCEPT !.hit = hit]
Left(w, keys) == [w EXCEPT !.left = keys]
Guarded(w, guard) == [w EXCEPT !.guard = guard]
Finding(w, found) == [w EXCEPT !.found = found]

Ask(t, op) ==
  /\ ops < MaxOps /\ ops' = ops + 1
  /\ work[t].at = "idle"
  /\ work' = [work EXCEPT ![t] = To([@ EXCEPT !.op = op], "get")]

Go(t, at) == work' = [work EXCEPT ![t] = To(@, at)]
Fail(t) == work' = [work EXCEPT ![t] = To(Hit(@, TRUE), "failed")]

GetRdb(t) ==
  /\ work[t].at = "get"
  /\ \E o \in OpenDatabaseInternal :
       /\ Paid(o)
       /\ disk' = o.disk
       /\ db' = o.ok
       /\ work' = [work EXCEPT ![t] =
            To(Hit(@, o.fault \/ disk.damaged), IF o.ok THEN "lock" ELSE "failed")]
  /\ UNCHANGED <<txn, handler, cleanup, ops>>

GuardOf(op) == IF op.kind = "find" THEN "read" ELSE "write"

Lock(t) ==
  /\ work[t].at = "lock"
  /\ \A u \in Threads \ {t} :
       work[u].guard # "write" /\ (GuardOf(work[t].op) = "write" => work[u].guard = "none")
  /\ work' = [work EXCEPT ![t] =
       To(Guarded(@, GuardOf(work[t].op)),
          IF Batch(work[t].op) THEN "begin"
          ELSE IF work[t].op.kind = "find" THEN "query" ELSE "exec")]
  /\ UNCHANGED <<disk, txn, db, handler, cleanup, ops, faults>>

BeginTransaction(t) ==
  /\ work[t].at = "begin"
  /\ txn' = [open |-> TRUE, rows |-> disk.rows]
  /\ work' = [work EXCEPT ![t] = To(Left(@, work[t].op.keys), "statement")]
  /\ UNCHANGED <<disk, db, handler, cleanup, ops, faults>>

(* A row after an operation, as its kind treats it.                            *)
RowAfter(op, row) ==
  IF op.kind = "replace" \/ (op.kind = "add" /\ row = "none") THEN "new"
  ELSE IF op.kind \in {"erase", "remove"} THEN "none"
  ELSE IF op.kind = "modify" /\ row # "none" THEN "changed"
  ELSE row

Execute(t) ==
  /\ work[t].at = "statement"
  /\ ~disk.damaged
  /\ \E k \in work[t].left :
       /\ txn' = [open |-> TRUE, rows |-> [txn.rows EXCEPT ![k] = RowAfter(work[t].op, @)]]
       /\ work' = [work EXCEPT ![t] =
            To(Left(@, work[t].left \ {k}), IF work[t].left = {k} THEN "commit" ELSE "statement")]
  /\ UNCHANGED <<disk, db, handler, cleanup, ops, faults>>

Commit(t) ==
  /\ work[t].at = "commit"
  /\ ~disk.damaged
  /\ disk' = WithRows(disk, txn.rows, FALSE)
  /\ txn' = NoTxn
  /\ Go(t, "schedule")
  /\ UNCHANGED <<db, handler, cleanup, ops, faults>>

(* Statements of Remove with one condition and of Modify commit themselves.    *)
ExecuteAlone(t) ==
  /\ work[t].at = "exec"
  /\ ~disk.damaged
  /\ LET after == [k \in Keys |->
           IF k \in work[t].op.keys THEN RowAfter(work[t].op, disk.rows[k]) ELSE disk.rows[k]]
     IN disk' = WithRows(disk, after, FALSE)
  /\ Go(t, "schedule")
  /\ UNCHANGED <<txn, db, handler, cleanup, ops, faults>>

(* The loop of a query ends with the first error of GoToNextRow, the end of    *)
(* the rows or any other: a cursor that fails, as one over a damaged file may, *)
(* gives the rows read until then and success.                                 *)
Seen == IF txn.open THEN txn.rows ELSE disk.rows

Complete == [rows |-> Seen, cut |-> FALSE]
CutShort(S) == [rows |-> [k \in Keys |-> IF k \in S THEN Seen[k] ELSE "none"], cut |-> TRUE]

Query(t) ==
  /\ work[t].at = "query"
  /\ \E found \in {Complete} \cup {CutShort(S) : S \in SUBSET Keys} :
       /\ IF ~found.cut THEN ~disk.damaged /\ UNCHANGED faults
          ELSE IF disk.damaged THEN UNCHANGED faults ELSE Fault
       /\ work' = [work EXCEPT ![t] = To(Finding(@, found), "schedule")]
  /\ UNCHANGED <<disk, txn, db, handler, cleanup, ops>>

(* A step that fails before anything was written: the transaction did not      *)
(* begin, or the query gave no cursor.                                         *)
FailEarly(t) ==
  /\ work[t].at \in {"begin", "query"}
  /\ IF work[t].at = "query" /\ disk.damaged THEN UNCHANGED faults ELSE Fault
  /\ Fail(t)
  /\ UNCHANGED <<disk, txn, db, handler, cleanup, ops>>

(* A statement or a commit fails: roll back, and restore a corrupt file.       *)
RestoreOnly ==
  /\ disk' = WithRows(disk, disk.rows, FALSE)
  /\ UNCHANGED txn

DbOperateFailure ==
  /\ txn' = NoTxn
  /\ disk' \in {disk, WithRows(disk, disk.rows, FALSE)}

FailWrite(t) ==
  /\ work[t].at \in {"statement", "commit", "exec"}
  /\ IF disk.damaged THEN UNCHANGED faults ELSE Fault
  /\ DbOperateFailure
  /\ Fail(t)
  /\ UNCHANGED <<db, handler, cleanup, ops>>

(* The posted cleanup is taken back and posted anew.                           *)
PostDbCleanup(t) ==
  \/ /\ cleanup' = handler
     /\ Go(t, "ok")
     /\ UNCHANGED faults
  \/ /\ handler /\ Fault
     /\ cleanup' = FALSE
     /\ work' = [work EXCEPT ![t] = To(Hit(@, TRUE), "ok")]

ScheduleDbCleanup(t) ==
  /\ work[t].at = "schedule"
  /\ PostDbCleanup(t)
  /\ UNCHANGED <<disk, txn, db, handler, ops>>

CleanupDbInternal ==
  /\ cleanup
  /\ cleanup' = FALSE /\ db' = FALSE
  /\ UNCHANGED <<disk, txn, handler, work, ops, faults>>

Corrupt ==
  /\ Fault
  /\ disk.version = Version /\ ~disk.damaged
  /\ disk' = WithRows(disk, disk.rows, TRUE)
  /\ UNCHANGED <<txn, db, handler, cleanup, work, ops>>

(* The process ends: memory is gone, an open transaction is rolled back.       *)
Forget ==
  /\ txn' = NoTxn
  /\ db' = FALSE /\ handler' = FALSE /\ cleanup' = FALSE
  /\ work' = [t \in Threads |-> IdleWork]
  /\ UNCHANGED <<disk, ops>>

DbStep(t) ==
  \/ GetRdb(t) \/ Lock(t) \/ BeginTransaction(t) \/ Execute(t) \/ Commit(t)
  \/ ExecuteAlone(t) \/ Query(t) \/ FailEarly(t) \/ FailWrite(t) \/ ScheduleDbCleanup(t)
=============================================================================
