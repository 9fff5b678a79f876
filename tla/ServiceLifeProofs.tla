-------------------------- MODULE ServiceLifeProofs ---------------------------
(***************************************************************************)
(* ServiceLife implements AtomicTable, for every set of threads, rows and  *)
(* operations, every version of the file and any number of faults.         *)
(*                                                                         *)
(* An operation takes effect when it commits.  What it commits was worked  *)
(* out statement by statement before, so the step is the abstract one only *)
(* if nobody changed the rows meanwhile: the invariant says what the open  *)
(* transaction holds, that one writer excludes everybody else, and that a  *)
(* process that is starting has no caller.  A file that is opened anew may *)
(* lose its rows, but nobody holds the store then.                         *)
(***************************************************************************)
EXTENDS ServiceLife, FiniteSetTheorems, TLAPS

Rows == [Keys -> {"none", "new", "changed"}]

IsFile(d) ==
  /\ d = [version |-> d.version, tables |-> d.tables, stamp |-> d.stamp,
          rows |-> d.rows, damaged |-> d.damaged]
  /\ d.rows \in Rows

Stages == {"idle", "get", "lock", "begin", "statement", "commit", "exec", "query",
           "schedule", "ok", "failed"}
Results == [rows : Rows, cut : BOOLEAN]
Work == [at : Stages, op : Ops \cup {NoOp}, left : SUBSET Keys, guard : {"none", "read", "write"},
         hit : BOOLEAN, found : Results]

(* The state is made of the records and functions it should be.               *)
Shape ==
  /\ work \in [Threads -> Work]
  /\ IsFile(disk)
  /\ txn \in [open : BOOLEAN, rows : Rows]

InTransaction(t) == work[t].at \in {"statement", "commit"}

(* What a thread has at each point of its operation.                          *)
ThreadInv(t) ==
  /\ work[t].at = "idle" => work[t] = IdleWork
  /\ work[t].at \in {"get", "lock"} => work[t].op \in Ops /\ work[t].guard = "none"
  /\ work[t].at \in {"begin", "statement", "commit", "exec"} =>
       work[t].op \in Ops /\ work[t].op.kind # "find" /\ work[t].guard = "write"
  /\ work[t].at = "query" =>
       work[t].op \in Ops /\ work[t].op.kind = "find" /\ work[t].guard = "read"
  /\ InTransaction(t) => work[t].left \subseteq work[t].op.keys
  /\ work[t].at = "commit" => work[t].left = {}

OneWriter ==
  \A t, u \in Threads : t # u /\ work[t].guard = "write" => work[u].guard = "none"

(* The open transaction holds the rows of the file with the operation done on *)
(* the keys that are no longer left.                                          *)
TransactionInv ==
  /\ txn.open => \E t \in Threads : InTransaction(t)
  /\ \A t \in Threads : InTransaction(t) =>
       \A k \in Keys :
         txn.rows[k] = IF k \in work[t].op.keys \ work[t].left
                       THEN RowAfter(work[t].op, disk.rows[k]) ELSE disk.rows[k]

NobodyCallsTheStarting ==
  state \in {"down", "unpublished"} => \A t \in Threads : work[t].at = "idle"

TableInv ==
  /\ Shape
  /\ \A t \in Threads : ThreadInv(t)
  /\ OneWriter
  /\ TransactionInv
  /\ NobodyCallsTheStarting

-----------------------------------------------------------------------------
(* Statements of the callback leave the rows alone, and so does the new file  *)
(* in the place of a damaged one.                                             *)
LEMMA MigratedKeepsRows ==
  ASSUME NEW d, IsFile(d), NEW steps
  PROVE  IsFile(Migrated(d, steps)) /\ Migrated(d, steps).rows = d.rows
  BY DEF IsFile, Migrated

(* Finding the file keeps its rows.                                           *)
LEMMA FoundKeepsRows ==
  ASSUME NEW d, IsFile(d)
  PROVE  IsFile(Found(d)) /\ Found(d).rows = d.rows
  BY DEF IsFile, Found

(* A file opened with rows has them.                                          *)
LEMMA OpenedHasRows ==
  ASSUME NEW d, NEW rows, rows \in Rows
  PROVE  IsFile(Opened(d, rows)) /\ Opened(d, rows).rows = rows
  BY DEF IsFile, Opened

(* No rows are rows.                                                          *)
LEMMA EmptyIsRows == Empty \in Rows
  BY DEF Rows, Empty

(* Opening keeps the rows, or loses them all where nobody holds the store.    *)
LEMMA OpenKeepsRows ==
  ASSUME IsFile(disk), NEW o \in OpenDatabaseInternal
  PROVE  /\ IsFile(o.disk)
         /\ o.disk.rows = disk.rows \/ (o.disk.rows = Empty /\ ~o.ok /\ ~Held)
<1>1. CASE db \/ Held
  BY <1>1 DEF OpenDatabaseInternal
<1>2. CASE ~db /\ ~Held /\ o \in OpenFails
  <2>1. \A n : IsFile(Migrated(Found(disk), n)) /\ Migrated(Found(disk), n).rows = disk.rows
    BY FoundKeepsRows, MigratedKeepsRows
  <2>2. o.disk = disk \/ \E n : o.disk = Migrated(Found(disk), n)
    BY <1>2 DEF OpenFails
  <2> QED BY <2>1, <2>2
<1>3. CASE ~db /\ ~Held /\ o \in OpenSucceeds
  <2> DEFINE d == Migrated(Found(disk), Callback(Found(disk)))
  <2>1. IsFile(d) /\ d.rows = disk.rows
    BY FoundKeepsRows, MigratedKeepsRows
  <2>2. o.disk = Opened(d, d.rows) \/ (o.disk = Opened(d, Empty) /\ ~o.ok)
    BY <1>3 DEF OpenSucceeds
  <2>3. d.rows \in Rows
    BY <2>1 DEF IsFile
  <2> HIDE DEF d
  <2> QED BY <1>3, <2>1, <2>2, <2>3, EmptyIsRows, OpenedHasRows
<1> QED BY <1>1, <1>2, <1>3 DEF OpenDatabaseInternal

-----------------------------------------------------------------------------
(* A thread without a call is one to the table, too.                          *)
LEMMA IdleIsIdle ==
  /\ IdleWork \in Work /\ IdleWork.at = "idle" /\ IdleWork.guard = "none"
  /\ CallOf(IdleWork) = Table!Idle
<1>1. Nothing \in Results
  BY EmptyIsRows DEF Nothing, Results
<1>2. IdleWork \in Work
  BY <1>1 DEF IdleWork, Work, Stages
<1>3. Table!Nothing = Nothing
  BY DEF Table!Nothing, Table!Empty, Nothing, Empty
<1>4. CallOf(IdleWork) = Table!Idle
  BY <1>3 DEF CallOf, IdleWork, Table!Idle, Table!NoOp, NoOp
<1> QED BY <1>2, <1>4 DEF IdleWork

(* What a step does to the record of a thread.                                *)
LEMMA ToFields ==
  ASSUME NEW w \in Work, NEW at \in Stages
  PROVE  LET v == To(w, at) IN
         /\ v \in Work /\ v.at = at
         /\ v.op = w.op /\ v.left = w.left /\ v.guard = w.guard /\ v.found = w.found
  BY DEF Work, To

(* A fault is noted in the work of a thread, and no more.                     *)
LEMMA HitFields ==
  ASSUME NEW w \in Work, NEW hit \in BOOLEAN
  PROVE  LET v == Hit(w, hit) IN
         /\ v \in Work
         /\ v.op = w.op /\ v.left = w.left /\ v.guard = w.guard /\ v.found = w.found
  BY DEF Work, Hit

(* Only the keys left to do change.                                           *)
LEMMA LeftFields ==
  ASSUME NEW w \in Work, NEW keys \in SUBSET Keys
  PROVE  LET v == Left(w, keys) IN
         /\ v \in Work /\ v.left = keys
         /\ v.op = w.op /\ v.guard = w.guard /\ v.found = w.found
  BY DEF Work, Left

(* Only the lock that is held changes.                                        *)
LEMMA GuardedFields ==
  ASSUME NEW w \in Work, NEW guard \in {"none", "read", "write"}
  PROVE  LET v == Guarded(w, guard) IN
         /\ v \in Work /\ v.guard = guard
         /\ v.op = w.op /\ v.left = w.left /\ v.found = w.found
  BY DEF Work, Guarded

(* Only what was found changes.                                               *)
LEMMA FindingFields ==
  ASSUME NEW w \in Work, NEW found \in Results
  PROVE  LET v == Finding(w, found) IN
         /\ v \in Work /\ v.found = found
         /\ v.op = w.op /\ v.left = w.left /\ v.guard = w.guard
  BY DEF Work, Finding

(* A step of one thread leaves the others alone.                              *)
LEMMA OneThread ==
  ASSUME Shape, NEW t \in Threads, NEW w \in Work, work' = [work EXCEPT ![t] = w]
  PROVE  /\ work' \in [Threads -> Work]
         /\ work'[t] = w /\ \A u \in Threads \ {t} : work'[u] = work[u]
  BY DEF Shape

-----------------------------------------------------------------------------
(* Initially the database is the abstract table.                              *)
LEMMA TableInit == Init => TableInv /\ Table!Init
<1> SUFFICES ASSUME Init
             PROVE  TableInv /\ Table!Init
  OBVIOUS
<1>1. Shape
  <2>1. IdleWork \in Work
    BY IdleIsIdle
  <2>2. IsFile(disk)
    BY EmptyIsRows DEF Init, DbInit, IsFile, Rows
  <2>3. txn \in [open : BOOLEAN, rows : Rows]
    BY EmptyIsRows DEF Init, DbInit, NoTxn
  <2> QED BY <2>1, <2>2, <2>3 DEF Init, DbInit, Shape
<1>2. \A t \in Threads : work[t] = IdleWork
  BY DEF Init, DbInit
<1>3. \A t \in Threads : work[t].at = "idle" /\ work[t].guard = "none"
  BY <1>2 DEF IdleWork
<1>4. (\A t \in Threads : ThreadInv(t)) /\ OneWriter /\ NobodyCallsTheStarting
  BY <1>2, <1>3 DEF ThreadInv, InTransaction, OneWriter, NobodyCallsTheStarting
<1>5. TransactionInv
  BY <1>3 DEF Init, DbInit, TransactionInv, InTransaction, NoTxn
<1>6. disk.rows \in [Keys -> {"none", "new"}]
  BY DEF Init, DbInit, Empty
<1>7. [t \in Threads |-> CallOf(work[t])] = [t \in Threads |-> Table!Idle]
  BY <1>2, IdleIsIdle
<1> QED BY <1>1, <1>4, <1>5, <1>6, <1>7 DEF TableInv, Table!Init

-----------------------------------------------------------------------------
(* A thread that writes is alone.                                             *)
LEMMA WriterIsAlone ==
  ASSUME TableInv, NEW t \in Threads,
         work[t].at \in {"begin", "statement", "commit", "exec"}
  PROVE  /\ work[t].op \in Ops /\ work[t].op.kind # "find" /\ work[t].guard = "write"
         /\ \A u \in Threads \ {t} : work[u].guard = "none" /\ ~InTransaction(u)
<1>1. work[t].op \in Ops /\ work[t].op.kind # "find" /\ work[t].guard = "write"
  BY DEF TableInv, ThreadInv
<1>2. \A u \in Threads \ {t} : work[u].guard = "none"
  BY <1>1 DEF TableInv, OneWriter
<1>3. \A u \in Threads : InTransaction(u) => work[u].guard = "write"
  BY DEF TableInv, ThreadInv, InTransaction
<1> QED BY <1>1, <1>2, <1>3

(* A step of one thread that neither begins nor ends a transaction nor takes  *)
(* the lock, where the rows stay or nobody is in a transaction.               *)
LEMMA PlainStep ==
  ASSUME TableInv, NEW t \in Threads, NEW w \in Work, work' = [work EXCEPT ![t] = w],
         work[t].at # "idle", ~InTransaction(t),
         w.at \in {"lock", "schedule", "ok", "failed"},
         w.at = "lock" => w.op \in Ops,
         w.guard = work[t].guard, w.at = "lock" => w.guard = "none",
         IsFile(disk'), txn' = txn, state' = state,
         disk'.rows = disk.rows \/ \A u \in Threads : ~InTransaction(u)
  PROVE  TableInv'
<1> USE DEF InTransaction
<1>1. /\ work' \in [Threads -> Work]
      /\ work'[t] = w /\ \A u \in Threads \ {t} : work'[u] = work[u]
  BY OneThread DEF TableInv
<1>2. Shape'
  BY <1>1 DEF TableInv, Shape, IsFile
<1>3. \A u \in Threads : ThreadInv(u)'
  BY <1>1 DEF TableInv, ThreadInv
<1>4. OneWriter'
  BY <1>1 DEF TableInv, OneWriter
<1>5. TransactionInv'
  <2>1. \A u \in Threads : InTransaction(u)' => u # t /\ InTransaction(u)
    BY <1>1
  <2>2. txn.open => \E u \in Threads : InTransaction(u)'
    BY <1>1 DEF TableInv, TransactionInv
  <2> QED BY <1>1, <2>1, <2>2 DEF TableInv, TransactionInv
<1>6. NobodyCallsTheStarting'
  BY <1>1 DEF TableInv, NobodyCallsTheStarting
<1> QED BY <1>2, <1>3, <1>4, <1>5, <1>6 DEF TableInv

-----------------------------------------------------------------------------
(* The abstract steps.                                                        *)
LEMMA CallMoves ==
  ASSUME Shape, NEW t \in Threads, NEW w \in Work, work' = [work EXCEPT ![t] = w]
  PROVE  [u \in Threads |-> CallOf(work'[u])] =
           [[u \in Threads |-> CallOf(work[u])] EXCEPT ![t] = CallOf(w)]
<1> DEFINE before == [u \in Threads |-> CallOf(work[u])]
           after == [u \in Threads |-> CallOf(work'[u])]
           call == CallOf(w)
<1>1. work'[t] = w /\ \A u \in Threads \ {t} : work'[u] = work[u]
  BY OneThread
<1>2. before = [u \in Threads |-> before[u]] /\ after = [u \in Threads |-> after[u]]
  OBVIOUS
<1>3. after[t] = call /\ \A u \in Threads \ {t} : after[u] = before[u]
  BY <1>1
<1> HIDE DEF before, after, call
<1>4. after = [before EXCEPT ![t] = call]
  BY <1>2, <1>3
<1> QED BY <1>4 DEF before, after, call

(* A step inside an operation does not show.                                  *)
LEMMA InnerStep ==
  ASSUME Shape, NEW t \in Threads, NEW w \in Work, work' = [work EXCEPT ![t] = w],
         w.op = work[t].op, w.found = work[t].found,
         \/ /\ work[t].at \in {"get", "lock", "begin", "statement", "commit", "exec", "query"}
            /\ w.at \in {"get", "lock", "begin", "statement", "commit", "exec", "query"}
         \/ work[t].at = "schedule" /\ w.at = "ok",
         disk'.rows = disk.rows
  PROVE  UNCHANGED Table!vars
<1>1. CallOf(w) = CallOf(work[t])
  BY DEF CallOf
<1>2. work'[t] = w /\ \A u \in Threads \ {t} : work'[u] = work[u]
  BY OneThread
<1>3. [u \in Threads |-> CallOf(work'[u])] = [u \in Threads |-> CallOf(work[u])]
  BY <1>1, <1>2
<1> QED BY <1>3 DEF Table!vars

(* A failing operation is refused by the table.                               *)
LEMMA RefusingStep ==
  ASSUME Shape, NEW t \in Threads, NEW w \in Work, work' = [work EXCEPT ![t] = w],
         w.op = work[t].op, w.found = work[t].found, w.at = "failed",
         work[t].at \in {"get", "begin", "statement", "commit", "exec", "query"},
         disk'.rows \in {disk.rows, Empty}
  PROVE  Table!Refuse(t)
<1> DEFINE calls0 == [u \in Threads |-> CallOf(work[u])]
<1>1. calls0[t].at = "asked"
  BY DEF CallOf
<1>2. CallOf(w) = [op |-> w.op, found |-> w.found, at |-> "refused"]
  BY DEF CallOf
<1>3. calls0[t] = [op |-> w.op, found |-> w.found, at |-> "asked"]
  BY DEF CallOf
<1>4. [calls0[t] EXCEPT !.at = "refused"] = CallOf(w)
  BY <1>2, <1>3
<1>5. [u \in Threads |-> CallOf(work'[u])] = [calls0 EXCEPT ![t] = CallOf(w)]
  BY CallMoves
<1> QED BY <1>1, <1>4, <1>5 DEF Table!Refuse, Table!Empty, Empty

(* An operation that is carried out is applied by the table.                  *)
LEMMA ApplyingStep ==
  ASSUME Shape, NEW t \in Threads, NEW w \in Work, work' = [work EXCEPT ![t] = w],
         w.op = work[t].op, w.at = "schedule",
         w.found \in IF work[t].op.kind = "find" THEN Table!Findings ELSE {work[t].found},
         work[t].at \in {"commit", "exec", "query"},
         disk'.rows = [k \in Keys |-> IF k \in work[t].op.keys
                         THEN RowAfter(work[t].op, disk.rows[k]) ELSE disk.rows[k]]
  PROVE  Table!Apply(t)
<1> DEFINE calls0 == [u \in Threads |-> CallOf(work[u])]
<1>1. calls0[t] = [op |-> work[t].op, found |-> work[t].found, at |-> "asked"]
  BY DEF CallOf
<1>2. CallOf(w) = [op |-> work[t].op, found |-> w.found, at |-> "applied"]
  BY DEF CallOf
<1>3. [u \in Threads |-> CallOf(work'[u])] = [calls0 EXCEPT ![t] = CallOf(w)]
  BY CallMoves
<1>4. disk'.rows = Table!Applied(calls0[t].op)
  BY <1>1 DEF RowAfter, Table!Applied
<1> HIDE DEF calls0
<1>5. /\ CallOf(w) = [op |-> calls0[t].op, at |-> "applied", found |-> w.found]
      /\ w.found \in IF calls0[t].op.kind = "find" THEN Table!Findings ELSE {calls0[t].found}
  BY <1>1, <1>2
<1> DEFINE found == w.found
           op == calls0[t].op
<1>6. [u \in Threads |-> CallOf(work'[u])] =
        [calls0 EXCEPT ![t] = [op |-> @.op, at |-> "applied", found |-> found]]
  BY <1>3, <1>5
<1>7. calls0[t].at = "asked"
  BY <1>1
<1>8. found \in IF op.kind = "find" THEN Table!Findings ELSE {calls0[t].found}
  BY <1>5
<1> HIDE DEF found
<1> QED BY <1>4, <1>6, <1>7, <1>8 DEF calls0, Table!Apply

-----------------------------------------------------------------------------
(* The steps of an operation, one by one.                                     *)
Simulated(t) == UNCHANGED Table!vars \/ Table!Apply(t) \/ Table!Refuse(t)

(* Getting the store goes on, or refuses the operation.                       *)
LEMMA GetRdbStep ==
  ASSUME TableInv, NEW t \in Threads, GetRdb(t), UNCHANGED svcvars
  PROVE  TableInv' /\ Simulated(t)
<1> PICK o \in OpenDatabaseInternal :
      /\ disk' = o.disk
      /\ work' = [work EXCEPT ![t] =
           To(Hit(work[t], o.fault \/ disk.damaged), IF o.ok THEN "lock" ELSE "failed")]
  BY DEF GetRdb
<1> DEFINE h == Hit(work[t], o.fault \/ disk.damaged)
           w == To(h, IF o.ok THEN "lock" ELSE "failed")
<1>1. work[t] \in Work /\ Shape /\ IsFile(disk) /\ work[t].at = "get" /\ txn' = txn /\ state' = state
  BY DEF GetRdb, svcvars, TableInv, Shape
<1>2. work[t].op \in Ops /\ work[t].guard = "none" /\ ~InTransaction(t)
  BY <1>1 DEF TableInv, ThreadInv, InTransaction
<1>3. h \in Work /\ h.op = work[t].op /\ h.guard = work[t].guard /\ h.found = work[t].found
  BY <1>1, HitFields
<1>4. /\ w \in Work /\ w.at = IF o.ok THEN "lock" ELSE "failed"
      /\ w.op = work[t].op /\ w.guard = work[t].guard /\ w.found = work[t].found
  <2> HIDE DEF h
  <2> QED BY <1>3, ToFields DEF Stages
<1>5. /\ IsFile(disk')
      /\ disk'.rows = disk.rows \/ (disk'.rows = Empty /\ ~o.ok /\ ~Held)
  BY <1>1, OpenKeepsRows
<1>6. \A u \in Threads : InTransaction(u) => Held
  BY DEF TableInv, ThreadInv, InTransaction, Held
<1> HIDE DEF w
<1>7. work' = [work EXCEPT ![t] = w]
  BY DEF w, h
<1>8. TableInv'
  <2>1. disk'.rows = disk.rows \/ \A u \in Threads : ~InTransaction(u)
    BY <1>5, <1>6
  <2>2. w.at \in {"lock", "schedule", "ok", "failed"}
    BY <1>4
  <2> QED BY <1>1, <1>2, <1>4, <1>5, <1>7, <2>1, <2>2, PlainStep
<1>9. Simulated(t)
  <2>1. CASE o.ok
    BY <1>1, <1>4, <1>5, <1>7, <2>1, InnerStep DEF Simulated
  <2>2. CASE ~o.ok
    BY <1>1, <1>4, <1>5, <1>7, <2>2, RefusingStep DEF Simulated
  <2> QED BY <2>1, <2>2
<1> QED BY <1>8, <1>9

(* Taking the lock: whoever else holds it reads, and so does the thread.      *)
LEMMA LockStep ==
  ASSUME TableInv, NEW t \in Threads, Lock(t), UNCHANGED svcvars
  PROVE  TableInv' /\ Simulated(t)
<1> DEFINE next == IF Batch(work[t].op) THEN "begin"
                   ELSE IF work[t].op.kind = "find" THEN "query" ELSE "exec"
           g == Guarded(work[t], GuardOf(work[t].op))
           w == To(g, next)
<1>1. work[t] \in Work /\ Shape /\ work[t].at = "lock"
  BY DEF Lock, TableInv, Shape
<1>2. work[t].op \in Ops /\ ~InTransaction(t)
  BY <1>1 DEF TableInv, ThreadInv, InTransaction
<1>3. /\ g \in Work /\ g.op = work[t].op /\ g.found = work[t].found
      /\ g.guard = GuardOf(work[t].op)
  BY <1>1, GuardedFields DEF GuardOf
<1>4. /\ next \in {"begin", "query", "exec"} /\ next \in Stages
      /\ next = "query" => work[t].op.kind = "find"
      /\ next # "query" => work[t].op.kind # "find"
  BY DEF Batch, Stages
<1> HIDE DEF g, next
<1>5. /\ w \in Work /\ w.op = work[t].op /\ w.found = work[t].found /\ w.at = next
      /\ w.guard = GuardOf(work[t].op)
  BY <1>3, <1>4, ToFields
<1>6. work' = [work EXCEPT ![t] = w]
  BY DEF Lock, w, g, next
<1> HIDE DEF w
<1>7. /\ work' \in [Threads -> Work]
      /\ work'[t] = w /\ \A u \in Threads \ {t} : work'[u] = work[u]
  BY <1>1, <1>5, <1>6, OneThread
<1>8. disk' = disk /\ txn' = txn /\ state' = state
  BY DEF Lock, svcvars
<1>9. Shape'
  BY <1>1, <1>7, <1>8 DEF Shape, IsFile
<1>10. \A u \in Threads : ThreadInv(u)'
  BY <1>2, <1>4, <1>5, <1>7 DEF TableInv, ThreadInv, InTransaction, GuardOf
<1>11. OneWriter'
  <2>1. \A u \in Threads \ {t} :
          work[u].guard # "write" /\ (GuardOf(work[t].op) = "write" => work[u].guard = "none")
    BY DEF Lock
  <2> QED BY <1>5, <1>7, <2>1 DEF OneWriter
<1>12. TransactionInv'
  <2>1. \A u \in Threads : InTransaction(u)' <=> InTransaction(u)
    BY <1>2, <1>4, <1>5, <1>7 DEF InTransaction
  <2> QED BY <1>2, <1>7, <1>8, <2>1 DEF TableInv, TransactionInv
<1>13. NobodyCallsTheStarting'
  BY <1>1, <1>7, <1>8 DEF TableInv, NobodyCallsTheStarting
<1>14. UNCHANGED Table!vars
  BY <1>1, <1>4, <1>5, <1>6, <1>8, InnerStep
<1> QED BY <1>9, <1>10, <1>11, <1>12, <1>13, <1>14 DEF TableInv, Simulated

(* A transaction starts from the rows of the file; no other one is open.      *)
LEMMA BeginStep ==
  ASSUME TableInv, NEW t \in Threads, BeginTransaction(t), UNCHANGED svcvars
  PROVE  TableInv' /\ Simulated(t)
<1> DEFINE l == Left(work[t], work[t].op.keys)
           w == To(l, "statement")
<1>1. work[t] \in Work /\ Shape /\ work[t].at = "begin"
  BY DEF BeginTransaction, TableInv, Shape
<1>2. /\ work[t].op \in Ops /\ work[t].op.kind # "find" /\ work[t].guard = "write"
      /\ \A u \in Threads \ {t} : work[u].guard = "none" /\ ~InTransaction(u)
  BY <1>1, WriterIsAlone
<1>3. /\ l \in Work /\ l.op = work[t].op /\ l.found = work[t].found
      /\ l.guard = work[t].guard /\ l.left = work[t].op.keys
  BY <1>1, <1>2, LeftFields, OpsAssumption
<1> HIDE DEF l
<1>4. /\ w \in Work /\ w.op = work[t].op /\ w.found = work[t].found /\ w.at = "statement"
      /\ w.guard = "write" /\ w.left = work[t].op.keys
  BY <1>2, <1>3, ToFields DEF Stages
<1>5. work' = [work EXCEPT ![t] = w]
  BY DEF BeginTransaction, w, l
<1> HIDE DEF w
<1>6. /\ work' \in [Threads -> Work]
      /\ work'[t] = w /\ \A u \in Threads \ {t} : work'[u] = work[u]
  BY <1>1, <1>4, <1>5, OneThread
<1>7. disk' = disk /\ txn' = [open |-> TRUE, rows |-> disk.rows] /\ state' = state
  BY DEF BeginTransaction, svcvars
<1>8. Shape'
  BY <1>1, <1>6, <1>7 DEF Shape, IsFile
<1>9. \A u \in Threads : ThreadInv(u)'
  BY <1>2, <1>4, <1>6 DEF TableInv, ThreadInv, InTransaction
<1>10. OneWriter'
  BY <1>2, <1>4, <1>6 DEF OneWriter
<1>11. TransactionInv'
  <2>1. \A u \in Threads : InTransaction(u)' <=> u = t
    BY <1>2, <1>4, <1>6 DEF InTransaction
  <2> QED BY <1>4, <1>6, <1>7, <2>1 DEF TransactionInv
<1>12. NobodyCallsTheStarting'
  BY <1>1, <1>6, <1>7 DEF TableInv, NobodyCallsTheStarting
<1>13. UNCHANGED Table!vars
  BY <1>1, <1>4, <1>5, <1>7, InnerStep
<1> QED BY <1>8, <1>9, <1>10, <1>11, <1>12, <1>13 DEF TableInv, Simulated

(* A row after an operation is a row.                                         *)
LEMMA RowAfterIsRow ==
  ASSUME NEW op, NEW row \in {"none", "new", "changed"}
  PROVE  RowAfter(op, row) \in {"none", "new", "changed"}
  BY DEF RowAfter

(* A statement does the operation on one more key.                            *)
LEMMA ExecuteStep ==
  ASSUME TableInv, NEW t \in Threads, Execute(t), UNCHANGED svcvars
  PROVE  TableInv' /\ Simulated(t)
<1>1. work[t] \in Work /\ Shape /\ work[t].at = "statement" /\ InTransaction(t)
  BY DEF Execute, TableInv, Shape, InTransaction
<1>2. PICK k \in work[t].left :
        /\ txn' = [open |-> TRUE, rows |-> [txn.rows EXCEPT ![k] = RowAfter(work[t].op, txn.rows[k])]]
        /\ work' = [work EXCEPT ![t] =
             To(Left(work[t], work[t].left \ {k}),
                IF work[t].left = {k} THEN "commit" ELSE "statement")]
  BY DEF Execute
<1> DEFINE next == IF work[t].left = {k} THEN "commit" ELSE "statement"
           l == Left(work[t], work[t].left \ {k})
           w == To(l, next)
<1>3. /\ work[t].op \in Ops /\ work[t].op.kind # "find" /\ work[t].guard = "write"
      /\ \A u \in Threads \ {t} : work[u].guard = "none" /\ ~InTransaction(u)
  BY <1>1, WriterIsAlone
<1>4. work[t].left \subseteq work[t].op.keys /\ work[t].left \in SUBSET Keys
  BY <1>1 DEF TableInv, ThreadInv, Work
<1>5. /\ l \in Work /\ l.op = work[t].op /\ l.found = work[t].found
      /\ l.guard = work[t].guard /\ l.left = work[t].left \ {k}
  BY <1>1, <1>4, LeftFields
<1>6. next \in {"statement", "commit"} /\ next \in Stages /\ (next = "commit" => work[t].left = {k})
  BY DEF Stages
<1> HIDE DEF l, next
<1>7. /\ w \in Work /\ w.op = work[t].op /\ w.found = work[t].found /\ w.at = next
      /\ w.guard = "write" /\ w.left = work[t].left \ {k}
  BY <1>3, <1>5, <1>6, ToFields
<1>8. work' = [work EXCEPT ![t] = w]
  BY <1>2 DEF w, l, next
<1> HIDE DEF w
<1>9. /\ work' \in [Threads -> Work]
      /\ work'[t] = w /\ \A u \in Threads \ {t} : work'[u] = work[u]
  BY <1>1, <1>7, <1>8, OneThread
<1>10. disk' = disk /\ state' = state
  BY DEF Execute, svcvars
<1>11. txn.rows \in Rows /\ k \in Keys
  BY <1>1, <1>4 DEF Shape
<1>12. txn'.rows = [txn.rows EXCEPT ![k] = RowAfter(work[t].op, txn.rows[k])] /\ txn'.rows \in Rows
  BY <1>2, <1>11, RowAfterIsRow DEF Rows
<1>13. Shape'
  BY <1>1, <1>2, <1>9, <1>10, <1>12 DEF Shape, IsFile
<1>14. \A u \in Threads : ThreadInv(u)'
  BY <1>3, <1>4, <1>6, <1>7, <1>9 DEF TableInv, ThreadInv, InTransaction
<1>15. OneWriter'
  BY <1>3, <1>7, <1>9 DEF OneWriter
<1>16. TransactionInv'
  <2>1. \A u \in Threads : InTransaction(u)' <=> u = t
    BY <1>3, <1>6, <1>7, <1>9 DEF InTransaction
  <2>2. \A j \in Keys :
          txn.rows[j] = IF j \in work[t].op.keys \ work[t].left
                        THEN RowAfter(work[t].op, disk.rows[j]) ELSE disk.rows[j]
    BY <1>1 DEF TableInv, TransactionInv
  <2>3. \A j \in Keys :
          txn'.rows[j] = IF j \in work[t].op.keys \ w.left
                         THEN RowAfter(work[t].op, disk.rows[j]) ELSE disk.rows[j]
    BY <1>4, <1>7, <1>11, <1>12, <2>2 DEF Rows
  <2> QED BY <1>7, <1>9, <1>10, <2>1, <2>3 DEF TransactionInv
<1>17. NobodyCallsTheStarting'
  BY <1>1, <1>9, <1>10 DEF TableInv, NobodyCallsTheStarting
<1>18. UNCHANGED Table!vars
  BY <1>1, <1>6, <1>7, <1>8, <1>10, InnerStep
<1> QED BY <1>13, <1>14, <1>15, <1>16, <1>17, <1>18 DEF TableInv, Simulated

(* A writer is done, and no transaction is open.                              *)
LEMMA EndingStep ==
  ASSUME TableInv, NEW t \in Threads, NEW w \in Work, work' = [work EXCEPT ![t] = w],
         work[t].at \in {"statement", "commit", "exec"},
         w.at \in {"schedule", "failed"}, w.guard = work[t].guard,
         IsFile(disk'), txn' = NoTxn, state' = state
  PROVE  TableInv'
<1>1. /\ work' \in [Threads -> Work]
      /\ work'[t] = w /\ \A u \in Threads \ {t} : work'[u] = work[u]
  BY OneThread DEF TableInv
<1>2. Shape'
  BY <1>1, EmptyIsRows DEF TableInv, Shape, IsFile, NoTxn
<1>3. \A u \in Threads : ThreadInv(u)'
  BY <1>1 DEF TableInv, ThreadInv, InTransaction
<1>4. OneWriter'
  BY <1>1 DEF TableInv, OneWriter
<1>5. TransactionInv'
  <2>1. \A u \in Threads \ {t} : ~InTransaction(u)
    BY WriterIsAlone
  <2>2. \A u \in Threads : ~InTransaction(u)'
    BY <1>1, <2>1 DEF InTransaction
  <2> QED BY <2>2 DEF TransactionInv, NoTxn
<1>6. NobodyCallsTheStarting'
  BY <1>1 DEF TableInv, NobodyCallsTheStarting
<1> QED BY <1>2, <1>3, <1>4, <1>5, <1>6 DEF TableInv

(* A file with new rows is a file.                                            *)
LEMMA WithRowsIsFile ==
  ASSUME NEW d, NEW rows \in Rows, NEW damaged
  PROVE  IsFile(WithRows(d, rows, damaged)) /\ WithRows(d, rows, damaged).rows = rows
  BY DEF IsFile, WithRows

(* The commit makes the whole operation visible at once.                      *)
LEMMA CommitStep ==
  ASSUME TableInv, NEW t \in Threads, Commit(t), UNCHANGED svcvars
  PROVE  TableInv' /\ Simulated(t)
<1> DEFINE w == To(work[t], "schedule")
<1>1. work[t] \in Work /\ Shape /\ work[t].at = "commit" /\ InTransaction(t) /\ state' = state
  BY DEF Commit, TableInv, Shape, InTransaction, svcvars
<1>2. work[t].op \in Ops /\ work[t].op.kind # "find"
  BY <1>1, WriterIsAlone
<1>3. /\ w \in Work /\ w.op = work[t].op /\ w.found = work[t].found /\ w.at = "schedule"
      /\ w.guard = work[t].guard
  BY <1>1, ToFields DEF Stages
<1>4. work' = [work EXCEPT ![t] = w]
  BY DEF Commit, Go
<1> HIDE DEF w
<1>5. txn.rows \in Rows /\ IsFile(disk') /\ disk'.rows = txn.rows /\ txn' = NoTxn
  <2>1. txn.rows \in Rows
    BY <1>1 DEF Shape
  <2> QED BY <2>1, WithRowsIsFile DEF Commit
<1>6. TableInv'
  BY <1>1, <1>3, <1>4, <1>5, EndingStep
<1>7. \A k \in Keys :
        txn.rows[k] = IF k \in work[t].op.keys
                      THEN RowAfter(work[t].op, disk.rows[k]) ELSE disk.rows[k]
  <2>1. work[t].left = {}
    BY <1>1 DEF TableInv, ThreadInv
  <2> QED BY <1>1, <2>1 DEF TableInv, TransactionInv
<1>8. disk'.rows = [k \in Keys |-> IF k \in work[t].op.keys
                      THEN RowAfter(work[t].op, disk.rows[k]) ELSE disk.rows[k]]
  BY <1>5, <1>7 DEF Rows
<1>9. Table!Apply(t)
  BY <1>1, <1>2, <1>3, <1>4, <1>8, ApplyingStep
<1> QED BY <1>6, <1>9 DEF Simulated

(* A single statement is applied at once.                                     *)
LEMMA ExecuteAloneStep ==
  ASSUME TableInv, NEW t \in Threads, ExecuteAlone(t), UNCHANGED svcvars
  PROVE  TableInv' /\ Simulated(t)
<1> DEFINE w == To(work[t], "schedule")
           after == [k \in Keys |-> IF k \in work[t].op.keys
                       THEN RowAfter(work[t].op, disk.rows[k]) ELSE disk.rows[k]]
<1>1. /\ work[t] \in Work /\ Shape /\ work[t].at = "exec" /\ ~InTransaction(t)
      /\ state' = state /\ txn' = txn
  BY DEF ExecuteAlone, TableInv, Shape, InTransaction, svcvars
<1>2. /\ work[t].op \in Ops /\ work[t].op.kind # "find"
      /\ \A u \in Threads \ {t} : ~InTransaction(u)
  BY <1>1, WriterIsAlone
<1>3. /\ w \in Work /\ w.op = work[t].op /\ w.found = work[t].found /\ w.at = "schedule"
      /\ w.guard = work[t].guard
  BY <1>1, ToFields DEF Stages
<1>4. work' = [work EXCEPT ![t] = w]
  BY DEF ExecuteAlone, Go
<1>5. after \in Rows
  <2>1. disk.rows \in Rows
    BY <1>1 DEF Shape, IsFile
  <2> QED BY <2>1, RowAfterIsRow DEF Rows
<1>6. disk' = WithRows(disk, after, FALSE)
  BY DEF ExecuteAlone
<1> HIDE DEF w, after
<1>7. IsFile(disk') /\ disk'.rows = after
  BY <1>5, <1>6, WithRowsIsFile
<1>8. TableInv'
  BY <1>1, <1>2, <1>3, <1>4, <1>7, PlainStep
<1>9. Table!Apply(t)
  BY <1>1, <1>2, <1>3, <1>4, <1>7, ApplyingStep DEF after
<1> QED BY <1>8, <1>9 DEF Simulated

(* A reader excludes the writer, so no transaction is open while it reads.    *)
LEMMA QueryStep ==
  ASSUME TableInv, NEW t \in Threads, Query(t), UNCHANGED svcvars
  PROVE  TableInv' /\ Simulated(t)
<1>1. /\ work[t] \in Work /\ Shape /\ work[t].at = "query" /\ ~InTransaction(t)
      /\ state' = state /\ txn' = txn /\ disk' = disk /\ IsFile(disk') /\ disk.rows \in Rows
  BY DEF Query, TableInv, Shape, InTransaction, svcvars, IsFile
<1>2. work[t].op \in Ops /\ work[t].op.kind = "find" /\ work[t].guard = "read"
  BY <1>1 DEF TableInv, ThreadInv
<1>3. ~txn.open
  <2>1. \A u \in Threads : InTransaction(u) => work[u].guard = "write"
    BY DEF TableInv, ThreadInv, InTransaction
  <2>2. \A u \in Threads : work[u].guard # "write"
    BY <1>2 DEF TableInv, OneWriter
  <2> QED BY <2>1, <2>2 DEF TableInv, TransactionInv
<1>10. PICK found \in {Complete} \cup {CutShort(S) : S \in SUBSET Keys} :
         work' = [work EXCEPT ![t] = To(Finding(@, found), "schedule")]
  BY DEF Query
<1>11. Seen = disk.rows
  BY <1>3 DEF Seen
<1>12. found \in Results
  <2>1. Complete \in Results
    BY <1>1, <1>11 DEF Complete, Results
  <2>2. ASSUME NEW S \in SUBSET Keys PROVE CutShort(S) \in Results
    BY <1>1, <1>11 DEF CutShort, Results, Rows
  <2> QED BY <2>1, <2>2
<1>13. found \in Table!Findings
  <2>1. Complete \in Table!Findings
    BY <1>11 DEF Complete, Table!Findings
  <2>2. ASSUME NEW S \in SUBSET Keys PROVE CutShort(S) \in Table!Findings
    BY <1>11 DEF CutShort, Table!Findings
  <2> QED BY <2>1, <2>2
<1> DEFINE f == Finding(work[t], found)
           w == To(f, "schedule")
<1>4. f \in Work /\ f.op = work[t].op /\ f.found = found /\ f.guard = work[t].guard
  BY <1>1, <1>12, FindingFields
<1>6. work' = [work EXCEPT ![t] = w]
  BY <1>10
<1> HIDE DEF f
<1>5. /\ w \in Work /\ w.op = work[t].op /\ w.found = found /\ w.at = "schedule"
      /\ w.guard = work[t].guard
  BY <1>4, ToFields DEF Stages
<1> HIDE DEF w
<1>7. TableInv'
  BY <1>1, <1>5, <1>6, PlainStep
<1>8. disk'.rows = [k \in Keys |-> IF k \in work[t].op.keys
                      THEN RowAfter(work[t].op, disk.rows[k]) ELSE disk.rows[k]]
  BY <1>1, <1>2 DEF RowAfter, Rows
<1>9. Table!Apply(t)
  BY <1>1, <1>2, <1>5, <1>6, <1>8, <1>13, ApplyingStep
<1> QED BY <1>7, <1>9 DEF Simulated

(* Failing leaves the rows as they were.                                      *)
LEMMA FailFields ==
  ASSUME Shape, NEW t \in Threads, Fail(t)
  PROVE  \E w \in Work :
           /\ work' = [work EXCEPT ![t] = w]
           /\ w.at = "failed" /\ w.op = work[t].op /\ w.guard = work[t].guard
           /\ w.found = work[t].found
<1> DEFINE h == Hit(work[t], TRUE)
           w == To(h, "failed")
<1>1. /\ h \in Work /\ h.op = work[t].op /\ h.guard = work[t].guard
      /\ h.found = work[t].found
  BY HitFields DEF Shape
<1> HIDE DEF h
<1>2. /\ w \in Work /\ w.at = "failed" /\ w.op = work[t].op /\ w.guard = work[t].guard
      /\ w.found = work[t].found
  BY <1>1, ToFields DEF Stages
<1>3. work' = [work EXCEPT ![t] = w]
  BY DEF Fail, w, h
<1> HIDE DEF w
<1> QED BY <1>2, <1>3

(* An operation that fails before it writes is refused.                       *)
LEMMA FailEarlyStep ==
  ASSUME TableInv, NEW t \in Threads, FailEarly(t), UNCHANGED svcvars
  PROVE  TableInv' /\ Simulated(t)
<1>1. /\ Shape /\ work[t].at \in {"begin", "query"} /\ ~InTransaction(t) /\ Fail(t)
      /\ state' = state /\ txn' = txn /\ disk' = disk /\ IsFile(disk')
  BY DEF FailEarly, TableInv, Shape, InTransaction, svcvars, IsFile
<1>2. PICK w \in Work :
        /\ work' = [work EXCEPT ![t] = w]
        /\ w.at = "failed" /\ w.op = work[t].op /\ w.guard = work[t].guard
        /\ w.found = work[t].found
  BY <1>1, FailFields
<1>3. TableInv'
  BY <1>1, <1>2, PlainStep
<1>4. Table!Refuse(t)
  BY <1>1, <1>2, RefusingStep
<1> QED BY <1>3, <1>4 DEF Simulated

(* An operation whose write fails is refused.                                 *)
LEMMA FailWriteStep ==
  ASSUME TableInv, NEW t \in Threads, FailWrite(t), UNCHANGED svcvars
  PROVE  TableInv' /\ Simulated(t)
<1>1. /\ Shape /\ work[t].at \in {"statement", "commit", "exec"} /\ Fail(t)
      /\ state' = state /\ txn' = NoTxn
      /\ disk' = disk \/ disk' = WithRows(disk, disk.rows, FALSE)
  BY DEF FailWrite, DbOperateFailure, TableInv, svcvars
<1>2. IsFile(disk) /\ disk.rows \in Rows
  BY <1>1 DEF Shape, IsFile
<1>3. IsFile(disk') /\ disk'.rows = disk.rows
  <2>1. CASE disk' = disk
    BY <1>2, <2>1 DEF IsFile
  <2>2. CASE disk' = WithRows(disk, disk.rows, FALSE)
    BY <1>2, <2>2, WithRowsIsFile
  <2> QED BY <1>1, <2>1, <2>2
<1>4. PICK w \in Work :
        /\ work' = [work EXCEPT ![t] = w]
        /\ w.at = "failed" /\ w.op = work[t].op /\ w.guard = work[t].guard
        /\ w.found = work[t].found
  BY <1>1, FailFields
<1>5. TableInv'
  BY <1>1, <1>3, <1>4, EndingStep
<1>6. Table!Refuse(t)
  BY <1>1, <1>3, <1>4, RefusingStep
<1> QED BY <1>5, <1>6 DEF Simulated

(* Scheduling the cleanup changes no row.                                     *)
LEMMA ScheduleStep ==
  ASSUME TableInv, NEW t \in Threads, ScheduleDbCleanup(t), UNCHANGED svcvars
  PROVE  TableInv' /\ Simulated(t)
<1>1. /\ Shape /\ work[t] \in Work /\ work[t].at = "schedule" /\ ~InTransaction(t)
      /\ state' = state /\ txn' = txn /\ disk' = disk /\ IsFile(disk')
  BY DEF ScheduleDbCleanup, TableInv, Shape, InTransaction, svcvars, IsFile
<1>2. \E w \in Work :
        /\ work' = [work EXCEPT ![t] = w]
        /\ w.at = "ok" /\ w.op = work[t].op /\ w.guard = work[t].guard
        /\ w.found = work[t].found
  <2> DEFINE h == Hit(work[t], TRUE)
  <2>1. \/ work' = [work EXCEPT ![t] = To(work[t], "ok")]
        \/ work' = [work EXCEPT ![t] = To(h, "ok")]
    BY DEF ScheduleDbCleanup, PostDbCleanup, Go
  <2>2. /\ h \in Work /\ h.op = work[t].op /\ h.guard = work[t].guard
        /\ h.found = work[t].found
    BY <1>1, HitFields
  <2> HIDE DEF h
  <2>3. "ok" \in Stages
    BY DEF Stages
  <2>4. /\ To(work[t], "ok") \in Work /\ To(work[t], "ok").at = "ok"
        /\ To(work[t], "ok").op = work[t].op /\ To(work[t], "ok").guard = work[t].guard
        /\ To(work[t], "ok").found = work[t].found
    BY <1>1, <2>3, ToFields
  <2>5. /\ To(h, "ok") \in Work /\ To(h, "ok").at = "ok"
        /\ To(h, "ok").op = work[t].op /\ To(h, "ok").guard = work[t].guard
        /\ To(h, "ok").found = work[t].found
    BY <2>2, <2>3, ToFields
  <2> QED BY <2>1, <2>4, <2>5
<1>3. PICK w \in Work :
        /\ work' = [work EXCEPT ![t] = w]
        /\ w.at = "ok" /\ w.op = work[t].op /\ w.guard = work[t].guard
        /\ w.found = work[t].found
  BY <1>2
<1>4. TableInv'
  BY <1>1, <1>3, PlainStep
<1>5. UNCHANGED Table!vars
  BY <1>1, <1>3, InnerStep
<1> QED BY <1>4, <1>5 DEF Simulated

-----------------------------------------------------------------------------
(* The steps of the service around the operations.                            *)

(* A call arrives.                                                            *)
LEMMA EnterStep ==
  ASSUME TableInv, NEW t \in Threads, CallbackEnter(t)
  PROVE  TableInv' /\ Table!Ask(t)
<1> PICK op \in Ops : Ask(t, op)
  BY DEF CallbackEnter
<1> DEFINE a == [work[t] EXCEPT !.op = op]
           w == To(a, "get")
<1>1. /\ Shape /\ work[t] \in Work /\ work[t] = IdleWork
      /\ state' = state /\ state \in {"running", "stopped"} /\ disk' = disk /\ txn' = txn
  BY DEF CallbackEnter, Ask, TableInv, ThreadInv, Shape
<1>2. work[t].at = "idle" /\ work[t].guard = "none" /\ work[t].found = Nothing
  BY <1>1 DEF IdleWork
<1>3. a \in Work /\ a.op = op /\ a.guard = work[t].guard /\ a.found = work[t].found
  BY <1>1 DEF Work
<1> HIDE DEF a
<1>4. w \in Work /\ w.at = "get" /\ w.op = op /\ w.guard = "none" /\ w.found = work[t].found
  BY <1>2, <1>3, ToFields DEF Stages
<1>5. work' = [work EXCEPT ![t] = w]
  BY DEF Ask, w, a
<1> HIDE DEF w
<1>6. /\ work' \in [Threads -> Work]
      /\ work'[t] = w /\ \A u \in Threads \ {t} : work'[u] = work[u]
  BY <1>1, <1>4, <1>5, OneThread
<1>7. Shape'
  BY <1>1, <1>6 DEF Shape, IsFile
<1>8. \A u \in Threads : ThreadInv(u)'
  BY <1>4, <1>6 DEF TableInv, ThreadInv, InTransaction
<1>9. OneWriter'
  BY <1>4, <1>6 DEF TableInv, OneWriter
<1>10. TransactionInv'
  <2>1. ~InTransaction(t) /\ \A u \in Threads : InTransaction(u)' <=> InTransaction(u)
    BY <1>2, <1>4, <1>6 DEF InTransaction
  <2> QED BY <1>1, <1>6, <2>1 DEF TableInv, TransactionInv
<1>11. NobodyCallsTheStarting'
  BY <1>1 DEF NobodyCallsTheStarting
<1>12. Table!Ask(t)
  <2> DEFINE before == [u \in Threads |-> CallOf(work[u])]
  <2>1. before[t].at = "idle" /\ before[t].found = w.found
    BY <1>2, <1>4 DEF CallOf
  <2>2. CallOf(w) = [op |-> op, at |-> "asked", found |-> w.found]
    BY <1>4 DEF CallOf
  <2>3. [u \in Threads |-> CallOf(work'[u])] = [before EXCEPT ![t] = CallOf(w)]
    BY <1>1, <1>4, <1>5, CallMoves
  <2> HIDE DEF before
  <2>4. \E o \in Ops : [u \in Threads |-> CallOf(work'[u])] =
          [before EXCEPT ![t] = [op |-> o, at |-> "asked", found |-> before[t].found]]
    BY <2>1, <2>2, <2>3
  <2> QED BY <1>1, <2>1, <2>4 DEF before, Table!Ask
<1> QED BY <1>7, <1>8, <1>9, <1>10, <1>11, <1>12 DEF TableInv

(* A call returns; the lock is free again.                                    *)
LEMMA ReturnStep ==
  ASSUME TableInv, NEW t \in Threads, Return(t)
  PROVE  TableInv' /\ Table!Return(t)
<1>1. /\ Shape /\ work[t].at \in {"ok", "failed"} /\ work' = [work EXCEPT ![t] = IdleWork]
      /\ state' = state /\ disk' = disk /\ txn' = txn
  BY DEF Return, TableInv
<1>2. IdleWork \in Work /\ IdleWork.at = "idle" /\ IdleWork.guard = "none"
  BY IdleIsIdle
<1>3. /\ work' \in [Threads -> Work]
      /\ work'[t] = IdleWork /\ \A u \in Threads \ {t} : work'[u] = work[u]
  BY <1>1, <1>2, OneThread
<1>4. Shape'
  BY <1>1, <1>3 DEF Shape, IsFile
<1>5. \A u \in Threads : ThreadInv(u)'
  BY <1>2, <1>3 DEF TableInv, ThreadInv, InTransaction
<1>6. OneWriter'
  BY <1>2, <1>3 DEF TableInv, OneWriter
<1>7. TransactionInv'
  <2>1. ~InTransaction(t) /\ \A u \in Threads : InTransaction(u)' <=> InTransaction(u)
    BY <1>1, <1>2, <1>3 DEF InTransaction
  <2> QED BY <1>1, <1>3, <2>1 DEF TableInv, TransactionInv
<1>8. NobodyCallsTheStarting'
  BY <1>1, <1>2, <1>3 DEF TableInv, NobodyCallsTheStarting
<1>9. Table!Return(t)
  <2> DEFINE before == [u \in Threads |-> CallOf(work[u])]
  <2>1. before[t].at \in {"applied", "refused"}
    BY <1>1 DEF CallOf
  <2>2. CallOf(IdleWork) = Table!Idle
    BY IdleIsIdle
  <2>3. [u \in Threads |-> CallOf(work'[u])] = [before EXCEPT ![t] = CallOf(IdleWork)]
    BY <1>1, <1>2, CallMoves
  <2> QED BY <1>1, <2>1, <2>2, <2>3 DEF Table!Return
<1> QED BY <1>4, <1>5, <1>6, <1>7, <1>8, <1>9 DEF TableInv

(* The operations and the rows stay as they are.                              *)
LEMMA QuietStep ==
  ASSUME TableInv, work' = work, txn' = txn, IsFile(disk'), disk'.rows = disk.rows,
         state' = state \/ state' \notin {"down", "unpublished"}
  PROVE  TableInv' /\ UNCHANGED Table!vars
<1>1. Shape'
  BY DEF TableInv, Shape, IsFile
<1>2. (\A u \in Threads : ThreadInv(u)') /\ OneWriter'
  BY DEF TableInv, ThreadInv, InTransaction, OneWriter
<1>3. TransactionInv'
  BY DEF TableInv, TransactionInv, InTransaction
<1>4. NobodyCallsTheStarting'
  BY DEF TableInv, NobodyCallsTheStarting
<1>5. UNCHANGED Table!vars
  BY DEF Table!vars
<1> QED BY <1>1, <1>2, <1>3, <1>4, <1>5 DEF TableInv

(* Every thread is idle after the step.                                       *)
LEMMA IdleStep ==
  ASSUME work' = [t \in Threads |-> IdleWork], IsFile(disk'),
         txn' \in [open : BOOLEAN, rows : Rows], ~txn'.open
  PROVE  TableInv' /\ [t \in Threads |-> CallOf(work'[t])] = [t \in Threads |-> Table!Idle]
<1>1. IdleWork \in Work /\ IdleWork.at = "idle" /\ IdleWork.guard = "none"
  BY IdleIsIdle
<1>2. \A t \in Threads : work'[t] = IdleWork
  OBVIOUS
<1>3. Shape'
  BY <1>1 DEF Shape, IsFile
<1>4. (\A t \in Threads : ThreadInv(t)') /\ OneWriter'
  BY <1>1, <1>2 DEF ThreadInv, InTransaction, OneWriter
<1>5. TransactionInv' /\ NobodyCallsTheStarting'
  BY <1>1, <1>2 DEF TransactionInv, InTransaction, NobodyCallsTheStarting
<1>6. CallOf(IdleWork) = Table!Idle
  BY IdleIsIdle
<1>7. [t \in Threads |-> CallOf(work'[t])] = [t \in Threads |-> Table!Idle]
  BY <1>2, <1>6
<1> QED BY <1>3, <1>4, <1>5, <1>7 DEF TableInv

(* A process starts: it may lose the rows of a file it cannot restore.        *)
LEMMA StartStep ==
  ASSUME TableInv, OnStart \/ OnStartFails
  PROVE  TableInv' /\ (UNCHANGED Table!vars \/ Table!Lose)
<1>1. /\ state \in {"down", "unpublished"} /\ work' = work /\ txn' = txn
      /\ \E o \in OpenDatabaseInternal : disk' = o.disk
  BY DEF OnStart, OnStartFails, Initialize, RdbInit
<1>2. \A t \in Threads : work[t] = IdleWork /\ ~InTransaction(t)
  BY <1>1 DEF TableInv, ThreadInv, NobodyCallsTheStarting, InTransaction
<1>3. /\ work' = [t \in Threads |-> IdleWork]
      /\ txn' \in [open : BOOLEAN, rows : Rows] /\ ~txn'.open
  BY <1>1, <1>2 DEF TableInv, Shape, TransactionInv
<1>4. IsFile(disk') /\ disk'.rows \in {disk.rows, Empty}
  BY <1>1, OpenKeepsRows DEF TableInv, Shape
<1>5. TableInv' /\ [t \in Threads |-> CallOf(work'[t])] = [t \in Threads |-> Table!Idle]
  BY <1>3, <1>4, IdleStep
<1>6. UNCHANGED [t \in Threads |-> CallOf(work[t])]
  BY <1>1
<1>7. CASE disk'.rows = disk.rows
  BY <1>5, <1>6, <1>7 DEF Table!vars
<1>8. CASE disk'.rows = Empty
  <2>1. \A t \in Threads : CallOf(work[t]) = Table!Idle
    BY <1>2, IdleIsIdle
  <2> QED BY <1>5, <1>6, <1>8, <2>1 DEF Table!Lose, Table!Empty, Empty
<1> QED BY <1>4, <1>7, <1>8

(* The process ends.                                                          *)
LEMMA EndStep ==
  ASSUME TableInv, ProcessEnds
  PROVE  TableInv' /\ Table!End
<1>1. work' = [t \in Threads |-> IdleWork] /\ disk' = disk /\ txn' = NoTxn
  BY DEF ProcessEnds, Forget
<1>2. txn' \in [open : BOOLEAN, rows : Rows] /\ ~txn'.open
  BY <1>1, EmptyIsRows DEF NoTxn
<1>3. IsFile(disk')
  BY <1>1 DEF TableInv, Shape, IsFile
<1>4. TableInv' /\ [t \in Threads |-> CallOf(work'[t])] = [t \in Threads |-> Table!Idle]
  BY <1>1, <1>2, <1>3, IdleStep
<1> QED BY <1>1, <1>4 DEF Table!End

-----------------------------------------------------------------------------
(* Every step keeps the invariant and is a step of the table or none.         *)
LEMMA TableNext == TableInv /\ [Next]_vars => TableInv' /\ [Table!Next]_(Table!vars)
<1> SUFFICES ASSUME TableInv, [Next]_vars
             PROVE  TableInv' /\ [Table!Next]_(Table!vars)
  OBVIOUS
<1>1. IsFile(disk) /\ disk.rows \in Rows
  BY DEF TableInv, Shape, IsFile
<1>2. disk' = disk => IsFile(disk') /\ disk'.rows = disk.rows
  BY <1>1 DEF IsFile
<1>3. CASE OnStart \/ OnStartFails
  BY <1>3, StartStep DEF Table!Next
<1>4. CASE UnloadTask \/ OnIdle \/ OnIdleRefuses \/ Cleanup
  <2>1. /\ work' = work /\ txn' = txn /\ disk' = disk
        /\ state' = state \/ state' \notin {"down", "unpublished"}
    BY <1>4 DEF UnloadTask, OnIdle, OnIdleRefuses, Cleanup, CleanupDbInternal, svcvars
  <2> QED BY <1>2, <2>1, QuietStep
<1>5. CASE Damage
  <2>1. work' = work /\ txn' = txn /\ disk' = WithRows(disk, disk.rows, TRUE) /\ state' = state
    BY <1>5 DEF Damage, Corrupt, svcvars
  <2>2. IsFile(disk') /\ disk'.rows = disk.rows
    BY <1>1, <2>1, WithRowsIsFile
  <2> QED BY <2>1, <2>2, QuietStep
<1>6. CASE Exit \/ Crash
  BY <1>6, EndStep DEF Exit, Crash, Table!Next
<1>7. ASSUME NEW t \in Threads, CallbackEnter(t)
      PROVE  TableInv' /\ [Table!Next]_(Table!vars)
  BY <1>7, EnterStep DEF Table!Next
<1>8. ASSUME NEW t \in Threads, Return(t)
      PROVE  TableInv' /\ [Table!Next]_(Table!vars)
  BY <1>8, ReturnStep DEF Table!Next
<1>9. ASSUME NEW t \in Threads, Step(t)
      PROVE  TableInv' /\ [Table!Next]_(Table!vars)
  <2>1. UNCHANGED svcvars
    BY <1>9 DEF Step
  <2>2. TableInv' /\ Simulated(t)
    BY <1>9, <2>1, GetRdbStep, LockStep, BeginStep, ExecuteStep, CommitStep, ExecuteAloneStep,
       QueryStep, FailEarlyStep, FailWriteStep, ScheduleStep DEF Step, DbStep
  <2> QED BY <2>2 DEF Simulated, Table!Next
<1>10. CASE UNCHANGED vars
  <2>1. work' = work /\ txn' = txn /\ disk' = disk /\ state' = state
    BY <1>10 DEF vars
  <2> QED BY <1>2, <2>1, QuietStep
<1> QED BY <1>3, <1>4, <1>5, <1>6, <1>7, <1>8, <1>9, <1>10 DEF Next

(* KeepsTable: whatever the threads, the upgrades, the cleanup, the unloading,*)
(* failing calls, damage and crashes do, the tables behave as AtomicTable     *)
(* (SandboxManagerRdb Add, Remove, Modify, Find): what a query whose cursor   *)
(* failed gives for a success is a part of the table at one moment.           *)
THEOREM TablesAreAtomic == FairSpec => KeepsTable
<1>1. Init => TableInv /\ Table!Init
  BY TableInit
<1>2. TableInv /\ [Next]_vars => TableInv' /\ [Table!Next]_(Table!vars)
  BY TableNext
<1> QED BY <1>1, <1>2, PTL DEF FairSpec, KeepsTable, Table!Spec

-----------------------------------------------------------------------------
(* The store an operation works on.  The file may be between two versions     *)
(* only while nobody has the store: an upgrade adds to what its version has,  *)
(* and its version is written last.                                           *)

SchemaOK(d) ==
  /\ d.version \in 0..Version
  /\ d.tables \subseteq Tables /\ SchemaOf(d.version) \subseteq d.tables
  /\ d.version >= 4 => d.stamp
  /\ d.version = 0 /\ "policy" \in d.tables => d.stamp

StoreInv ==
  /\ SchemaOK(disk)
  /\ db \/ Held => disk.version = Version
  /\ \A t \in Threads :
       /\ work[t].at \in {"schedule", "ok"} => work[t].guard # "none"
       /\ work[t].at = "failed" => work[t].hit

(* A file of the latest version has every table and the stamp.                *)
LEMMA CompleteSchema ==
  ASSUME NEW d, SchemaOK(d), d.version = Version
  PROVE  d.tables = Tables /\ d.stamp
  BY DEF SchemaOK, SchemaOf, Version, Tables

(* The elements of a concatenation.                                           *)
LEMMA ConcatToSet ==
  ASSUME NEW S, NEW r \in Seq(S), NEW s \in Seq(S)
  PROVE  r \o s \in Seq(S) /\ ToSet(r \o s) = ToSet(r) \cup ToSet(s)
<1>1. r \o s \in Seq(S) /\ Len(r \o s) = Len(r) + Len(s) /\ Len(r) \in Nat /\ Len(s) \in Nat
  OBVIOUS
<1>2. \A i \in 1..(Len(r) + Len(s)) :
        (r \o s)[i] = IF i <= Len(r) THEN r[i] ELSE s[i - Len(r)]
  OBVIOUS
<1>3. ASSUME NEW i \in 1..Len(r) PROVE r[i] \in ToSet(r \o s)
  <2>1. i \in 1..(Len(r) + Len(s)) /\ (r \o s)[i] = r[i]
    BY <1>1, <1>2
  <2> QED BY <1>1, <2>1 DEF ToSet
<1>4. ASSUME NEW i \in 1..Len(s) PROVE s[i] \in ToSet(r \o s)
  <2>1. Len(r) + i \in 1..(Len(r) + Len(s)) /\ (r \o s)[Len(r) + i] = s[i]
    BY <1>1, <1>2
  <2> QED BY <1>1, <2>1 DEF ToSet
<1>5. ASSUME NEW i \in 1..(Len(r) + Len(s)) PROVE (r \o s)[i] \in ToSet(r) \cup ToSet(s)
  <2>1. CASE i <= Len(r)
    BY <1>1, <1>2, <2>1 DEF ToSet
  <2>2. CASE ~(i <= Len(r))
    <3>1. i - Len(r) \in 1..Len(s) /\ (r \o s)[i] = s[i - Len(r)]
      BY <1>1, <1>2, <2>2
    <3> QED BY <3>1 DEF ToSet
  <2> QED BY <2>1, <2>2
<1>6. /\ ToSet(r) = {r[i] : i \in 1..Len(r)} /\ ToSet(s) = {s[i] : i \in 1..Len(s)}
      /\ ToSet(r \o s) = {(r \o s)[i] : i \in 1..(Len(r) + Len(s))}
  BY <1>1 DEF ToSet
<1>7. ToSet(r) \subseteq ToSet(r \o s)
  BY <1>3, <1>6
<1>8. ToSet(s) \subseteq ToSet(r \o s)
  BY <1>4, <1>6
<1>9. ToSet(r \o s) \subseteq ToSet(r) \cup ToSet(s)
  BY <1>5, <1>6
<1> QED BY <1>1, <1>7, <1>8, <1>9

(* What an upgrade makes, by version.                                         *)
LEMMA UpgradeSteps ==
  ASSUME NEW v
  PROVE  /\ OnUpgrade(v) \in Seq(Tables \cup {"stamp"})
         /\ ToSet(OnUpgrade(v)) = (IF v = 1 THEN {"bundle"} ELSE {})
              \cup (IF v < 3 THEN {"shared"} ELSE {}) \cup (IF v < 4 THEN {"stamp"} ELSE {})
              \cup (IF v < 5 THEN {"ugc"} ELSE {})
<1> DEFINE S == Tables \cup {"stamp"}
           a == IF v = 1 THEN <<"bundle">> ELSE <<>>
           b == IF v < 3 THEN <<"shared">> ELSE <<>>
           c == IF v < 4 THEN <<"stamp">> ELSE <<>>
           d == IF v < 5 THEN <<"ugc">> ELSE <<>>
           ab == a \o b
           abc == ab \o c
<1>0. /\ \A x \in S : <<x>> \in Seq(S) /\ ToSet(<<x>>) = {x}
      /\ <<>> \in Seq(S) /\ ToSet(<<>>) = {}
  BY DEF ToSet
<1>1. a \in Seq(S) /\ ToSet(a) = IF v = 1 THEN {"bundle"} ELSE {}
  <2>1. CASE v = 1
    BY <1>0, <2>1 DEF Tables
  <2>2. CASE v # 1
    BY <1>0, <2>2
  <2> QED BY <2>1, <2>2
<1>2. b \in Seq(S) /\ ToSet(b) = IF v < 3 THEN {"shared"} ELSE {}
  <2>1. CASE v < 3
    BY <1>0, <2>1 DEF Tables
  <2>2. CASE ~(v < 3)
    BY <1>0, <2>2
  <2> QED BY <2>1, <2>2
<1>3. c \in Seq(S) /\ ToSet(c) = IF v < 4 THEN {"stamp"} ELSE {}
  <2>1. CASE v < 4
    BY <1>0, <2>1
  <2>2. CASE ~(v < 4)
    BY <1>0, <2>2
  <2> QED BY <2>1, <2>2
<1>4. d \in Seq(S) /\ ToSet(d) = IF v < 5 THEN {"ugc"} ELSE {}
  <2>1. CASE v < 5
    BY <1>0, <2>1 DEF Tables
  <2>2. CASE ~(v < 5)
    BY <1>0, <2>2
  <2> QED BY <2>1, <2>2
<1>5. OnUpgrade(v) = abc \o d
  BY DEF OnUpgrade
<1> HIDE DEF a, b, c, d, S
<1>6. ab \in Seq(S) /\ ToSet(ab) = ToSet(a) \cup ToSet(b)
  BY <1>1, <1>2, ConcatToSet
<1> HIDE DEF ab
<1>7. abc \in Seq(S) /\ ToSet(abc) = ToSet(ab) \cup ToSet(c)
  BY <1>3, <1>6, ConcatToSet DEF abc
<1> HIDE DEF abc
<1>8. abc \o d \in Seq(S) /\ ToSet(abc \o d) = ToSet(abc) \cup ToSet(d)
  BY <1>4, <1>7, ConcatToSet
<1> QED BY <1>1, <1>2, <1>3, <1>4, <1>5, <1>6, <1>7, <1>8 DEF S

(* Creating the database makes every table.                                   *)
LEMMA CreateSteps ==
  OnCreate \in Seq(Tables \cup {"stamp"}) /\ ToSet(OnCreate) = Tables
  BY DEF OnCreate, ToSet, Tables

(* Whatever the version of the file lacks is made on opening it.              *)
LEMMA CallbackSteps ==
  ASSUME NEW d, d.version \in 0..Version
  PROVE  /\ Callback(d) \in Seq(Tables \cup {"stamp"})
         /\ d.version = 0 => ToSet(Callback(d)) = Tables
         /\ d.version # 0 =>
              /\ d.version < 2 => "bundle" \in ToSet(Callback(d))
              /\ d.version < 3 => "shared" \in ToSet(Callback(d))
              /\ d.version < 4 => "stamp" \in ToSet(Callback(d))
              /\ d.version < 5 => "ugc" \in ToSet(Callback(d))
<1>1. CASE d.version = 0
  BY <1>1, CreateSteps DEF Callback
<1>2. CASE d.version \in 1..4
  BY <1>2, UpgradeSteps DEF Callback, Version
<1>3. CASE d.version = 5
  BY <1>3 DEF Callback, Version
<1> QED BY <1>1, <1>2, <1>3 DEF Version

(* The elements of a prefix are elements.                                     *)
LEMMA PrefixToSet ==
  ASSUME NEW S, NEW s \in Seq(S), NEW n \in 0..Len(s)
  PROVE  ToSet(SubSeq(s, 1, n)) \subseteq S
<1>1. SubSeq(s, 1, n) \in Seq(S)
  OBVIOUS
<1> QED BY <1>1 DEF ToSet

(* Statements of a callback only add.                                         *)
LEMMA MigratedOK ==
  ASSUME NEW d, SchemaOK(d), NEW steps, ToSet(steps) \subseteq Tables \cup {"stamp"}
  PROVE  SchemaOK(Migrated(d, steps))
<1> DEFINE m == Migrated(d, steps)
<1>1. /\ m.version = d.version /\ m.tables = d.tables \cup (ToSet(steps) \ {"stamp"})
      /\ m.stamp = (d.stamp \/ "stamp" \in ToSet(steps)
                            \/ ("policy" \in ToSet(steps) /\ "policy" \notin d.tables))
  BY DEF Migrated
<1>2. m.tables \subseteq Tables /\ d.tables \subseteq m.tables
  BY <1>1 DEF SchemaOK
<1>3. d.stamp => m.stamp
  BY <1>1
<1>4. d.version = 0 /\ "policy" \in m.tables => m.stamp
  BY <1>1 DEF SchemaOK
<1> HIDE DEF m
<1>5. SchemaOK(m)
  BY <1>1, <1>2, <1>3, <1>4 DEF SchemaOK
<1> QED BY <1>5 DEF m

(* All of them make the schema of this version.                               *)
LEMMA FullMigration ==
  ASSUME NEW d, SchemaOK(d), NEW rows
  PROVE  LET f == Opened(Migrated(d, Callback(d)), rows) IN SchemaOK(f) /\ f.version = Version
<1> DEFINE m == Migrated(d, Callback(d))
           f == Opened(m, rows)
<1>1. /\ m.tables = d.tables \cup (ToSet(Callback(d)) \ {"stamp"})
      /\ d.stamp \/ "stamp" \in ToSet(Callback(d))
                 \/ ("policy" \in ToSet(Callback(d)) /\ "policy" \notin d.tables) => m.stamp
  BY DEF Migrated
<1>2. Callback(d) \in Seq(Tables \cup {"stamp"}) /\ d.version \in 0..Version
  BY CallbackSteps DEF SchemaOK
<1>3. m.tables \subseteq Tables
  <2>1. ToSet(Callback(d)) \subseteq Tables \cup {"stamp"}
    BY <1>2 DEF ToSet
  <2> QED BY <1>1, <2>1 DEF SchemaOK
<1>4. Tables \subseteq m.tables /\ m.stamp
  <2>1. CASE d.version = 0
    BY <1>1, <1>2, <2>1, CallbackSteps DEF SchemaOK, Tables
  <2>2. CASE d.version \in 1..5
    <3>1. /\ d.version < 2 => "bundle" \in ToSet(Callback(d))
          /\ d.version < 3 => "shared" \in ToSet(Callback(d))
          /\ d.version < 4 => "stamp" \in ToSet(Callback(d))
          /\ d.version < 5 => "ugc" \in ToSet(Callback(d))
      BY <1>2, <2>2, CallbackSteps
    <3>2. SchemaOf(d.version) \subseteq d.tables /\ (d.version >= 4 => d.stamp)
      BY DEF SchemaOK
    <3>3. /\ "policy" \in d.tables /\ (d.version >= 2 => "bundle" \in d.tables)
          /\ (d.version >= 3 => "shared" \in d.tables) /\ (d.version >= 5 => "ugc" \in d.tables)
      BY <2>2, <3>2 DEF SchemaOf
    <3>4. /\ "policy" \in m.tables /\ "bundle" \in m.tables /\ "shared" \in m.tables
          /\ "ugc" \in m.tables /\ m.stamp
      <4> HIDE DEF m
      <4>1. "policy" \in m.tables /\ "ugc" \in m.tables
        BY <1>1, <2>2, <3>1, <3>3
      <4>2. "bundle" \in m.tables /\ "shared" \in m.tables
        BY <1>1, <2>2, <3>1, <3>3
      <4>3. m.stamp
        BY <1>1, <2>2, <3>1, <3>2
      <4> QED BY <4>1, <4>2, <4>3
    <3> QED BY <3>4 DEF Tables
  <2> QED BY <1>2, <2>1, <2>2 DEF Version
<1>5. f.version = Version /\ f.tables = m.tables /\ f.stamp = m.stamp
  BY DEF Opened
<1> HIDE DEF m, f
<1>6. SchemaOK(f) /\ f.version = Version
  <2>1. SchemaOf(Version) \subseteq Tables
    BY DEF SchemaOf, Tables, Version
  <2> QED BY <1>3, <1>4, <1>5, <2>1 DEF SchemaOK, Version
<1> QED BY <1>6 DEF m, f

(* No statement of a callback is refused by the file: the column is added     *)
(* only to files that have the policy table.                                  *)
LEMMA NothingRefused ==
  ASSUME NEW d, SchemaOK(d)
  PROVE  Refused(d) = {}
<1> SUFFICES ASSUME NEW i \in 1..Len(Callback(d)), Callback(d)[i] = "stamp",
                    "policy" \notin Migrated(d, SubSeq(Callback(d), 1, i - 1)).tables
             PROVE  FALSE
  BY DEF Refused, AddVolumeUnmountTsColumn
<1>1. d.version \in 0..Version /\ Callback(d) \in Seq(Tables \cup {"stamp"})
  BY CallbackSteps DEF SchemaOK
<1>2. "stamp" \in ToSet(Callback(d))
  BY <1>1 DEF ToSet
<1>3. d.version # 0
  BY <1>1, <1>2, CallbackSteps DEF Tables
<1>4. "policy" \in d.tables
  BY <1>3 DEF SchemaOK, SchemaOf
<1> QED BY <1>4 DEF Migrated

(* A file that is found has the schema of its version.                        *)
LEMMA FoundOK ==
  ASSUME NEW d, SchemaOK(d)
  PROVE  SchemaOK(Found(d))
<1>1. CASE ~d.damaged
  BY <1>1 DEF Found
<1>2. CASE d.damaged
  BY <1>2 DEF Found, SchemaOK, SchemaOf, Version
<1> QED BY <1>1, <1>2

(* What opening the file can come to.                                         *)
LEMMA OpenOutcome ==
  ASSUME SchemaOK(disk), db \/ Held => disk.version = Version, NEW o \in OpenDatabaseInternal
  PROVE  /\ SchemaOK(o.disk)
         /\ o.ok \/ o.db => o.disk.version = Version
         /\ ~o.ok => o.fault \/ disk.damaged
         /\ Held => o.disk = disk
<1>1. CASE db \/ Held
  BY <1>1 DEF OpenDatabaseInternal
<1> DEFINE d == Found(disk)
<1>2. SchemaOK(d) /\ Refused(d) = {}
  BY FoundOK, NothingRefused
<1>3. CASE ~db /\ ~Held /\ o \in OpenFails
  <2>1. /\ ~o.ok /\ ~o.db /\ o.fault
        /\ \/ o.disk = disk
           \/ \E n \in 0..Len(Callback(d)) : o.disk = Migrated(d, SubSeq(Callback(d), 1, n))
    BY <1>2, <1>3 DEF OpenFails
  <2>2. Callback(d) \in Seq(Tables \cup {"stamp"})
    BY <1>2, CallbackSteps DEF SchemaOK
  <2> HIDE DEF d
  <2>3. ASSUME NEW n \in 0..Len(Callback(d)) PROVE SchemaOK(Migrated(d, SubSeq(Callback(d), 1, n)))
    BY <1>2, <2>2, PrefixToSet, MigratedOK
  <2> QED BY <1>3, <2>1, <2>3
<1>4. CASE ~db /\ ~Held /\ o \in OpenSucceeds
  <2>1. /\ \E rows : o.disk = Opened(Migrated(d, Callback(d)), rows)
        /\ ~o.ok => disk.damaged
    BY <1>4 DEF OpenSucceeds
  <2> HIDE DEF d
  <2> QED BY <1>2, <1>4, <2>1, FullMigration
<1> QED BY <1>1, <1>3, <1>4 DEF OpenDatabaseInternal

(* A step that neither opens the file nor gives anybody the store.            *)
LEMMA StoreKeeps ==
  ASSUME StoreInv, db' => db,
         disk'.version = disk.version, disk'.tables = disk.tables, disk'.stamp = disk.stamp,
         \A u \in Threads :
           /\ work'[u].at = "lock" \/ work'[u].guard # "none" =>
                work[u].at = "lock" \/ work[u].guard # "none"
           /\ work'[u].at \in {"schedule", "ok"} => work'[u].guard # "none"
           /\ work'[u].at = "failed" => work'[u].hit
  PROVE  StoreInv'
<1>1. SchemaOK(disk')
  BY DEF StoreInv, SchemaOK
<1>2. Held' => Held
  BY DEF Held
<1> QED BY <1>1, <1>2 DEF StoreInv

(* New rows leave the schema of the file alone.                               *)
LEMMA SchemaStays ==
  ASSUME NEW rows, NEW damaged
  PROVE  LET d == WithRows(disk, rows, damaged) IN
         d.version = disk.version /\ d.tables = disk.tables /\ d.stamp = disk.stamp
  BY DEF WithRows

(* One thread moves within its operation.                                     *)
LEMMA ThreadMoves ==
  ASSUME StoreInv, work \in [Threads -> Work], NEW t \in Threads, NEW w,
         work' = [work EXCEPT ![t] = w], db' => db,
         disk' = disk \/ \E rows, damaged : disk' = WithRows(disk, rows, damaged),
         w.at = "lock" \/ w.guard # "none" => work[t].at = "lock" \/ work[t].guard # "none",
         w.at \in {"schedule", "ok"} => w.guard # "none",
         w.at = "failed" => w.hit
  PROVE  StoreInv'
<1>1. disk'.version = disk.version /\ disk'.tables = disk.tables /\ disk'.stamp = disk.stamp
  BY SchemaStays
<1>2. work'[t] = w /\ \A u \in Threads : u # t => work'[u] = work[u]
  OBVIOUS
<1>3. ASSUME NEW u \in Threads
      PROVE  /\ work'[u].at = "lock" \/ work'[u].guard # "none" =>
                  work[u].at = "lock" \/ work[u].guard # "none"
             /\ work'[u].at \in {"schedule", "ok"} => work'[u].guard # "none"
             /\ work'[u].at = "failed" => work'[u].hit
  BY <1>2 DEF StoreInv
<1> QED BY <1>1, <1>3, StoreKeeps

(* Getting the store leaves a usable one.                                     *)
LEMMA GetRdbStore ==
  ASSUME TableInv, StoreInv, NEW t \in Threads, GetRdb(t)
  PROVE  StoreInv'
<1>1. PICK o \in OpenDatabaseInternal :
        /\ disk' = o.disk /\ db' = o.ok
        /\ work' = [work EXCEPT ![t] =
             To(Hit(@, o.fault \/ disk.damaged), IF o.ok THEN "lock" ELSE "failed")]
  BY DEF GetRdb
<1>2. /\ SchemaOK(o.disk) /\ (o.ok => o.disk.version = Version)
      /\ (~o.ok => o.fault \/ disk.damaged) /\ (Held => o.disk = disk)
  BY OpenOutcome DEF StoreInv
<1>3. work \in [Threads -> Work] /\ work[t].at = "get" /\ work[t].guard = "none"
  BY DEF TableInv, Shape, ThreadInv, GetRdb
<1> DEFINE w == To(Hit(work[t], o.fault \/ disk.damaged), IF o.ok THEN "lock" ELSE "failed")
<1>4. /\ w.at = (IF o.ok THEN "lock" ELSE "failed") /\ w.guard = "none"
      /\ (o.fault \/ disk.damaged => w.hit)
  BY <1>3 DEF To, Hit, Work
<1> HIDE DEF w
<1>5. work'[t] = w /\ \A u \in Threads : u # t => work'[u] = work[u]
  BY <1>1, <1>3 DEF w
<1>6. Held' => Held \/ o.ok
  BY <1>4, <1>5 DEF Held
<1>7. db' \/ Held' => disk'.version = Version
  BY <1>1, <1>2, <1>6 DEF StoreInv
<1>8. ASSUME NEW u \in Threads
      PROVE  /\ work'[u].at \in {"schedule", "ok"} => work'[u].guard # "none"
             /\ work'[u].at = "failed" => work'[u].hit
  BY <1>2, <1>4, <1>5 DEF StoreInv
<1> QED BY <1>1, <1>2, <1>7, <1>8 DEF StoreInv

(* So does every operation.                                                   *)
LEMMA StepStore ==
  ASSUME TableInv, StoreInv, NEW t \in Threads, Step(t)
  PROVE  StoreInv'
<1>1. work \in [Threads -> Work] /\ work[t] \in Work /\ ThreadInv(t)
  BY DEF TableInv, Shape
<1>2. CASE GetRdb(t)
  BY <1>2, GetRdbStore
<1>3. CASE Lock(t)
  <2> DEFINE w == To(Guarded(work[t], GuardOf(work[t].op)),
                     IF Batch(work[t].op) THEN "begin"
                     ELSE IF work[t].op.kind = "find" THEN "query" ELSE "exec")
  <2>1. work[t].at = "lock" /\ work' = [work EXCEPT ![t] = w] /\ db' = db /\ disk' = disk
    BY <1>3 DEF Lock
  <2>2. w.at \in {"begin", "query", "exec"}
    BY <1>1 DEF To, Guarded, Work
  <2> HIDE DEF w
  <2> QED BY <1>1, <2>1, <2>2, ThreadMoves
<1>4. CASE BeginTransaction(t)
  <2> DEFINE w == To(Left(work[t], work[t].op.keys), "statement")
  <2>1. work' = [work EXCEPT ![t] = w] /\ db' = db /\ disk' = disk
    BY <1>4 DEF BeginTransaction
  <2>2. w.at = "statement" /\ w.guard = work[t].guard
    BY <1>1 DEF To, Left, Work
  <2> HIDE DEF w
  <2> QED BY <1>1, <2>1, <2>2, ThreadMoves
<1>5. CASE Execute(t)
  <2>1. PICK k \in work[t].left :
          work' = [work EXCEPT ![t] =
            To(Left(@, work[t].left \ {k}), IF work[t].left = {k} THEN "commit" ELSE "statement")]
    BY <1>5 DEF Execute
  <2> DEFINE w == To(Left(work[t], work[t].left \ {k}),
                     IF work[t].left = {k} THEN "commit" ELSE "statement")
  <2>2. work' = [work EXCEPT ![t] = w] /\ db' = db /\ disk' = disk
    BY <1>5, <2>1 DEF Execute
  <2>3. w.at \in {"commit", "statement"} /\ w.guard = work[t].guard
    BY <1>1 DEF To, Left, Work
  <2> HIDE DEF w
  <2> QED BY <1>1, <2>2, <2>3, ThreadMoves
<1>6. CASE Commit(t) \/ ExecuteAlone(t)
  <2> DEFINE w == To(work[t], "schedule")
  <2>1. /\ work[t].guard = "write" /\ work' = [work EXCEPT ![t] = w] /\ db' = db
        /\ \E rows, damaged : disk' = WithRows(disk, rows, damaged)
    BY <1>1, <1>6 DEF Commit, ExecuteAlone, Go, ThreadInv
  <2>2. w.at = "schedule" /\ w.guard = work[t].guard
    BY <1>1 DEF To, Work
  <2> HIDE DEF w
  <2> QED BY <1>1, <2>1, <2>2, ThreadMoves
<1>7. CASE Query(t)
  <2>3. PICK found : work' = [work EXCEPT ![t] = To(Finding(@, found), "schedule")]
    BY <1>7 DEF Query
  <2> DEFINE w == To(Finding(work[t], found), "schedule")
  <2>1. /\ work[t].guard = "read" /\ work' = [work EXCEPT ![t] = w] /\ db' = db /\ disk' = disk
    BY <1>1, <1>7, <2>3 DEF Query, ThreadInv
  <2>2. w.at = "schedule" /\ w.guard = work[t].guard
    BY <1>1 DEF To, Finding, Work
  <2> HIDE DEF w
  <2> QED BY <1>1, <2>1, <2>2, ThreadMoves
<1>8. CASE FailEarly(t) \/ FailWrite(t)
  <2> DEFINE w == To(Hit(work[t], TRUE), "failed")
  <2>1. /\ work' = [work EXCEPT ![t] = w] /\ db' = db
        /\ disk' = disk \/ \E rows, damaged : disk' = WithRows(disk, rows, damaged)
    BY <1>8 DEF FailEarly, FailWrite, Fail, DbOperateFailure
  <2>2. w.at = "failed" /\ w.guard = work[t].guard /\ w.hit
    BY <1>1 DEF To, Hit, Work
  <2> HIDE DEF w
  <2> QED BY <1>1, <2>1, <2>2, ThreadMoves
<1>9. CASE ScheduleDbCleanup(t)
  <2>1. PICK w \in {To(work[t], "ok"), To(Hit(work[t], TRUE), "ok")} :
          work' = [work EXCEPT ![t] = w]
    BY <1>9 DEF ScheduleDbCleanup, PostDbCleanup, Go
  <2>2. w.at = "ok" /\ w.guard = work[t].guard
    BY <1>1, <2>1 DEF To, Hit, Work
  <2>3. work[t].guard # "none" /\ db' = db /\ disk' = disk
    BY <1>9 DEF StoreInv, ScheduleDbCleanup
  <2> QED BY <1>1, <2>1, <2>2, <2>3, ThreadMoves
<1> QED BY <1>2, <1>3, <1>4, <1>5, <1>6, <1>7, <1>8, <1>9 DEF Step, DbStep

(* So does every step.                                                        *)
LEMMA StoreNext == TableInv /\ StoreInv /\ [Next]_vars => StoreInv'
<1> SUFFICES ASSUME TableInv, StoreInv, [Next]_vars PROVE StoreInv'
  OBVIOUS
<1>1. work \in [Threads -> Work]
  BY DEF TableInv, Shape
<1>2. CASE OnStart \/ OnStartFails
  <2>1. /\ work' = work
        /\ \E o \in OpenDatabaseInternal : disk' = o.disk /\ db' = o.db
    BY <1>2 DEF OnStart, OnStartFails, Initialize, RdbInit
  <2>2. SchemaOK(disk') /\ (db' => disk'.version = Version) /\ (Held => disk' = disk)
    BY <2>1, OpenOutcome DEF StoreInv
  <2>3. Held' <=> Held
    BY <2>1 DEF Held
  <2> QED BY <2>1, <2>2, <2>3 DEF StoreInv
<1>3. CASE UnloadTask \/ OnIdle \/ OnIdleRefuses \/ Cleanup \/ Damage \/ UNCHANGED vars
  <2>1. /\ work' = work /\ (db' => db)
        /\ disk' = disk \/ \E rows, damaged : disk' = WithRows(disk, rows, damaged)
    <3>1. CASE Damage
      BY <3>1 DEF Damage, Corrupt
    <3>2. CASE Cleanup
      BY <3>2 DEF Cleanup, CleanupDbInternal
    <3>3. CASE UnloadTask \/ OnIdle \/ OnIdleRefuses \/ UNCHANGED vars
      BY <3>3 DEF UnloadTask, OnIdle, OnIdleRefuses, vars
    <3> QED BY <1>3, <3>1, <3>2, <3>3
  <2>2. disk'.version = disk.version /\ disk'.tables = disk.tables /\ disk'.stamp = disk.stamp
    BY <2>1, SchemaStays
  <2>3. \A u \in Threads :
          /\ work'[u].at = "lock" \/ work'[u].guard # "none" =>
               work[u].at = "lock" \/ work[u].guard # "none"
          /\ work'[u].at \in {"schedule", "ok"} => work'[u].guard # "none"
          /\ work'[u].at = "failed" => work'[u].hit
    BY <2>1 DEF StoreInv
  <2> QED BY <2>1, <2>2, <2>3, StoreKeeps
<1>4. CASE Exit \/ Crash
  <2>1. work' = [t \in Threads |-> IdleWork] /\ disk' = disk /\ ~db'
    BY <1>4 DEF Exit, Crash, ProcessEnds, Forget
  <2>2. \A u \in Threads : work'[u].at = "idle" /\ work'[u].guard = "none"
    BY <2>1 DEF IdleWork
  <2> QED BY <2>1, <2>2, StoreKeeps
<1>5. ASSUME NEW t \in Threads, CallbackEnter(t) PROVE StoreInv'
  <2>1. PICK op \in Ops : work' = [work EXCEPT ![t] = To([@ EXCEPT !.op = op], "get")]
    BY <1>5 DEF CallbackEnter, Ask
  <2> DEFINE w == To([work[t] EXCEPT !.op = op], "get")
  <2>2. work' = [work EXCEPT ![t] = w] /\ db' = db /\ disk' = disk
    BY <1>5, <2>1 DEF CallbackEnter
  <2>3. w.at = "get" /\ w.guard = work[t].guard
    BY <1>1 DEF To, Work
  <2> HIDE DEF w
  <2> QED BY <1>1, <2>2, <2>3, ThreadMoves
<1>6. ASSUME NEW t \in Threads, Return(t) PROVE StoreInv'
  <2>1. work' = [work EXCEPT ![t] = IdleWork] /\ db' = db /\ disk' = disk
    BY <1>6 DEF Return
  <2>2. IdleWork.at = "idle" /\ IdleWork.guard = "none"
    BY DEF IdleWork
  <2> QED BY <1>1, <2>1, <2>2, ThreadMoves
<1>7. ASSUME NEW t \in Threads, Step(t) PROVE StoreInv'
  BY <1>7, StepStore
<1> QED BY <1>2, <1>3, <1>4, <1>5, <1>6, <1>7 DEF Next

(* The invariant about the store holds initially.                             *)
LEMMA StoreInit == Init => StoreInv
<1> SUFFICES ASSUME Init PROVE StoreInv
  OBVIOUS
<1>1. PICK v \in InitialVersions, rows \in {Empty, [k \in Keys |-> "new"]} :
        disk = [version |-> v, tables |-> SchemaOf(v), stamp |-> v >= 4,
                rows |-> rows, damaged |-> FALSE]
  BY DEF Init, DbInit
<1>2. v \in 0..5
  BY VersionsAssumption DEF Version
<1>3. disk.version = v /\ disk.tables = SchemaOf(v) /\ (v >= 4 => disk.stamp)
  <2>1. disk.version = v /\ disk.tables = SchemaOf(v) /\ disk.stamp = (v >= 4)
    BY <1>1
  <2> QED BY <2>1
<1>4. SchemaOf(v) \subseteq Tables /\ (v = 0 => "policy" \notin SchemaOf(v))
  <2>1. SchemaOf(v) \subseteq Tables
    BY DEF SchemaOf, Tables
  <2>2. v = 0 => SchemaOf(v) = {}
    BY DEF SchemaOf
  <2> QED BY <2>1, <2>2
<1>5. SchemaOK(disk)
  BY <1>2, <1>3, <1>4 DEF SchemaOK, Version
<1>6. ~db /\ \A t \in Threads : work[t].at = "idle" /\ work[t].guard = "none"
  BY DEF Init, DbInit, IdleWork
<1> QED BY <1>5, <1>6 DEF StoreInv, Held

(* StoreIsUsable: whatever version the service found and however often an     *)
(* upgrade was interrupted, an operation that reached the store finds every   *)
(* table and column (OnCreate, OnUpgrade), and it fails only if a call of its *)
(* own failed or the file was damaged (GetRdb).                               *)
THEOREM StoreIsAlwaysUsable == FairSpec => []StoreIsUsable
<1>1. ASSUME TableInv, StoreInv PROVE StoreIsUsable
  <2>1. ASSUME NEW t \in Threads, work[t].at \notin {"idle", "get", "failed"} PROVE Held
    <3>1. work[t].at \in Stages /\ ThreadInv(t)
      BY <1>1 DEF TableInv, Shape, Work
    <3>2. work[t].at = "lock" \/ work[t].guard # "none"
      BY <1>1, <2>1, <3>1 DEF Stages, ThreadInv, StoreInv
    <3> QED BY <3>2 DEF Held
  <2>2. db \/ Held => disk.version = Version /\ disk.tables = Tables /\ disk.stamp
    BY <1>1, CompleteSchema DEF StoreInv
  <2> QED BY <1>1, <2>1, <2>2 DEF StoreIsUsable, StoreInv
<1>2. Init => TableInv /\ StoreInv
  BY TableInit, StoreInit
<1>3. TableInv /\ StoreInv /\ [Next]_vars => TableInv' /\ StoreInv'
  BY TableNext, StoreNext
<1> QED BY <1>1, <1>2, <1>3, PTL DEF FairSpec
-----------------------------------------------------------------------------
(* The type of the state.  That a value has its type is shown action by       *)
(* action; that calls counts the threads at work rests on who may start and   *)
(* end one: CallbackEnter and CallbackExit in pairs, and the end of the       *)
(* process, which forgets both.                                               *)

FileFlags(d) == d.stamp \in BOOLEAN /\ d.damaged \in BOOLEAN

Values ==
  /\ FileFlags(disk)
  /\ db \in BOOLEAN /\ handler \in BOOLEAN /\ cleanup \in BOOLEAN
  /\ ops \in 0..MaxOps /\ faults \in 0..MaxFaults
  /\ state \in {"down", "running", "stopped", "unpublished"}
  /\ delayed \in BOOLEAN /\ unload \in BOOLEAN /\ asked \in BOOLEAN /\ missed \in BOOLEAN

Busy == {t \in Threads : work[t].at # "idle"}

Counted == IsFiniteSet(Busy) /\ calls = Cardinality(Busy)

(* Statements of the callback leave flags flags.                              *)
LEMMA MigratedFlags ==
  ASSUME NEW d, NEW steps, FileFlags(d)
  PROVE  FileFlags(Migrated(d, steps))
  BY DEF FileFlags, Migrated

(* So does a new file in the place of a damaged one.                          *)
LEMMA FoundFlags == FileFlags(disk) => FileFlags(Found(disk))
  BY DEF FileFlags, Found

(* Whether the file opens or not, its flags and the answer are flags.         *)
LEMMA OpenIsTyped ==
  ASSUME FileFlags(disk), SchemaOK(disk), NEW o \in OpenDatabaseInternal
  PROVE  FileFlags(o.disk) /\ o.ok \in BOOLEAN /\ o.db \in BOOLEAN
<1> DEFINE d == Found(disk)
<1>1. /\ FileFlags(d) /\ (\A steps : FileFlags(Migrated(d, steps)))
      /\ Refused(d) = {}
  BY FoundFlags, MigratedFlags, FoundOK, NothingRefused
<1>2. CASE o \in OpenFails
  <2>1. \E n : o = [disk |-> IF disk.damaged THEN disk ELSE Migrated(d, SubSeq(Callback(d), 1, n)),
                    ok |-> FALSE, db |-> FALSE, fault |-> TRUE]
    BY <1>1, <1>2 DEF OpenFails
  <2> HIDE DEF d
  <2>2. PICK n : o = [disk |-> IF disk.damaged THEN disk ELSE Migrated(d, SubSeq(Callback(d), 1, n)),
                      ok |-> FALSE, db |-> FALSE, fault |-> TRUE]
    BY <2>1
  <2>3. o.disk \in {disk, Migrated(d, SubSeq(Callback(d), 1, n))} /\ o.ok = FALSE /\ o.db = FALSE
    BY <2>2
  <2> QED BY <1>1, <2>3
<1>3. CASE o \in OpenSucceeds
  <2> DEFINE m == Migrated(d, Callback(d))
             opened(rows) == Opened(m, rows)
  <2>1. \/ o = [disk |-> opened(m.rows), ok |-> TRUE, db |-> TRUE, fault |-> FALSE]
        \/ o = [disk |-> opened(Empty), ok |-> FALSE, db |-> TRUE, fault |-> FALSE]
    BY <1>3 DEF OpenSucceeds
  <2>2. \A rows : FileFlags(opened(rows))
    BY <1>1 DEF Opened, FileFlags
  <2> HIDE DEF m, opened
  <2>3. ASSUME NEW rows, NEW ok \in BOOLEAN,
               o = [disk |-> opened(rows), ok |-> ok, db |-> TRUE, fault |-> FALSE]
        PROVE  FileFlags(o.disk) /\ o.ok \in BOOLEAN /\ o.db \in BOOLEAN
    <3>1. o.disk = opened(rows) /\ o.ok = ok /\ o.db = TRUE
      BY <2>3
    <3> QED BY <2>2, <3>1
  <2> QED BY <2>1, <2>3
<1>4. CASE o \notin OpenFails /\ o \notin OpenSucceeds
  <2>1. \/ o = [disk |-> disk, ok |-> TRUE, db |-> TRUE, fault |-> FALSE]
        \/ o = [disk |-> disk, ok |-> FALSE, db |-> FALSE, fault |-> TRUE]
    BY <1>4 DEF OpenDatabaseInternal
  <2>2. CASE o = [disk |-> disk, ok |-> TRUE, db |-> TRUE, fault |-> FALSE]
    <3>1. o.disk = disk /\ o.ok = TRUE /\ o.db = TRUE
      BY <2>2
    <3> QED BY <3>1
  <2>3. CASE o = [disk |-> disk, ok |-> FALSE, db |-> FALSE, fault |-> TRUE]
    <3>1. o.disk = disk /\ o.ok = FALSE /\ o.db = FALSE
      BY <2>3
    <3> QED BY <3>1
  <2> QED BY <2>1, <2>2, <2>3
<1> QED BY <1>2, <1>3, <1>4

(* A fault is one of those that are left.                                     *)
LEMMA FaultCounts == faults \in 0..MaxFaults /\ (Fault \/ UNCHANGED faults) => faults' \in 0..MaxFaults
  BY BoundsAssumption DEF Fault

(* New rows leave the flags of the file flags.                                *)
LEMMA RowsKeepFlags ==
  ASSUME FileFlags(disk), NEW rows, NEW damaged \in BOOLEAN
  PROVE  FileFlags(WithRows(disk, rows, damaged))
  BY DEF FileFlags, WithRows

(* What an operation does keeps every value in its type.                      *)
LEMMA StepValues ==
  ASSUME Values, SchemaOK(disk), NEW t \in Threads, DbStep(t), UNCHANGED svcvars
  PROVE  Values'
<1>1. UNCHANGED <<state, delayed, unload, asked, missed>> /\ ops' = ops
  BY DEF svcvars, DbStep, GetRdb, Lock, BeginTransaction, Execute, Commit, ExecuteAlone, Query,
     FailEarly, FailWrite, ScheduleDbCleanup
<1>2. faults' \in 0..MaxFaults
  <2>1. Fault \/ UNCHANGED faults
    BY DEF DbStep, GetRdb, Paid, Lock, BeginTransaction, Execute, Commit, ExecuteAlone, Query,
       FailEarly, FailWrite, ScheduleDbCleanup, PostDbCleanup
  <2> QED BY <2>1, FaultCounts DEF Values
<1>3. FileFlags(disk') /\ db' \in BOOLEAN /\ handler' = handler /\ cleanup' \in BOOLEAN
  <2>1. CASE GetRdb(t)
    <3>1. PICK o \in OpenDatabaseInternal : disk' = o.disk /\ db' = o.ok
      BY <2>1 DEF GetRdb
    <3>2. FileFlags(o.disk) /\ o.ok \in BOOLEAN
      BY OpenIsTyped DEF Values
    <3>3. handler' = handler /\ cleanup' = cleanup
      BY <2>1 DEF GetRdb
    <3> QED BY <3>1, <3>2, <3>3 DEF Values
  <2>2. CASE Lock(t) \/ BeginTransaction(t) \/ Execute(t) \/ Query(t) \/ FailEarly(t)
    BY <2>2 DEF Lock, BeginTransaction, Execute, Query, FailEarly, Values
  <2>3. CASE Commit(t) \/ ExecuteAlone(t) \/ FailWrite(t)
    <3>1. disk' = disk \/ \E rows : disk' = WithRows(disk, rows, FALSE)
      BY <2>3 DEF Commit, ExecuteAlone, FailWrite, DbOperateFailure
    <3>2. FileFlags(disk')
      BY <3>1, RowsKeepFlags DEF Values
    <3>3. UNCHANGED <<db, handler, cleanup>>
      BY <2>3 DEF Commit, ExecuteAlone, FailWrite
    <3> QED BY <3>2, <3>3 DEF Values
  <2>4. CASE ScheduleDbCleanup(t)
    BY <2>4 DEF ScheduleDbCleanup, PostDbCleanup, Values
  <2> QED BY <2>1, <2>2, <2>3, <2>4 DEF DbStep
<1> QED BY <1>1, <1>2, <1>3 DEF Values

(* Every step does.                                                           *)
LEMMA ValuesNext == StoreInv /\ Values /\ [Next]_vars => Values'
<1> SUFFICES ASSUME StoreInv, Values, [Next]_vars PROVE Values'
  OBVIOUS
<1>1. CASE OnStart \/ OnStartFails
  <2>1. PICK o \in OpenDatabaseInternal :
          /\ disk' = o.disk /\ db' = o.db /\ handler' = (handler \/ o.ok)
          /\ Fault \/ UNCHANGED faults
    BY <1>1 DEF OnStart, OnStartFails, Initialize, RdbInit, Paid
  <2>2. FileFlags(o.disk) /\ o.db \in BOOLEAN
    BY OpenIsTyped DEF StoreInv, Values
  <2>3. faults' \in 0..MaxFaults
    BY <2>1, FaultCounts DEF Values
  <2>4. /\ UNCHANGED <<cleanup, ops, asked>>
        /\ state' \in {"running", "unpublished"} /\ delayed' \in {FALSE, delayed}
        /\ unload' \in {TRUE, unload} /\ missed' \in {FALSE, missed}
    BY <1>1 DEF OnStart, OnStartFails, DelayUnloadService
  <2> QED BY <2>1, <2>2, <2>3, <2>4 DEF Values
<1>2. CASE UnloadTask \/ OnIdle \/ OnIdleRefuses
  <2>1. Fault \/ UNCHANGED faults
    BY <1>2 DEF UnloadTask, UnloadAsks, UnloadMisses, OnIdle, OnIdleRefuses
  <2>2. faults' \in 0..MaxFaults
    BY <2>1, FaultCounts DEF Values
  <2>3. UNCHANGED <<disk, db, handler, cleanup, ops>>
    BY <1>2 DEF UnloadTask, OnIdle, OnIdleRefuses
  <2>4. /\ state' \in {"stopped", state} /\ delayed' \in {TRUE, delayed}
        /\ unload' \in {FALSE, unload} /\ asked' \in {TRUE, FALSE, asked}
        /\ missed' \in {TRUE, missed}
    BY <1>2 DEF UnloadTask, UnloadAsks, UnloadMisses, OnIdle, OnIdleRefuses
  <2>5. /\ state' \in {"down", "running", "stopped", "unpublished"}
        /\ delayed' \in BOOLEAN /\ unload' \in BOOLEAN /\ asked' \in BOOLEAN /\ missed' \in BOOLEAN
    BY <2>4 DEF Values
  <2> QED BY <2>2, <2>3, <2>5 DEF Values
<1>3. CASE Exit \/ Crash
  <2>1. Fault \/ UNCHANGED faults
    BY <1>3 DEF Exit, Crash
  <2>2. faults' \in 0..MaxFaults
    BY <2>1, FaultCounts DEF Values
  <2> QED BY <1>3, <2>2 DEF Exit, Crash, ProcessEnds, Forget, Values
<1>4. CASE Cleanup
  BY <1>4 DEF Cleanup, CleanupDbInternal, svcvars, Values
<1>5. CASE Damage
  <2>1. disk' = WithRows(disk, disk.rows, TRUE) /\ Fault /\ UNCHANGED svcvars
        /\ UNCHANGED <<db, handler, cleanup, ops>>
    BY <1>5 DEF Damage, Corrupt
  <2>2. FileFlags(disk') /\ faults' \in 0..MaxFaults
    BY <2>1, RowsKeepFlags, FaultCounts DEF Values
  <2> QED BY <2>1, <2>2 DEF svcvars, Values
<1>6. ASSUME NEW t \in Threads, CallbackEnter(t) PROVE Values'
  <2>1. ops' \in 0..MaxOps
    BY <1>6, BoundsAssumption DEF CallbackEnter, Ask, Values
  <2>2. Fault \/ UNCHANGED faults
    BY <1>6 DEF CallbackEnter
  <2>3. faults' \in 0..MaxFaults
    BY <2>2, FaultCounts DEF Values
  <2>4. /\ UNCHANGED <<disk, db, handler, cleanup, state, delayed, asked>>
        /\ unload' \in {TRUE, unload} /\ missed' \in {TRUE, FALSE}
    BY <1>6 DEF CallbackEnter, DelayUnloadService
  <2> QED BY <2>1, <2>3, <2>4 DEF Values
<1>7. ASSUME NEW t \in Threads, Return(t) PROVE Values'
  BY <1>7 DEF Return, Values
<1>8. ASSUME NEW t \in Threads, Step(t) PROVE Values'
  BY <1>8, StepValues DEF Step, StoreInv
<1>9. CASE UNCHANGED vars
  BY <1>9 DEF vars, Values
<1> QED BY <1>1, <1>2, <1>3, <1>4, <1>5, <1>6, <1>7, <1>8, <1>9 DEF Next

(* Whatever else a step notes in the record of its thread, To says where it   *)
(* is now.                                                                    *)
LEMMA ToIsAt ==
  ASSUME NEW w \in Work, NEW at, NEW v
  PROVE  /\ To(w, at).at = at /\ To(Hit(w, v), at).at = at /\ To(Guarded(w, v), at).at = at
         /\ To(Left(w, v), at).at = at /\ To(Finding(w, v), at).at = at
  BY DEF Work, To, Hit, Guarded, Left, Finding

(* An operation under way stays under way until it returns.                   *)
LEMMA StepIsBusy ==
  ASSUME work \in [Threads -> Work], NEW t \in Threads, DbStep(t)
  PROVE  Busy' = Busy
<1> DEFINE moved(w) == work' = [work EXCEPT ![t] = w] /\ w.at # "idle"
<1>1. work[t].at # "idle"
  BY DEF DbStep, GetRdb, Lock, BeginTransaction, Execute, Commit, ExecuteAlone, Query,
     FailEarly, FailWrite, ScheduleDbCleanup
<1>2. \E w : moved(w)
  <2>1. CASE GetRdb(t)
    <3>1. PICK o \in OpenDatabaseInternal :
            work' = [work EXCEPT ![t] =
              To(Hit(work[t], o.fault \/ disk.damaged), IF o.ok THEN "lock" ELSE "failed")]
      BY <2>1 DEF GetRdb
    <3>2. moved(To(Hit(work[t], o.fault \/ disk.damaged), IF o.ok THEN "lock" ELSE "failed"))
      BY <3>1, ToIsAt
    <3> QED BY <3>2
  <2>2. CASE Lock(t)
    <3> DEFINE at == IF Batch(work[t].op) THEN "begin"
                     ELSE IF work[t].op.kind = "find" THEN "query" ELSE "exec"
    <3>1. work' = [work EXCEPT ![t] = To(Guarded(work[t], GuardOf(work[t].op)), at)]
      BY <2>2 DEF Lock
    <3>2. at # "idle"
      OBVIOUS
    <3> HIDE DEF at
    <3>3. moved(To(Guarded(work[t], GuardOf(work[t].op)), at))
      BY <3>1, <3>2, ToIsAt
    <3> QED BY <3>3
  <2>3. CASE BeginTransaction(t)
    <3>1. moved(To(Left(work[t], work[t].op.keys), "statement"))
      BY <2>3, ToIsAt DEF BeginTransaction
    <3> QED BY <3>1
  <2>4. CASE Execute(t)
    <3>1. PICK k \in work[t].left :
            work' = [work EXCEPT ![t] =
              To(Left(work[t], work[t].left \ {k}),
                 IF work[t].left = {k} THEN "commit" ELSE "statement")]
      BY <2>4 DEF Execute
    <3>2. moved(To(Left(work[t], work[t].left \ {k}),
                   IF work[t].left = {k} THEN "commit" ELSE "statement"))
      BY <3>1, ToIsAt
    <3> QED BY <3>2
  <2>5. CASE Commit(t) \/ ExecuteAlone(t)
    <3>1. work' = [work EXCEPT ![t] = To(work[t], "schedule")]
      BY <2>5 DEF Commit, ExecuteAlone, Go
    <3>2. moved(To(work[t], "schedule"))
      BY <3>1, ToIsAt
    <3> QED BY <3>2
  <2>6. CASE Query(t)
    <3>1. PICK found : work' = [work EXCEPT ![t] = To(Finding(@, found), "schedule")]
      BY <2>6 DEF Query
    <3>2. moved(To(Finding(work[t], found), "schedule"))
      BY <3>1, ToIsAt
    <3> QED BY <3>2
  <2>7. CASE FailEarly(t) \/ FailWrite(t)
    <3>1. work' = [work EXCEPT ![t] = To(Hit(work[t], TRUE), "failed")]
      BY <2>7 DEF FailEarly, FailWrite, Fail
    <3>2. To(Hit(work[t], TRUE), "failed").at = "failed"
      BY DEF To, Hit, Work
    <3>3. moved(To(Hit(work[t], TRUE), "failed"))
      BY <3>1, <3>2
    <3> QED BY <3>3
  <2>8. CASE ScheduleDbCleanup(t)
    <3>1. \/ work' = [work EXCEPT ![t] = To(work[t], "ok")]
          \/ work' = [work EXCEPT ![t] = To(Hit(work[t], TRUE), "ok")]
      BY <2>8 DEF ScheduleDbCleanup, PostDbCleanup, Go
    <3>2. To(work[t], "ok").at = "ok" /\ To(Hit(work[t], TRUE), "ok").at = "ok"
      BY DEF To, Hit, Work
    <3>3. moved(To(work[t], "ok")) \/ moved(To(Hit(work[t], TRUE), "ok"))
      BY <3>1, <3>2
    <3> QED BY <3>3
  <2> QED BY <2>1, <2>2, <2>3, <2>4, <2>5, <2>6, <2>7, <2>8 DEF DbStep
<1>3. PICK w : moved(w)
  BY <1>2
<1>4. \A u \in Threads : work'[u].at # "idle" <=> work[u].at # "idle"
  BY <1>1, <1>3
<1> QED BY <1>4 DEF Busy

(* The counter counts.                                                        *)
LEMMA CountedNext == TableInv /\ Counted /\ [Next]_vars => Counted'
<1> SUFFICES ASSUME TableInv, Counted, [Next]_vars PROVE Counted'
  OBVIOUS
<1>1. work \in [Threads -> Work]
  BY DEF TableInv, Shape
<1>2. IsFiniteSet(Busy) /\ calls = Cardinality(Busy)
  BY DEF Counted
<1>3. ASSUME Busy' = Busy, calls' = calls PROVE Counted'
  BY <1>2, <1>3 DEF Counted
<1>4. CASE OnStart \/ OnStartFails \/ UnloadTask \/ OnIdle \/ OnIdleRefuses \/ Cleanup \/ Damage
            \/ UNCHANGED vars
  <2>1. work' = work /\ calls' = calls
    BY <1>4 DEF OnStart, OnStartFails, UnloadTask, OnIdle, OnIdleRefuses, Cleanup,
       CleanupDbInternal, Damage, Corrupt, svcvars, vars
  <2> QED BY <1>3, <2>1 DEF Busy
<1>5. CASE Exit \/ Crash
  <2>1. work' = [t \in Threads |-> IdleWork] /\ calls' = 0
    BY <1>5 DEF Exit, Crash, ProcessEnds, Forget
  <2>2. Busy' = {}
    BY <2>1 DEF Busy, IdleWork
  <2> QED BY <2>1, <2>2, FS_EmptySet DEF Counted
<1>6. ASSUME NEW t \in Threads, CallbackEnter(t) PROVE Counted'
  <2>1. PICK op \in Ops : Ask(t, op)
    BY <1>6 DEF CallbackEnter
  <2> DEFINE w == To([work[t] EXCEPT !.op = op], "get")
  <2>2. work[t].at = "idle" /\ work' = [work EXCEPT ![t] = w] /\ calls' = calls + 1
    BY <1>6, <2>1 DEF CallbackEnter, Ask
  <2>3. w.at = "get"
    BY <1>1 DEF To, Work
  <2> HIDE DEF w
  <2>4. Busy' = Busy \cup {t} /\ t \notin Busy
    <3>1. \A u \in Threads : work'[u].at # "idle" <=> work[u].at # "idle" \/ u = t
      BY <1>1, <2>2, <2>3
    <3> QED BY <2>2, <3>1 DEF Busy
  <2> QED BY <1>2, <2>2, <2>4, FS_AddElement DEF Counted
<1>7. ASSUME NEW t \in Threads, Return(t) PROVE Counted'
  <2>1. work[t].at # "idle" /\ work' = [work EXCEPT ![t] = IdleWork] /\ calls' = calls - 1
    BY <1>7 DEF Return, CallbackExit
  <2>2. Busy' = Busy \ {t} /\ t \in Busy
    <3>1. \A u \in Threads : work'[u].at # "idle" <=> work[u].at # "idle" /\ u # t
      BY <1>1, <2>1 DEF IdleWork
    <3> QED BY <2>1, <3>1 DEF Busy
  <2> QED BY <1>2, <2>1, <2>2, FS_RemoveElement DEF Counted
<1>8. ASSUME NEW t \in Threads, Step(t) PROVE Counted'
  <2>1. Busy' = Busy /\ calls' = calls
    BY <1>1, <1>8, StepIsBusy DEF Step, svcvars
  <2> QED BY <1>3, <2>1
<1> QED BY <1>4, <1>5, <1>6, <1>7, <1>8 DEF Next

(* All of it holds of a service that was never started.                       *)
LEMMA ValuesInit == Init => Values /\ Counted
<1> SUFFICES ASSUME Init PROVE Values /\ Counted
  OBVIOUS
<1>1. Busy = {} /\ calls = 0
  BY DEF Init, DbInit, Busy, IdleWork
<1>2. FileFlags(disk)
  <2>1. \E v, rows : disk = [version |-> v, tables |-> SchemaOf(v), stamp |-> v >= 4,
                             rows |-> rows, damaged |-> FALSE]
    BY DEF Init, DbInit
  <2> QED BY <2>1 DEF FileFlags
<1>3. 0 \in 0..MaxOps /\ 0 \in 0..MaxFaults
  BY BoundsAssumption
<1>4. Values
  BY <1>2, <1>3 DEF Init, DbInit, Values
<1> QED BY <1>1, <1>4, FS_EmptySet DEF Counted

(* The state keeps its type, and callFuncRunningNum_, which decides whether   *)
(* the service is idle, is the number of threads at work after any order of   *)
(* calls, returns and ends of the process (CallbackEnter, CallbackExit).      *)
THEOREM TypeCorrect == FairSpec => []TypeOK
<1>1. ASSUME TableInv, StoreInv, Values, Counted PROVE TypeOK
  <2>1. disk \in [version : 0..Version, tables : SUBSET Tables, stamp : BOOLEAN,
                  rows : [Keys -> {"none", "new", "changed"}], damaged : BOOLEAN]
    BY <1>1 DEF TableInv, Shape, IsFile, Rows, StoreInv, SchemaOK, Values, FileFlags
  <2>2. /\ txn \in [open : BOOLEAN, rows : [Keys -> {"none", "new", "changed"}]]
        /\ work \in [Threads -> Work]
    BY <1>1 DEF TableInv, Shape, Rows
  <2>3. calls = Cardinality({t \in Threads : work[t].at # "idle"})
    BY <1>1 DEF Counted, Busy
  <2> QED BY <1>1, <2>1, <2>2, <2>3 DEF TypeOK, Values, Work, Stages, Rows, Results
<1>2. Init => TableInv /\ StoreInv /\ Values /\ Counted
  BY TableInit, StoreInit, ValuesInit
<1>3. TableInv /\ StoreInv /\ Values /\ Counted /\ [Next]_vars
        => TableInv' /\ StoreInv' /\ Values' /\ Counted'
  BY TableNext, StoreNext, ValuesNext, CountedNext
<1> QED BY <1>1, <1>2, <1>3, PTL DEF FairSpec
=============================================================================
