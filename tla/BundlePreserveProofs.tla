------------------------- MODULE BundlePreserveProofs -------------------------
(***************************************************************************)
(* Theorems about BundlePreserve for every set of applications, tokens,    *)
(* policies and channels, with or without doubled events, and for any      *)
(* number of failing accesses and crashes.  The two theorems about what is *)
(* left when all events are handled suppose that no access fails, and      *)
(* RowsFollowTheApplication that there is one channel: what the code       *)
(* promises only then (MCBundlePreserve, the run without faults).          *)
(***************************************************************************)
EXTENDS BundlePreserve, TLAPS

Restoring == {"dedupe", "read", "move"}

(* A handler that restores has chosen a record.                              *)
ChosenOK ==
  \A c \in Channels : job[c] # Idle /\ job[c].pc \in Restoring => job[c].chosen \in Records

(* A handler deletes rows only for an application that is not preserved.     *)
ClearsUnpreserved ==
  \A c \in Channels : job[c] # Idle /\ job[c].pc = "clear" =>
    PreserveConfig[job[c].ev.app] # "true"

Inv == OwnInv /\ ChosenOK /\ ClearsUnpreserved /\ PreservedNeverErased

(* What the invariant says of one handler, and of the events that wait.      *)
GoodJob(j) ==
  /\ Owner[j.ev.tok] = j.ev.app
  /\ j.pc \in Restoring => j.chosen \in Records /\ Owner[j.chosen.orig] = j.ev.app
  /\ j.pc = "clear" => PreserveConfig[j.ev.app] # "true"

GoodQueue(q) == \A i \in 1..Len(q) : Owner[q[i].tok] = q[i].app

(* The invariant holds before the first event.                                *)
LEMMA InitInv == Init => Inv
  BY OwnerAssumption
  DEF Init, Inv, OwnInv, TypeOK, OnlyOwnPolicies, RecordsOwn, ChosenOK, ClearsUnpreserved,
      PreservedNeverErased, Restoring

(* An idle channel is told from a job by its pc.                              *)
LEMMA IdleIsNoJob == Idle \notin Jobs /\ \A j \in Jobs : j.pc # "idle"
  BY DEF Idle, Jobs

(* Every job in progress is a good one.                                       *)
LEMMA GoodJobs == Inv => \A c \in Channels : job[c] \in Jobs => GoodJob(job[c])
  BY IdleIsNoJob DEF Inv, OwnInv, RecordsOwn, ChosenOK, ClearsUnpreserved, GoodJob, Restoring

(* A handler at some point of its work has a job.                            *)
LEMMA AtWork ==
  ASSUME Inv, NEW c \in Channels, NEW pc, pc # "idle", At(c, pc)
  PROVE  job[c] \in Jobs /\ job[c].pc = pc /\ GoodJob(job[c])
  BY IdleIsNoJob, GoodJobs DEF Inv, OwnInv, TypeOK, At, Idle

-----------------------------------------------------------------------------
(* A step of the service: one handler moves, records and rows stay with      *)
(* their applications, and no preserved row is lost.                         *)
LEMMA WorkFrame ==
  ASSUME Inv, NEW c \in Channels, NEW j \in Jobs \cup {Idle}, job' = [job EXCEPT ![c] = j],
         j \in Jobs => GoodJob(j),
         rows' \in [Tokens -> SUBSET Policies],
         \A k \in Tokens : rows'[k] \subseteq asked[Owner[k]],
         \A a \in Apps : PreserveConfig[a] = "true" =>
           asked[a] \subseteq UNION {rows'[k] : k \in TokensOf(a)},
         records' \subseteq Records, \A r \in records' : Owner[r.orig] = r.app,
         queue' \in [Channels -> Seq(Events)], \A d \in Channels : GoodQueue(queue'[d]),
         faults' \in 0..MaxFaults, UNCHANGED world
  PROVE  Inv'
  <1>1. job' \in [Channels -> Jobs \cup {Idle}]
    BY DEF Inv, OwnInv, TypeOK
  <1>2. TypeOK'
    BY <1>1 DEF Inv, OwnInv, TypeOK, world
  <1>3. \A d \in Channels : job'[d] # Idle => GoodJob(job'[d])
    BY GoodJobs DEF Inv, OwnInv, TypeOK
  <1>4. RecordsOwn'
    BY <1>3 DEF Inv, OwnInv, RecordsOwn, GoodJob, GoodQueue, Restoring, world
  <1>5. ChosenOK' /\ ClearsUnpreserved'
    BY <1>3 DEF ChosenOK, ClearsUnpreserved, GoodJob
  <1>6. OnlyOwnPolicies' /\ PreservedNeverErased'
    BY DEF OnlyOwnPolicies, PreservedNeverErased, TokensOf, world
  <1> QED  BY <1>2, <1>4, <1>5, <1>6 DEF Inv, OwnInv

(* The part of it that a step leaves alone.                                  *)
LEMMA Unmoved ==
  ASSUME Inv
  PROVE  /\ rows \in [Tokens -> SUBSET Policies]
         /\ \A k \in Tokens : rows[k] \subseteq asked[Owner[k]]
         /\ \A a \in Apps : PreserveConfig[a] = "true" =>
              asked[a] \subseteq UNION {rows[k] : k \in TokensOf(a)}
         /\ records \subseteq Records /\ \A r \in records : Owner[r.orig] = r.app
         /\ queue \in [Channels -> Seq(Events)] /\ \A d \in Channels : GoodQueue(queue[d])
         /\ faults \in 0..MaxFaults
  BY DEF Inv, OwnInv, TypeOK, OnlyOwnPolicies, PreservedNeverErased, RecordsOwn, GoodQueue

(* A step that changes no row and waits for no new event.                    *)
LEMMA JobFrame ==
  ASSUME Inv, NEW c \in Channels,
         \E j \in Jobs \cup {Idle} : job' = [job EXCEPT ![c] = j] /\ (j \in Jobs => GoodJob(j)),
         records' \subseteq Records, \A r \in records' : Owner[r.orig] = r.app,
         faults' \in 0..MaxFaults, UNCHANGED <<rows, queue, world>>
  PROVE  Inv'
  <1> PICK j \in Jobs \cup {Idle} : job' = [job EXCEPT ![c] = j] /\ (j \in Jobs => GoodJob(j))
    OBVIOUS
  <1>1. /\ rows' \in [Tokens -> SUBSET Policies]
        /\ \A k \in Tokens : rows'[k] \subseteq asked[Owner[k]]
        /\ \A a \in Apps : PreserveConfig[a] = "true" =>
             asked[a] \subseteq UNION {rows'[k] : k \in TokensOf(a)}
    BY Unmoved
  <1>2. queue' \in [Channels -> Seq(Events)] /\ \A d \in Channels : GoodQueue(queue'[d])
    BY Unmoved
  <1> QED  BY <1>1, <1>2, WorkFrame

(* A handler goes on with the same event and record.                         *)
LEMMA GotoJob ==
  ASSUME Inv, NEW c \in Channels, job[c] \in Jobs,
         NEW pc \in {"save", "read", "move", "finish", "dedupe"},
         pc \in Restoring => job[c].pc \in Restoring, Goto(c, pc)
  PROVE  \E j \in Jobs : job' = [job EXCEPT ![c] = j] /\ GoodJob(j)
  <1> DEFINE j == [job[c] EXCEPT !.pc = pc]
  <1>1. j \in Jobs /\ j.pc = pc /\ j.ev = job[c].ev /\ j.chosen = job[c].chosen
    BY DEF Jobs
  <1>2. GoodJob(j)
    BY <1>1, GoodJobs DEF GoodJob
  <1>3. job' = [job EXCEPT ![c] = j]
    BY DEF Goto
  <1> QED  BY <1>1, <1>2, <1>3

(* A package event starts a good job.                                         *)
LEMMA ReceiveStep ==
  ASSUME Inv, NEW c \in Channels, OnReceiveEvent(c)
  PROVE  Inv'
  <1> DEFINE e == Head(queue[c])
             pc == IF e.type = "add" THEN "fetch" ELSE FirstStep(PreserveConfig[e.app])
             j == IF pc = "none" THEN Idle
                  ELSE [pc |-> pc, ev |-> e, chosen |-> NoRecord, old |-> {}]
  <1>1. queue[c] \in Seq(Events) /\ queue[c] # <<>> /\ GoodQueue(queue[c])
    BY Unmoved DEF OnReceiveEvent
  <1>2. e \in Events /\ Owner[e.tok] = e.app
    BY <1>1 DEF GoodQueue
  <1>3. pc \in {"fetch", "forget", "clear", "none"} /\ (pc = "clear" => PreserveConfig[e.app] # "true")
    BY DEF FirstStep
  <1>4. job' = [job EXCEPT ![c] = j] /\ queue' = [queue EXCEPT ![c] = Tail(queue[c])]
        /\ UNCHANGED <<rows, records, world, faults>>
    BY DEF OnReceiveEvent
  <1> HIDE DEF e, pc
  <1>5. j \in Jobs \cup {Idle} /\ (j \in Jobs => GoodJob(j))
    BY <1>2, <1>3, IdleIsNoJob DEF Jobs, GoodJob, Restoring
  <1>6. queue' \in [Channels -> Seq(Events)] /\ \A d \in Channels : GoodQueue(queue'[d])
    <2>1. Tail(queue[c]) \in Seq(Events) /\ GoodQueue(Tail(queue[c]))
      BY <1>1 DEF GoodQueue
    <2> QED  BY <1>4, <2>1, Unmoved
  <1> HIDE DEF j
  <1> QED  BY <1>4, <1>5, <1>6, Unmoved, WorkFrame

(* Rows are deleted only for an application that is not preserved.           *)
LEMMA ClearStep ==
  ASSUME Inv, NEW c \in Channels, RemoveBundlePolicy(c)
  PROVE  Inv'
  <1> DEFINE k0 == job[c].ev.tok
  <1>1. job[c] \in Jobs /\ job[c].pc = "clear" /\ GoodJob(job[c])
    BY AtWork DEF RemoveBundlePolicy
  <1>2. k0 \in Tokens /\ PreserveConfig[Owner[k0]] # "true"
    BY <1>1 DEF Jobs, Events, GoodJob
  <1>3. /\ job' = [job EXCEPT ![c] = Idle] /\ rows' = [rows EXCEPT ![k0] = {}]
        /\ UNCHANGED <<records, world, queue, faults>>
    BY DEF RemoveBundlePolicy, Finish
  <1> HIDE DEF k0
  <1>4. /\ rows' \in [Tokens -> SUBSET Policies]
        /\ \A k \in Tokens : rows'[k] \subseteq asked[Owner[k]]
    BY <1>2, <1>3, Unmoved
  <1>5. ASSUME NEW a \in Apps, PreserveConfig[a] = "true"
        PROVE  asked[a] \subseteq UNION {rows'[k] : k \in TokensOf(a)}
    <2>1. \A k \in TokensOf(a) : k \in Tokens /\ rows'[k] = rows[k]
      BY <1>2, <1>3, <1>5, Unmoved DEF TokensOf
    <2> QED  BY <1>5, <2>1, Unmoved
  <1> QED  BY <1>3, <1>4, <1>5, IdleIsNoJob, Unmoved, WorkFrame

(* The deletion of the records of a bundle keeps the invariant.               *)
LEMMA DeleteRecordsStep ==
  ASSUME Inv, NEW c \in Channels, DeleteBundlePersistentPolicies(c)
  PROVE  Inv'
  <1>1. job[c] \in Jobs /\ job[c].pc \in {"forget", "finish"}
    BY AtWork DEF DeleteBundlePersistentPolicies
  <1>2. \E j \in Jobs \cup {Idle} : job' = [job EXCEPT ![c] = j] /\ (j \in Jobs => GoodJob(j))
    <2>1. CASE Goto(c, "save")
      BY <1>1, <2>1, GotoJob DEF Restoring
    <2>2. CASE Finish(c)
      BY <2>2, IdleIsNoJob DEF Finish
    <2> QED  BY <2>1, <2>2 DEF DeleteBundlePersistentPolicies
  <1>3. records' \subseteq records /\ UNCHANGED <<rows, world, queue, faults>>
    BY DEF DeleteBundlePersistentPolicies
  <1>4. records' \subseteq Records /\ \A r \in records' : Owner[r.orig] = r.app
    BY <1>3, Unmoved
  <1> QED  BY <1>2, <1>3, <1>4, Unmoved, JobFrame

(* The record that is saved names the token of the removed installation.     *)
LEMMA SaveStep ==
  ASSUME Inv, NEW c \in Channels, SaveBundlePersistentPolicies(c)
  PROVE  Inv'
  <1> DEFINE r == [app |-> job[c].ev.app, orig |-> job[c].ev.tok, ts |-> SaveTime]
  <1>1. job[c] \in Jobs /\ GoodJob(job[c])
    BY AtWork DEF SaveBundlePersistentPolicies
  <1>2. clock \in 0..MaxTime
    BY DEF Inv, OwnInv, TypeOK
  <1>3. r \in Records /\ Owner[r.orig] = r.app
    BY <1>1, <1>2 DEF Jobs, Events, Records, GoodJob, SaveTime
  <1>4. /\ records' = records \cup {r} /\ job' = [job EXCEPT ![c] = Idle]
        /\ UNCHANGED <<rows, world, queue, faults>>
    BY DEF SaveBundlePersistentPolicies, Finish
  <1> HIDE DEF r
  <1>5. records' \subseteq Records /\ \A s \in records' : Owner[s.orig] = s.app
    BY <1>3, <1>4, Unmoved
  <1> QED  BY <1>4, <1>5, IdleIsNoJob, Unmoved, JobFrame

(* So does the search for the record of a bundle.                             *)
LEMMA FindStep ==
  ASSUME Inv, NEW c \in Channels, FindBundleRecord(c)
  PROVE  Inv'
  <1> DEFINE found == RecordsFor(job[c].ev.app)
  <1>1. job[c] \in Jobs /\ job[c].pc = "fetch" /\ GoodJob(job[c])
    BY AtWork DEF FindBundleRecord
  <1>2. \A r \in found : r \in Records /\ Owner[r.orig] = job[c].ev.app
    BY Unmoved DEF RecordsFor
  <1>3. UNCHANGED <<rows, records, world, queue, faults>>
    BY DEF FindBundleRecord
  <1>4. \E j \in Jobs : job' = [job EXCEPT ![c] = j] /\ GoodJob(j)
    <2>1. CASE Goto(c, "finish")
      BY <1>1, <2>1, GotoJob DEF Restoring
    <2>2. ASSUME NEW r \in found, NEW pc \in {"read", "dedupe"},
                 job' = [job EXCEPT ![c].chosen = r, ![c].old = found \ {r}, ![c].pc = pc]
          PROVE  \E j \in Jobs : job' = [job EXCEPT ![c] = j] /\ GoodJob(j)
      <3> DEFINE j == [pc |-> pc, ev |-> job[c].ev, chosen |-> r, old |-> found \ {r}]
      <3> HIDE DEF found
      <3>1. j \in Jobs /\ GoodJob(j)
        BY <1>1, <1>2 DEF Jobs, GoodJob, Restoring
      <3>2. job'[c] = j /\ \A d \in Channels \ {c} : job'[d] = job[d]
        BY <1>1, <2>2 DEF Jobs, Inv, OwnInv, TypeOK
      <3>3. job' = [job EXCEPT ![c] = j]
        BY <2>2, <3>2 DEF Inv, OwnInv, TypeOK
      <3> QED  BY <3>1, <3>3
    <2>3. \/ Goto(c, "finish")
          \/ \E r \in found : \E pc \in {"read", "dedupe"} :
               job' = [job EXCEPT ![c].chosen = r, ![c].old = found \ {r}, ![c].pc = pc]
      BY DEF FindBundleRecord
    <2> QED  BY <2>1, <2>2, <2>3
  <1> QED  BY <1>3, <1>4, Unmoved, JobFrame

(* One of the older records is done with.                                    *)
LEMMA DedupeJob ==
  ASSUME Inv, NEW c \in Channels, job[c] \in Jobs, job[c].pc = "dedupe", NEW o,
         job' = [job EXCEPT ![c].old = @ \ {o},
                            ![c].pc = IF job[c].old = {o} THEN "read" ELSE "dedupe"]
  PROVE  \E j \in Jobs : job' = [job EXCEPT ![c] = j] /\ GoodJob(j)
  <1> DEFINE pc == IF job[c].old = {o} THEN "read" ELSE "dedupe"
             j == [pc |-> pc, ev |-> job[c].ev, chosen |-> job[c].chosen, old |-> job[c].old \ {o}]
  <1>1. pc \in {"read", "dedupe"} /\ job' = [job EXCEPT ![c].old = @ \ {o}, ![c].pc = pc]
    OBVIOUS
  <1> HIDE DEF pc
  <1>2. j \in Jobs /\ GoodJob(j)
    BY <1>1, GoodJobs DEF Jobs, GoodJob, Restoring
  <1>3. job'[c] = j /\ \A d \in Channels \ {c} : job'[d] = job[d]
    BY <1>1 DEF Jobs, Inv, OwnInv, TypeOK
  <1>4. job' = [job EXCEPT ![c] = j]
    BY <1>1, <1>3 DEF Inv, OwnInv, TypeOK
  <1> QED  BY <1>2, <1>4

(* So does deleting the other records of the bundle.                          *)
LEMMA DedupeStep ==
  ASSUME Inv, NEW c \in Channels, HandleDuplicateBundleRecords(c)
  PROVE  Inv'
  <1>1. job[c] \in Jobs /\ job[c].pc = "dedupe"
    BY AtWork DEF HandleDuplicateBundleRecords
  <1>2. \E j \in Jobs : job' = [job EXCEPT ![c] = j] /\ GoodJob(j)
    BY <1>1, DedupeJob DEF HandleDuplicateBundleRecords
  <1>3. records' \subseteq records /\ UNCHANGED <<rows, world, queue, faults>>
    BY DEF HandleDuplicateBundleRecords
  <1>4. records' \subseteq Records /\ \A r \in records' : Owner[r.orig] = r.app
    BY <1>3, Unmoved
  <1> QED  BY <1>2, <1>3, <1>4, Unmoved, JobFrame

(* So does reading the rows of the old token.                                 *)
LEMMA ReadStep ==
  ASSUME Inv, NEW c \in Channels, GetPersistedPoliciesByTokenId(c)
  PROVE  Inv'
  <1>1. job[c] \in Jobs /\ job[c].pc = "read"
    BY AtWork DEF GetPersistedPoliciesByTokenId
  <1>2. Goto(c, "finish") \/ Goto(c, "move")
    BY DEF GetPersistedPoliciesByTokenId
  <1>3. \E j \in Jobs : job' = [job EXCEPT ![c] = j] /\ GoodJob(j)
    BY <1>1, <1>2, GotoJob DEF Restoring
  <1> QED  BY <1>3, Unmoved, JobFrame DEF GetPersistedPoliciesByTokenId

(* Rows move between two tokens of one application, so nothing is lost and   *)
(* nobody else's rows change.                                                *)
LEMMA TakeOverKeeps ==
  ASSUME Inv, NEW orig \in Tokens, NEW new \in Tokens, Owner[orig] = Owner[new],
         rows' = TakenOver(orig, new)
  PROVE  /\ rows' \in [Tokens -> SUBSET Policies]
         /\ \A k \in Tokens : rows'[k] \subseteq asked[Owner[k]]
         /\ \A a \in Apps : PreserveConfig[a] = "true" =>
              asked[a] \subseteq UNION {rows'[k] : k \in TokensOf(a)}
  <1>1. CASE orig = new
    <2>1. rows' = rows
      BY <1>1 DEF TakenOver
    <2> QED  BY <2>1, Unmoved
  <1>2. CASE orig # new
    <2>1. /\ rows'[new] = rows[new] \cup rows[orig] /\ rows'[orig] = {}
          /\ \A k \in Tokens \ {orig, new} : rows'[k] = rows[k]
          /\ rows' \in [Tokens -> SUBSET Policies]
      BY <1>2, Unmoved DEF TakenOver
    <2>2. \A k \in Tokens : rows'[k] \subseteq asked[Owner[k]]
      BY <2>1, Unmoved
    <2>3. ASSUME NEW a \in Apps, PreserveConfig[a] = "true", NEW p \in asked[a]
          PROVE  \E k \in TokensOf(a) : p \in rows'[k]
      <3>1. PICK k \in TokensOf(a) : p \in rows[k]
        BY <2>3, Unmoved
      <3>2. CASE k = orig
        BY <2>1, <3>1, <3>2 DEF TokensOf
      <3>3. CASE k # orig
        BY <2>1, <3>1, <3>3 DEF TokensOf
      <3> QED  BY <3>2, <3>3
    <2> QED  BY <2>1, <2>2, <2>3
  <1> QED  BY <1>1, <1>2

(* So does moving the rows from the old token to the new one.                 *)
LEMMA MoveStep ==
  ASSUME Inv, NEW c \in Channels, RestoreBundlePersistentPolicies(c)
  PROVE  Inv'
  <1> DEFINE orig == job[c].chosen.orig
             new == job[c].ev.tok
  <1>1. job[c] \in Jobs /\ job[c].pc = "move" /\ GoodJob(job[c])
    BY AtWork DEF RestoreBundlePersistentPolicies
  <1>2. orig \in Tokens /\ new \in Tokens /\ Owner[orig] = Owner[new]
    BY <1>1 DEF Jobs, Events, Records, GoodJob, Restoring
  <1>3. UNCHANGED <<records, world, queue, faults>>
    BY DEF RestoreBundlePersistentPolicies
  <1>4. CASE Finish(c) /\ UNCHANGED rows
    BY <1>3, <1>4, IdleIsNoJob, Unmoved, WorkFrame DEF Finish
  <1>5. CASE Goto(c, "finish") /\ rows' = TakenOver(orig, new)
    <2>1. \E j \in Jobs : job' = [job EXCEPT ![c] = j] /\ GoodJob(j)
      BY <1>1, <1>5, GotoJob DEF Restoring
    <2>2. /\ rows' \in [Tokens -> SUBSET Policies]
          /\ \A k \in Tokens : rows'[k] \subseteq asked[Owner[k]]
          /\ \A a \in Apps : PreserveConfig[a] = "true" =>
               asked[a] \subseteq UNION {rows'[k] : k \in TokensOf(a)}
      BY <1>2, <1>5, TakeOverKeeps
    <2> QED  BY <1>3, <2>1, <2>2, Unmoved, WorkFrame
  <1> QED  BY <1>4, <1>5 DEF RestoreBundlePersistentPolicies

(* A database error changes no table; the job goes on or ends.                *)
LEMMA ErrorStep ==
  ASSUME Inv, NEW c \in Channels, DbError(c)
  PROVE  Inv'
  <1>1. job[c] \in Jobs
    BY DEF DbError, Inv, OwnInv, TypeOK
  <1>2. faults' \in 0..MaxFaults /\ UNCHANGED <<rows, records, world, queue>>
    BY OwnerAssumption, Unmoved DEF DbError
  <1>3. \E j \in Jobs \cup {Idle} : job' = [job EXCEPT ![c] = j] /\ (j \in Jobs => GoodJob(j))
    <2>1. CASE At(c, "forget") /\ Goto(c, "save")
      BY <1>1, <2>1, GotoJob DEF Restoring
    <2>2. ASSUME At(c, "dedupe"), NEW o,
                 job' = [job EXCEPT ![c].old = @ \ {o},
                                    ![c].pc = IF job[c].old = {o} THEN "read" ELSE "dedupe"]
          PROVE  \E j \in Jobs \cup {Idle} : job' = [job EXCEPT ![c] = j] /\ (j \in Jobs => GoodJob(j))
      BY <1>1, <2>2, DedupeJob DEF At
    <2>3. CASE Finish(c)
      BY <2>3, IdleIsNoJob DEF Finish
    <2> QED  BY <2>1, <2>2, <2>3 DEF DbError
  <1> QED  BY <1>2, <1>3, Unmoved, JobFrame

(* A crash loses the jobs and keeps the tables.                               *)
LEMMA CrashStep ==
  ASSUME Inv, Crash
  PROVE  Inv'
  <1>1. /\ job' = [c \in Channels |-> Idle] /\ faults' \in 0..MaxFaults
        /\ UNCHANGED <<rows, records, world>>
    BY OwnerAssumption, Unmoved DEF Crash
  <1>2. queue' \in [Channels -> Seq(Events)] /\ \A d \in Channels : GoodQueue(queue'[d])
    <2>1. GoodQueue(<<>>) /\ <<>> \in Seq(Events)
      BY DEF GoodQueue
    <2>2. queue' = [c \in Channels |-> IF c = "subscriber" THEN <<>> ELSE queue[c]]
      BY DEF Crash
    <2> QED  BY <2>1, <2>2, Unmoved
  <1>3. TypeOK'
    BY <1>1, <1>2 DEF Inv, OwnInv, TypeOK, world
  <1>4. RecordsOwn' /\ ChosenOK' /\ ClearsUnpreserved'
    BY <1>1, <1>2 DEF Inv, OwnInv, RecordsOwn, ChosenOK, ClearsUnpreserved, GoodQueue, world
  <1>5. OnlyOwnPolicies' /\ PreservedNeverErased'
    BY <1>1 DEF Inv, OwnInv, OnlyOwnPolicies, PreservedNeverErased, TokensOf, world
  <1> QED  BY <1>3, <1>4, <1>5 DEF Inv, OwnInv

-----------------------------------------------------------------------------
(* The system around the service *)

(* A posted event lengthens the queues by a good event.                       *)
LEMMA PostKeeps ==
  ASSUME Inv, NEW e \in Events, Owner[e.tok] = e.app, Post(e)
  PROVE  /\ queue' \in [Channels -> Seq(Events)] /\ \A d \in Channels : GoodQueue(queue'[d])
         /\ events' \in 0..MaxEvents
  <1>1. events' \in 0..MaxEvents
    BY OwnerAssumption DEF Inv, OwnInv, TypeOK, Post
  <1>2. \A d \in Channels : queue'[d] = queue[d] \/ queue'[d] = Append(queue[d], e)
    BY DEF Post
  <1>3. \A d \in Channels : Append(queue[d], e) \in Seq(Events) /\ GoodQueue(Append(queue[d], e))
    BY Unmoved DEF GoodQueue
  <1>4. \A d \in Channels : queue'[d] \in Seq(Events) /\ GoodQueue(queue'[d])
    BY <1>2, <1>3, Unmoved
  <1>5. queue' = [d \in Channels |-> queue'[d]]
    BY DEF Post
  <1> QED  BY <1>1, <1>4, <1>5

(* An installation, a removal or a clearing only queues its event.           *)
LEMMA PackageFrame ==
  ASSUME Inv, UNCHANGED <<rows, records, job, clock, faults, asked, early>>,
         used' \subseteq Tokens, installed' \in [Apps -> Tokens \cup {NoToken}],
         \A a \in Apps : installed'[a] # NoToken => Owner[installed'[a]] = a,
         queue' \in [Channels -> Seq(Events)], \A d \in Channels : GoodQueue(queue'[d]),
         events' \in 0..MaxEvents
  PROVE  Inv'
  <1>1. TypeOK'
    BY DEF Inv, OwnInv, TypeOK
  <1>2. RecordsOwn' /\ ChosenOK' /\ ClearsUnpreserved'
    BY DEF Inv, OwnInv, RecordsOwn, ChosenOK, ClearsUnpreserved, GoodQueue
  <1>3. OnlyOwnPolicies' /\ PreservedNeverErased'
    BY DEF Inv, OwnInv, OnlyOwnPolicies, PreservedNeverErased, TokensOf
  <1> QED  BY <1>1, <1>2, <1>3 DEF Inv, OwnInv

(* An installed application has a token of its own.                           *)
LEMMA InstalledOwn ==
  Inv => /\ installed \in [Apps -> Tokens \cup {NoToken}] /\ used \subseteq Tokens
         /\ \A a \in Apps : installed[a] # NoToken => Owner[installed[a]] = a
  BY DEF Inv, OwnInv, TypeOK, RecordsOwn

(* Installing, uninstalling and clearing data keep the invariant.             *)
LEMMA PackageStep ==
  ASSUME Inv, NEW a \in Apps, Install(a) \/ Uninstall(a) \/ ClearData(a)
  PROVE  Inv'
  <1>1. CASE Install(a)
    <2> PICK k \in Tokens \ used :
          /\ Owner[k] = a
          /\ installed' = [installed EXCEPT ![a] = k]
          /\ used' = used \cup {k}
          /\ Post([type |-> "add", app |-> a, tok |-> k])
      BY <1>1 DEF Install
    <2> DEFINE e == [type |-> "add", app |-> a, tok |-> k]
    <2>1. e \in Events /\ Owner[e.tok] = e.app /\ Post(e)
      BY DEF Events
    <2> HIDE DEF e
    <2>2. /\ queue' \in [Channels -> Seq(Events)] /\ \A d \in Channels : GoodQueue(queue'[d])
          /\ events' \in 0..MaxEvents
      BY <2>1, PostKeeps
    <2>3. /\ used' \subseteq Tokens /\ installed' \in [Apps -> Tokens \cup {NoToken}]
          /\ \A b \in Apps : installed'[b] # NoToken => Owner[installed'[b]] = b
      BY InstalledOwn
    <2> QED  BY <1>1, <2>2, <2>3, PackageFrame DEF Install
  <1>2. CASE Uninstall(a) \/ ClearData(a)
    <2> DEFINE e == [type |-> "remove", app |-> a, tok |-> installed[a]]
    <2>1. e \in Events /\ Owner[e.tok] = e.app /\ Post(e)
      BY <1>2, InstalledOwn DEF Uninstall, ClearData, Events
    <2> HIDE DEF e
    <2>2. /\ queue' \in [Channels -> Seq(Events)] /\ \A d \in Channels : GoodQueue(queue'[d])
          /\ events' \in 0..MaxEvents
      BY <2>1, PostKeeps
    <2>3. /\ used' \subseteq Tokens /\ installed' \in [Apps -> Tokens \cup {NoToken}]
          /\ \A b \in Apps : installed'[b] # NoToken => Owner[installed'[b]] = b
          /\ UNCHANGED <<rows, records, job, clock, faults, asked, early>>
      BY <1>2, InstalledOwn DEF Uninstall, ClearData
    <2> QED  BY <2>2, <2>3, PackageFrame
  <1> QED  BY <1>1, <1>2

(* The application persists one more policy under its present token.         *)
LEMMA PersistStep ==
  ASSUME Inv, NEW a \in Apps, Persist(a)
  PROVE  Inv'
  <1> DEFINE k0 == installed[a]
  <1>1. k0 \in Tokens /\ Owner[k0] = a
    BY InstalledOwn DEF Persist
  <1> PICK p \in Policies :
        /\ rows' = [rows EXCEPT ![k0] = @ \cup {p}]
        /\ asked' = [asked EXCEPT ![a] = @ \cup {p}]
    BY DEF Persist
  <1> HIDE DEF k0
  <1>2. asked \in [Apps -> SUBSET Policies] /\ early \subseteq Apps
    BY DEF Inv, OwnInv, TypeOK
  <1>3. TypeOK'
    BY <1>1, <1>2, Unmoved DEF Inv, OwnInv, TypeOK, Persist
  <1>4. RecordsOwn' /\ ChosenOK' /\ ClearsUnpreserved'
    BY DEF Inv, OwnInv, RecordsOwn, ChosenOK, ClearsUnpreserved, Persist
  <1>5. OnlyOwnPolicies'
    BY <1>1, <1>2, Unmoved, OwnerAssumption DEF OnlyOwnPolicies
  <1>6. PreservedNeverErased'
    <2> SUFFICES ASSUME NEW b \in Apps, PreserveConfig[b] = "true", NEW q \in asked'[b]
                 PROVE  \E k \in TokensOf(b) : q \in rows'[k]
      BY DEF PreservedNeverErased, TokensOf
    <2>1. CASE q \in asked[b]
      <3> PICK k \in TokensOf(b) : q \in rows[k]
        BY <2>1, Unmoved
      <3> QED  BY <1>1, Unmoved DEF TokensOf
    <2>2. CASE q \notin asked[b]
      BY <1>1, <1>2, <2>2, Unmoved DEF TokensOf
    <2> QED  BY <2>1, <2>2
  <1> QED  BY <1>3, <1>4, <1>5, <1>6 DEF Inv, OwnInv

(* Every step keeps the invariant.                                            *)
LEMMA NextInv == Inv /\ [Next]_vars => Inv'
  <1> SUFFICES ASSUME Inv, [Next]_vars PROVE Inv'
    OBVIOUS
  <1>1. ASSUME NEW a \in Apps, Install(a) \/ Uninstall(a) \/ ClearData(a) \/ Persist(a)
        PROVE  Inv'
    BY <1>1, PackageStep, PersistStep
  <1>2. ASSUME NEW c \in Channels, Work(c)
        PROVE  Inv'
    BY <1>2, ReceiveStep, ClearStep, DeleteRecordsStep, SaveStep, FindStep, DedupeStep, ReadStep,
       MoveStep, ErrorStep DEF Work
  <1>3. CASE Tick
    <2>1. clock' \in 0..MaxTime
      BY <1>3, OwnerAssumption DEF Tick, Inv, OwnInv, TypeOK
    <2> QED  BY <1>3, <2>1 DEF Tick, Inv, OwnInv, TypeOK, OnlyOwnPolicies, RecordsOwn, ChosenOK,
               ClearsUnpreserved, PreservedNeverErased, TokensOf
  <1>4. CASE UNCHANGED vars
    BY <1>4 DEF vars, Inv, OwnInv, TypeOK, OnlyOwnPolicies, RecordsOwn, ChosenOK,
       ClearsUnpreserved, PreservedNeverErased, TokensOf
  <1> QED  BY <1>1, <1>2, <1>3, <1>4, CrashStep DEF Next

(* The tables, the queues of both channels and their jobs keep their types    *)
(* (PersistentPreserve and the package events).                               *)
THEOREM TypeCorrect == Spec => []TypeOK
  <1>1. Inv => TypeOK
    BY DEF Inv, OwnInv
  <1> QED  BY <1>1, InitInv, NextInv, PTL DEF Spec

(* No application inherits what another one persisted: events that are lost, *)
(* doubled or overtaken, two restores at a time, failing accesses and        *)
(* crashes included (RestoreBundlePersistentPolicies moves rows only between *)
(* tokens of one application).                                               *)
THEOREM PoliciesStayWithTheirOwner == Spec => []OnlyOwnPolicies
  <1>1. Inv => OnlyOwnPolicies
    BY DEF Inv, OwnInv
  <1> QED  BY <1>1, InitInv, NextInv, PTL DEF Spec

(* What a preserved application persisted stays in the table, under one of   *)
(* its tokens (OnReceiveEventRemove, RestoreBundlePersistentPolicies).       *)
THEOREM PreservedPoliciesSurvive == Spec => []PreservedNeverErased
  <1>1. Inv => PreservedNeverErased
    BY DEF Inv
  <1> QED  BY <1>1, InitInv, NextInv, PTL DEF Spec

-----------------------------------------------------------------------------
(* Without failing accesses: rows of removed installations                   *)

(* Only preserved applications have records, and only their events are kept. *)
RecordsPreserved ==
  /\ \A r \in records : PreserveConfig[r.app] = "true"
  /\ \A c \in Channels :
       job[c] # Idle /\ job[c].pc \in {"forget", "save"} \cup Restoring =>
         PreserveConfig[job[c].ev.app] = "true"

(* Somebody is going to delete the rows of token k.                          *)
ErasePending(k) ==
  \E c \in Channels :
    \/ \E i \in 1..Len(queue[c]) : queue[c][i].type = "remove" /\ queue[c][i].tok = k
    \/ job[c] # Idle /\ job[c].pc = "clear" /\ job[c].ev.tok = k

(* A row under the token of an earlier installation waits for its deletion.  *)
LeftoversPending ==
  \A a \in Apps : PreserveConfig[a] = "false" =>
    \A k \in TokensOf(a) \ {installed[a]} : rows[k] # {} => ErasePending(k)

EraseInv == Inv /\ RecordsPreserved /\ LeftoversPending

(* Without faults allowed no access fails and nothing crashes.               *)
LEMMA NoFaults ==
  ASSUME Inv, MaxFaults = 0
  PROVE  ~ Crash /\ \A c \in Channels : ~ DbError(c)
  BY DEF Inv, OwnInv, TypeOK, Crash, DbError

(* A handler that is not deleting leaves every deletion pending.             *)
LEMMA StillPending ==
  ASSUME Inv, NEW c \in Channels, NEW j, job' = [job EXCEPT ![c] = j], UNCHANGED queue,
         NEW k, ErasePending(k), job[c].pc # "clear" \/ job[c].ev.tok # k
  PROVE  ErasePending(k)'
  <1> PICK d \in Channels :
        \/ \E i \in 1..Len(queue[d]) : queue[d][i].type = "remove" /\ queue[d][i].tok = k
        \/ job[d] # Idle /\ job[d].pc = "clear" /\ job[d].ev.tok = k
    BY DEF ErasePending
  <1>1. CASE \E i \in 1..Len(queue[d]) : queue[d][i].type = "remove" /\ queue[d][i].tok = k
    BY <1>1 DEF ErasePending
  <1>2. CASE job[d] # Idle /\ job[d].pc = "clear" /\ job[d].ev.tok = k
    <2>1. job'[d] = job[d]
      BY <1>2 DEF Inv, OwnInv, TypeOK
    <2> QED  BY <1>2, <2>1 DEF ErasePending
  <1> QED  BY <1>1, <1>2

(* A step of the service that leaves no row of a removed application behind. *)
LEMMA EraseFrame ==
  ASSUME EraseInv, Inv', NEW c \in Channels, NEW j, job' = [job EXCEPT ![c] = j], UNCHANGED world,
         j # Idle /\ j.pc \in {"forget", "save"} \cup Restoring => PreserveConfig[j.ev.app] = "true",
         \A r \in records' : PreserveConfig[r.app] = "true",
         \A k \in Tokens : PreserveConfig[Owner[k]] = "false" /\ rows'[k] # {} =>
           rows[k] # {} /\ (ErasePending(k) => ErasePending(k)')
  PROVE  EraseInv'
  <1>1. \A d \in Channels : job'[d] = IF d = c THEN j ELSE job[d]
    BY DEF EraseInv, Inv, OwnInv, TypeOK
  <1>2. RecordsPreserved'
    BY <1>1 DEF EraseInv, RecordsPreserved
  <1>3. LeftoversPending'
    BY DEF EraseInv, LeftoversPending, TokensOf, world
  <1> QED  BY <1>2, <1>3 DEF EraseInv

(* The same for a step that deletes no row.                                  *)
LEMMA EraseJobFrame ==
  ASSUME EraseInv, Inv', NEW c \in Channels, NEW j, job' = [job EXCEPT ![c] = j],
         UNCHANGED <<world, queue>>, job[c].pc # "clear",
         j # Idle /\ j.pc \in {"forget", "save"} \cup Restoring => PreserveConfig[j.ev.app] = "true",
         \A r \in records' : PreserveConfig[r.app] = "true",
         \A k \in Tokens : PreserveConfig[Owner[k]] = "false" => rows'[k] = rows[k]
  PROVE  EraseInv'
  <1>1. \A k \in Tokens : PreserveConfig[Owner[k]] = "false" /\ rows'[k] # {} =>
          rows[k] # {} /\ (ErasePending(k) => ErasePending(k)')
    BY StillPending DEF EraseInv
  <1> QED  BY <1>1, EraseFrame

(* The removal of an application that is not preserved is handled next or    *)
(* still waits.                                                              *)
LEMMA ReceiveErase ==
  ASSUME EraseInv, NEW c \in Channels, OnReceiveEvent(c)
  PROVE  EraseInv'
  <1> DEFINE e == Head(queue[c])
             pc == IF e.type = "add" THEN "fetch" ELSE FirstStep(PreserveConfig[e.app])
             j == IF pc = "none" THEN Idle
                  ELSE [pc |-> pc, ev |-> e, chosen |-> NoRecord, old |-> {}]
  <1>1. Inv /\ Inv'
    BY ReceiveStep DEF EraseInv
  <1>2. queue[c] \in Seq(Events) /\ queue[c] # <<>> /\ GoodQueue(queue[c])
    BY <1>1, Unmoved DEF OnReceiveEvent
  <1>3. e \in Events /\ Owner[e.tok] = e.app /\ e = queue[c][1]
    BY <1>2 DEF GoodQueue
  <1>4. /\ job[c] = Idle /\ job' = [job EXCEPT ![c] = j]
        /\ queue' = [queue EXCEPT ![c] = Tail(queue[c])] /\ UNCHANGED <<rows, records, world, faults>>
    BY DEF OnReceiveEvent
  <1>5. j # Idle /\ j.pc \in {"forget", "save"} \cup Restoring => PreserveConfig[j.ev.app] = "true"
    BY <1>3 DEF FirstStep, Restoring
  <1>6. e.type = "remove" /\ PreserveConfig[e.app] = "false" => j # Idle /\ j.pc = "clear" /\ j.ev = e
    BY DEF FirstStep, Idle
  <1> HIDE DEF e, j
  <1>7. ASSUME NEW k \in Tokens, PreserveConfig[Owner[k]] = "false", ErasePending(k)
        PROVE  ErasePending(k)'
    <2> PICK d \in Channels :
          \/ \E i \in 1..Len(queue[d]) : queue[d][i].type = "remove" /\ queue[d][i].tok = k
          \/ job[d] # Idle /\ job[d].pc = "clear" /\ job[d].ev.tok = k
      BY <1>7 DEF ErasePending
    <2>1. ASSUME d # c  PROVE ErasePending(k)'
      <3>1. job'[d] = job[d] /\ queue'[d] = queue[d]
        BY <1>1, <1>4, <2>1 DEF Inv, OwnInv, TypeOK
      <3> QED  BY <3>1 DEF ErasePending
    <2>2. ASSUME d = c  PROVE ErasePending(k)'
      <3> PICK i \in 1..Len(queue[c]) : queue[c][i].type = "remove" /\ queue[c][i].tok = k
        BY <1>4, <2>2
      <3>1. job'[c] = j /\ queue'[c] = Tail(queue[c])
        BY <1>1, <1>4 DEF Inv, OwnInv, TypeOK
      <3>2. CASE i = 1
        BY <1>3, <1>6, <1>7, <3>1, <3>2 DEF ErasePending
      <3>3. CASE i # 1
        <4>1. i - 1 \in 1..Len(Tail(queue[c])) /\ Tail(queue[c])[i - 1] = queue[c][i]
          BY <1>2, <3>3
        <4> QED  BY <3>1, <4>1 DEF ErasePending
      <3> QED  BY <3>2, <3>3
    <2> QED  BY <2>1, <2>2
  <1>8. \A r \in records' : PreserveConfig[r.app] = "true"
    BY <1>4 DEF EraseInv, RecordsPreserved
  <1> QED  BY <1>1, <1>4, <1>5, <1>7, <1>8, EraseFrame

(* Deleting the rows of the removed token settles what was pending for it.   *)
LEMMA ClearErase ==
  ASSUME EraseInv, NEW c \in Channels, RemoveBundlePolicy(c)
  PROVE  EraseInv'
  <1>1. Inv /\ Inv'
    BY ClearStep DEF EraseInv
  <1>2. job[c] \in Jobs /\ job[c].ev.tok \in Tokens
    BY <1>1, AtWork DEF RemoveBundlePolicy, Jobs, Events
  <1>3. /\ job' = [job EXCEPT ![c] = Idle] /\ rows' = [rows EXCEPT ![job[c].ev.tok] = {}]
        /\ UNCHANGED <<records, world, queue>>
    BY DEF RemoveBundlePolicy, Finish
  <1>4. \A k \in Tokens : rows'[k] # {} => k # job[c].ev.tok /\ rows[k] # {}
    BY <1>1, <1>2, <1>3, Unmoved
  <1>5. \A k \in Tokens : rows'[k] # {} => rows[k] # {} /\ (ErasePending(k) => ErasePending(k)')
    BY <1>1, <1>3, <1>4, StillPending
  <1>6. \A r \in records' : PreserveConfig[r.app] = "true"
    BY <1>3 DEF EraseInv, RecordsPreserved
  <1> QED  BY <1>1, <1>3, <1>5, <1>6, EraseFrame

(* The steps that change neither rows nor the event of their handler.        *)
LEMMA GotoErase ==
  ASSUME EraseInv, Inv', NEW c \in Channels, job[c] \in Jobs, job[c].pc # "clear",
         NEW pc, Goto(c, pc), pc \in {"forget", "save"} \cup Restoring => PreserveConfig[job[c].ev.app] = "true",
         \A r \in records' : PreserveConfig[r.app] = "true", UNCHANGED <<rows, world, queue>>
  PROVE  EraseInv'
  <1> DEFINE j == [job[c] EXCEPT !.pc = pc]
  <1>1. j.pc = pc /\ j.ev = job[c].ev /\ job' = [job EXCEPT ![c] = j]
    BY DEF Jobs, Goto
  <1> HIDE DEF j
  <1> QED  BY <1>1, EraseJobFrame

(* So is a handler that ends.                                                *)
LEMMA FinishErase ==
  ASSUME EraseInv, Inv', NEW c \in Channels, job[c] \in Jobs, job[c].pc # "clear", Finish(c),
         \A r \in records' : PreserveConfig[r.app] = "true", UNCHANGED <<rows, world, queue>>
  PROVE  EraseInv'
  BY EraseJobFrame DEF Finish

(* Deleting and saving records.                                              *)
LEMMA RecordErase ==
  ASSUME EraseInv, NEW c \in Channels,
         DeleteBundlePersistentPolicies(c) \/ SaveBundlePersistentPolicies(c)
  PROVE  EraseInv'
  <1>1. Inv /\ Inv'
    BY DeleteRecordsStep, SaveStep DEF EraseInv
  <1>2. job[c] \in Jobs /\ job[c].pc \in {"forget", "finish", "save"}
    BY <1>1, AtWork DEF DeleteBundlePersistentPolicies, SaveBundlePersistentPolicies
  <1>3. job[c].pc \in {"forget", "save"} => PreserveConfig[job[c].ev.app] = "true"
    BY <1>2, IdleIsNoJob DEF EraseInv, RecordsPreserved
  <1>4. UNCHANGED <<rows, world, queue>>
    BY DEF DeleteBundlePersistentPolicies, SaveBundlePersistentPolicies
  <1>5. \A r \in records' : PreserveConfig[r.app] = "true"
    BY <1>3, AtWork DEF DeleteBundlePersistentPolicies, SaveBundlePersistentPolicies, At,
       EraseInv, RecordsPreserved
  <1>6. CASE job[c].pc = "forget" /\ Goto(c, "save")
    BY <1>1, <1>2, <1>3, <1>4, <1>5, <1>6, GotoErase
  <1>7. CASE Finish(c)
    BY <1>1, <1>2, <1>4, <1>5, <1>7, FinishErase
  <1> QED  BY <1>6, <1>7 DEF DeleteBundlePersistentPolicies, SaveBundlePersistentPolicies, At

(* Only a preserved application's record is found.                           *)
LEMMA FindErase ==
  ASSUME EraseInv, NEW c \in Channels, FindBundleRecord(c)
  PROVE  EraseInv'
  <1>1. Inv /\ Inv'
    BY FindStep DEF EraseInv
  <1>2. job[c] \in Jobs /\ job[c].pc = "fetch"
    BY <1>1, AtWork DEF FindBundleRecord
  <1>3. UNCHANGED <<rows, records, world, queue>>
    BY DEF FindBundleRecord
  <1>4. \A r \in records' : PreserveConfig[r.app] = "true"
    BY <1>3 DEF EraseInv, RecordsPreserved
  <1>5. CASE Goto(c, "finish")
    BY <1>1, <1>2, <1>3, <1>4, <1>5, GotoErase DEF Restoring
  <1>6. CASE ~ Goto(c, "finish")
    <2> DEFINE found == RecordsFor(job[c].ev.app)
    <2>1. PICK r \in found, pc \in {"read", "dedupe"} :
            job' = [job EXCEPT ![c].chosen = r, ![c].old = found \ {r}, ![c].pc = pc]
      BY <1>6 DEF FindBundleRecord
    <2>2. PreserveConfig[job[c].ev.app] = "true"
      BY DEF EraseInv, RecordsPreserved, RecordsFor
    <2> DEFINE j == [pc |-> pc, ev |-> job[c].ev, chosen |-> r, old |-> found \ {r}]
    <2> HIDE DEF found
    <2>3. job'[c] = j /\ \A d \in Channels \ {c} : job'[d] = job[d]
      BY <1>1, <1>2, <2>1 DEF Jobs, Inv, OwnInv, TypeOK
    <2>4. job' = [job EXCEPT ![c] = j]
      BY <1>1, <2>1, <2>3 DEF Inv, OwnInv, TypeOK
    <2>5. j.ev = job[c].ev
      OBVIOUS
    <2> HIDE DEF j
    <2> QED  BY <1>1, <1>2, <1>3, <1>4, <2>2, <2>4, <2>5, EraseJobFrame
  <1> QED  BY <1>5, <1>6

(* Deleting an older record leaves the event and its application.            *)
LEMMA DedupeErase ==
  ASSUME EraseInv, NEW c \in Channels, HandleDuplicateBundleRecords(c)
  PROVE  EraseInv'
  <1>1. Inv /\ Inv'
    BY DedupeStep DEF EraseInv
  <1>2. job[c] \in Jobs /\ job[c].pc = "dedupe"
    BY <1>1, AtWork DEF HandleDuplicateBundleRecords
  <1>3. UNCHANGED <<rows, world, queue>> /\ records' \subseteq records
    BY DEF HandleDuplicateBundleRecords
  <1>4. \A r \in records' : PreserveConfig[r.app] = "true"
    BY <1>3 DEF EraseInv, RecordsPreserved
  <1>5. PICK o, pc : job' = [job EXCEPT ![c].old = @ \ {o}, ![c].pc = pc]
    BY DEF HandleDuplicateBundleRecords
  <1>6. PreserveConfig[job[c].ev.app] = "true"
    BY <1>2, IdleIsNoJob DEF EraseInv, RecordsPreserved, Restoring
  <1> DEFINE j == [pc |-> pc, ev |-> job[c].ev, chosen |-> job[c].chosen, old |-> job[c].old \ {o}]
  <1>7. job'[c] = j /\ \A d \in Channels \ {c} : job'[d] = job[d]
    BY <1>1, <1>2, <1>5 DEF Jobs, Inv, OwnInv, TypeOK
  <1>8. job' = [job EXCEPT ![c] = j]
    BY <1>1, <1>5, <1>7 DEF Inv, OwnInv, TypeOK
  <1>9. j.ev = job[c].ev
    OBVIOUS
  <1> HIDE DEF j
  <1> QED  BY <1>1, <1>2, <1>3, <1>4, <1>6, <1>8, <1>9, EraseJobFrame

(* Rows move only between tokens of a preserved application.                 *)
LEMMA RestoreErase ==
  ASSUME EraseInv, NEW c \in Channels,
         GetPersistedPoliciesByTokenId(c) \/ RestoreBundlePersistentPolicies(c)
  PROVE  EraseInv'
  <1>1. Inv /\ Inv'
    BY ReadStep, MoveStep DEF EraseInv
  <1>2. job[c] \in Jobs /\ job[c].pc \in {"read", "move"} /\ GoodJob(job[c])
    BY <1>1, AtWork DEF GetPersistedPoliciesByTokenId, RestoreBundlePersistentPolicies
  <1>3. PreserveConfig[job[c].ev.app] = "true"
    BY <1>2, IdleIsNoJob DEF EraseInv, RecordsPreserved, Restoring
  <1>4. UNCHANGED <<records, world, queue>>
    BY DEF GetPersistedPoliciesByTokenId, RestoreBundlePersistentPolicies
  <1>5. \A r \in records' : PreserveConfig[r.app] = "true"
    BY <1>4 DEF EraseInv, RecordsPreserved
  <1> DEFINE orig == job[c].chosen.orig
             new == job[c].ev.tok
  <1>6. orig \in Tokens /\ new \in Tokens /\ Owner[orig] = job[c].ev.app /\ Owner[new] = job[c].ev.app
    BY <1>2 DEF Jobs, Events, Records, GoodJob, Restoring
  <1>7. CASE UNCHANGED rows /\ (Goto(c, "finish") \/ Goto(c, "move"))
    BY <1>1, <1>2, <1>3, <1>4, <1>5, <1>7, GotoErase
  <1>8. CASE UNCHANGED rows /\ Finish(c)
    BY <1>1, <1>2, <1>4, <1>5, <1>8, FinishErase
  <1>9. CASE Goto(c, "finish") /\ rows' = TakenOver(orig, new)
    <2> DEFINE j == [job[c] EXCEPT !.pc = "finish"]
    <2>1. j.pc = "finish" /\ job' = [job EXCEPT ![c] = j]
      BY <1>2, <1>9 DEF Jobs, Goto
    <2> HIDE DEF j
    <2>2. \A k \in Tokens : PreserveConfig[Owner[k]] = "false" => rows'[k] = rows[k]
      <3> HIDE DEF orig, new
      <3> QED  BY <1>1, <1>3, <1>6, <1>9, Unmoved DEF TakenOver
    <2> QED  BY <1>1, <1>2, <1>4, <1>5, <2>1, <2>2, EraseJobFrame DEF Restoring
  <1> QED  BY <1>7, <1>8, <1>9 DEF GetPersistedPoliciesByTokenId, RestoreBundlePersistentPolicies

(* A posted event stays behind the ones that wait.                           *)
LEMMA PostPending ==
  ASSUME Inv, NEW e \in Events, Post(e), UNCHANGED job
  PROVE  /\ \A k : ErasePending(k) => ErasePending(k)'
         /\ e.type = "remove" => ErasePending(e.tok)'
  <1>1. PICK to \in (SUBSET Channels) \ {{}} :
          queue' = [c \in Channels |-> IF c \in to THEN Append(queue[c], e) ELSE queue[c]]
    BY DEF Post
  <1>2. \A d \in Channels : queue[d] \in Seq(Events)
    BY Unmoved
  <1>3. \A d \in Channels : \A i \in 1..Len(queue[d]) :
          i \in 1..Len(queue'[d]) /\ queue'[d][i] = queue[d][i]
    BY <1>1, <1>2
  <1>4. \A d \in to : d \in Channels /\ \E i \in 1..Len(queue'[d]) : queue'[d][i] = e
    <2> TAKE d \in to
    <2>1. queue'[d] = Append(queue[d], e) /\ queue[d] \in Seq(Events)
      BY <1>1, <1>2
    <2>2. Len(queue[d]) + 1 \in 1..Len(queue'[d]) /\ queue'[d][Len(queue[d]) + 1] = e
      BY <2>1
    <2> QED  BY <2>2
  <1>5. ASSUME NEW k, ErasePending(k)  PROVE ErasePending(k)'
    <2> PICK d \in Channels :
          \/ \E i \in 1..Len(queue[d]) : queue[d][i].type = "remove" /\ queue[d][i].tok = k
          \/ job[d] # Idle /\ job[d].pc = "clear" /\ job[d].ev.tok = k
      BY <1>5 DEF ErasePending
    <2> QED  BY <1>3 DEF ErasePending
  <1>6. ASSUME e.type = "remove"  PROVE ErasePending(e.tok)'
    BY <1>4, <1>6 DEF ErasePending
  <1> QED  BY <1>5, <1>6

(* A removal announces the deletion of the rows it leaves.                   *)
LEMMA PackageErase ==
  ASSUME EraseInv, NEW a \in Apps, Install(a) \/ Uninstall(a) \/ ClearData(a)
  PROVE  EraseInv'
  <1>1. Inv /\ Inv'
    BY PackageStep DEF EraseInv
  <1>2. UNCHANGED <<rows, records, job>>
    BY DEF Install, Uninstall, ClearData
  <1>3. RecordsPreserved'
    BY <1>2 DEF EraseInv, RecordsPreserved
  <1>4. \A k : ErasePending(k) => ErasePending(k)'
    <2>1. ASSUME NEW k \in Tokens, Post([type |-> "add", app |-> a, tok |-> k])
          PROVE  \A l : ErasePending(l) => ErasePending(l)'
      BY <1>1, <1>2, <2>1, PostPending DEF Events
    <2>2. ASSUME installed[a] # NoToken, Post([type |-> "remove", app |-> a, tok |-> installed[a]])
          PROVE  \A l : ErasePending(l) => ErasePending(l)'
      BY <1>1, <1>2, <2>2, InstalledOwn, PostPending DEF Events
    <2> QED  BY <2>1, <2>2 DEF Install, Uninstall, ClearData
  <1>5. \A b \in Apps \ {a} : installed'[b] = installed[b]
    BY <1>1, InstalledOwn DEF Install, Uninstall, ClearData
  <1>6. ASSUME NEW k \in Tokens, k # installed'[a]
        PROVE  k # installed[a] \/ ErasePending(k)'
    <2>1. CASE Install(a)
      BY <2>1, NoneAssumption DEF Install
    <2>2. CASE ClearData(a)
      BY <1>6, <2>2 DEF ClearData
    <2>3. CASE Uninstall(a) /\ k = installed[a]
      <3> DEFINE e == [type |-> "remove", app |-> a, tok |-> k]
      <3>1. e \in Events /\ Post(e) /\ e.type = "remove" /\ e.tok = k
        BY <2>3 DEF Events, Uninstall
      <3> HIDE DEF e
      <3> QED  BY <1>1, <1>2, <3>1, PostPending
    <2> QED  BY <2>1, <2>2, <2>3
  <1>7. LeftoversPending'
    <2> SUFFICES ASSUME NEW b \in Apps, PreserveConfig[b] = "false",
                        NEW k \in TokensOf(b) \ {installed'[b]}, rows'[k] # {}
                 PROVE  ErasePending(k)'
      BY DEF LeftoversPending, TokensOf
    <2>1. k \in Tokens /\ rows[k] # {}
      BY <1>2 DEF TokensOf
    <2>2. CASE k # installed[b]
      BY <1>4, <2>1, <2>2 DEF EraseInv, LeftoversPending
    <2>3. CASE k = installed[b]
      BY <1>5, <1>6, <2>1, <2>3
    <2> QED  BY <2>2, <2>3
  <1> QED  BY <1>1, <1>3, <1>7 DEF EraseInv

(* A policy is persisted under the present token only.                       *)
LEMMA PersistErase ==
  ASSUME EraseInv, NEW a \in Apps, Persist(a)
  PROVE  EraseInv'
  <1>1. Inv /\ Inv'
    BY PersistStep DEF EraseInv
  <1>2. UNCHANGED <<records, job, installed, queue>>
    BY DEF Persist
  <1>3. RecordsPreserved'
    BY <1>2 DEF EraseInv, RecordsPreserved
  <1>4. \A k \in Tokens : k # installed[a] => rows'[k] = rows[k]
    BY <1>1, Unmoved DEF Persist
  <1>5. installed[a] \in Tokens /\ Owner[installed[a]] = a
    BY <1>1, InstalledOwn DEF Persist
  <1>6. \A k : ErasePending(k) => ErasePending(k)'
    BY <1>2 DEF ErasePending
  <1>7. LeftoversPending'
    BY <1>2, <1>4, <1>5, <1>6 DEF EraseInv, LeftoversPending, TokensOf
  <1> QED  BY <1>1, <1>3, <1>7 DEF EraseInv

(* Every step leaves the rows of a removed installation to a deletion that   *)
(* is pending.                                                               *)
LEMMA NextErase == MaxFaults = 0 /\ EraseInv /\ [Next]_vars => EraseInv'
  <1> SUFFICES ASSUME MaxFaults = 0, EraseInv, [Next]_vars  PROVE EraseInv'
    OBVIOUS
  <1>1. Inv /\ Inv'
    BY NextInv DEF EraseInv
  <1>2. ASSUME NEW a \in Apps, Install(a) \/ Uninstall(a) \/ ClearData(a) \/ Persist(a)
        PROVE  EraseInv'
    BY <1>2, PackageErase, PersistErase
  <1>3. ASSUME NEW c \in Channels, Work(c)
        PROVE  EraseInv'
    BY <1>1, <1>3, NoFaults, ReceiveErase, ClearErase, RecordErase, FindErase, DedupeErase,
       RestoreErase DEF Work
  <1>4. CASE Tick \/ UNCHANGED vars
    <2>1. UNCHANGED <<rows, records, installed, queue, job>>
      BY <1>4 DEF Tick, vars
    <2> QED  BY <1>1, <2>1 DEF EraseInv, RecordsPreserved, LeftoversPending, ErasePending
  <1> QED  BY <1>1, <1>2, <1>3, <1>4, NoFaults DEF Next

(* No row and no record precedes the first event.                            *)
LEMMA InitErase == Init => EraseInv
  BY InitInv DEF Init, EraseInv, RecordsPreserved, LeftoversPending, TokensOf

(* On any number of channels, with doubled events: once every event is       *)
(* handled, an application that is not preserved has no row under the token  *)
(* of an earlier installation, when no table access fails                    *)
(* (RemoveBundlePolicy).                                                     *)
THEOREM RemovedRowsAreErased ==
  ASSUME MaxFaults = 0
  PROVE  Spec => [](Quiet => RemovedErased)
  <1>1. EraseInv => (Quiet => RemovedErased)
    <2> SUFFICES ASSUME EraseInv, Quiet  PROVE RemovedErased
      OBVIOUS
    <2>1. \A k : ~ ErasePending(k)
      BY DEF Quiet, ErasePending
    <2> QED  BY <2>1 DEF EraseInv, LeftoversPending, RemovedErased
  <1> QED  BY <1>1, InitErase, NextErase, PTL DEF Spec

-----------------------------------------------------------------------------
(* Without failing accesses and with one channel: rows of preserved          *)
(* applications                                                              *)

(* The event at work and the ones that wait, in their order.                 *)
Pending(c) == IF job[c] = Idle THEN queue[c] ELSE <<job[c].ev>> \o queue[c]

(* Position i holds the first, or the last, event of a in P; j holds the     *)
(* event of its application that comes next after i.                         *)
FirstOf(P, a, i) ==
  i \in 1..Len(P) /\ P[i].app = a /\ \A m \in 1..Len(P) : m < i => P[m].app # a
LastOf(P, a, i) ==
  i \in 1..Len(P) /\ P[i].app = a /\ \A m \in 1..Len(P) : m > i => P[m].app # a
NextOf(P, i, j) ==
  /\ i \in 1..Len(P) /\ j \in 1..Len(P) /\ i < j /\ P[i].app = P[j].app
  /\ \A m \in 1..Len(P) : i < m /\ m < j => P[m].app # P[j].app

(* An installation comes after a removal; a removal or clearing is about the *)
(* token of the event before it.                                             *)
Follows(e, f) == IF f.type = "add" THEN e.type = "remove" ELSE f.tok = e.tok

(* The events of one application are in the order of the package operations. *)
Lined(P) ==
  /\ \A i, j \in 1..Len(P) : NextOf(P, i, j) => Follows(P[i], P[j])
  /\ \A i, j \in 1..Len(P) : P[i].type = "add" /\ P[j].type = "add" /\ P[i].tok = P[j].tok => i = j

(* What the last events say of the installation: an event about an earlier   *)
(* token is followed by the event of the present installation, and the last  *)
(* event of a removed application is its removal.                            *)
Current(P, a, t) ==
  \A i \in 1..Len(P) : P[i].app = a =>
    IF t = NoToken
    THEN LastOf(P, a, i) => P[i].type = "remove"
    ELSE P[i].tok # t =>
           \E j \in 1..Len(P) : i < j /\ P[j].type = "add" /\ P[j].app = a

(* Tokens are handed out once.                                               *)
UsedOK(P) ==
  /\ \A i \in 1..Len(P) : P[i].tok \in used
  /\ \A k \in Tokens : rows[k] # {} => k \in used
  /\ \A a \in Apps : installed[a] # NoToken => installed[a] \in used

(* The record of a removed application has all it persisted.                 *)
Saved(a) == asked[a] # {} => \E r \in records : r.app = a /\ asked[a] \subseteq rows[r.orig]

(* Before an event is handled the rows are where its handler looks for them. *)
EventOK(a, e) == IF e.type = "remove" THEN asked[a] \subseteq rows[e.tok] ELSE Saved(a)

(* And where they are while it is handled.                                   *)
JobOK(a, j) ==
  CASE j.pc = "fetch" -> Saved(a)
    [] j.pc \in {"read", "move"} -> asked[a] \subseteq rows[j.chosen.orig]
    [] OTHER -> asked[a] \subseteq rows[j.ev.tok]

AtHead(c, i) == i = 1 /\ job[c] # Idle

(* A token whose installation is not handled yet has no rows.                *)
Fresh(c) ==
  \A i \in 1..Len(Pending(c)) :
    LET e == Pending(c)[i]
    IN  /\ PreserveConfig[e.app] = "true" /\ e.app \notin early /\ e.type = "add"
        /\ ~ (AtHead(c, i) /\ job[c].pc = "finish")
        => rows[e.tok] = {}

(* The rows of a preserved application are where they are looked for next.   *)
Placed(c, a) ==
  /\ \A i \in 1..Len(Pending(c)) : FirstOf(Pending(c), a, i) =>
       IF AtHead(c, i) THEN JobOK(a, job[c]) ELSE EventOK(a, Pending(c)[i])
  /\ (\A i \in 1..Len(Pending(c)) : Pending(c)[i].app # a) => Followed(a)

(* One record per application; a handler works along its event's steps.      *)
OneRecord(c) ==
  /\ \A r, s \in records : r.app = s.app => r = s
  /\ job[c] # Idle =>
       /\ job[c].pc \in IF job[c].ev.type = "remove" THEN {"clear", "forget", "save"}
                         ELSE {"fetch", "read", "move", "finish"}
       /\ job[c].pc = "save" => RecordsFor(job[c].ev.app) = {}

FollowInv(c) ==
  /\ EraseInv
  /\ Lined(Pending(c)) /\ UsedOK(Pending(c)) /\ \A a \in Apps : Current(Pending(c), a, installed[a])
  /\ OneRecord(c) /\ Fresh(c)
  /\ \A a \in Apps \ early : PreserveConfig[a] = "true" => Placed(c, a)

-----------------------------------------------------------------------------
(* Facts about the sequence of pending events                                *)

(* Taking the first event off keeps the order.                               *)
LEMMA LinedTail ==
  ASSUME NEW P \in Seq(Events), P # <<>>, Lined(P)
  PROVE  Lined(Tail(P))
  <1> DEFINE T == Tail(P)
  <1>1. T \in Seq(Events) /\ Len(T) = Len(P) - 1 /\ \A i \in 1..Len(T) : T[i] = P[i + 1]
    OBVIOUS
  <1> HIDE DEF T
  <1>2. ASSUME NEW i \in 1..Len(T), NEW j \in 1..Len(T), NextOf(T, i, j)
        PROVE  Follows(T[i], T[j])
    <2>1. i + 1 \in 1..Len(P) /\ j + 1 \in 1..Len(P) /\ T[i] = P[i + 1] /\ T[j] = P[j + 1]
      BY <1>1
    <2>2. ASSUME NEW m \in 1..Len(P), i + 1 < m, m < j + 1
          PROVE  P[m].app # P[j + 1].app
      <3>1. m - 1 \in 1..Len(T) /\ T[m - 1] = P[m] /\ i < m - 1 /\ m - 1 < j
        BY <1>1, <2>2
      <3> QED  BY <1>2, <2>1, <3>1 DEF NextOf
    <2>3. NextOf(P, i + 1, j + 1)
      BY <1>2, <2>1, <2>2 DEF NextOf
    <2> QED  BY <2>1, <2>3 DEF Lined
  <1>3. ASSUME NEW i \in 1..Len(T), NEW j \in 1..Len(T), T[i].type = "add", T[j].type = "add",
               T[i].tok = T[j].tok
        PROVE  i = j
    <2>1. i + 1 \in 1..Len(P) /\ j + 1 \in 1..Len(P) /\ T[i] = P[i + 1] /\ T[j] = P[j + 1]
      BY <1>1
    <2>2. i + 1 = j + 1
      BY <1>3, <2>1 DEF Lined
    <2> QED  BY <2>2
  <1>4. Lined(T)
    BY <1>2, <1>3 DEF Lined
  <1> QED  BY <1>4 DEF T

(* So does an event that follows the last one of its application.            *)
LEMMA LinedAppend ==
  ASSUME NEW P \in Seq(Events), NEW e \in Events, Lined(P),
         \A i \in 1..Len(P) : LastOf(P, e.app, i) => Follows(P[i], e),
         e.type = "add" => \A i \in 1..Len(P) : P[i].tok # e.tok
  PROVE  Lined(Append(P, e))
  <1> DEFINE Q == Append(P, e)
  <1>1. /\ Q \in Seq(Events) /\ Len(Q) = Len(P) + 1 /\ Q[Len(P) + 1] = e
        /\ \A i \in 1..Len(P) : Q[i] = P[i]
    OBVIOUS
  <1> HIDE DEF Q
  <1>2. ASSUME NEW i \in 1..Len(Q), NEW j \in 1..Len(Q), NextOf(Q, i, j)
        PROVE  Follows(Q[i], Q[j])
    <2>1. i \in 1..Len(P) /\ Q[i] = P[i]
      BY <1>1, <1>2 DEF NextOf
    <2>2. CASE j \in 1..Len(P)
      <3>1. NextOf(P, i, j)
        BY <1>1, <1>2, <2>1, <2>2 DEF NextOf
      <3> QED  BY <1>1, <2>1, <2>2, <3>1 DEF Lined
    <2>3. CASE j = Len(P) + 1
      <3>1. LastOf(P, e.app, i)
        BY <1>1, <1>2, <2>1, <2>3 DEF NextOf, LastOf
      <3> QED  BY <1>1, <2>1, <2>3, <3>1
    <2> QED  BY <1>1, <2>2, <2>3
  <1>3. \A i, j \in 1..Len(Q) :
          Q[i].type = "add" /\ Q[j].type = "add" /\ Q[i].tok = Q[j].tok => i = j
    <2> TAKE i, j \in 1..Len(Q)
    <2> HAVE Q[i].type = "add" /\ Q[j].type = "add" /\ Q[i].tok = Q[j].tok
    <2>1. CASE i \in 1..Len(P) /\ j \in 1..Len(P)
      BY <1>1, <2>1 DEF Lined
    <2>2. CASE i \in 1..Len(P) /\ j = Len(P) + 1
      BY <1>1, <2>2
    <2>3. CASE i = Len(P) + 1 /\ j \in 1..Len(P)
      BY <1>1, <2>3
    <2> QED  BY <1>1, <2>1, <2>2, <2>3
  <1>4. Lined(Q)
    BY <1>2, <1>3 DEF Lined
  <1> QED  BY <1>4 DEF Q

(* The later events still tell of the present installation.                  *)
LEMMA CurrentTail ==
  ASSUME NEW P \in Seq(Events), P # <<>>, NEW a, NEW t, Current(P, a, t)
  PROVE  Current(Tail(P), a, t)
  <1> DEFINE T == Tail(P)
  <1>1. T \in Seq(Events) /\ Len(T) = Len(P) - 1 /\ \A i \in 1..Len(T) : T[i] = P[i + 1]
    OBVIOUS
  <1> HIDE DEF T
  <1> SUFFICES ASSUME NEW i \in 1..Len(T), T[i].app = a
               PROVE  IF t = NoToken THEN LastOf(T, a, i) => T[i].type = "remove"
                      ELSE T[i].tok # t => \E j \in 1..Len(T) : i < j /\ T[j].type = "add" /\ T[j].app = a
    BY DEF Current, T
  <1>2. i + 1 \in 1..Len(P) /\ T[i] = P[i + 1]
    BY <1>1
  <1>3. CASE t = NoToken
    <2>1. ASSUME LastOf(T, a, i)  PROVE LastOf(P, a, i + 1)
      <3>1. ASSUME NEW m \in 1..Len(P), m > i + 1  PROVE P[m].app # a
        <4>1. m - 1 \in 1..Len(T) /\ m - 1 > i /\ T[m - 1] = P[m]
          BY <1>1, <3>1
        <4> QED  BY <2>1, <4>1 DEF LastOf
      <3> QED  BY <1>2, <3>1 DEF LastOf
    <2> QED  BY <1>2, <1>3, <2>1 DEF Current
  <1>4. CASE t # NoToken
    <2> SUFFICES ASSUME T[i].tok # t
                 PROVE  \E j \in 1..Len(T) : i < j /\ T[j].type = "add" /\ T[j].app = a
      BY <1>4
    <2>1. PICK j \in 1..Len(P) : i + 1 < j /\ P[j].type = "add" /\ P[j].app = a
      BY <1>2, <1>4 DEF Current
    <2>2. j - 1 \in 1..Len(T) /\ i < j - 1 /\ T[j - 1] = P[j]
      BY <1>1, <2>1
    <2> QED  BY <1>4, <2>1, <2>2
  <1> QED  BY <1>3, <1>4

(* An event of another application tells nothing of a; an installation tells *)
(* the new token; a removal or a clearing is about the present token.        *)
LEMMA CurrentAppend ==
  ASSUME NEW P \in Seq(Events), NEW e \in Events, NEW a, NEW t, NEW u,
         \/ e.app # a /\ u = t /\ Current(P, a, t)
         \/ e.app = a /\ e.type = "add" /\ u = e.tok /\ u # NoToken
         \/ /\ e.app = a /\ e.type = "remove" /\ e.tok = t /\ u \in {t, NoToken}
            /\ t # NoToken /\ Current(P, a, t)
  PROVE  Current(Append(P, e), a, u)
  <1> DEFINE Q == Append(P, e)
  <1>1. /\ Q \in Seq(Events) /\ Len(Q) = Len(P) + 1 /\ Q[Len(P) + 1] = e
        /\ \A i \in 1..Len(P) : Q[i] = P[i]
    OBVIOUS
  <1> HIDE DEF Q
  <1> SUFFICES ASSUME NEW i \in 1..Len(Q), Q[i].app = a
               PROVE  IF u = NoToken THEN LastOf(Q, a, i) => Q[i].type = "remove"
                      ELSE Q[i].tok # u => \E j \in 1..Len(Q) : i < j /\ Q[j].type = "add" /\ Q[j].app = a
    BY DEF Current, Q
  <1>2. CASE e.app = a /\ e.type = "add" /\ u = e.tok /\ u # NoToken
    <2>1. CASE i = Len(P) + 1
      BY <1>1, <1>2, <2>1
    <2>2. CASE i \in 1..Len(P)
      <3>1. Len(P) + 1 \in 1..Len(Q) /\ i < Len(P) + 1
        BY <1>1, <2>2
      <3> QED  BY <1>1, <1>2, <3>1
    <2> QED  BY <1>1, <2>1, <2>2
  <1>3. CASE i = Len(P) + 1
    BY <1>1, <1>2, <1>3
  <1>4. CASE i \in 1..Len(P) /\ u # NoToken /\ u = t /\ Current(P, a, t)
    <2> SUFFICES ASSUME Q[i].tok # u
                 PROVE  \E j \in 1..Len(Q) : i < j /\ Q[j].type = "add" /\ Q[j].app = a
      BY <1>4
    <2>1. PICK j \in 1..Len(P) : i < j /\ P[j].type = "add" /\ P[j].app = a
      BY <1>1, <1>4 DEF Current
    <2> QED  BY <1>1, <1>4, <2>1
  <1>5. CASE i \in 1..Len(P) /\ u = NoToken /\ e.app # a /\ u = t /\ Current(P, a, t)
    <2> SUFFICES ASSUME LastOf(Q, a, i)  PROVE Q[i].type = "remove"
      BY <1>5
    <2>1. LastOf(P, a, i)
      BY <1>1, <1>5 DEF LastOf
    <2> QED  BY <1>1, <1>5, <2>1 DEF Current
  <1>6. CASE i \in 1..Len(P) /\ u = NoToken /\ e.app = a
    <2>1. ~ LastOf(Q, a, i)
      BY <1>1, <1>6 DEF LastOf
    <2> QED  BY <1>6, <2>1
  <1> QED  BY <1>1, <1>2, <1>3, <1>4, <1>5, <1>6

-----------------------------------------------------------------------------
(* How the steps change the pending events                                   *)

(* The pending events are the event at work and then the queue.              *)
LEMMA PendingShape ==
  ASSUME Inv, NEW c \in Channels
  PROVE  /\ Pending(c) \in Seq(Events)
         /\ \A i \in 1..Len(Pending(c)) : /\ Pending(c)[i] \in Events
                                          /\ Owner[Pending(c)[i].tok] = Pending(c)[i].app
         /\ job[c] # Idle => Pending(c) # <<>> /\ Pending(c)[1] = job[c].ev
  <1>1. queue[c] \in Seq(Events) /\ GoodQueue(queue[c])
    BY Unmoved
  <1>2. CASE job[c] = Idle
    BY <1>1, <1>2 DEF Pending, GoodQueue
  <1>3. CASE job[c] # Idle
    <2>1. job[c].ev \in Events /\ Owner[job[c].ev.tok] = job[c].ev.app
      BY <1>3, GoodJobs DEF Inv, OwnInv, TypeOK, Jobs, GoodJob
    <2>2. /\ Pending(c) \in Seq(Events) /\ Len(Pending(c)) = Len(queue[c]) + 1
          /\ Pending(c)[1] = job[c].ev
          /\ \A i \in 2..Len(Pending(c)) : Pending(c)[i] = queue[c][i - 1]
      BY <1>1, <1>3, <2>1 DEF Pending
    <2>3. \A i \in 1..Len(Pending(c)) : i = 1 \/ (i \in 2..Len(Pending(c)) /\ i - 1 \in 1..Len(queue[c]))
      BY <1>1, <2>2
    <2>4. \A i \in 1..Len(queue[c]) : queue[c][i] \in Events /\ Owner[queue[c][i].tok] = queue[c][i].app
      BY <1>1 DEF GoodQueue
    <2>5. ASSUME NEW i \in 1..Len(Pending(c))
          PROVE  Pending(c)[i] \in Events /\ Owner[Pending(c)[i].tok] = Pending(c)[i].app
      BY <2>1, <2>2, <2>3, <2>4
    <2>6. Pending(c) # <<>>
      BY <1>1, <2>2
    <2> QED  BY <2>2, <2>5, <2>6
  <1> QED  BY <1>2, <1>3

(* A handler that goes on keeps its event first.                             *)
LEMMA PendingGoesOn ==
  ASSUME Inv, NEW c \in Channels, job[c] # Idle, job'[c] # Idle, job'[c].ev = job[c].ev,
         UNCHANGED queue
  PROVE  Pending(c)' = Pending(c)
  BY DEF Pending

(* One that ends takes it off.                                               *)
LEMMA PendingEnds ==
  ASSUME Inv, NEW c \in Channels, job[c] # Idle, job'[c] = Idle, UNCHANGED queue
  PROVE  Pending(c)' = Tail(Pending(c))
  <1>1. queue[c] \in Seq(Events) /\ job[c].ev \in Events
    BY Unmoved DEF Inv, OwnInv, TypeOK, Jobs
  <1>2. Tail(<<job[c].ev>> \o queue[c]) = queue[c]
    BY <1>1
  <1> QED  BY <1>2 DEF Pending

(* An event that is received is handled next, or dropped.                    *)
LEMMA PendingReceived ==
  ASSUME Inv, NEW c \in Channels, OnReceiveEvent(c)
  PROVE  /\ Pending(c) # <<>> /\ Pending(c)[1] = Head(queue[c])
         /\ IF job'[c] = Idle THEN Pending(c)' = Tail(Pending(c))
            ELSE Pending(c)' = Pending(c) /\ job'[c].ev = Pending(c)[1]
  <1> DEFINE e == Head(queue[c])
             pc == IF e.type = "add" THEN "fetch" ELSE FirstStep(PreserveConfig[e.app])
  <1>1. queue[c] \in Seq(Events) /\ queue[c] # <<>> /\ job[c] = Idle /\ Pending(c) = queue[c]
    BY Unmoved DEF OnReceiveEvent, Pending
  <1>2. /\ job'[c] = IF pc = "none" THEN Idle ELSE [pc |-> pc, ev |-> e, chosen |-> NoRecord, old |-> {}]
        /\ queue'[c] = Tail(queue[c])
    BY DEF OnReceiveEvent, Inv, OwnInv, TypeOK
  <1>3. e = queue[c][1] /\ <<e>> \o Tail(queue[c]) = queue[c]
    BY <1>1
  <1> HIDE DEF e, pc
  <1>4. job'[c] # Idle => job'[c].ev = e
    BY <1>2
  <1> QED  BY <1>1, <1>2, <1>3, <1>4 DEF Pending, e

(* A posted event comes last.                                                *)
LEMMA PendingPosted ==
  ASSUME Inv, NEW c, Channels = {c}, NEW e \in Events, Post(e), UNCHANGED job
  PROVE  Pending(c)' = Append(Pending(c), e)
  <1>1. queue[c] \in Seq(Events)
    BY Unmoved
  <1>2. queue'[c] = Append(queue[c], e)
    BY DEF Post
  <1>3. CASE job[c] = Idle
    BY <1>2, <1>3 DEF Pending
  <1>4. CASE job[c] # Idle
    <2>1. job[c].ev \in Events
      BY <1>4 DEF Inv, OwnInv, TypeOK, Jobs
    <2>2. <<job[c].ev>> \o Append(queue[c], e) = Append(<<job[c].ev>> \o queue[c], e)
      BY <1>1, <2>1
    <2> QED  BY <1>2, <1>4, <2>2 DEF Pending
  <1> QED  BY <1>3, <1>4

-----------------------------------------------------------------------------
(* A step of the service concerns one application.                           *)

(* The rows and records of one application are not touched.                  *)
LEMMA AppUntouched ==
  ASSUME Inv, Inv', NEW a \in Apps, installed'[a] = installed[a], asked'[a] = asked[a],
         \A k \in Tokens : Owner[k] = a => rows'[k] = rows[k],
         \A r \in Records : r.app = a => (r \in records' <=> r \in records)
  PROVE  /\ Saved(a) => Saved(a)'
         /\ Followed(a) => Followed(a)'
         /\ \A e \in Events : Owner[e.tok] = a /\ EventOK(a, e) => EventOK(a, e)'
  <1>1. \A r \in records : r.app = a => r \in records' /\ rows'[r.orig] = rows[r.orig]
    BY Unmoved DEF Records
  <1>2. Saved(a) => Saved(a)'
    BY <1>1 DEF Saved
  <1>3. Followed(a) => Followed(a)'
    <2>1. CASE installed[a] = NoToken
      BY <1>1, <2>1 DEF Followed
    <2>2. CASE installed[a] # NoToken
      <3>1. installed[a] \in Tokens /\ Owner[installed[a]] = a
        BY <2>2, InstalledOwn
      <3> QED  BY <2>2, <3>1 DEF Followed
    <2> QED  BY <2>1, <2>2
  <1>4. ASSUME NEW e \in Events, Owner[e.tok] = a, EventOK(a, e)
        PROVE  EventOK(a, e)'
    <2>1. e.tok \in Tokens
      BY DEF Events
    <2> QED  BY <1>2, <1>4, <2>1 DEF EventOK
  <1> QED  BY <1>2, <1>3, <1>4

(* What a step for application b leaves of the others.                       *)
Aside(b) ==
  /\ UNCHANGED world
  /\ \A k \in Tokens : Owner[k] # b => rows'[k] = rows[k]
  /\ \A k \in Tokens : rows'[k] # {} => k \in used
  /\ \A r \in Records : r.app # b => (r \in records' <=> r \in records)

(* It fills the token of no other installation that is not handled yet.      *)
StaysFresh(c) ==
  \A i \in 2..Len(Pending(c)) :
    Pending(c)[i].type = "add" /\ rows[Pending(c)[i].tok] = {} => rows'[Pending(c)[i].tok] = {}

(* The handler of the first event goes on, or starts.                        *)
LEMMA StayFrame ==
  ASSUME NEW c \in Channels, FollowInv(c), EraseInv', NEW e, Pending(c) # <<>>, e = Pending(c)[1],
         Pending(c)' = Pending(c), job'[c] # Idle, Aside(e.app), OneRecord(c)',
         StaysFresh(c),
         PreserveConfig[e.app] = "true" /\ e.app \notin early =>
           /\ e.type = "add" /\ job'[c].pc # "finish" => rows'[e.tok] = {}
           /\ JobOK(e.app, job[c])'
  PROVE  FollowInv(c)'
  <1> DEFINE P == Pending(c)
  <1>1. Inv /\ Inv'
    BY DEF FollowInv, EraseInv
  <1>2. /\ P \in Seq(Events) /\ 1 \in 1..Len(P) /\ P # <<>> /\ P[1] = e
        /\ \A i \in 1..Len(P) : P[i] \in Events /\ Owner[P[i].tok] = P[i].app
        /\ P' = P
    BY <1>1, PendingShape
  <1>3. /\ Lined(P) /\ UsedOK(P) /\ \A a \in Apps : Current(P, a, installed[a])
        /\ UNCHANGED <<installed, used, asked, early>>
    BY DEF FollowInv, Aside, world
  <1>4. \A i \in 2..Len(P) : P[i].type = "add" /\ rows[P[i].tok] = {} => rows'[P[i].tok] = {}
    BY DEF StaysFresh
  <1> HIDE DEF P
  <1>5. Lined(P') /\ (\A a \in Apps : Current(P', a, installed'[a])) /\ UsedOK(P)'
    BY <1>2, <1>3 DEF UsedOK, Aside
  <1>6. ASSUME NEW i \in 1..Len(P), PreserveConfig[P[i].app] = "true", P[i].app \notin early,
               P[i].type = "add", ~ (AtHead(c, i) /\ job[c].pc = "finish")'
        PROVE  rows'[P[i].tok] = {}
    <2>1. CASE i = 1
      BY <1>2, <1>6, <2>1 DEF AtHead
    <2>2. CASE i # 1
      <3>1. i \in 2..Len(P) /\ ~ AtHead(c, i)
        BY <2>2 DEF AtHead
      <3>2. rows[P[i].tok] = {}
        BY <1>6, <3>1 DEF FollowInv, Fresh, P
      <3> QED  BY <1>4, <1>6, <3>1, <3>2
    <2> QED  BY <2>1, <2>2
  <1>7. Fresh(c)'
    BY <1>2, <1>3, <1>6 DEF Fresh, P
  <1>8. ASSUME NEW a \in Apps \ early, PreserveConfig[a] = "true"
        PROVE  Placed(c, a)'
    <2>1. Placed(c, a)
      BY <1>8 DEF FollowInv
    <2>2. CASE a = e.app
      <3>1. \A i \in 1..Len(P) : FirstOf(P, a, i) => i = 1
        BY <1>2, <2>2 DEF FirstOf
      <3>2. AtHead(c, 1)' /\ JobOK(a, job[c])'
        BY <1>8, <2>2 DEF AtHead
      <3> QED  BY <1>2, <2>2, <3>1, <3>2 DEF Placed, P
    <2>3. CASE a # e.app
      <3>1. ASSUME NEW i \in 1..Len(P), FirstOf(P, a, i)
            PROVE  ~ AtHead(c, i)' /\ EventOK(a, P[i])'
        <4>1. i # 1 /\ P[i].app = a
          BY <1>2, <2>3, <3>1 DEF FirstOf
        <4>2. EventOK(a, P[i])
          BY <2>1, <3>1, <4>1 DEF Placed, AtHead, P
        <4>3. EventOK(a, P[i])'
          BY <1>1, <1>2, <1>3, <2>3, <4>1, <4>2, AppUntouched DEF Aside
        <4> QED  BY <4>1, <4>3 DEF AtHead
      <3>2. Followed(a) => Followed(a)'
        BY <1>1, <1>3, <2>3, AppUntouched DEF Aside
      <3> QED  BY <1>2, <2>1, <3>1, <3>2 DEF Placed, P
    <2> QED  BY <2>2, <2>3
  <1> QED  BY <1>3, <1>5, <1>7, <1>8 DEF FollowInv, P

(* The handler of the first event ends, or there is none.                    *)
LEMMA LeaveFrame ==
  ASSUME NEW c \in Channels, FollowInv(c), EraseInv', NEW P, P = Pending(c), P # <<>>, NEW e, e = P[1],
         Pending(c)' = Tail(P), job'[c] = Idle, Aside(e.app), OneRecord(c)',
         StaysFresh(c),
         PreserveConfig[e.app] = "true" /\ e.app \notin early =>
           /\ \A i \in 1..Len(P) : NextOf(P, 1, i) => EventOK(e.app, P[i])'
           /\ (\A i \in 2..Len(P) : P[i].app # e.app) => Followed(e.app)'
  PROVE  FollowInv(c)'
  <1> DEFINE T == Tail(P)
  <1>1. Inv /\ Inv'
    BY DEF FollowInv, EraseInv
  <1>2. /\ P \in Seq(Events) /\ 1 \in 1..Len(P) /\ P # <<>> /\ P[1] = e
        /\ \A i \in 1..Len(P) : P[i] \in Events /\ Owner[P[i].tok] = P[i].app
    BY <1>1, PendingShape
  <1>3. /\ Lined(P) /\ UsedOK(P) /\ \A a \in Apps : Current(P, a, installed[a])
        /\ UNCHANGED <<installed, used, asked, early>>
    BY DEF FollowInv, Aside, world
  <1>4. \A i \in 2..Len(P) : P[i].type = "add" /\ rows[P[i].tok] = {} => rows'[P[i].tok] = {}
    BY DEF StaysFresh
  <1>5. Pending(c)' = T
    OBVIOUS
  <1>6. T \in Seq(Events) /\ Len(T) = Len(P) - 1 /\ \A i \in 1..Len(T) : T[i] = P[i + 1] /\ i + 1 \in 2..Len(P)
    BY <1>2
  <1>7. Lined(T) /\ \A a \in Apps : Current(T, a, installed'[a])
    BY <1>2, <1>3, LinedTail, CurrentTail
  <1> HIDE DEF T
  <1>8. \A i \in 1..Len(T) : T[i].tok \in used
    BY <1>2, <1>3, <1>6 DEF UsedOK
  <1>9. UsedOK(T)'
    BY <1>3, <1>5, <1>8 DEF UsedOK, Aside
  <1>10. ASSUME NEW i \in 1..Len(T), PreserveConfig[T[i].app] = "true", T[i].app \notin early,
                T[i].type = "add"
         PROVE  rows'[T[i].tok] = {}
    <2>1. i + 1 \in 1..Len(P) /\ i + 1 \in 2..Len(P) /\ T[i] = P[i + 1] /\ ~ AtHead(c, i + 1)
      BY <1>6 DEF AtHead
    <2>2. rows[P[i + 1].tok] = {}
      BY <1>10, <2>1 DEF FollowInv, Fresh
    <2>3. P[i + 1].type = "add"
      BY <1>10, <2>1
    <2> QED  BY <1>4, <2>1, <2>2, <2>3
  <1>11. Fresh(c)'
    BY <1>3, <1>5, <1>10 DEF Fresh
  <1>12. ASSUME NEW a \in Apps \ early, PreserveConfig[a] = "true"
         PROVE  Placed(c, a)'
    <2>1. Placed(c, a)
      BY <1>12 DEF FollowInv
    <2>2. \A i \in 1..Len(T) : ~ AtHead(c, i)'
      BY DEF AtHead
    <2>3. \A m \in 2..Len(P) : m - 1 \in 1..Len(T) /\ T[m - 1] = P[m]
      BY <1>2, <1>6
    <2>4. ASSUME NEW i \in 1..Len(T), FirstOf(T, a, i)
          PROVE  EventOK(a, T[i])'
      <3>1. T[i] = P[i + 1] /\ P[i + 1].app = a /\ i + 1 \in 2..Len(P)
        BY <1>6, <2>4 DEF FirstOf
      <3>2. \A m \in 2..Len(P) : m < i + 1 => P[m].app # a
        BY <2>3, <2>4 DEF FirstOf
      <3>3. CASE a = e.app
        <4>1. NextOf(P, 1, i + 1)
          BY <1>2, <3>1, <3>2, <3>3 DEF NextOf
        <4> QED  BY <1>12, <3>1, <3>3, <4>1
      <3>4. CASE a # e.app
        <4>1. FirstOf(P, a, i + 1) /\ ~ AtHead(c, i + 1)
          BY <1>2, <3>1, <3>2, <3>4 DEF FirstOf, AtHead
        <4>2. EventOK(a, P[i + 1])
          BY <2>1, <3>1, <4>1 DEF Placed, FirstOf
        <4> QED  BY <1>1, <1>2, <1>3, <3>1, <3>4, <4>2, AppUntouched DEF Aside
      <3> QED  BY <3>3, <3>4
    <2>5. ASSUME \A i \in 1..Len(T) : T[i].app # a
          PROVE  Followed(a)'
      <3>1. \A m \in 2..Len(P) : P[m].app # a
        BY <2>3, <2>5
      <3>2. CASE a = e.app
        BY <1>12, <3>1, <3>2
      <3>3. CASE a # e.app
        <4>1. \A m \in 1..Len(P) : P[m].app # a
          BY <1>2, <3>1, <3>3
        <4>2. Followed(a)
          BY <2>1, <4>1 DEF Placed
        <4> QED  BY <1>1, <1>3, <3>3, <4>2, AppUntouched DEF Aside
      <3> QED  BY <3>2, <3>3
    <2> QED  BY <1>5, <2>2, <2>4, <2>5 DEF Placed
  <1> QED  BY <1>3, <1>5, <1>7, <1>9, <1>11, <1>12 DEF FollowInv

(* When the rows are under the token of the event, and recorded if it was a  *)
(* removal, they are where the next event of the application looks for them. *)
LEMMA HandledWell ==
  ASSUME NEW c \in Channels, FollowInv(c), NEW P, P = Pending(c), P # <<>>, NEW e, e = P[1],
         UNCHANGED world, asked[e.app] \subseteq rows'[e.tok],
         e.type = "remove" => Saved(e.app)'
  PROVE  /\ \A i \in 1..Len(P) : NextOf(P, 1, i) => EventOK(e.app, P[i])'
         /\ (\A i \in 2..Len(P) : P[i].app # e.app) => Followed(e.app)'
  <1>1. Inv /\ Lined(P) /\ \A a \in Apps : Current(P, a, installed[a])
    BY DEF FollowInv, EraseInv
  <1>2. P \in Seq(Events) /\ 1 \in 1..Len(P) /\ P[1] = e /\ \A i \in 1..Len(P) : P[i] \in Events
    BY <1>1, PendingShape
  <1>3. e.app \in Apps /\ e.type \in {"add", "remove"}
    BY <1>2 DEF Events
  <1>4. asked'[e.app] = asked[e.app] /\ installed'[e.app] = installed[e.app]
    BY DEF world
  <1>5. ASSUME NEW i \in 1..Len(P), NextOf(P, 1, i)
        PROVE  EventOK(e.app, P[i])'
    <2>1. Follows(e, P[i])
      BY <1>1, <1>2, <1>5 DEF Lined
    <2> QED  BY <1>2, <1>4, <2>1 DEF Follows, EventOK, Events
  <1>6. ASSUME \A i \in 2..Len(P) : P[i].app # e.app
        PROVE  Followed(e.app)'
    <2>1. LastOf(P, e.app, 1)
      BY <1>2, <1>6 DEF LastOf
    <2>2. CASE installed[e.app] = NoToken
      <3>1. e.type = "remove"
        BY <1>1, <1>2, <1>3, <2>1, <2>2 DEF Current
      <3> QED  BY <1>4, <2>2, <3>1 DEF Followed, Saved
    <2>3. CASE installed[e.app] # NoToken
      <3>1. e.tok = installed[e.app]
        BY <1>1, <1>2, <1>3, <1>6, <2>3 DEF Current
      <3> QED  BY <1>4, <2>3, <3>1 DEF Followed
    <2> QED  BY <2>2, <2>3
  <1> QED  BY <1>5, <1>6

(* What the invariant says of the handler at work.                           *)
LEMMA HeadFacts ==
  ASSUME NEW c \in Channels, FollowInv(c), job[c] \in Jobs, NEW e, e = job[c].ev
  PROVE  /\ Pending(c) # <<>> /\ Pending(c)[1] = e /\ Pending(c) \in Seq(Events)
         /\ e \in Events /\ e.app \in Apps /\ e.tok \in Tokens /\ Owner[e.tok] = e.app /\ e.tok \in used
         /\ job[c].pc \in IF e.type = "remove" THEN {"clear", "forget", "save"}
                          ELSE {"fetch", "read", "move", "finish"}
         /\ PreserveConfig[e.app] = "true" /\ e.app \notin early =>
              /\ JobOK(e.app, job[c])
              /\ e.type = "add" /\ job[c].pc # "finish" => rows[e.tok] = {}
  <1> DEFINE P == Pending(c)
  <1>1. Inv /\ job[c] # Idle
    BY IdleIsNoJob DEF FollowInv, EraseInv
  <1>2. P # <<>> /\ P[1] = e /\ P \in Seq(Events) /\ 1 \in 1..Len(P) /\ e \in Events /\ Owner[e.tok] = e.app
    BY <1>1, PendingShape
  <1>3. e.app \in Apps /\ e.tok \in Tokens
    BY <1>2 DEF Events
  <1>4. e.tok \in used
    BY <1>2 DEF FollowInv, UsedOK
  <1> HIDE DEF P
  <1>5. ASSUME PreserveConfig[e.app] = "true", e.app \notin early
        PROVE  /\ JobOK(e.app, job[c])
               /\ e.type = "add" /\ job[c].pc # "finish" => rows[e.tok] = {}
    <2>1. Placed(c, e.app) /\ Fresh(c)
      BY <1>3, <1>5 DEF FollowInv
    <2>2. FirstOf(P, e.app, 1) /\ AtHead(c, 1)
      BY <1>1, <1>2 DEF FirstOf, AtHead
    <2>3. JobOK(e.app, job[c])
      BY <1>2, <2>1, <2>2 DEF Placed, P
    <2> QED  BY <1>2, <1>5, <2>1, <2>3 DEF Fresh, P
  <1> QED  BY <1>1, <1>2, <1>3, <1>4, <1>5 DEF FollowInv, OneRecord, P

(* A step that changes no row leaves the others aside.                       *)
LEMMA RowsAside ==
  ASSUME NEW c \in Channels, FollowInv(c), UNCHANGED <<rows, world>>, NEW b,
         \A r \in Records : r.app # b => (r \in records' <=> r \in records)
  PROVE  Aside(b) /\ StaysFresh(c)
  BY DEF FollowInv, UsedOK, Aside, StaysFresh, world

(* The event that is received finds the rows where they are looked for.      *)
LEMMA ReceiveFollow ==
  ASSUME NEW c \in Channels, FollowInv(c), OnReceiveEvent(c)
  PROVE  FollowInv(c)'
  <1>1. EraseInv /\ Inv /\ EraseInv'
    BY ReceiveErase DEF FollowInv, EraseInv
  <1> DEFINE e == Head(queue[c])
             pc == IF e.type = "add" THEN "fetch" ELSE FirstStep(PreserveConfig[e.app])
             j == IF pc = "none" THEN Idle
                  ELSE [pc |-> pc, ev |-> e, chosen |-> NoRecord, old |-> {}]
  <1>2. PICK P : P = Pending(c)
    OBVIOUS
  <1>3. PICK f : f = e
    OBVIOUS
  <1>4. /\ P # <<>> /\ P[1] = f /\ P \in Seq(Events) /\ 1 \in 1..Len(P) /\ f \in Events
        /\ IF job'[c] = Idle THEN Pending(c)' = Tail(P) ELSE Pending(c)' = P /\ job'[c].ev = f
    BY <1>1, <1>2, <1>3, PendingReceived, PendingShape
  <1>5. /\ job[c] = Idle /\ job'[c] = j /\ UNCHANGED <<rows, records, world>>
    BY <1>1 DEF OnReceiveEvent, Inv, OwnInv, TypeOK
  <1>6. f \in Events /\ f.app \in Apps /\ f.type \in {"remove", "add"}
    BY <1>4 DEF Events
  <1>7. Aside(f.app) /\ StaysFresh(c)
    BY <1>5, RowsAside
  <1>8. \A r, s \in records' : r.app = s.app => r = s
    BY <1>5 DEF FollowInv, OneRecord
  <1>9. CASE job'[c] = Idle
    <2>1. pc = "none"
      BY <1>5, <1>9 DEF Idle
    <2>2. PreserveConfig[f.app] # "true"
      BY <1>3, <1>6, <2>1 DEF FirstStep
    <2>3. OneRecord(c)'
      BY <1>8, <1>9 DEF OneRecord
    <2> QED  BY <1>1, <1>2, <1>4, <1>7, <1>9, <2>2, <2>3, LeaveFrame
  <1>10. CASE job'[c] # Idle
    <2>1. /\ job'[c].pc = IF f.type = "add" THEN "fetch" ELSE FirstStep(PreserveConfig[f.app])
          /\ job'[c].pc # "none" /\ job'[c].ev = f
      BY <1>3, <1>5, <1>10
    <2> HIDE DEF e, pc, j
    <2>2. /\ f.type = "remove" => job'[c].pc \in {"clear", "forget"}
          /\ f.type = "add" => job'[c].pc = "fetch"
      BY <1>6, <2>1 DEF FirstStep
    <2>3. OneRecord(c)'
      BY <1>6, <1>8, <2>1, <2>2 DEF OneRecord
    <2>4. ASSUME PreserveConfig[f.app] = "true", f.app \notin early
          PROVE  (f.type = "add" => rows'[f.tok] = {}) /\ JobOK(f.app, job[c])'
      <3>1. Placed(c, f.app) /\ Fresh(c) /\ ~ AtHead(c, 1)
        BY <1>5, <1>6, <2>4 DEF FollowInv, AtHead
      <3>2. FirstOf(P, f.app, 1)
        BY <1>4 DEF FirstOf
      <3>3. EventOK(f.app, f)
        BY <1>2, <1>4, <3>1, <3>2 DEF Placed
      <3>4. f.type = "add" => rows[f.tok] = {}
        BY <1>2, <1>4, <2>4, <3>1 DEF Fresh
      <3>5. asked' = asked /\ (Saved(f.app) => Saved(f.app)')
        BY <1>5 DEF Saved, world
      <3>6. JobOK(f.app, job[c])'
        <4>1. CASE f.type = "add"
          BY <2>2, <3>3, <3>5, <4>1 DEF EventOK, JobOK
        <4>2. CASE f.type = "remove"
          BY <1>5, <2>1, <2>2, <3>3, <3>5, <4>2 DEF EventOK, JobOK
        <4> QED  BY <1>6, <4>1, <4>2
      <3> QED  BY <1>5, <3>4, <3>6
    <2>5. Pending(c)' = Pending(c)
      BY <1>2, <1>4, <1>10
    <2> QED  BY <1>1, <1>2, <1>4, <1>7, <1>10, <2>3, <2>4, <2>5, StayFrame
  <1> QED  BY <1>9, <1>10

(* Deleting rows concerns an application that is not preserved.              *)
LEMMA ClearFollow ==
  ASSUME NEW c \in Channels, FollowInv(c), RemoveBundlePolicy(c)
  PROVE  FollowInv(c)'
  <1>1. EraseInv /\ Inv /\ EraseInv'
    BY ClearErase DEF FollowInv, EraseInv
  <1>2. PICK e, P : e = job[c].ev /\ P = Pending(c)
    OBVIOUS
  <1>3. job[c] \in Jobs /\ job[c] # Idle /\ PreserveConfig[e.app] # "true"
    BY <1>1, <1>2, AtWork, IdleIsNoJob DEF RemoveBundlePolicy, GoodJob
  <1>4. P # <<>> /\ P[1] = e /\ e.tok \in Tokens /\ Owner[e.tok] = e.app
    BY <1>2, <1>3, HeadFacts
  <1>5. /\ job'[c] = Idle /\ rows' = [rows EXCEPT ![e.tok] = {}] /\ UNCHANGED <<records, world, queue>>
    BY <1>1, <1>2 DEF RemoveBundlePolicy, Finish, Inv, OwnInv, TypeOK
  <1>6. \A k \in Tokens : rows'[k] = IF k = e.tok THEN {} ELSE rows[k]
    BY <1>1, <1>4, <1>5, Unmoved
  <1>7. Pending(c)' = Tail(P)
    BY <1>1, <1>2, <1>3, <1>5, PendingEnds
  <1>8. Aside(e.app)
    BY <1>4, <1>5, <1>6 DEF Aside, FollowInv, UsedOK
  <1>9. StaysFresh(c)
    <2>1. \A i \in 2..Len(P) : P[i].tok \in Tokens
      BY <1>1, <1>2, PendingShape DEF Events
    <2> QED  BY <1>2, <1>6, <2>1 DEF StaysFresh
  <1>10. OneRecord(c)'
    BY <1>5 DEF FollowInv, OneRecord
  <1> QED  BY <1>1, <1>2, <1>3, <1>4, <1>5, <1>7, <1>8, <1>9, <1>10, LeaveFrame

(* The records of a removed application give way to the new one; those of an *)
(* installed one are done with.                                              *)
LEMMA DeleteFollow ==
  ASSUME NEW c \in Channels, FollowInv(c), DeleteBundlePersistentPolicies(c)
  PROVE  FollowInv(c)'
  <1>1. EraseInv /\ Inv /\ EraseInv'
    BY RecordErase DEF FollowInv, EraseInv
  <1>2. PICK e, P : e = job[c].ev /\ P = Pending(c)
    OBVIOUS
  <1>3. job[c] \in Jobs /\ job[c] # Idle /\ job[c].pc \in {"forget", "finish"}
    BY <1>1, AtWork, IdleIsNoJob DEF DeleteBundlePersistentPolicies
  <1>4. /\ P # <<>> /\ P[1] = e /\ e \in Events
        /\ job[c].pc = "forget" => e.type = "remove"
        /\ job[c].pc = "finish" => e.type # "remove"
        /\ PreserveConfig[e.app] = "true" /\ e.app \notin early => JobOK(e.app, job[c])
    BY <1>2, <1>3, HeadFacts
  <1>5. records' = {r \in records : r.app # e.app} /\ UNCHANGED <<rows, world, queue>>
    BY <1>2 DEF DeleteBundlePersistentPolicies
  <1>6. Aside(e.app) /\ StaysFresh(c)
    BY <1>5, RowsAside
  <1>7. \A r, s \in records' : r.app = s.app => r = s
    BY <1>5 DEF FollowInv, OneRecord
  <1>8. PreserveConfig[e.app] = "true" /\ e.app \notin early => asked[e.app] \subseteq rows[e.tok]
    BY <1>2, <1>3, <1>4 DEF JobOK
  <1>9. CASE job[c].pc = "forget"
    <2>1. job'[c] = [job[c] EXCEPT !.pc = "save"]
      BY <1>1, <1>9 DEF DeleteBundlePersistentPolicies, At, Goto, Inv, OwnInv, TypeOK
    <2>2. job'[c].pc = "save" /\ job'[c].ev = e /\ job'[c] # Idle
      BY <1>2, <1>3, <2>1 DEF Jobs, Idle
    <2>3. OneRecord(c)'
      BY <1>4, <1>5, <1>7, <1>9, <2>2 DEF OneRecord, RecordsFor
    <2>4. Pending(c)' = Pending(c)
      BY <1>1, <1>2, <1>3, <1>5, <2>2, PendingGoesOn
    <2>5. PreserveConfig[e.app] = "true" /\ e.app \notin early => JobOK(e.app, job[c])'
      BY <1>5, <1>8, <2>2 DEF JobOK, world
    <2> QED  BY <1>1, <1>2, <1>4, <1>6, <1>9, <2>2, <2>3, <2>4, <2>5, StayFrame
  <1>10. CASE job[c].pc = "finish"
    <2>1. job'[c] = Idle
      BY <1>1, <1>10 DEF DeleteBundlePersistentPolicies, At, Finish, Inv, OwnInv, TypeOK
    <2>2. Pending(c)' = Tail(P)
      BY <1>1, <1>2, <1>3, <1>5, <2>1, PendingEnds
    <2>3. OneRecord(c)'
      BY <1>7, <2>1 DEF OneRecord
    <2>4. PreserveConfig[e.app] = "true" /\ e.app \notin early =>
            /\ \A i \in 1..Len(P) : NextOf(P, 1, i) => EventOK(e.app, P[i])'
            /\ (\A i \in 2..Len(P) : P[i].app # e.app) => Followed(e.app)'
      BY <1>2, <1>4, <1>5, <1>8, <1>10, HandledWell
    <2> QED  BY <1>1, <1>2, <1>4, <1>6, <2>1, <2>2, <2>3, <2>4, LeaveFrame
  <1> QED  BY <1>3, <1>9, <1>10

(* The record that is saved names the token that has the rows.               *)
LEMMA SaveFollow ==
  ASSUME NEW c \in Channels, FollowInv(c), SaveBundlePersistentPolicies(c)
  PROVE  FollowInv(c)'
  <1>1. EraseInv /\ Inv /\ EraseInv'
    BY RecordErase DEF FollowInv, EraseInv
  <1>2. PICK e, P : e = job[c].ev /\ P = Pending(c)
    OBVIOUS
  <1>3. job[c] \in Jobs /\ job[c] # Idle /\ job[c].pc = "save"
    BY <1>1, AtWork, IdleIsNoJob DEF SaveBundlePersistentPolicies
  <1>4. /\ P # <<>> /\ P[1] = e /\ e \in Events
        /\ PreserveConfig[e.app] = "true" /\ e.app \notin early => JobOK(e.app, job[c])
    BY <1>2, <1>3, HeadFacts
  <1>5. PICK r : /\ r = [app |-> e.app, orig |-> e.tok, ts |-> SaveTime]
                 /\ records' = records \cup {r} /\ UNCHANGED <<rows, world, queue>>
    BY <1>2 DEF SaveBundlePersistentPolicies
  <1>6. r.app = e.app /\ r.orig = e.tok
    BY <1>5
  <1>7. Aside(e.app) /\ StaysFresh(c)
    BY <1>5, <1>6, RowsAside
  <1>8. \A s \in records : s.app # e.app
    BY <1>2, <1>3 DEF FollowInv, OneRecord, RecordsFor
  <1>9. \A s, t \in records' : s.app = t.app => s = t
    BY <1>5, <1>6, <1>8 DEF FollowInv, OneRecord
  <1>10. job'[c] = Idle
    BY <1>1 DEF SaveBundlePersistentPolicies, Finish, Inv, OwnInv, TypeOK
  <1>11. Pending(c)' = Tail(P)
    BY <1>1, <1>2, <1>3, <1>5, <1>10, PendingEnds
  <1>12. OneRecord(c)'
    BY <1>9, <1>10 DEF OneRecord
  <1>13. ASSUME PreserveConfig[e.app] = "true", e.app \notin early
         PROVE  /\ \A i \in 1..Len(P) : NextOf(P, 1, i) => EventOK(e.app, P[i])'
                /\ (\A i \in 2..Len(P) : P[i].app # e.app) => Followed(e.app)'
    <2>1. asked[e.app] \subseteq rows[e.tok]
      BY <1>2, <1>3, <1>4, <1>13 DEF JobOK
    <2>2. Saved(e.app)'
      BY <1>5, <1>6, <2>1 DEF Saved, world
    <2> QED  BY <1>2, <1>4, <1>5, <2>1, <2>2, HandledWell
  <1> QED  BY <1>1, <1>2, <1>4, <1>7, <1>10, <1>11, <1>12, <1>13, LeaveFrame

(* The only record of the application is found, or none was needed.          *)
LEMMA FindFollow ==
  ASSUME NEW c \in Channels, FollowInv(c), FindBundleRecord(c)
  PROVE  FollowInv(c)'
  <1>1. EraseInv /\ Inv /\ EraseInv'
    BY FindErase DEF FollowInv, EraseInv
  <1>2. PICK e : e = job[c].ev
    OBVIOUS
  <1>3. job[c] \in Jobs /\ job[c] # Idle /\ job[c].pc = "fetch"
    BY <1>1, AtWork, IdleIsNoJob DEF FindBundleRecord
  <1>4. /\ Pending(c) # <<>> /\ Pending(c)[1] = e /\ e \in Events /\ e.type # "remove"
        /\ PreserveConfig[e.app] = "true" /\ e.app \notin early =>
             JobOK(e.app, job[c]) /\ (e.type = "add" => rows[e.tok] = {})
    BY <1>2, <1>3, HeadFacts
  <1>5. UNCHANGED <<rows, records, world, queue>>
    BY DEF FindBundleRecord
  <1>6. Aside(e.app) /\ StaysFresh(c)
    BY <1>5, RowsAside
  <1>7. \A r, s \in records : r.app = s.app => r = s
    BY DEF FollowInv, OneRecord
  <1>8. PreserveConfig[e.app] = "true" /\ e.app \notin early => Saved(e.app)
    BY <1>3, <1>4 DEF JobOK
  <1>9. \/ /\ job'[c].pc = "finish" /\ job'[c].ev = e
           /\ \A r \in records : r.app # e.app
        \/ /\ job'[c].pc = "read" /\ job'[c].ev = e
           /\ job'[c].chosen \in records /\ job'[c].chosen.app = e.app
    <2> DEFINE found == RecordsFor(job[c].ev.app)
    <2>1. CASE found = {} /\ Goto(c, "finish")
      <3>1. job'[c] = [job[c] EXCEPT !.pc = "finish"]
        BY <1>1, <2>1 DEF Goto, Inv, OwnInv, TypeOK
      <3>2. job'[c].pc = "finish" /\ job'[c].ev = e
        BY <1>2, <1>3, <3>1 DEF Jobs
      <3> QED  BY <1>2, <2>1, <3>2 DEF RecordsFor
    <2>2. CASE ~ (found = {} /\ Goto(c, "finish"))
      <3>1. PICK r \in found :
              job' = [job EXCEPT ![c].chosen = r, ![c].old = found \ {r},
                                 ![c].pc = IF found = {r} THEN "read" ELSE "dedupe"]
        BY <2>2 DEF FindBundleRecord
      <3>2. r \in records /\ r.app = e.app /\ found = {r}
        BY <1>2, <1>7 DEF RecordsFor
      <3>3. job' = [job EXCEPT ![c].chosen = r, ![c].old = found \ {r}, ![c].pc = "read"]
        BY <3>1, <3>2
      <3> HIDE DEF found
      <3>4. job'[c].pc = "read" /\ job'[c].ev = e /\ job'[c].chosen = r
        BY <1>1, <1>2, <1>3, <3>3 DEF Jobs, Inv, OwnInv, TypeOK
      <3> QED  BY <3>2, <3>4
    <2> QED  BY <2>1, <2>2
  <1>10. job'[c] # Idle
    BY <1>9 DEF Idle
  <1>11. Pending(c)' = Pending(c)
    BY <1>1, <1>2, <1>3, <1>5, <1>9, <1>10, PendingGoesOn
  <1>12. OneRecord(c)'
    BY <1>4, <1>5, <1>7, <1>9 DEF OneRecord
  <1>13. ASSUME PreserveConfig[e.app] = "true", e.app \notin early
         PROVE  (e.type = "add" => rows'[e.tok] = {}) /\ JobOK(e.app, job[c])'
    <2>1. asked' = asked /\ rows' = rows
      BY <1>5 DEF world
    <2>2. CASE job'[c].pc = "finish" /\ job'[c].ev = e /\ \A r \in records : r.app # e.app
      <3>1. asked[e.app] = {}
        BY <1>8, <1>13, <2>2 DEF Saved
      <3> QED  BY <1>4, <1>13, <2>1, <2>2, <3>1 DEF JobOK
    <2>3. CASE job'[c].pc = "read" /\ job'[c].chosen \in records /\ job'[c].chosen.app = e.app
      <3>1. asked[e.app] \subseteq rows[job'[c].chosen.orig]
        BY <1>7, <1>8, <1>13, <2>3 DEF Saved
      <3> QED  BY <1>4, <1>13, <2>1, <2>3, <3>1 DEF JobOK
    <2> QED  BY <1>9, <2>2, <2>3
  <1> QED  BY <1>1, <1>4, <1>6, <1>10, <1>11, <1>12, <1>13, StayFrame

(* Without rows under the token of the record there was nothing to restore.  *)
LEMMA ReadFollow ==
  ASSUME NEW c \in Channels, FollowInv(c), GetPersistedPoliciesByTokenId(c)
  PROVE  FollowInv(c)'
  <1>1. EraseInv /\ Inv /\ EraseInv'
    BY RestoreErase DEF FollowInv, EraseInv
  <1>2. PICK e : e = job[c].ev
    OBVIOUS
  <1>3. job[c] \in Jobs /\ job[c] # Idle /\ job[c].pc = "read"
    BY <1>1, AtWork, IdleIsNoJob DEF GetPersistedPoliciesByTokenId
  <1>4. /\ Pending(c) # <<>> /\ Pending(c)[1] = e /\ e \in Events /\ e.type # "remove"
        /\ PreserveConfig[e.app] = "true" /\ e.app \notin early =>
             JobOK(e.app, job[c]) /\ (e.type = "add" => rows[e.tok] = {})
    BY <1>2, <1>3, HeadFacts
  <1>5. UNCHANGED <<rows, records, world, queue>>
    BY DEF GetPersistedPoliciesByTokenId
  <1>6. Aside(e.app) /\ StaysFresh(c)
    BY <1>5, RowsAside
  <1>7. PICK pc : /\ pc = IF rows[job[c].chosen.orig] = {} THEN "finish" ELSE "move"
                  /\ Goto(c, pc)
    BY DEF GetPersistedPoliciesByTokenId
  <1>8. job'[c].pc = pc /\ job'[c].ev = e /\ job'[c].chosen = job[c].chosen
    BY <1>1, <1>2, <1>3, <1>7 DEF Goto, Jobs, Inv, OwnInv, TypeOK
  <1>9. job'[c] # Idle
    BY <1>7, <1>8 DEF Idle
  <1>10. Pending(c)' = Pending(c)
    BY <1>1, <1>2, <1>3, <1>5, <1>8, <1>9, PendingGoesOn
  <1>11. OneRecord(c)'
    BY <1>4, <1>5, <1>7, <1>8 DEF OneRecord, FollowInv
  <1>12. ASSUME PreserveConfig[e.app] = "true", e.app \notin early
         PROVE  (e.type = "add" => rows'[e.tok] = {}) /\ JobOK(e.app, job[c])'
    <2>1. asked' = asked /\ rows' = rows
      BY <1>5 DEF world
    <2>2. asked[e.app] \subseteq rows[job[c].chosen.orig]
      BY <1>3, <1>4, <1>12 DEF JobOK
    <2>3. CASE rows[job[c].chosen.orig] = {}
      BY <1>4, <1>7, <1>8, <1>12, <2>1, <2>2, <2>3 DEF JobOK
    <2>4. CASE rows[job[c].chosen.orig] # {}
      BY <1>4, <1>7, <1>8, <1>12, <2>1, <2>2, <2>4 DEF JobOK
    <2> QED  BY <2>3, <2>4
  <1> QED  BY <1>1, <1>4, <1>6, <1>9, <1>10, <1>11, <1>12, StayFrame

(* The new token takes over all rows: it had none itself, so the update does *)
(* not fail.                                                                 *)
LEMMA MoveFollow ==
  ASSUME NEW c \in Channels, FollowInv(c), RestoreBundlePersistentPolicies(c)
  PROVE  FollowInv(c)'
  <1>1. EraseInv /\ Inv /\ EraseInv'
    BY RestoreErase DEF FollowInv, EraseInv
  <1>2. PICK e, P, orig : e = job[c].ev /\ P = Pending(c) /\ orig = job[c].chosen.orig
    OBVIOUS
  <1>3. job[c] \in Jobs /\ job[c] # Idle /\ job[c].pc = "move" /\ GoodJob(job[c])
    BY <1>1, AtWork, IdleIsNoJob DEF RestoreBundlePersistentPolicies
  <1>4. /\ P # <<>> /\ P[1] = e /\ P \in Seq(Events) /\ e.type = "add"
        /\ e.tok \in Tokens /\ Owner[e.tok] = e.app /\ e.tok \in used
        /\ PreserveConfig[e.app] = "true" /\ e.app \notin early =>
             JobOK(e.app, job[c]) /\ rows[e.tok] = {}
    <2>1. /\ P # <<>> /\ P[1] = e /\ P \in Seq(Events) /\ e \in Events /\ e.type # "remove"
          /\ e.tok \in Tokens /\ Owner[e.tok] = e.app /\ e.tok \in used
          /\ PreserveConfig[e.app] = "true" /\ e.app \notin early =>
               JobOK(e.app, job[c]) /\ (e.type = "add" => rows[e.tok] = {})
      BY <1>2, <1>3, HeadFacts
    <2>2. e.type = "add"
      BY <2>1 DEF Events
    <2> QED  BY <2>1, <2>2
  <1>5. UNCHANGED <<records, world, queue>>
    BY DEF RestoreBundlePersistentPolicies
  <1>6. orig \in Tokens /\ Owner[orig] = e.app
    BY <1>2, <1>3 DEF GoodJob, Records, Restoring
  <1>7. \A r, s \in records' : r.app = s.app => r = s
    BY <1>5 DEF FollowInv, OneRecord
  <1>8. PreserveConfig[e.app] = "true" /\ e.app \notin early => asked[e.app] \subseteq rows[orig]
    BY <1>2, <1>3, <1>4 DEF JobOK
  <1>9. CASE orig # e.tok /\ rows[orig] \cap rows[e.tok] # {}
    <2>1. UNCHANGED rows /\ job'[c] = Idle
      BY <1>1, <1>2, <1>9 DEF RestoreBundlePersistentPolicies, Finish, Inv, OwnInv, TypeOK
    <2>2. Pending(c)' = Tail(P)
      BY <1>1, <1>2, <1>3, <1>5, <2>1, PendingEnds
    <2>3. ~ (PreserveConfig[e.app] = "true" /\ e.app \notin early)
      BY <1>4, <1>9
    <2>4. Aside(e.app) /\ StaysFresh(c)
      BY <1>5, <2>1, RowsAside
    <2>5. OneRecord(c)'
      BY <1>7, <2>1 DEF OneRecord
    <2> QED  BY <1>1, <1>2, <1>4, <2>1, <2>2, <2>3, <2>4, <2>5, LeaveFrame
  <1>10. CASE ~ (orig # e.tok /\ rows[orig] \cap rows[e.tok] # {})
    <2>1. rows' = TakenOver(orig, e.tok) /\ job'[c] = [job[c] EXCEPT !.pc = "finish"]
      BY <1>1, <1>2, <1>10 DEF RestoreBundlePersistentPolicies, Goto, Inv, OwnInv, TypeOK
    <2>2. job'[c].pc = "finish" /\ job'[c].ev = e /\ job'[c] # Idle
      BY <1>2, <1>3, <2>1 DEF Jobs, Idle
    <2>3. Pending(c)' = Pending(c)
      BY <1>1, <1>2, <1>3, <1>5, <2>2, PendingGoesOn
    <2>4. /\ rows'[e.tok] = rows[e.tok] \cup rows[orig]
          /\ \A k \in Tokens \ {e.tok} : rows'[k] \in {rows[k], {}}
          /\ \A k \in Tokens : Owner[k] # e.app => rows'[k] = rows[k]
      BY <1>1, <1>4, <1>6, <2>1, Unmoved DEF TakenOver
    <2>5. Aside(e.app)
      BY <1>4, <1>5, <2>4 DEF Aside, FollowInv, UsedOK
    <2>6. StaysFresh(c)
      <3> SUFFICES ASSUME NEW i \in 2..Len(P), P[i].type = "add", rows[P[i].tok] = {}
                   PROVE  rows'[P[i].tok] = {}
        BY <1>2 DEF StaysFresh
      <3>1. i \in 1..Len(P) /\ 1 \in 1..Len(P)
        BY <1>4
      <3>2. P[i].tok \in Tokens
        BY <1>1, <1>2, <3>1, PendingShape DEF Events
      <3>3. P[i].tok # e.tok
        BY <1>2, <1>4, <3>1 DEF FollowInv, Lined
      <3> QED  BY <2>4, <3>2, <3>3
    <2>7. OneRecord(c)'
      BY <1>4, <1>7, <2>2 DEF OneRecord
    <2>8. PreserveConfig[e.app] = "true" /\ e.app \notin early => JobOK(e.app, job[c])'
      BY <1>5, <1>8, <2>2, <2>4 DEF JobOK, world
    <2> QED  BY <1>1, <1>2, <1>4, <2>2, <2>3, <2>5, <2>6, <2>7, <2>8, StayFrame
  <1> QED  BY <1>9, <1>10

-----------------------------------------------------------------------------
(* The system around the service                                             *)

(* The last pending event is about the present installation.                 *)
LEMMA LastIsCurrent ==
  ASSUME NEW P \in Seq(Events), NEW a, NEW t, Current(P, a, t), NEW i \in 1..Len(P), LastOf(P, a, i)
  PROVE  IF t = NoToken THEN P[i].type = "remove" ELSE P[i].tok = t
  BY DEF Current, LastOf

(* A package event that fits the last one waits behind it.                   *)
LEMMA PostFrame ==
  ASSUME NEW c, Channels = {c}, FollowInv(c), EraseInv', NEW e \in Events, Post(e),
         UNCHANGED <<rows, records, job, asked, early>>, used \subseteq used', e.tok \in used',
         \A a \in Apps : installed'[a] # NoToken => installed'[a] \in used',
         \A a \in Apps \ {e.app} : installed'[a] = installed[a],
         \/ /\ e.type = "add" /\ installed[e.app] = NoToken /\ installed'[e.app] = e.tok
            /\ e.tok \in Tokens \ used
         \/ /\ e.type = "remove" /\ installed[e.app] # NoToken /\ e.tok = installed[e.app]
            /\ installed'[e.app] \in {e.tok, NoToken}
  PROVE  FollowInv(c)'
  <1>1. EraseInv /\ Inv /\ c \in Channels
    BY DEF FollowInv, EraseInv
  <1>2. PICK P : P = Pending(c)
    OBVIOUS
  <1> DEFINE Q == Append(P, e)
  <1>3. P \in Seq(Events) /\ (job[c] # Idle => P # <<>>) /\ Pending(c)' = Q
    BY <1>1, <1>2, PendingShape, PendingPosted
  <1>4. /\ Q \in Seq(Events) /\ Len(Q) = Len(P) + 1 /\ Q[Len(P) + 1] = e
        /\ \A i \in 1..Len(P) : Q[i] = P[i]
    BY <1>3
  <1>5. e.app \in Apps /\ e.tok \in Tokens /\ e.tok # NoToken
    BY NoneAssumption DEF Events
  <1>6. Lined(P) /\ UsedOK(P) /\ \A a \in Apps : Current(P, a, installed[a])
    BY <1>2 DEF FollowInv
  <1>7. Lined(Q)
    <2>1. \A i \in 1..Len(P) : LastOf(P, e.app, i) => Follows(P[i], e)
      BY <1>3, <1>5, <1>6, LastIsCurrent DEF Follows
    <2>2. e.type = "add" => \A i \in 1..Len(P) : P[i].tok # e.tok
      BY <1>6 DEF UsedOK
    <2> QED  BY <1>3, <1>6, <2>1, <2>2, LinedAppend
  <1>8. ASSUME NEW a \in Apps  PROVE Current(Q, a, installed'[a])
    <2>1. CASE a # e.app
      BY <1>3, <1>6, <2>1, CurrentAppend
    <2>2. CASE a = e.app
      BY <1>3, <1>5, <1>6, <2>2, CurrentAppend
    <2> QED  BY <2>1, <2>2
  <1> HIDE DEF Q
  <1>9. UsedOK(Q)'
    <2>1. \A i \in 1..Len(Q) : Q[i].tok \in used'
      BY <1>3, <1>4, <1>6 DEF UsedOK
    <2> QED  BY <1>6, <2>1 DEF UsedOK
  <1>10. OneRecord(c)'
    BY DEF FollowInv, OneRecord, RecordsFor
  <1>11. \A i \in 1..Len(Q) : i \in 1..Len(P) \/ i = Len(P) + 1
    BY <1>3, <1>4
  <1>12. Fresh(c)'
    <2> SUFFICES ASSUME NEW i \in 1..Len(Q), PreserveConfig[Q[i].app] = "true", Q[i].app \notin early,
                        Q[i].type = "add", ~ (AtHead(c, i) /\ job[c].pc = "finish")
                 PROVE  rows[Q[i].tok] = {}
      BY <1>3 DEF Fresh, AtHead
    <2>1. CASE i \in 1..Len(P)
      BY <1>2, <1>4, <2>1 DEF FollowInv, Fresh
    <2>2. CASE i = Len(P) + 1
      BY <1>4, <1>5, <1>6, <2>2 DEF UsedOK
    <2> QED  BY <1>11, <2>1, <2>2
  <1>13. ASSUME NEW a \in Apps \ early, PreserveConfig[a] = "true"
         PROVE  Placed(c, a)'
    <2>1. Placed(c, a)
      BY <1>13 DEF FollowInv
    <2>2. \A f : EventOK(a, f) => EventOK(a, f)'
      BY DEF EventOK, Saved
    <2>3. JobOK(a, job[c]) => JobOK(a, job[c])'
      BY DEF JobOK, Saved
    <2>4. ASSUME NEW i \in 1..Len(Q), FirstOf(Q, a, i)
          PROVE  (IF AtHead(c, i) THEN JobOK(a, job[c]) ELSE EventOK(a, Q[i]))'
      <3>1. CASE i \in 1..Len(P)
        <4>1. FirstOf(P, a, i) /\ Q[i] = P[i]
          BY <1>4, <2>4, <3>1 DEF FirstOf
        <4>2. IF AtHead(c, i) THEN JobOK(a, job[c]) ELSE EventOK(a, P[i])
          BY <1>2, <2>1, <3>1, <4>1 DEF Placed
        <4> QED  BY <2>2, <2>3, <4>1, <4>2 DEF AtHead
      <3>2. CASE i = Len(P) + 1
        <4>1. a = e.app /\ Q[i] = e /\ \A m \in 1..Len(P) : P[m].app # a
          BY <1>3, <1>4, <2>4, <3>2 DEF FirstOf
        <4>2. Followed(a)
          BY <1>2, <2>1, <4>1 DEF Placed
        <4>3. EventOK(a, e)
          BY <4>1, <4>2 DEF Followed, EventOK, Saved
        <4>4. ~ AtHead(c, i)'
          BY <1>3, <3>2 DEF AtHead
        <4> QED  BY <2>2, <4>1, <4>3, <4>4
      <3> QED  BY <1>11, <3>1, <3>2
    <2>5. ASSUME \A i \in 1..Len(Q) : Q[i].app # a
          PROVE  Followed(a)'
      <3>1. a # e.app /\ \A i \in 1..Len(P) : P[i].app # a
        <4>1. Len(P) + 1 \in 1..Len(Q) /\ \A i \in 1..Len(P) : i \in 1..Len(Q)
          BY <1>3, <1>4
        <4> QED  BY <1>4, <2>5, <4>1
      <3>2. Followed(a)
        BY <1>2, <2>1, <3>1 DEF Placed
      <3> QED  BY <3>1, <3>2 DEF Followed
    <2> QED  BY <1>3, <2>4, <2>5 DEF Placed
  <1> QED  BY <1>3, <1>7, <1>8, <1>9, <1>10, <1>12, <1>13 DEF FollowInv

(* Installing, removing and clearing queue an event that fits the last one.  *)
LEMMA PackageFollow ==
  ASSUME NEW c, Channels = {c}, FollowInv(c), NEW a \in Apps,
         Install(a) \/ Uninstall(a) \/ ClearData(a)
  PROVE  FollowInv(c)'
  <1>1. EraseInv /\ Inv /\ EraseInv'
    BY PackageErase DEF FollowInv, EraseInv
  <1>2. UsedOK(Pending(c))
    BY DEF FollowInv
  <1>3. CASE Install(a)
    <2> PICK k \in Tokens \ used :
          /\ Owner[k] = a
          /\ installed' = [installed EXCEPT ![a] = k]
          /\ used' = used \cup {k}
          /\ Post([type |-> "add", app |-> a, tok |-> k])
      BY <1>3 DEF Install
    <2> DEFINE e == [type |-> "add", app |-> a, tok |-> k]
    <2>1. e \in Events /\ Post(e) /\ e.type = "add" /\ e.app = a /\ e.tok = k
      BY DEF Events
    <2> HIDE DEF e
    <2>2. /\ installed'[a] = k /\ \A b \in Apps \ {a} : installed'[b] = installed[b]
          /\ installed[a] = NoToken /\ UNCHANGED <<rows, records, job, asked, early>>
      BY <1>1, <1>3, InstalledOwn DEF Install
    <2>3. \A b \in Apps : installed'[b] # NoToken => installed'[b] \in used'
      BY <1>2, <2>2 DEF UsedOK
    <2> QED  BY <1>1, <2>1, <2>2, <2>3, PostFrame
  <1>4. CASE Uninstall(a) \/ ClearData(a)
    <2>1. PICK k : k = installed[a]
      OBVIOUS
    <2> DEFINE e == [type |-> "remove", app |-> a, tok |-> k]
    <2>2. k \in Tokens /\ k # NoToken /\ k \in used
      BY <1>1, <1>2, <1>4, <2>1, InstalledOwn DEF Uninstall, ClearData, UsedOK
    <2>3. e \in Events /\ Post(e) /\ e.type = "remove" /\ e.app = a /\ e.tok = k
      BY <1>4, <2>1, <2>2 DEF Uninstall, ClearData, Events
    <2> HIDE DEF e
    <2>4. /\ installed'[a] \in {k, NoToken} /\ \A b \in Apps \ {a} : installed'[b] = installed[b]
          /\ UNCHANGED <<rows, records, job, asked, early, used>>
      BY <1>1, <1>4, <2>1, InstalledOwn DEF Uninstall, ClearData
    <2>5. \A b \in Apps : installed'[b] # NoToken => installed'[b] \in used'
      BY <1>2, <2>2, <2>4 DEF UsedOK
    <2> QED  BY <1>1, <2>1, <2>2, <2>3, <2>4, <2>5, PostFrame
  <1> QED  BY <1>3, <1>4

(* An installation whose event is handled has all events about its token.    *)
LEMMA PersistFollow ==
  ASSUME NEW c, Channels = {c}, FollowInv(c), NEW a \in Apps, Persist(a)
  PROVE  FollowInv(c)'
  <1>1. EraseInv /\ Inv /\ EraseInv' /\ Inv' /\ c \in Channels
    BY PersistErase DEF FollowInv, EraseInv
  <1>2. PICK P, k0 : P = Pending(c) /\ k0 = installed[a]
    OBVIOUS
  <1>3. /\ P \in Seq(Events) /\ (job[c] # Idle => P # <<>> /\ P[1] = job[c].ev)
        /\ \A i \in 1..Len(P) : P[i] \in Events /\ Owner[P[i].tok] = P[i].app
    BY <1>1, <1>2, PendingShape
  <1>4. k0 \in Tokens /\ k0 # NoToken /\ Owner[k0] = a
    BY <1>1, <1>2, InstalledOwn DEF Persist
  <1>5. PICK p \in Policies :
          /\ rows' = [rows EXCEPT ![k0] = @ \cup {p}]
          /\ asked' = [asked EXCEPT ![a] = @ \cup {p}]
    BY <1>2 DEF Persist
  <1>6. /\ UNCHANGED <<records, installed, used, queue, job>> /\ early \subseteq early'
        /\ AddPending(a) => a \in early'
    BY DEF Persist
  <1>7. Pending(c)' = P
    BY <1>2, <1>6 DEF Pending
  <1>8. /\ rows'[k0] = rows[k0] \cup {p} /\ asked'[a] = asked[a] \cup {p}
        /\ \A k \in Tokens \ {k0} : rows'[k] = rows[k]
        /\ \A b \in Apps \ {a} : asked'[b] = asked[b]
    BY <1>1, <1>4, <1>5, Unmoved DEF Inv, OwnInv, TypeOK
  <1>9. Lined(P) /\ UsedOK(P) /\ \A b \in Apps : Current(P, b, installed[b])
    BY <1>2 DEF FollowInv
  <1>10. UsedOK(P)'
    BY <1>2, <1>4, <1>6, <1>8, <1>9 DEF UsedOK
  <1>11. OneRecord(c)'
    BY <1>6 DEF FollowInv, OneRecord, RecordsFor
  <1>12. ASSUME a \notin early'
         PROVE  \A i \in 1..Len(P) : P[i].app = a => P[i].type = "remove" /\ P[i].tok = k0
    <2>1. \A i \in 1..Len(P) : P[i].app = a => P[i].type = "remove"
      <3> SUFFICES ASSUME NEW i \in 1..Len(P), P[i].app = a, P[i].type # "remove"
                   PROVE  AddPending(a)
        BY <1>6, <1>12
      <3>1. P[i].type = "add"
        BY <1>3 DEF Events
      <3>2. queue[c] \in Seq(Events)
        BY <1>1, Unmoved
      <3>3. CASE job[c] = Idle
        BY <1>1, <1>2, <3>1, <3>3 DEF Pending, AddPending
      <3>4. CASE job[c] # Idle /\ i = 1
        BY <1>1, <1>3, <3>1, <3>4 DEF AddPending
      <3>5. CASE job[c] # Idle /\ i # 1
        <4>1. job[c].ev \in Events /\ P = <<job[c].ev>> \o queue[c]
          BY <1>1, <1>2, <3>5 DEF Pending, Inv, OwnInv, TypeOK, Jobs
        <4>2. i - 1 \in 1..Len(queue[c]) /\ queue[c][i - 1] = P[i]
          BY <3>2, <3>5, <4>1
        <4> QED  BY <1>1, <3>1, <4>2 DEF AddPending
      <3> QED  BY <3>3, <3>4, <3>5
    <2>2. \A i \in 1..Len(P) : P[i].app = a => P[i].tok = k0
      BY <1>2, <1>4, <1>9, <2>1 DEF Current
    <2> QED  BY <2>1, <2>2
  <1>13. Fresh(c)'
    <2> SUFFICES ASSUME NEW i \in 1..Len(P), PreserveConfig[P[i].app] = "true", P[i].app \notin early',
                        P[i].type = "add", ~ (AtHead(c, i) /\ job[c].pc = "finish")
                 PROVE  rows'[P[i].tok] = {}
      BY <1>6, <1>7 DEF Fresh, AtHead
    <2>1. rows[P[i].tok] = {}
      BY <1>2, <1>6 DEF FollowInv, Fresh
    <2>2. P[i].app # a
      BY <1>12
    <2>3. P[i].tok \in Tokens \ {k0}
      BY <1>3, <1>4, <2>2 DEF Events
    <2> QED  BY <1>8, <2>1, <2>3
  <1>14. ASSUME NEW b \in Apps \ early', PreserveConfig[b] = "true"
         PROVE  Placed(c, b)'
    <2>1. Placed(c, b)
      BY <1>6, <1>14 DEF FollowInv
    <2>2. CASE b = a
      <3>1. ASSUME NEW i \in 1..Len(P), FirstOf(P, a, i)
            PROVE  (IF AtHead(c, i) THEN JobOK(a, job[c]) ELSE EventOK(a, P[i]))'
        <4>1. P[i].app = a /\ P[i].type = "remove" /\ P[i].tok = k0
          BY <1>12, <1>14, <2>2, <3>1 DEF FirstOf
        <4>2. CASE AtHead(c, i)
          <5>1. JobOK(a, job[c]) /\ job[c].ev = P[i] /\ job[c] # Idle
            BY <1>2, <1>3, <2>1, <2>2, <3>1, <4>2 DEF Placed, AtHead
          <5>2. job[c].pc \in {"clear", "forget", "save"}
            BY <4>1, <5>1 DEF FollowInv, OneRecord
          <5> QED  BY <1>6, <1>8, <4>1, <4>2, <5>1, <5>2 DEF JobOK, AtHead
        <4>3. CASE ~ AtHead(c, i)
          <5>1. EventOK(a, P[i])
            BY <1>2, <2>1, <2>2, <3>1, <4>3 DEF Placed
          <5> QED  BY <1>6, <1>8, <4>1, <4>3, <5>1 DEF EventOK, AtHead
        <4> QED  BY <4>2, <4>3
      <3>2. ASSUME \A i \in 1..Len(P) : P[i].app # a  PROVE Followed(a)'
        <4>1. Followed(a)
          BY <1>2, <2>1, <2>2, <3>2 DEF Placed
        <4> QED  BY <1>2, <1>4, <1>6, <1>8, <4>1 DEF Followed
      <3> QED  BY <1>7, <2>2, <3>1, <3>2 DEF Placed
    <2>3. CASE b # a
      <3>1. /\ Saved(b) => Saved(b)'
            /\ Followed(b) => Followed(b)'
            /\ \A e \in Events : Owner[e.tok] = b /\ EventOK(b, e) => EventOK(b, e)'
        BY <1>1, <1>4, <1>6, <1>8, <2>3, AppUntouched
      <3>2. ASSUME NEW i \in 1..Len(P), FirstOf(P, b, i)
            PROVE  (IF AtHead(c, i) THEN JobOK(b, job[c]) ELSE EventOK(b, P[i]))'
        <4>1. P[i].app = b /\ P[i] \in Events /\ Owner[P[i].tok] = b
          BY <1>3, <3>2 DEF FirstOf
        <4>2. CASE AtHead(c, i)
          <5>1. JobOK(b, job[c]) /\ job[c].ev = P[i] /\ job[c] # Idle
            BY <1>2, <1>3, <2>1, <3>2, <4>2 DEF Placed, AtHead
          <5>2. job[c] \in Jobs /\ GoodJob(job[c])
            BY <1>1, <5>1, GoodJobs DEF Inv, OwnInv, TypeOK
          <5>3. job[c].ev.tok \in Tokens \ {k0}
            BY <1>4, <2>3, <4>1, <5>1 DEF Events
          <5>4. job[c].pc \in {"read", "move"} => job[c].chosen.orig \in Tokens \ {k0}
            BY <1>4, <2>3, <4>1, <5>1, <5>2 DEF GoodJob, Restoring, Records
          <5>5. JobOK(b, job[c])'
            BY <1>6, <1>8, <2>3, <3>1, <5>1, <5>3, <5>4 DEF JobOK
          <5> QED  BY <1>6, <4>2, <5>5 DEF AtHead
        <4>3. CASE ~ AtHead(c, i)
          <5>1. EventOK(b, P[i])
            BY <1>2, <2>1, <3>2, <4>3 DEF Placed
          <5> QED  BY <1>6, <3>1, <4>1, <4>3, <5>1 DEF AtHead
        <4> QED  BY <4>2, <4>3
      <3> QED  BY <1>2, <1>7, <2>1, <3>1, <3>2 DEF Placed
    <2> QED  BY <2>2, <2>3
  <1> QED  BY <1>1, <1>6, <1>7, <1>9, <1>10, <1>11, <1>13, <1>14 DEF FollowInv

(* Nothing is pending, installed or persisted at first.                      *)
LEMMA InitFollow ==
  ASSUME NEW c, Channels = {c}
  PROVE  Init => FollowInv(c)
  <1> SUFFICES ASSUME Init  PROVE FollowInv(c)
    OBVIOUS
  <1>1. EraseInv
    BY InitErase
  <1>2. job[c] = Idle /\ queue[c] = <<>> /\ records = {}
    BY DEF Init
  <1>3. Pending(c) = <<>> /\ Len(Pending(c)) = 0
    BY <1>2 DEF Pending
  <1>4. Lined(Pending(c)) /\ UsedOK(Pending(c)) /\ \A a \in Apps : Current(Pending(c), a, installed[a])
    BY <1>3 DEF Init, Lined, UsedOK, Current
  <1>5. OneRecord(c) /\ Fresh(c)
    BY <1>2, <1>3 DEF OneRecord, Fresh
  <1>6. \A a \in Apps : Placed(c, a)
    BY <1>3 DEF Init, Placed, Followed
  <1> QED  BY <1>1, <1>4, <1>5, <1>6 DEF FollowInv

(* Every step keeps the rows where they are looked for next.                 *)
LEMMA NextFollow ==
  ASSUME NEW c, Channels = {c}, MaxFaults = 0
  PROVE  FollowInv(c) /\ [Next]_vars => FollowInv(c)'
  <1> SUFFICES ASSUME FollowInv(c), [Next]_vars  PROVE FollowInv(c)'
    OBVIOUS
  <1>1. EraseInv /\ Inv /\ EraseInv' /\ c \in Channels
    BY NextErase DEF FollowInv, EraseInv
  <1>2. ASSUME NEW a \in Apps, Install(a) \/ Uninstall(a) \/ ClearData(a) \/ Persist(a)
        PROVE  FollowInv(c)'
    BY <1>2, PackageFollow, PersistFollow
  <1>3. ~ HandleDuplicateBundleRecords(c)
    <2> SUFFICES ASSUME HandleDuplicateBundleRecords(c)  PROVE FALSE
      OBVIOUS
    <2>1. job[c] \in Jobs /\ job[c].pc = "dedupe"
      BY <1>1, AtWork DEF HandleDuplicateBundleRecords
    <2> QED  BY <1>1, <2>1, IdleIsNoJob DEF FollowInv, OneRecord
  <1>4. ASSUME NEW d \in Channels, Work(d)
        PROVE  FollowInv(c)'
    <2>1. d = c
      OBVIOUS
    <2> QED  BY <1>1, <1>3, <1>4, <2>1, NoFaults, ReceiveFollow, ClearFollow, DeleteFollow,
               SaveFollow, FindFollow, ReadFollow, MoveFollow DEF Work
  <1>5. CASE Tick \/ UNCHANGED vars
    <2>1. UNCHANGED <<rows, records, installed, used, queue, job, asked, early>>
      BY <1>5 DEF Tick, vars
    <2>2. Pending(c)' = Pending(c)
      BY <2>1 DEF Pending
    <2>3. UsedOK(Pending(c))' /\ OneRecord(c)' /\ Fresh(c)'
      BY <2>1, <2>2 DEF FollowInv, UsedOK, OneRecord, RecordsFor, Fresh, AtHead
    <2>4. \A a \in Apps : Placed(c, a) => Placed(c, a)'
      BY <2>1, <2>2 DEF Placed, AtHead, JobOK, EventOK, Saved, Followed
    <2> QED  BY <1>1, <2>1, <2>2, <2>3, <2>4 DEF FollowInv
  <1> QED  BY <1>1, <1>2, <1>4, <1>5, NoFaults DEF Next

(* With one channel and no failing access: once every event is handled, what *)
(* a preserved application persisted belongs to its present token or to the  *)
(* token its record names, and an application that is not preserved has no   *)
(* row left, for any number of installations, removals and clearings         *)
(* (PersistentPreserve, the package events).                                 *)
THEOREM RowsFollowTheApplication ==
  ASSUME NEW c, Channels = {c}, MaxFaults = 0
  PROVE  Spec => []RowsFollowApplication
  <1>1. FollowInv(c) => RowsFollowApplication
    <2> SUFFICES ASSUME FollowInv(c), Quiet  PROVE PreservedFollow /\ RemovedErased
      BY DEF RowsFollowApplication
    <2>1. Pending(c) = <<>> /\ Len(Pending(c)) = 0
      BY DEF Quiet, Pending
    <2>2. PreservedFollow
      BY <2>1 DEF FollowInv, Placed, PreservedFollow
    <2>3. \A k : ~ ErasePending(k)
      BY DEF Quiet, ErasePending
    <2>4. RemovedErased
      BY <2>3 DEF FollowInv, EraseInv, LeftoversPending, RemovedErased
    <2> QED  BY <2>2, <2>4
  <1> QED  BY <1>1, InitFollow, NextFollow, PTL DEF Spec
=============================================================================
