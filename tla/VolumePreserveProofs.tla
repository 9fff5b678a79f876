------------------------- MODULE VolumePreserveProofs -------------------------
(***************************************************************************)
(* Theorems about VolumePreserve for every set of rows, volumes and        *)
(* threads, every time to live, and for any number of calls, steps of      *)
(* other handlers and failing accesses.                                    *)
(***************************************************************************)
EXTENDS VolumePreserve, TLAPS

-----------------------------------------------------------------------------
(* Typing *)

(* Counting keeps the counters.                                               *)
LEMMA CountType ==
  ASSUME bounds \in [{"calls", "others", "faults"} -> Nat],
         NEW what \in {"calls", "others", "faults"}, Count(what)
  PROVE  bounds' \in [{"calls", "others", "faults"} -> Nat]
  BY DEF Count

(* So does an access to the database.                                         *)
LEMMA AccessType ==
  ASSUME bounds \in [{"calls", "others", "faults"} -> Nat], NEW fails \in BOOLEAN, Access(fails)
  PROVE  bounds' \in [{"calls", "others", "faults"} -> Nat]
  BY CountType DEF Access

(* New stamps are times, and only rows have one.                              *)
LEMMA StampType ==
  ASSUME TypeOK, NEW S, NEW ts \in Times, SetStamp(S, ts)
  PROVE  stamp' \in [Rows -> Times] /\ \A r \in Rows \ rows : stamp'[r] = 0
  BY DEF TypeOK, SetStamp

(* What was touched are rows.                                                 *)
LEMMA TouchType ==
  ASSUME TypeOK, NEW t, NEW S \in SUBSET Rows, Touch(t, S)
  PROVE  touched' \in [Threads -> SUBSET Rows]
  BY DEF TypeOK, Touch

(* The initial state has its types.                                           *)
LEMMA InitType == Init => TypeOK
  <1> SUFFICES ASSUME Init PROVE TypeOK
    OBVIOUS
  <1>1. (CHOOSE v \in Volumes : TRUE) \in Volumes
    BY VolumeAssumption
  <1>2. job \in [Threads -> Jobs]
    BY <1>1, VolumeAssumption DEF Init, Jobs, Times
  <1>3. bounds \in [{"calls", "others", "faults"} -> Nat]
    BY DEF Init
  <1> QED  BY <1>2, <1>3 DEF Init, TypeOK

(* Starting a call keeps the types.                                           *)
LEMMA BeginType ==
  ASSUME TypeOK, NEW t \in Threads, NEW op \in {"active", "deactive"}, NEW v \in Volumes,
         NEW pc \in {"query", "age"}, Begin(t, op, v, pc)
  PROVE  TypeOK'
  <1>1. job' \in [Threads -> Jobs]
    <2>1. [op |-> op, vol |-> v, now |-> clock, pc |-> pc, todo |-> {}, cur |-> {}, ok |-> TRUE,
          missed |-> {}, kept |-> {}] \in Jobs
      BY VolumeAssumption DEF TypeOK, Jobs, Times
    <2> QED  BY <2>1 DEF Begin, TypeOK
  <1>2. bounds' \in [{"calls", "others", "faults"} -> Nat]
    BY CountType DEF Begin, TypeOK
  <1> QED  BY <1>1, <1>2 DEF Begin, TypeOK

(* The job of a thread, and what its next steps may need of it.              *)
LEMMA JobFields ==
  ASSUME TypeOK, NEW t \in Threads
  PROVE  /\ job[t] \in Jobs /\ job[t].vol \in Volumes /\ job[t].now \in Times
         /\ job[t].todo \subseteq Copies /\ job[t].cur \subseteq Rows /\ job[t].ok \in BOOLEAN
         /\ job[t].missed \subseteq Rows /\ job[t].kept \subseteq Rows
         /\ \A c \in job[t].todo : c.row \in Rows /\ c.ts \in Times
  BY DEF TypeOK, Jobs, Copies

(* What a query finds are copies of rows.                                     *)
LEMMA QueryType ==
  ASSUME TypeOK, NEW v
  PROVE  QuerySubPathRecords(v) \subseteq Copies
  BY DEF TypeOK, QuerySubPathRecords, Copies

(* Copies are of rows.                                                        *)
LEMMA RowsOfType ==
  ASSUME NEW S \in SUBSET Copies
  PROVE  RowsOf(S) \subseteq Rows
  BY DEF RowsOf, Copies

(* What a query did not lose it found.                                        *)
LEMMA FoundOrLost ==
  ASSUME NEW all, NEW found, NEW r, NEW ts, [row |-> r, ts |-> ts] \in all,
         r \notin RowsOf(all \ found)
  PROVE  [row |-> r, ts |-> ts] \in found
  <1>1. ASSUME [row |-> r, ts |-> ts] \notin found PROVE FALSE
    <2> DEFINE c == [row |-> r, ts |-> ts]
    <2>1. c \in all \ found /\ c.row = r
      BY <1>1
    <2> HIDE DEF c
    <2> QED  BY <2>1 DEF RowsOf
  <1> QED  BY <1>1

(* What ActiveQuery does to the job.                                          *)
ActiveFound(t, found, fresh) ==
  /\ found \subseteq QuerySubPathRecords(job[t].vol)
  /\ Find(QuerySubPathRecords(job[t].vol), found)
  /\ fresh = {c \in found : Restorable(c, job[t].now)}
  /\ job' = [job EXCEPT ![t].todo = fresh,
                        ![t].missed = @ \cup RowsOf(QuerySubPathRecords(job[t].vol) \ found),
                        ![t].pc = IF fresh = {} THEN "done" ELSE "set"]

(* It finds some rows and keeps the fresh ones.                               *)
LEMMA ActiveQueryFinds ==
  ASSUME NEW t, ActiveQuery(t)
  PROVE  \E found, fresh : ActiveFound(t, found, fresh)
  <1> DEFINE all == QuerySubPathRecords(job[t].vol)
  <1> PICK found \in SUBSET all :
        LET fresh == {c \in found : Restorable(c, job[t].now)}
        IN /\ Find(all, found)
           /\ job' = [job EXCEPT ![t].todo = fresh,
                                 ![t].missed = @ \cup RowsOf(all \ found),
                                 ![t].pc = IF fresh = {} THEN "done" ELSE "set"]
    BY DEF ActiveQuery
  <1>1. ActiveFound(t, found, {c \in found : Restorable(c, job[t].now)})
    BY DEF ActiveFound
  <1> QED  BY <1>1

(* Every step of a call keeps the types.                                      *)
LEMMA StepType ==
  ASSUME TypeOK, NEW t \in Threads, Step(t)
  PROVE  TypeOK'
  <1> DEFINE j == job[t]
  <1>1. /\ j \in Jobs /\ j.vol \in Volumes /\ j.now \in Times
        /\ j.todo \subseteq Copies /\ j.cur \subseteq Rows /\ j.ok \in BOOLEAN
        /\ j.missed \subseteq Rows /\ j.kept \subseteq Rows
        /\ \A c \in j.todo : c.row \in Rows /\ c.ts \in Times
    BY JobFields
  <1>2. clock \in Times /\ 0 \in Times
    BY VolumeAssumption DEF TypeOK, Times
  <1>3. bounds \in [{"calls", "others", "faults"} -> Nat] /\ job \in [Threads -> Jobs]
    BY DEF TypeOK
  <1>4. CASE DeactivePolicyByPath(t) \/ ActivePolicyByPath(t)
    BY <1>4, BeginType DEF DeactivePolicyByPath, ActivePolicyByPath
  <1>5. CASE DeactiveQuery(t)
    <2> DEFINE all == QuerySubPathRecords(j.vol)
    <2> PICK found \in SUBSET all :
          /\ Find(all, found)
          /\ job' = [job EXCEPT ![t].todo = found, ![t].now = clock,
                                ![t].missed = @ \cup RowsOf(all \ found),
                                ![t].pc = IF found = {} THEN "done" ELSE "stamp"]
      BY <1>5 DEF DeactiveQuery
    <2>1. found \in SUBSET Copies /\ RowsOf(all \ found) \subseteq Rows
      BY QueryType, RowsOfType
    <2> DEFINE lost == RowsOf(all \ found)
    <2> HIDE DEF lost
    <2>2. job' \in [Threads -> Jobs]
      BY <1>1, <1>2, <1>3, <2>1 DEF Jobs, lost
    <2>3. bounds' \in [{"calls", "others", "faults"} -> Nat]
      BY <1>3, AccessType DEF Find
    <2> QED  BY <1>5, <2>2, <2>3 DEF DeactiveQuery, TypeOK
  <1>6. CASE DeactiveStamp(t)
    <2> PICK c \in j.todo, fails \in BOOLEAN :
          /\ Access(fails)
          /\ job' = [job EXCEPT ![t].pc = "unset", ![t].todo = @ \ {c},
                                ![t].cur = {c.row}, ![t].ok = @ /\ ~ fails]
          /\ IF fails THEN UNCHANGED stamp ELSE SetStamp({c.row}, j.now)
          /\ Touch(t, {c.row})
      BY <1>6 DEF DeactiveStamp
    <2>1. job' \in [Threads -> Jobs]
      BY <1>1, <1>3 DEF Jobs
    <2>2. bounds' \in [{"calls", "others", "faults"} -> Nat]
      BY <1>3, AccessType
    <2>3. stamp' \in [Rows -> Times] /\ \A r \in Rows \ rows : stamp'[r] = 0
      BY <1>1, StampType DEF TypeOK
    <2>4. touched' \in [Threads -> SUBSET Rows]
      BY <1>1, TouchType
    <2> QED  BY <1>6, <2>1, <2>2, <2>3, <2>4 DEF DeactiveStamp, TypeOK
  <1>7. CASE DeactiveUnset(t)
    <2> PICK result \in {"unset", "refused", "fails"} :
          /\ Access(result = "fails")
          /\ rules' = IF result = "unset" THEN rules \ j.cur ELSE rules
          /\ job' = [job EXCEPT ![t].ok = @ /\ result # "fails",
               ![t].kept = IF result = "refused" THEN @ \cup (j.cur \cap rules) ELSE @,
               ![t].pc = IF j.todo # {} THEN "stamp"
                         ELSE IF j.ok /\ result # "fails" THEN "clean" ELSE "done"]
      BY <1>7 DEF DeactiveUnset
    <2> DEFINE left == IF result = "refused" THEN j.kept \cup (j.cur \cap rules) ELSE j.kept
               d == [j EXCEPT !.ok = @ /\ result # "fails", !.kept = left,
                       !.pc = IF j.todo # {} THEN "stamp"
                              ELSE IF j.ok /\ result # "fails" THEN "clean" ELSE "done"]
    <2>5. left \subseteq Rows
      BY <1>1
    <2>6. job' = [job EXCEPT ![t] = d]
      BY <1>1, <1>3 DEF Jobs
    <2> HIDE DEF left
    <2>7. d \in Jobs
      BY <1>1, <2>5 DEF Jobs
    <2> HIDE DEF d
    <2>1. job' \in [Threads -> Jobs]
      BY <1>3, <2>6, <2>7
    <2>2. bounds' \in [{"calls", "others", "faults"} -> Nat]
      BY <1>3, AccessType
    <2>3. touched' \in [Threads -> SUBSET Rows]
      BY <1>1, <1>7, TouchType DEF DeactiveUnset
    <2>4. rules' \subseteq Rows
      BY DEF TypeOK
    <2> QED  BY <1>7, <2>1, <2>2, <2>3, <2>4 DEF DeactiveUnset, TypeOK
  <1>8. CASE CleanMacPolicyByPath(t)
    <2>1. job' \in [Threads -> Jobs]
      BY <1>1, <1>3, <1>8 DEF CleanMacPolicyByPath, Jobs
    <2>2. touched' \in [Threads -> SUBSET Rows]
      BY <1>8, TouchType DEF CleanMacPolicyByPath
    <2>3. rules' \subseteq Rows
      BY <1>8 DEF CleanMacPolicyByPath, TypeOK
    <2> QED  BY <1>8, <2>1, <2>2, <2>3 DEF CleanMacPolicyByPath, TypeOK
  <1>9. CASE FindExpiredVolumeRecords(t)
    <2> DEFINE all == Expired(j.now)
    <2> PICK found \in SUBSET all :
          /\ Find(all, found)
          /\ job' = [job EXCEPT ![t].todo = found,
                                ![t].missed = @ \cup RowsOf(all \ found),
                                ![t].pc = IF found = {} THEN "query" ELSE "purge"]
      BY <1>9 DEF FindExpiredVolumeRecords
    <2>1. found \in SUBSET Copies /\ RowsOf(all \ found) \subseteq Rows
      BY RowsOfType DEF Expired
    <2> DEFINE lost == RowsOf(all \ found)
    <2> HIDE DEF lost
    <2>2. job' \in [Threads -> Jobs]
      BY <1>1, <1>3, <2>1 DEF Jobs, lost
    <2>3. bounds' \in [{"calls", "others", "faults"} -> Nat]
      BY <1>3, AccessType DEF Find
    <2> QED  BY <1>9, <2>2, <2>3 DEF FindExpiredVolumeRecords, TypeOK
  <1>10. CASE DeleteExpiredRecords(t)
    <2>1. job' \in [Threads -> Jobs]
      BY <1>1, <1>3, <1>10 DEF DeleteExpiredRecords, Jobs
    <2>2. touched' \in [Threads -> SUBSET Rows]
      BY <1>10, TouchType DEF DeleteExpiredRecords, TypeOK
    <2>3. stamp' \in [Rows -> Times] /\ \A r \in Rows \ rows' : stamp'[r] = 0
      BY <1>2, <1>10 DEF DeleteExpiredRecords, TypeOK
    <2> QED  BY <1>10, <2>1, <2>2, <2>3 DEF DeleteExpiredRecords, TypeOK
  <1>11. CASE ActiveQuery(t)
    <2> PICK found, fresh : ActiveFound(t, found, fresh)
      BY <1>11, ActiveQueryFinds
    <2> DEFINE all == QuerySubPathRecords(j.vol)
               lost == RowsOf(all \ found)
    <2>1. fresh \subseteq Copies /\ lost \subseteq Rows /\ Find(all, found)
      BY QueryType, RowsOfType DEF ActiveFound
    <2>2. job' = [job EXCEPT ![t].todo = fresh, ![t].missed = @ \cup lost,
                             ![t].pc = IF fresh = {} THEN "done" ELSE "set"]
      BY DEF ActiveFound
    <2>3. bounds' \in [{"calls", "others", "faults"} -> Nat]
      BY <1>3, <2>1, AccessType DEF Find
    <2> HIDE DEF lost
    <2> DEFINE d == [j EXCEPT !.todo = fresh, !.missed = @ \cup lost,
                              !.pc = IF fresh = {} THEN "done" ELSE "set"]
    <2>4. d \in Jobs
      BY <1>1, <2>1 DEF Jobs
    <2>5. job' = [job EXCEPT ![t] = d]
      BY <1>1, <1>3, <2>2 DEF Jobs
    <2> HIDE DEF d
    <2>6. job' \in [Threads -> Jobs]
      BY <1>3, <2>4, <2>5
    <2> QED  BY <1>11, <2>3, <2>6 DEF ActiveQuery, TypeOK
  <1>12. CASE ActivateSet(t)
    <2> PICK c \in j.todo, result \in {"set", "refused", "fails"} :
          /\ Access(result = "fails")
          /\ rules' = IF result = "set" THEN rules \cup {c.row} ELSE rules
          /\ job' = [job EXCEPT ![t].pc = "clear", ![t].todo = @ \ {c},
                                ![t].cur = {c.row}, ![t].ok = @ /\ result # "fails"]
          /\ Touch(t, {c.row})
      BY <1>12 DEF ActivateSet
    <2>1. job' \in [Threads -> Jobs]
      BY <1>1, <1>3 DEF Jobs
    <2>2. bounds' \in [{"calls", "others", "faults"} -> Nat]
      BY <1>3, AccessType
    <2>3. touched' \in [Threads -> SUBSET Rows]
      BY <1>1, TouchType
    <2>4. rules' \subseteq Rows
      BY <1>1 DEF TypeOK
    <2> QED  BY <1>12, <2>1, <2>2, <2>3, <2>4 DEF ActivateSet, TypeOK
  <1>13. CASE ActivateClear(t)
    <2> PICK fails \in BOOLEAN :
          /\ Access(fails)
          /\ job' = [job EXCEPT ![t].ok = @ /\ ~ fails,
                                ![t].pc = IF j.todo = {} THEN "done" ELSE "set"]
          /\ IF fails THEN UNCHANGED stamp ELSE SetStamp(j.cur, 0)
      BY <1>13 DEF ActivateClear
    <2>1. job' \in [Threads -> Jobs]
      BY <1>1, <1>3 DEF Jobs
    <2>2. bounds' \in [{"calls", "others", "faults"} -> Nat]
      BY <1>3, AccessType
    <2>3. stamp' \in [Rows -> Times] /\ \A r \in Rows \ rows : stamp'[r] = 0
      BY <1>2, StampType DEF TypeOK
    <2>4. touched' \in [Threads -> SUBSET Rows]
      BY <1>1, <1>13, TouchType DEF ActivateClear
    <2> QED  BY <1>13, <2>1, <2>2, <2>3, <2>4 DEF ActivateClear, TypeOK
  <1>14. CASE DbError(t)
    <2>1. job' \in [Threads -> Jobs]
      BY <1>1, <1>3, <1>14 DEF DbError, Jobs
    <2>2. bounds' \in [{"calls", "others", "faults"} -> Nat]
      BY <1>3, <1>14, AccessType DEF DbError
    <2> QED  BY <1>14, <2>1, <2>2 DEF DbError, TypeOK
  <1> QED
    BY <1>4, <1>5, <1>6, <1>7, <1>8, <1>9, <1>10, <1>11, <1>12, <1>13, <1>14 DEF Step

(* So does every other step.                                                  *)
LEMMA OtherType ==
  ASSUME TypeOK, NEW r \in Rows, Persist(r) \/ RemoveRow(r) \/ ChangeRule(r)
  PROVE  TypeOK'
  <1>1. Other(r) /\ 0 \in Times
    BY VolumeAssumption DEF Persist, RemoveRow, ChangeRule, Times
  <1>2. bounds' \in [{"calls", "others", "faults"} -> Nat]
    BY <1>1, CountType DEF Other, TypeOK
  <1>3. touched' \in [Threads -> SUBSET Rows] /\ job' = job /\ clock' = clock
    BY <1>1 DEF Other, TypeOK
  <1>4. stamp' \in [Rows -> Times] /\ rows' \subseteq Rows /\ \A q \in Rows \ rows' : stamp'[q] = 0
    <2>1. CASE Persist(r)
      BY <1>1, <2>1 DEF Persist, TypeOK
    <2>2. CASE RemoveRow(r)
      BY <1>1, <2>2 DEF RemoveRow, TypeOK
    <2>3. CASE ChangeRule(r)
      BY <2>3 DEF ChangeRule, TypeOK
    <2> QED  BY <2>1, <2>2, <2>3
  <1>5. rules' \subseteq Rows
    BY DEF Persist, RemoveRow, ChangeRule, TypeOK
  <1> QED  BY <1>2, <1>3, <1>4, <1>5 DEF TypeOK

(* Every step keeps the types.                                                *)
LEMMA NextType == TypeOK /\ [Next]_vars => TypeOK'
  <1> SUFFICES ASSUME TypeOK, [Next]_vars PROVE TypeOK'
    OBVIOUS
  <1>1. CASE SetClock
    BY <1>1 DEF SetClock, TypeOK
  <1>2. CASE UNCHANGED vars
    BY <1>2 DEF vars, TypeOK
  <1> QED  BY <1>1, <1>2, StepType, OtherType DEF Next

(* Every thread's handler, the table and the rules keep their shape, and a   *)
(* row that is gone carries no stamp.                                        *)
THEOREM TypeCorrect == Spec => []TypeOK
  <1> QED  BY InitType, NextType, PTL DEF Spec

-----------------------------------------------------------------------------
(* The inductive invariant *)

(* Each place of a handler belongs to one of the two handlers.               *)
JobShape(t) ==
  /\ job[t].pc \in {"stamp", "unset", "clean"} => job[t].op = "deactive"
  /\ job[t].pc \in {"age", "purge", "set", "clear"} => job[t].op = "active"

Listed(t, r) == \E c \in job[t].todo : c.row = r

(* Row r is as DeactivePolicyByPath leaves it.                               *)
Deactivated(t, r) == stamp[r] = job[t].now /\ (r \in rules => r \in job[t].kept)

(* What a handler without a failure has done for row r of its volume that    *)
(* nobody else changed and no query lost: removal has it on its list or behind it, and         *)
(* mounting has it deleted, on its list, or without a stamp.                 *)
Progress(t, r) ==
  /\ job[t].pc = "stamp" => Listed(t, r) \/ Deactivated(t, r)
  /\ job[t].pc = "unset" => \/ Listed(t, r) \/ Deactivated(t, r)
                            \/ stamp[r] = job[t].now /\ r \in job[t].cur
  /\ job[t].pc = "clean" => Deactivated(t, r)
  /\ job[t].pc = "purge" /\ stamp[r] > 0 /\ stamp[r] + Ttl < job[t].now =>
       [row |-> r, ts |-> stamp[r]] \in job[t].todo
  /\ job[t].pc = "query" /\ job[t].op = "active" =>
       stamp[r] = 0 \/ job[t].now <= stamp[r] + Ttl
  /\ job[t].pc = "set" => stamp[r] = 0 \/ Listed(t, r)
  /\ job[t].pc = "clear" => stamp[r] = 0 \/ Listed(t, r) \/ r \in job[t].cur
  /\ job[t].pc = "done" /\ job[t].op = "active" => stamp[r] = 0
  /\ job[t].pc = "done" /\ job[t].op = "deactive" => Deactivated(t, r)

Untouched(t, r) ==
  r \in rows /\ r \notin touched[t] /\ r \notin job[t].missed /\ VolumeOf[r] = job[t].vol

Tracked(t) ==
  /\ JobShape(t)
  /\ job[t].ok => \A r \in Rows : Untouched(t, r) => Progress(t, r)

Inv == TypeOK /\ PurgeListExpired /\ \A t \in Threads : Tracked(t)

(* A handler that does not move keeps what it has done, when the step marks  *)
(* what it changes.                                                          *)
Respects(u) ==
  /\ job'[u] = job[u]
  /\ touched[u] \subseteq touched'[u]
  /\ \A r \in rows' \ touched'[u] :
       r \in rows /\ stamp'[r] = stamp[r] /\ (r \in rules' => r \in rules)

(* A call that a step does not touch keeps what is known of it.               *)
LEMMA Frame ==
  ASSUME TypeOK, TypeOK', NEW u \in Threads, Tracked(u), Respects(u)
  PROVE  Tracked(u)'
  <1>1. JobShape(u)'
    BY DEF Tracked, JobShape, Respects
  <1>2. ASSUME job'[u].ok, NEW r \in Rows, Untouched(u, r)'
        PROVE  Progress(u, r)'
    <2>1. Untouched(u, r) /\ stamp'[r] = stamp[r] /\ (r \in rules' => r \in rules)
      BY <1>2 DEF Untouched, Respects
    <2>2. Progress(u, r)
      BY <1>2, <2>1 DEF Tracked, Respects
    <2> QED  BY <2>1, <2>2 DEF Progress, Listed, Deactivated, Respects
  <1> QED  BY <1>1, <1>2 DEF Tracked

(* Every step of thread t marks what it changes for the other threads.       *)
LEMMA StepRespects ==
  ASSUME TypeOK, NEW t \in Threads, Step(t), NEW u \in Threads, u # t
  PROVE  Respects(u)
  <1>1. touched \in [Threads -> SUBSET Rows] /\ stamp \in [Rows -> Times] /\ rows \subseteq Rows
        /\ job \in [Threads -> Jobs]
    BY DEF TypeOK
  <1>2. \A S : Touch(t, S) => touched'[u] = touched[u] \cup S
    BY DEF Touch
  <1>3. CASE DeactivePolicyByPath(t) \/ ActivePolicyByPath(t)
    BY <1>1, <1>3 DEF DeactivePolicyByPath, ActivePolicyByPath, Begin, Respects
  <1>4. CASE DeactiveQuery(t)
    BY <1>1, <1>4 DEF DeactiveQuery, Respects
  <1>5. CASE DeactiveStamp(t)
    BY <1>1, <1>2, <1>5 DEF DeactiveStamp, SetStamp, Respects
  <1>6. CASE DeactiveUnset(t)
    BY <1>1, <1>2, <1>6 DEF DeactiveUnset, Respects
  <1>7. CASE CleanMacPolicyByPath(t)
    BY <1>1, <1>2, <1>7 DEF CleanMacPolicyByPath, Respects
  <1>8. CASE FindExpiredVolumeRecords(t)
    BY <1>1, <1>8 DEF FindExpiredVolumeRecords, Respects
  <1>9. CASE DeleteExpiredRecords(t)
    BY <1>1, <1>2, <1>9 DEF DeleteExpiredRecords, Respects
  <1>10. CASE ActiveQuery(t)
    BY <1>1, <1>10 DEF ActiveQuery, Respects
  <1>11. CASE ActivateSet(t)
    BY <1>1, <1>2, <1>11 DEF ActivateSet, Respects
  <1>12. CASE ActivateClear(t)
    BY <1>1, <1>2, <1>12 DEF ActivateClear, SetStamp, Respects
  <1>13. CASE DbError(t)
    BY <1>1, <1>13 DEF DbError, Respects
  <1> QED
    BY <1>3, <1>4, <1>5, <1>6, <1>7, <1>8, <1>9, <1>10, <1>11, <1>12, <1>13 DEF Step

(* So do the other handlers, for every thread.                               *)
LEMMA OtherRespects ==
  ASSUME TypeOK, NEW r \in Rows, Persist(r) \/ RemoveRow(r) \/ ChangeRule(r), NEW u \in Threads
  PROVE  Respects(u)
  <1>1. job' = job /\ touched'[u] = touched[u] \cup {r}
    BY DEF Persist, RemoveRow, ChangeRule, Other
  <1>2. \A q \in rows' : q # r => q \in rows /\ stamp'[q] = stamp[q] /\ (q \in rules' => q \in rules)
    BY DEF Persist, RemoveRow, ChangeRule, TypeOK
  <1> QED  BY <1>1, <1>2 DEF Respects

(* The thread that moves: one lemma for the end of each of its steps.        *)
LEMMA OwnStep ==
  ASSUME TypeOK, TypeOK', NEW t \in Threads, Step(t), Tracked(t)
  PROVE  Tracked(t)'
  <1> DEFINE j == job[t]
  <1>1. /\ j \in Jobs /\ j.vol \in Volumes /\ j.now \in Times
        /\ j.todo \subseteq Copies /\ j.cur \subseteq Rows /\ j.ok \in BOOLEAN
        /\ j.missed \subseteq Rows /\ j.kept \subseteq Rows
        /\ \A c \in j.todo : c.row \in Rows /\ c.ts \in Times
    BY JobFields
  <1>2. touched \in [Threads -> SUBSET Rows] /\ stamp \in [Rows -> Times] /\ rows \subseteq Rows
        /\ job \in [Threads -> Jobs] /\ Times \subseteq Nat /\ Ttl \in Nat
    BY VolumeAssumption DEF TypeOK, Times
  <1>3. \A S : Touch(t, S) => touched'[t] = touched[t]
    BY DEF Touch
  <1>4. CASE DeactivePolicyByPath(t) \/ ActivePolicyByPath(t)
    <2>1. PICK v \in Volumes : Begin(t, "deactive", v, "query") \/ Begin(t, "active", v, "age")
      BY <1>4 DEF DeactivePolicyByPath, ActivePolicyByPath
    <2>2. \/ job'[t].pc = "query" /\ job'[t].op = "deactive"
          \/ job'[t].pc = "age" /\ job'[t].op = "active"
      BY <1>2, <2>1 DEF Begin
    <2> QED  BY <2>2 DEF Tracked, JobShape, Progress
  <1>5. CASE DeactiveQuery(t)
    <2> DEFINE all == QuerySubPathRecords(j.vol)
    <2> PICK found \in SUBSET all :
          /\ Find(all, found)
          /\ job' = [job EXCEPT ![t].todo = found, ![t].now = clock,
                                ![t].missed = @ \cup RowsOf(all \ found),
                                ![t].pc = IF found = {} THEN "done" ELSE "stamp"]
      BY <1>5 DEF DeactiveQuery
    <2>1. /\ job'[t].todo = found /\ job'[t].op = "deactive"
          /\ job'[t].missed = j.missed \cup RowsOf(all \ found)
          /\ job'[t].vol = j.vol /\ rows' = rows /\ stamp' = stamp
          /\ job'[t].pc = IF found = {} THEN "done" ELSE "stamp"
      BY <1>1, <1>2, <1>5 DEF DeactiveQuery, Jobs
    <2>2. JobShape(t)'
      BY <2>1 DEF JobShape
    <2>3. ASSUME NEW r \in Rows, Untouched(t, r)'
          PROVE  Progress(t, r)'
      <3>1. [row |-> r, ts |-> stamp[r]] \in found
        <4>1. [row |-> r, ts |-> stamp[r]] \in all
          BY <2>1, <2>3 DEF Untouched, QuerySubPathRecords
        <4>2. r \notin RowsOf(all \ found)
          BY <2>1, <2>3 DEF Untouched
        <4> QED  BY <4>1, <4>2, FoundOrLost
      <3>2. Listed(t, r)' /\ job'[t].pc = "stamp"
        BY <2>1, <3>1 DEF Listed
      <3> QED  BY <3>2 DEF Progress
    <2> QED  BY <2>2, <2>3 DEF Tracked
  <1>6. CASE DeactiveStamp(t)
    <2> PICK c \in j.todo, fails \in BOOLEAN :
          /\ Access(fails)
          /\ job' = [job EXCEPT ![t].pc = "unset", ![t].todo = @ \ {c},
                                ![t].cur = {c.row}, ![t].ok = @ /\ ~ fails]
          /\ IF fails THEN UNCHANGED stamp ELSE SetStamp({c.row}, j.now)
          /\ Touch(t, {c.row})
      BY <1>6 DEF DeactiveStamp
    <2>1. /\ job'[t].pc = "unset" /\ job'[t].todo = j.todo \ {c} /\ job'[t].cur = {c.row}
          /\ job'[t].ok = (j.ok /\ ~ fails) /\ job'[t].vol = j.vol /\ job'[t].op = j.op
          /\ job'[t].now = j.now /\ j.pc = "stamp" /\ rows' = rows /\ rules' = rules
          /\ job'[t].missed = j.missed /\ job'[t].kept = j.kept
      BY <1>1, <1>2, <1>6 DEF DeactiveStamp, Jobs
    <2>2. JobShape(t)'
      BY <2>1 DEF JobShape, Tracked
    <2>3. ASSUME job'[t].ok, NEW r \in Rows, Untouched(t, r)'
          PROVE  Progress(t, r)'
      <3>1. Progress(t, r)
        BY <1>3, <2>1, <2>3 DEF Tracked, Untouched
      <3>2. stamp' = [q \in Rows |-> IF q \in {c.row} \cap rows THEN j.now ELSE stamp[q]]
        BY <2>1, <2>3 DEF SetStamp
      <3>3. CASE r = c.row
        BY <2>1, <2>3, <3>2, <3>3 DEF Progress, Untouched
      <3>4. CASE r # c.row
        BY <2>1, <3>1, <3>2, <3>4 DEF Progress, Listed, Deactivated
      <3> QED  BY <3>3, <3>4
    <2> QED  BY <2>2, <2>3 DEF Tracked
  <1>7. CASE DeactiveUnset(t)
    <2> PICK result \in {"unset", "refused", "fails"} :
          /\ Access(result = "fails")
          /\ rules' = IF result = "unset" THEN rules \ j.cur ELSE rules
          /\ job' = [job EXCEPT ![t].ok = @ /\ result # "fails",
               ![t].kept = IF result = "refused" THEN @ \cup (j.cur \cap rules) ELSE @,
               ![t].pc = IF j.todo # {} THEN "stamp"
                         ELSE IF j.ok /\ result # "fails" THEN "clean" ELSE "done"]
      BY <1>7 DEF DeactiveUnset
    <2>1. /\ job'[t].pc = IF j.todo # {} THEN "stamp"
                           ELSE IF j.ok /\ result # "fails" THEN "clean" ELSE "done"
          /\ job'[t].todo = j.todo /\ job'[t].missed = j.missed
          /\ job'[t].kept = IF result = "refused" THEN j.kept \cup (j.cur \cap rules) ELSE j.kept
          /\ job'[t].ok = (j.ok /\ result # "fails") /\ job'[t].vol = j.vol /\ job'[t].op = j.op
          /\ job'[t].now = j.now /\ j.pc = "unset" /\ rows' = rows /\ stamp' = stamp
          /\ touched'[t] = touched[t]
      BY <1>1, <1>2, <1>3, <1>7 DEF DeactiveUnset, Jobs
    <2>2. JobShape(t)'
      BY <2>1 DEF JobShape, Tracked
    <2>3. ASSUME job'[t].ok, NEW r \in Rows, Untouched(t, r)'
          PROVE  Progress(t, r)'
      <3>1. Progress(t, r) /\ result \in {"unset", "refused"}
        BY <2>1, <2>3 DEF Tracked, Untouched
      <3>2. Listed(t, r) \/ Deactivated(t, r)'
        BY <2>1, <3>1 DEF Progress, Deactivated
      <3>3. CASE j.todo # {}
        <4>1. job'[t].pc = "stamp" /\ (Listed(t, r) => Listed(t, r)')
          BY <2>1, <3>3 DEF Listed
        <4> QED  BY <3>2, <4>1 DEF Progress
      <3>4. CASE j.todo = {}
        <4>1. job'[t].pc = "clean" /\ ~ Listed(t, r)
          BY <2>1, <2>3, <3>4 DEF Listed
        <4> QED  BY <3>2, <4>1 DEF Progress
      <3> QED  BY <3>3, <3>4
    <2> QED  BY <2>2, <2>3 DEF Tracked
  <1>8. CASE CleanMacPolicyByPath(t)
    <2>1. /\ job'[t].pc = "done" /\ job'[t].ok = j.ok /\ job'[t].vol = j.vol /\ job'[t].op = j.op
          /\ job'[t].now = j.now /\ j.pc = "clean" /\ rows' = rows /\ stamp' = stamp
          /\ touched'[t] = touched[t] /\ rules' \subseteq rules
          /\ job'[t].missed = j.missed /\ job'[t].kept = j.kept
      BY <1>1, <1>2, <1>3, <1>8 DEF CleanMacPolicyByPath, Jobs
    <2>2. JobShape(t)' /\ j.op = "deactive"
      BY <2>1 DEF JobShape, Tracked
    <2>3. ASSUME job'[t].ok, NEW r \in Rows, Untouched(t, r)'
          PROVE  Progress(t, r)'
      <3>1. Progress(t, r)
        BY <2>1, <2>3 DEF Tracked, Untouched
      <3> QED  BY <2>1, <2>2, <3>1 DEF Progress, Deactivated
    <2> QED  BY <2>2, <2>3 DEF Tracked
  <1>9. CASE FindExpiredVolumeRecords(t)
    <2> DEFINE all == Expired(j.now)
    <2> PICK found \in SUBSET all :
          /\ Find(all, found)
          /\ job' = [job EXCEPT ![t].todo = found,
                                ![t].missed = @ \cup RowsOf(all \ found),
                                ![t].pc = IF found = {} THEN "query" ELSE "purge"]
      BY <1>9 DEF FindExpiredVolumeRecords
    <2>1. /\ job'[t].pc = IF found = {} THEN "query" ELSE "purge"
          /\ job'[t].todo = found /\ job'[t].op = j.op
          /\ job'[t].missed = j.missed \cup RowsOf(all \ found)
          /\ job'[t].now = j.now /\ j.pc = "age" /\ rows' = rows /\ stamp' = stamp
      BY <1>1, <1>2, <1>9 DEF FindExpiredVolumeRecords, Jobs
    <2>2. JobShape(t)' /\ j.op = "active"
      BY <2>1 DEF JobShape, Tracked
    <2>3. ASSUME NEW r \in Rows, Untouched(t, r)'
          PROVE  Progress(t, r)'
      <3>1. stamp[r] > 0 /\ stamp[r] + Ttl < j.now => [row |-> r, ts |-> stamp[r]] \in found
        <4>1. stamp[r] > 0 /\ stamp[r] + Ttl < j.now => [row |-> r, ts |-> stamp[r]] \in all
          BY <1>2, <2>1, <2>3 DEF Untouched, Expired, Copies
        <4>2. r \notin RowsOf(all \ found)
          BY <2>1, <2>3 DEF Untouched
        <4> QED  BY <4>1, <4>2, FoundOrLost
      <3>2. stamp[r] \in Nat /\ j.now \in Nat
        BY <1>1, <1>2
      <3>3. CASE found = {}
        BY <1>2, <2>1, <3>1, <3>2, <3>3 DEF Progress
      <3>4. CASE found # {}
        BY <2>1, <3>1, <3>4 DEF Progress
      <3> QED  BY <3>3, <3>4
    <2> QED  BY <2>2, <2>3 DEF Tracked
  <1>10. CASE DeleteExpiredRecords(t)
    <2>1. /\ job'[t].pc = "query" /\ job'[t].ok = j.ok /\ job'[t].vol = j.vol /\ job'[t].op = j.op
          /\ job'[t].now = j.now /\ j.pc = "purge" /\ rows' = rows \ Matched(j.todo)
          /\ touched'[t] = touched[t] /\ \A r \in rows' : stamp'[r] = stamp[r]
          /\ job'[t].missed = j.missed
      BY <1>1, <1>2, <1>3, <1>10 DEF DeleteExpiredRecords, Jobs
    <2>2. JobShape(t)'
      BY <2>1 DEF JobShape, Tracked
    <2>3. ASSUME job'[t].ok, NEW r \in Rows, Untouched(t, r)'
          PROVE  Progress(t, r)'
      <3>1. Progress(t, r) /\ stamp'[r] = stamp[r] /\ r \notin Matched(j.todo)
        BY <2>1, <2>3 DEF Tracked, Untouched
      <3>2. [row |-> r, ts |-> stamp[r]] \notin j.todo
        BY <3>1 DEF Matched, RowsOf
      <3>3. stamp[r] \in Nat /\ j.now \in Nat
        BY <1>1, <1>2
      <3> QED  BY <1>2, <2>1, <3>1, <3>2, <3>3 DEF Progress
    <2> QED  BY <2>2, <2>3 DEF Tracked
  <1>11. CASE ActiveQuery(t)
    <2> PICK found, fresh : ActiveFound(t, found, fresh)
      BY <1>11, ActiveQueryFinds
    <2> DEFINE all == QuerySubPathRecords(j.vol)
    <2>1. /\ job'[t].pc = IF fresh = {} THEN "done" ELSE "set"
          /\ job'[t].missed = j.missed \cup RowsOf(all \ found)
          /\ job'[t].todo = fresh /\ job'[t].op = j.op /\ job'[t].ok = j.ok /\ job'[t].vol = j.vol
          /\ j.op = "active" /\ j.pc = "query" /\ rows' = rows /\ stamp' = stamp /\ touched' = touched
      BY <1>1, <1>2, <1>11 DEF ActiveQuery, ActiveFound, Jobs
    <2>2. JobShape(t)'
      BY <2>1 DEF JobShape
    <2>3. ASSUME job'[t].ok, NEW r \in Rows, Untouched(t, r)'
          PROVE  Progress(t, r)'
      <3>1. Progress(t, r) /\ r \in rows /\ VolumeOf[r] = j.vol /\ stamp[r] \in Nat
        BY <1>2, <2>1, <2>3 DEF Tracked, Untouched
      <3>2. stamp[r] # 0 => [row |-> r, ts |-> stamp[r]] \in fresh
        <4>1. [row |-> r, ts |-> stamp[r]] \in all
          BY <3>1 DEF QuerySubPathRecords
        <4>2. [row |-> r, ts |-> stamp[r]] \in found
          <5>1. r \notin RowsOf(all \ found)
            BY <2>1, <2>3 DEF Untouched
          <5> QED  BY <4>1, <5>1, FoundOrLost
        <4>3. stamp[r] # 0 => Restorable([row |-> r, ts |-> stamp[r]], j.now)
          BY <1>2, <2>1, <3>1 DEF Progress, Restorable
        <4> QED  BY <4>2, <4>3 DEF ActiveFound
      <3>3. stamp[r] # 0 => Listed(t, r)' /\ job'[t].pc = "set"
        BY <2>1, <3>2 DEF Listed
      <3> QED  BY <2>1, <3>3 DEF Progress
    <2> QED  BY <2>2, <2>3 DEF Tracked
  <1>12. CASE ActivateSet(t)
    <2> PICK c \in j.todo, result \in {"set", "refused", "fails"} :
          /\ Access(result = "fails")
          /\ rules' = IF result = "set" THEN rules \cup {c.row} ELSE rules
          /\ job' = [job EXCEPT ![t].pc = "clear", ![t].todo = @ \ {c},
                                ![t].cur = {c.row}, ![t].ok = @ /\ result # "fails"]
          /\ Touch(t, {c.row})
      BY <1>12 DEF ActivateSet
    <2>1. /\ job'[t].pc = "clear" /\ job'[t].todo = j.todo \ {c} /\ job'[t].cur = {c.row}
          /\ (job'[t].ok => j.ok) /\ job'[t].vol = j.vol /\ job'[t].op = j.op
          /\ j.pc = "set" /\ rows' = rows /\ stamp' = stamp /\ touched'[t] = touched[t]
          /\ job'[t].missed = j.missed
      BY <1>1, <1>2, <1>3, <1>12 DEF ActivateSet, Jobs
    <2>2. JobShape(t)'
      BY <2>1 DEF JobShape, Tracked
    <2>3. ASSUME job'[t].ok, NEW r \in Rows, Untouched(t, r)'
          PROVE  Progress(t, r)'
      <3>1. Progress(t, r)
        BY <2>1, <2>3 DEF Tracked, Untouched
      <3> QED  BY <2>1, <3>1 DEF Progress, Listed
    <2> QED  BY <2>2, <2>3 DEF Tracked
  <1>13. CASE ActivateClear(t)
    <2> PICK fails \in BOOLEAN :
          /\ Access(fails)
          /\ job' = [job EXCEPT ![t].ok = @ /\ ~ fails,
                                ![t].pc = IF j.todo = {} THEN "done" ELSE "set"]
          /\ IF fails THEN UNCHANGED stamp ELSE SetStamp(j.cur, 0)
      BY <1>13 DEF ActivateClear
    <2>1. /\ job'[t].pc = IF j.todo = {} THEN "done" ELSE "set"
          /\ job'[t].todo = j.todo
          /\ job'[t].ok = (j.ok /\ ~ fails) /\ job'[t].vol = j.vol /\ job'[t].op = j.op
          /\ j.pc = "clear" /\ rows' = rows /\ touched'[t] = touched[t]
          /\ job'[t].missed = j.missed
      BY <1>1, <1>2, <1>3, <1>13 DEF ActivateClear, Jobs
    <2>2. JobShape(t)' /\ j.op = "active"
      BY <2>1 DEF JobShape, Tracked
    <2>3. ASSUME job'[t].ok, NEW r \in Rows, Untouched(t, r)'
          PROVE  Progress(t, r)'
      <3>1. Progress(t, r) /\ r \in rows
        BY <2>1, <2>3 DEF Tracked, Untouched
      <3>2. stamp'[r] = IF r \in j.cur THEN 0 ELSE stamp[r]
        BY <2>1, <2>3, <3>1 DEF SetStamp
      <3>3. stamp'[r] = 0 \/ Listed(t, r)
        BY <2>1, <3>1, <3>2 DEF Progress
      <3>4. CASE j.todo # {}
        <4>1. job'[t].pc = "set" /\ (Listed(t, r) => Listed(t, r)')
          BY <2>1, <3>4 DEF Listed
        <4> QED  BY <3>3, <4>1 DEF Progress
      <3>5. CASE j.todo = {}
        <4>1. job'[t].pc = "done" /\ job'[t].op = "active" /\ ~ Listed(t, r)
          BY <2>1, <2>2, <3>5 DEF Listed
        <4> QED  BY <3>3, <4>1 DEF Progress
      <3> QED  BY <3>4, <3>5
    <2> QED  BY <2>2, <2>3 DEF Tracked
  <1>14. CASE DbError(t)
    <2>1. job'[t].ok = FALSE /\ job'[t].pc = "done"
      BY <1>1, <1>2, <1>14 DEF DbError, Jobs
    <2> QED  BY <2>1 DEF Tracked, JobShape
  <1> QED
    BY <1>4, <1>5, <1>6, <1>7, <1>8, <1>9, <1>10, <1>11, <1>12, <1>13, <1>14 DEF Step

-----------------------------------------------------------------------------
(* What a handler holds while it waits to delete *)

(* A list to purge holds expired rows only.                                   *)
LEMMA PurgeStep ==
  ASSUME TypeOK, PurgeListExpired, NEW t \in Threads, Step(t)
  PROVE  PurgeListExpired'
  <1>1. /\ job \in [Threads -> Jobs] /\ job[t] \in Jobs
        /\ \A u \in Threads : job[u].pc = "purge" =>
             \A c \in job[u].todo : c.ts > 0 /\ c.ts + Ttl < job[u].now
    BY DEF TypeOK, PurgeListExpired
  <1>2. \A u \in Threads : u # t => job'[u] = job[u]
    BY StepRespects DEF Respects
  <1>3. CASE FindExpiredVolumeRecords(t)
    <2>1. job'[t].todo \subseteq Expired(job[t].now) /\ job'[t].now = job[t].now
      BY <1>1, <1>3 DEF FindExpiredVolumeRecords, Jobs
    <2>2. \A c \in Expired(job[t].now) : c.ts > 0 /\ c.ts + Ttl < job[t].now
      BY DEF Expired
    <2> QED  BY <1>1, <1>2, <2>1, <2>2 DEF PurgeListExpired
  <1>4. CASE DeactivePolicyByPath(t) \/ ActivePolicyByPath(t)
    <2>1. job'[t].pc # "purge"
      BY <1>1, <1>4 DEF DeactivePolicyByPath, ActivePolicyByPath, Begin
    <2> QED  BY <1>1, <1>2, <2>1 DEF PurgeListExpired
  <1>5. CASE ~ (FindExpiredVolumeRecords(t) \/ DeactivePolicyByPath(t) \/ ActivePolicyByPath(t))
    <2>1. DeactiveQuery(t) => job'[t].pc # "purge"
      BY <1>1 DEF DeactiveQuery
    <2>2. DeactiveStamp(t) => job'[t].pc # "purge"
      BY <1>1 DEF DeactiveStamp
    <2>3. DeactiveUnset(t) => job'[t].pc # "purge"
      BY <1>1 DEF DeactiveUnset
    <2>4. CleanMacPolicyByPath(t) => job'[t].pc # "purge"
      BY <1>1 DEF CleanMacPolicyByPath
    <2>5. DeleteExpiredRecords(t) => job'[t].pc # "purge"
      BY <1>1 DEF DeleteExpiredRecords
    <2>6. ActiveQuery(t) => job'[t].pc # "purge"
      <3> SUFFICES ASSUME ActiveQuery(t) PROVE job'[t].pc # "purge"
        OBVIOUS
      <3> PICK found, fresh : ActiveFound(t, found, fresh)
        BY ActiveQueryFinds
      <3>1. job'[t].pc = IF fresh = {} THEN "done" ELSE "set"
        BY <1>1 DEF ActiveFound, Jobs
      <3> QED  BY <3>1
    <2>7. ActivateSet(t) => job'[t].pc # "purge"
      BY <1>1 DEF ActivateSet
    <2>8. ActivateClear(t) => job'[t].pc # "purge"
      BY <1>1 DEF ActivateClear
    <2>9. DbError(t) => job'[t].pc # "purge"
      BY <1>1 DEF DbError
    <2>10. job'[t].pc # "purge"
      BY <1>5, <2>1, <2>2, <2>3, <2>4, <2>5, <2>6, <2>7, <2>8, <2>9 DEF Step
    <2> QED  BY <1>1, <1>2, <2>10 DEF PurgeListExpired
  <1> QED  BY <1>3, <1>4, <1>5

(* The invariant holds initially.                                             *)
LEMMA InitInv == Init => Inv
  <1> SUFFICES ASSUME Init PROVE Inv
    OBVIOUS
  <1>1. \A t \in Threads : job[t].pc = "idle"
    BY DEF Init
  <1>2. PurgeListExpired
    BY <1>1 DEF PurgeListExpired
  <1>3. \A t \in Threads : Tracked(t)
    BY <1>1 DEF Tracked, JobShape, Progress
  <1> QED  BY <1>2, <1>3, InitType DEF Inv

(* Every step keeps the invariant.                                            *)
LEMMA NextInv == Inv /\ [Next]_vars => Inv'
  <1> SUFFICES ASSUME Inv, [Next]_vars PROVE Inv'
    OBVIOUS
  <1>1. TypeOK /\ PurgeListExpired /\ TypeOK' /\ \A u \in Threads : Tracked(u)
    BY NextType DEF Inv
  <1>2. CASE \E t \in Threads : Step(t)
    <2>1. PICK t \in Threads : Step(t)
      BY <1>2
    <2>2. \A u \in Threads : Tracked(u)'
      BY <1>1, <2>1, StepRespects, Frame, OwnStep
    <2> QED  BY <1>1, <2>1, <2>2, PurgeStep DEF Inv
  <1>3. CASE \E r \in Rows : Persist(r) \/ RemoveRow(r) \/ ChangeRule(r)
    <2>1. \A u \in Threads : Respects(u)
      BY <1>1, <1>3, OtherRespects
    <2>2. \A u \in Threads : Tracked(u)'
      BY <1>1, <2>1, Frame
    <2>3. PurgeListExpired'
      BY <1>1, <2>1 DEF PurgeListExpired, Respects
    <2> QED  BY <1>1, <2>2, <2>3 DEF Inv
  <1>4. CASE SetClock \/ UNCHANGED vars
    <2>1. \A u \in Threads : Respects(u)
      BY <1>4 DEF SetClock, vars, Respects
    <2>2. \A u \in Threads : Tracked(u)'
      BY <1>1, <2>1, Frame
    <2>3. PurgeListExpired'
      BY <1>1, <2>1 DEF PurgeListExpired, Respects
    <2> QED  BY <1>1, <2>2, <2>3 DEF Inv
  <1> QED  BY <1>2, <1>3, <1>4 DEF Next

-----------------------------------------------------------------------------
(* Theorems *)

(* The invariant makes every answer true.                                     *)
LEMMA InvAnswers == Inv => VolumeAnswersTruthfully
  <1> SUFFICES ASSUME Inv, NEW t \in Threads, job[t].pc = "done", job[t].ok,
                      NEW r \in rows \ (touched[t] \cup job[t].missed),
                      VolumeOf[r] = job[t].vol
               PROVE  /\ job[t].op = "active" => stamp[r] = 0
                      /\ job[t].op = "deactive" =>
                           stamp[r] = job[t].now /\ (r \in rules => r \in job[t].kept)
    BY DEF VolumeAnswersTruthfully
  <1>1. r \in Rows /\ Untouched(t, r)
    BY DEF Inv, TypeOK, Untouched
  <1>2. Progress(t, r)
    BY <1>1 DEF Inv, Tracked
  <1> QED  BY <1>2 DEF Progress, Deactivated

(* An answer OK of ActivePolicyByPath or DeactivePolicyByPath is true of     *)
(* every row of the volume that no other handler changed meanwhile, however  *)
(* many handlers run, except for rows a truncated query lost: no row is left *)
(* with a stamp after mounting, and none without one, or with a rule that    *)
(* the kernel did not refuse to remove, after removal.                       *)
THEOREM AnswersAreTrue == Spec => []VolumeAnswersTruthfully
  <1> QED  BY InitInv, NextInv, InvAnswers, PTL DEF Spec

(* The step from purge to query is the deleting transaction.                 *)
LEMMA DeletionIsFresh ==
  ASSUME Inv, [Next]_vars, NEW t \in Threads, job[t].pc = "purge", job'[t].pc = "query",
         NEW r \in rows \ rows'
  PROVE  stamp[r] > 0 /\ stamp[r] + Ttl < job[t].now
  <1>1. TypeOK /\ PurgeListExpired /\ job[t] \in Jobs /\ job \in [Threads -> Jobs]
    BY DEF Inv, TypeOK
  <1>2. \A u \in Threads : Step(u) => u = t
    BY <1>1, StepRespects DEF Respects
  <1>3. Step(t)
    BY <1>1, <1>2, OtherRespects DEF Next, SetClock, vars, Respects
  <1>4. DeleteExpiredRecords(t)
    <2>1. ~ (DeactivePolicyByPath(t) \/ ActivePolicyByPath(t))
      BY DEF DeactivePolicyByPath, ActivePolicyByPath, Begin
    <2>2. ~ DbError(t)
      BY <1>1 DEF DbError, Jobs
    <2> QED
      BY <1>3, <2>1, <2>2 DEF Step, DeactiveQuery, DeactiveStamp, DeactiveUnset, ActiveQuery,
         CleanMacPolicyByPath, FindExpiredVolumeRecords, ActivateSet, ActivateClear
  <1>5. PICK c \in job[t].todo : c.ts = stamp[c.row] /\ c.row = r
    BY <1>4 DEF DeleteExpiredRecords, Matched, RowsOf
  <1> QED  BY <1>1, <1>5 DEF PurgeListExpired

(* Aging deletes only rows whose stamp is older than the time to live when   *)
(* the deleting transaction runs, whatever happened since the query: a row   *)
(* stamped again or persisted again in between is kept.                      *)
THEOREM AgingIsSafe == Spec => AgingSparesFreshRows
  <1>1. Inv /\ [Next]_vars =>
          [\A t \in Threads : job[t].pc = "purge" /\ job'[t].pc = "query" =>
             \A r \in rows \ rows' : stamp[r] > 0 /\ stamp[r] + Ttl < job[t].now]_vars
    BY DeletionIsFresh
  <1> QED  BY <1>1, InitInv, NextInv, PTL DEF Spec, AgingSparesFreshRows
=============================================================================
