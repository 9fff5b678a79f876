------------------------- MODULE PolicyManagerProofs -------------------------
(***************************************************************************)
(* Theorems about PolicyManager for every set of tokens, threads, paths    *)
(* and policies, every batch size and every bound.                         *)
(***************************************************************************)
EXTENDS PolicyManager, TLAPS

-----------------------------------------------------------------------------
(* Typing *)

(* A new call is well typed, whatever handler it belongs to.                 *)
LEMMA BeginType ==
  ASSUME TypeOK, NEW t \in Threads, NEW op \in Ops, NEW k \in Tokens,
         NEW S \in SUBSET Policies, NEW f \in {0, 1}, NEW pc \in PCs,
         Begin(t, op, k, S, f, pc),
         granted' \in [Tokens -> SUBSET Policies],
         earned' \in [Tokens -> SUBSET Policies]
  PROVE  TypeOK'
  <1> USE DEF TypeOK
  <1>1. call' \in [Threads -> Call]
    <2>1. [op |-> op, tok |-> k, req |-> S, flag |-> f,
           pc |-> pc, todo |-> S, sel |-> {}, ok |-> IF macSupport THEN {} ELSE S,
           ret |-> "ok", missed |-> {}, kept |-> {}] \in Call
      BY DEF Call, Rets
    <2> QED  BY <2>1 DEF Begin
  <1>2. calls' \in 0..MaxCalls
    BY BoundAssumption DEF Begin
  <1>3. touched' \in [Threads -> SUBSET Policies]
    BY DEF Begin
  <1> QED  BY <1>1, <1>2, <1>3 DEF Begin, dbVars, macVars

(* Every handler that starts keeps the types.                                *)
LEMMA StartType ==
  ASSUME TypeOK, NEW t \in Threads, Start(t)
  PROVE  TypeOK'
  <1> USE PolicyAssumption
  <1>1. /\ granted \in [Tokens -> SUBSET Policies]
        /\ earned \in [Tokens -> SUBSET Policies]
        /\ macSupport \in BOOLEAN
    BY DEF TypeOK
  <1>2. \A pc \in PCs : IfMac(pc) \in PCs
    BY DEF IfMac, PCs
  <1>3. \A op, todo, sel : Onward(op, todo, sel) \in PCs
    BY DEF Onward, PCs
  <1>4. /\ {"persist", "unpersist", "set", "unset", "start", "stop", "startByToken",
             "unsetAll", "unpersistAll", "removeBundle"} \subseteq Ops
        /\ {"read", "mac", "write"} \subseteq PCs
    BY DEF Ops, PCs
  <1>5. CASE PersistPolicy(t)
    <2> PICK k \in Tokens, S \in Requests, f \in {0, 1} :
          /\ Begin(t, "persist", k, S, f, IfMac(Onward("persist", S, {})))
          /\ UNCHANGED grantVars
      BY <1>5 DEF PersistPolicy
    <2> QED  BY <1>1, <1>2, <1>3, <1>4, BeginType DEF grantVars
  <1>6. CASE UnPersistPolicy(t)
    BY <1>1, <1>2, <1>4, <1>6, BeginType DEF UnPersistPolicy, grantVars
  <1>7. CASE SetPolicy(t)
    <2> PICK k \in Tokens, S \in Requests, f \in {0, 1} :
          /\ Begin(t, "set", k, S, f, IfMac(Onward("set", S, {})))
          /\ granted' = [granted EXCEPT ![k] = @ \cup S]
          /\ earned' = [earned EXCEPT ![k] = IF f = 1 THEN @ \cup S ELSE @]
      BY <1>7 DEF SetPolicy
    <2>1. /\ granted' \in [Tokens -> SUBSET Policies]
          /\ earned' \in [Tokens -> SUBSET Policies]
      BY <1>1
    <2>2. IfMac(Onward("set", S, {})) \in PCs /\ S \in SUBSET Policies /\ "set" \in Ops
      BY <1>2, <1>3, <1>4
    <2> HIDE PolicyAssumption
    <2> QED  BY ONLY TypeOK, <2>1, <2>2, k \in Tokens, f \in {0, 1}, t \in Threads,
                BeginType, Begin(t, "set", k, S, f, IfMac(Onward("set", S, {})))
  <1>8. CASE UnSetPolicy(t)
    <2> PICK k \in Tokens, p \in Policies :
          /\ Begin(t, "unset", k, {p}, 0, IfMac("mac"))
          /\ UNCHANGED grantVars
      BY <1>8 DEF UnSetPolicy
    <2> QED  BY <1>1, <1>2, <1>4, BeginType DEF grantVars
  <1>9. CASE StartAccessingPolicy(t)
    BY <1>1, <1>2, <1>4, <1>9, BeginType DEF StartAccessingPolicy, grantVars
  <1>10. CASE StopAccessingPolicy(t)
    BY <1>1, <1>2, <1>4, <1>10, BeginType DEF StopAccessingPolicy, grantVars
  <1>11. CASE StartAccessingByTokenId(t)
    BY <1>1, <1>2, <1>4, <1>11, BeginType DEF StartAccessingByTokenId, grantVars
  <1>12. CASE UnSetAllPolicyByToken(t)
    BY <1>1, <1>2, <1>4, <1>12, BeginType DEF UnSetAllPolicyByToken, grantVars
  <1>13. CASE UnPersistAll(t)
    BY <1>1, <1>2, <1>4, <1>13, BeginType DEF UnPersistAll, grantVars
  <1>14. CASE PackageRemoved(t)
    BY <1>1, <1>2, <1>4, <1>14, BeginType DEF PackageRemoved, grantVars
  <1> QED
    BY <1>5, <1>6, <1>7, <1>8, <1>9, <1>10, <1>11, <1>12, <1>13, <1>14 DEF Start

(* A touched policy set keeps its type.                                       *)
LEMMA TouchType ==
  ASSUME TypeOK, NEW t, NEW k, NEW S \in SUBSET Policies, Touch(t, k, S)
  PROVE  touched' \in [Threads -> SUBSET Policies]
  BY DEF TypeOK, Touch

(* The kernel keeps its marks on its rules.                                  *)
LEMMA KernelType ==
  ASSUME TypeOK, NEW k \in Tokens, NEW S \in SUBSET Policies,
         \/ \E bad : KernelUnSet(k, S, bad)
         \/ \E flag, bad : KernelSet(k, S, flag, bad)
  PROVE  /\ rules' \in [Tokens -> SUBSET Policies]
         /\ persistable' \in [Tokens -> SUBSET Policies]
         /\ \A j \in Tokens : persistable'[j] \subseteq rules'[j]
  <1>1. ASSUME NEW bad, KernelUnSet(k, S, bad)
        PROVE  /\ rules' \in [Tokens -> SUBSET Policies]
               /\ persistable' \in [Tokens -> SUBSET Policies]
               /\ \A j \in Tokens : persistable'[j] \subseteq rules'[j]
    BY <1>1 DEF TypeOK, KernelUnSet
  <1>2. ASSUME NEW flag, NEW bad, KernelSet(k, S, flag, bad)
        PROVE  /\ rules' \in [Tokens -> SUBSET Policies]
               /\ persistable' \in [Tokens -> SUBSET Policies]
               /\ \A j \in Tokens : persistable'[j] \subseteq rules'[j]
    <2> PICK keep \in SUBSET (persistable[k] \cap (S \ bad)) :
          persistable' = [persistable EXCEPT ![k] =
            IF flag = 1 THEN @ \cup (S \ bad) ELSE (@ \ (S \ bad)) \cup keep]
      BY <1>2 DEF KernelSet
    <2> QED  BY <1>2 DEF TypeOK, KernelSet
  <1> QED  BY <1>1, <1>2

(* A query counts at most one fault.                                         *)
LEMMA FindType ==
  ASSUME TypeOK, NEW R, NEW F, Find(R, F)
  PROVE  calls' \in 0..MaxCalls /\ faults' \in 0..MaxFaults
  BY BoundAssumption DEF TypeOK, Find

(* Every step of a handler keeps the types.                                  *)
LEMMA StepType ==
  ASSUME TypeOK, NEW t \in Threads, Step(t)
  PROVE  TypeOK'
  <1> DEFINE c == call[t]
  <1>1. c \in Call
    BY DEF TypeOK
  <1>2. /\ c.tok \in Tokens /\ c.req \subseteq Policies /\ c.todo \subseteq Policies
        /\ c.sel \subseteq Policies /\ c.ok \subseteq Policies /\ c.flag \in {0, 1}
        /\ c.missed \subseteq Policies /\ c.kept \subseteq Policies
    BY <1>1 DEF Call
  <1>3. \A op, todo, sel : Onward(op, todo, sel) \in PCs
    BY DEF Onward, PCs
  <1>4. {"read", "mac", "write", "done"} \subseteq PCs /\ {"ok", "dbErr", "macErr", "empty"} \subseteq Rets
    BY DEF PCs, Rets
  <1> HIDE DEF c
  <1>5. CASE QueryBatch(t)
    <2> PICK B \in SUBSET c.todo :
          LET verified == {q \in B : Verified(c.tok, q)}
              sel == c.sel \cup {q \in B : QueryOk(c.tok, q)} \cup verified
          IN /\ call' = [call EXCEPT ![t].todo = Rest(c.todo, B), ![t].sel = sel,
                                     ![t].pc = Onward(c.op, Rest(c.todo, B), sel)]
             /\ earned' = [earned EXCEPT ![c.tok] =
                  @ \cup {q \in verified : <<c.tok, q.path>> \in UserGranted}]
             /\ UNCHANGED <<macSupport, dbVars, macVars, bounds, granted, touched>>
      BY <1>5 DEF QueryBatch, c
    <2>1. call' \in [Threads -> Call]
      BY <1>1, <1>2, <1>3 DEF TypeOK, Call, Rest, c
    <2>2. earned' \in [Tokens -> SUBSET Policies]
      BY <1>2 DEF TypeOK
    <2> QED  BY <2>1, <2>2 DEF TypeOK, dbVars, macVars, bounds
  <1>6. CASE AddToDatabase(t)
    <2>1. call' \in [Threads -> Call]
      BY <1>1, <1>2, <1>4, <1>6 DEF TypeOK, AddToDatabase, Call, c
    <2>2. /\ rows' \in [Tokens -> SUBSET Policies]
          /\ autoLoad' \in [Tokens -> SUBSET Policies]
          /\ \A k \in Tokens : autoLoad'[k] \subseteq rows'[k]
      BY <1>2, <1>6 DEF TypeOK, AddToDatabase, AddedFlags, c
    <2>3. touched' \in [Threads -> SUBSET Policies]
      BY <1>2, <1>6, TouchType DEF AddToDatabase, c
    <2> QED  BY <1>6, <2>1, <2>2, <2>3 DEF TypeOK, AddToDatabase, macVars, bounds, grantVars
  <1>7. CASE ReadForRemove(t)
    <2> DEFINE found(F) == UNION {FindMatchingPaths(F, q) : q \in c.req}
               hit(F) == {q \in c.req : FindMatchingPaths(F, q) # {}}
    <2> PICK F \in SUBSET rows[c.tok] :
          /\ Find(rows[c.tok], F)
          /\ call' = [call EXCEPT ![t].todo = found(F), ![t].sel = found(F),
               ![t].pc = Onward(c.op, found(F), found(F)), ![t].ok = hit(F),
               ![t].missed = rows[c.tok] \ F]
      BY <1>7 DEF ReadForRemove, c
    <2>1. found(F) \subseteq Policies /\ rows[c.tok] \ F \subseteq Policies
      BY <1>2 DEF TypeOK, FindMatchingPaths
    <2>2. hit(F) \subseteq Policies
      BY <1>2
    <2> HIDE DEF found, hit
    <2>3. call' \in [Threads -> Call]
      <3> DEFINE d == [c EXCEPT !.todo = found(F), !.sel = found(F),
                         !.pc = Onward(c.op, found(F), found(F)), !.ok = hit(F),
                         !.missed = rows[c.tok] \ F]
      <3>1. d \in Call
        BY <1>1, <1>3, <2>1, <2>2 DEF Call
      <3>2. call' = [call EXCEPT ![t] = d]
        BY DEF c
      <3> QED  BY <3>1, <3>2 DEF TypeOK
    <2> QED  BY <1>7, <2>3, FindType DEF TypeOK, ReadForRemove, dbVars, macVars, grantVars
  <1>8. CASE RemoveFromDatabase(t)
    <2>1. call' \in [Threads -> Call]
      BY <1>1, <1>2, <1>4, <1>8 DEF TypeOK, RemoveFromDatabase, Call, c
    <2>2. /\ rows' \in [Tokens -> SUBSET Policies]
          /\ autoLoad' \in [Tokens -> SUBSET Policies]
          /\ \A k \in Tokens : autoLoad'[k] \subseteq rows'[k]
      BY <1>2, <1>8 DEF TypeOK, RemoveFromDatabase, c
    <2>3. touched' \in [Threads -> SUBSET Policies]
      BY <1>2, <1>8, TouchType DEF RemoveFromDatabase, c
    <2> QED  BY <1>8, <2>1, <2>2, <2>3 DEF TypeOK, RemoveFromDatabase, macVars, bounds, grantVars
  <1>9. CASE MatchPolicy(t)
    <2> PICK F \in SUBSET rows[c.tok] :
          LET match == {q \in c.req : CheckPathNew(F, q)}
          IN /\ Find(rows[c.tok], F)
             /\ call' = [call EXCEPT ![t].todo = match, ![t].sel = match,
                                     ![t].pc = Onward(c.op, match, match)]
      BY <1>9 DEF MatchPolicy, c
    <2>1. call' \in [Threads -> Call]
      BY <1>1, <1>2, <1>3 DEF TypeOK, Call, c
    <2> QED  BY <1>9, <2>1, FindType DEF TypeOK, MatchPolicy, dbVars, macVars, grantVars
  <1>10. CASE ReadAutoLoad(t)
    <2> PICK found \in SUBSET autoLoad[c.tok] :
          /\ Find(autoLoad[c.tok], found)
          /\ call' = [call EXCEPT ![t].todo = found, ![t].sel = found,
                                  ![t].pc = Onward(c.op, found, found),
                                  ![t].ret = IF found = {} THEN "empty" ELSE "ok",
                                  ![t].missed = autoLoad[c.tok] \ found]
      BY <1>10 DEF ReadAutoLoad, c
    <2>1. autoLoad[c.tok] \subseteq Policies
      BY <1>2 DEF TypeOK
    <2>2. call' \in [Threads -> Call]
      <3> DEFINE d == [c EXCEPT !.todo = found, !.sel = found,
                         !.pc = Onward(c.op, found, found),
                         !.ret = IF found = {} THEN "empty" ELSE "ok",
                         !.missed = autoLoad[c.tok] \ found]
      <3>1. found \subseteq Policies /\ autoLoad[c.tok] \ found \subseteq Policies
        BY <2>1
      <3>2. d \in Call
        BY <1>1, <1>3, <1>4, <3>1 DEF Call
      <3>3. call' = [call EXCEPT ![t] = d]
        BY DEF c
      <3> QED  BY <3>2, <3>3 DEF TypeOK
    <2> QED  BY <1>10, <2>2, FindType DEF TypeOK, ReadAutoLoad, dbVars, macVars, grantVars
  <1>11. CASE SetBatch(t)
    <2> PICK B \in SUBSET c.todo : \E bad \in SUBSET B :
          /\ KernelSet(c.tok, B, c.flag, bad)
          /\ call' = [call EXCEPT ![t].todo = Rest(c.todo, B),
                                  ![t].ok = c.ok \cup (B \ bad),
                                  ![t].pc = Onward(c.op, Rest(c.todo, B), c.sel)]
          /\ Touch(t, c.tok, B)
      BY <1>11 DEF SetBatch, c
    <2> PICK bad \in SUBSET B :
          /\ KernelSet(c.tok, B, c.flag, bad)
          /\ call' = [call EXCEPT ![t].todo = Rest(c.todo, B),
                                  ![t].ok = c.ok \cup (B \ bad),
                                  ![t].pc = Onward(c.op, Rest(c.todo, B), c.sel)]
          /\ Touch(t, c.tok, B)
      OBVIOUS
    <2>0. B \subseteq Policies
      BY <1>2
    <2>1. call' \in [Threads -> Call]
      BY <1>1, <1>2, <1>3 DEF TypeOK, Call, Rest, c
    <2>2. touched' \in [Threads -> SUBSET Policies]
      BY <2>0, TouchType
    <2>3. /\ rules' \in [Tokens -> SUBSET Policies]
          /\ persistable' \in [Tokens -> SUBSET Policies]
          /\ \A j \in Tokens : persistable'[j] \subseteq rules'[j]
      BY <2>0, <1>2, KernelType
    <2> QED  BY <1>11, <2>1, <2>2, <2>3 DEF TypeOK, SetBatch, dbVars, bounds, grantVars
  <1>12. CASE UnSetBatch(t)
    <2> PICK B \in SUBSET c.todo : \E bad \in SUBSET B :
          /\ KernelUnSet(c.tok, B, bad)
          /\ call' = [call EXCEPT ![t].todo = Rest(c.todo, B),
                                  ![t].ok = Reported(c, B, bad),
                                  ![t].kept = IF c.op = "stop" THEN @
                                              ELSE @ \cup (bad \cap rules[c.tok]),
                                  ![t].pc = Onward(c.op, Rest(c.todo, B), c.sel)]
          /\ Touch(t, c.tok, B)
      BY <1>12 DEF UnSetBatch, c
    <2> PICK bad \in SUBSET B :
          /\ KernelUnSet(c.tok, B, bad)
          /\ call' = [call EXCEPT ![t].todo = Rest(c.todo, B),
                                  ![t].ok = Reported(c, B, bad),
                                  ![t].kept = IF c.op = "stop" THEN @
                                              ELSE @ \cup (bad \cap rules[c.tok]),
                                  ![t].pc = Onward(c.op, Rest(c.todo, B), c.sel)]
          /\ Touch(t, c.tok, B)
      OBVIOUS
    <2>0. B \subseteq Policies
      BY <1>2
    <2>1. call' \in [Threads -> Call]
      <3>1. Reported(c, B, bad) \subseteq Policies
        BY <1>2, <2>0 DEF Reported
      <3>2. bad \cap rules[c.tok] \subseteq Policies
        BY <2>0
      <3> DEFINE d == [c EXCEPT !.todo = Rest(c.todo, B), !.ok = Reported(c, B, bad),
                         !.kept = IF c.op = "stop" THEN @ ELSE @ \cup (bad \cap rules[c.tok]),
                         !.pc = Onward(c.op, Rest(c.todo, B), c.sel)]
      <3>3. d \in Call
        BY <1>1, <1>2, <1>3, <3>1, <3>2 DEF Call, Rest
      <3>4. call' = [call EXCEPT ![t] = d]
        BY DEF c
      <3> HIDE DEF d
      <3> QED  BY <3>3, <3>4 DEF TypeOK
    <2>2. touched' \in [Threads -> SUBSET Policies]
      BY <2>0, TouchType
    <2>3. /\ rules' \in [Tokens -> SUBSET Policies]
          /\ persistable' \in [Tokens -> SUBSET Policies]
          /\ \A j \in Tokens : persistable'[j] \subseteq rules'[j]
      BY <2>0, <1>2, KernelType
    <2> QED  BY <1>12, <2>1, <2>2, <2>3 DEF TypeOK, UnSetBatch, dbVars, bounds, grantVars
  <1>13. CASE RemoveBundlePolicy(t)
    <2>1. call' \in [Threads -> Call]
      BY <1>1, <1>2, <1>4, <1>13 DEF TypeOK, RemoveBundlePolicy, Call, IfMac, c
    <2>2. /\ rows' \in [Tokens -> SUBSET Policies]
          /\ autoLoad' \in [Tokens -> SUBSET Policies]
          /\ \A k \in Tokens : autoLoad'[k] \subseteq rows'[k]
      BY <1>2, <1>13 DEF TypeOK, RemoveBundlePolicy, c
    <2>3. touched' \in [Threads -> SUBSET Policies]
      BY <1>2, <1>13, TouchType DEF RemoveBundlePolicy, c
    <2> QED  BY <1>13, <2>1, <2>2, <2>3 DEF TypeOK, RemoveBundlePolicy, macVars, bounds, grantVars
  <1>14. CASE DestroySandboxPolicy(t)
    <2>1. call' \in [Threads -> Call]
      BY <1>1, <1>2, <1>4, <1>14 DEF TypeOK, DestroySandboxPolicy, Call, c
    <2>2. touched' \in [Threads -> SUBSET Policies]
      BY <1>2, <1>14, TouchType DEF DestroySandboxPolicy, c
    <2>3. /\ rules' \in [Tokens -> SUBSET Policies]
          /\ persistable' \in [Tokens -> SUBSET Policies]
          /\ \A j \in Tokens : persistable'[j] \subseteq rules'[j]
      BY <1>2, <1>14, KernelType DEF DestroySandboxPolicy, c
    <2> QED  BY <1>14, <2>1, <2>2, <2>3 DEF TypeOK, DestroySandboxPolicy, dbVars, bounds, grantVars
  <1>15. CASE DbError(t) \/ MacIoctlError(t)
    <2> PICK ret \in {"dbErr", "macErr"} : Fail(t, ret)
      BY <1>15 DEF DbError, MacIoctlError
    <2>1. call' \in [Threads -> Call]
      <3> DEFINE d == [c EXCEPT !.pc = "done", !.ret = ret, !.ok = {}, !.todo = {}]
      <3>1. d \in Call
        BY <1>1, <1>2, <1>4 DEF Call
      <3>2. call' = [call EXCEPT ![t] = d]
        BY DEF Fail, c
      <3> HIDE DEF d
      <3> QED  BY <3>1, <3>2 DEF TypeOK
    <2>2. faults' \in 0..MaxFaults
      BY BoundAssumption DEF TypeOK, Fail
    <2> QED  BY <2>1, <2>2 DEF TypeOK, Fail, dbVars, macVars, grantVars
  <1> QED
    BY <1>5, <1>6, <1>7, <1>8, <1>9, <1>10, <1>11, <1>12, <1>13, <1>14, <1>15 DEF Step

(* A restart keeps the types.                                                 *)
LEMMA RestartType == TypeOK /\ Restart => TypeOK'
  <1> SUFFICES ASSUME TypeOK, Restart  PROVE TypeOK'
    OBVIOUS
  <1>1. call' \in [Threads -> Call]
    <2>1. \A c \in Call : [c EXCEPT !.pc = "idle"] \in Call
      BY DEF Call, PCs
    <2>2. \A t \in Threads : call[t] \in Call
      BY DEF TypeOK
    <2> QED  BY <2>1, <2>2 DEF Restart
  <1>2. faults' \in 0..MaxFaults
    BY BoundAssumption DEF TypeOK, Restart
  <1>3. /\ rules' \in [Tokens -> SUBSET Policies]
        /\ persistable' \in [Tokens -> SUBSET Policies]
        /\ \A j \in Tokens : persistable'[j] \subseteq rules'[j]
    BY DEF TypeOK, Restart
  <1> QED  BY <1>1, <1>2, <1>3 DEF TypeOK, Restart, dbVars, grantVars

(* The initial state has its types.                                           *)
LEMMA InitType == Init => TypeOK
  <1> SUFFICES ASSUME Init PROVE TypeOK
    OBVIOUS
  <1>1. (CHOOSE k \in Tokens : TRUE) \in Tokens
    BY PolicyAssumption
  <1>2. call \in [Threads -> Call]
    BY <1>1 DEF Init, Call, Ops, PCs, Rets
  <1> QED  BY <1>2, BoundAssumption DEF Init, TypeOK

(* The state stays well typed: in particular every flag belongs to a row and *)
(* every persist mark to a rule, through failures and restarts.              *)
THEOREM TypeCorrect == Spec => []TypeOK
  <1>1. TypeOK /\ [Next]_vars => TypeOK'
    <2> SUFFICES ASSUME TypeOK, [Next]_vars PROVE TypeOK'
      OBVIOUS
    <2>1. CASE UNCHANGED vars
      BY <2>1 DEF TypeOK, vars
    <2>2. CASE Next
      BY <2>2, StartType, StepType, RestartType DEF Next
    <2> QED  BY <2>1, <2>2
  <1> QED  BY <1>1, InitType, PTL DEF Spec

-----------------------------------------------------------------------------
(* Queries *)

(* A handler that reads the table changes its own call only.  It gets a part *)
(* of the rows.                                                              *)
LEMMA ReadShape ==
  ASSUME TypeOK, NEW t \in Threads, ReadForRemove(t) \/ MatchPolicy(t) \/ ReadAutoLoad(t)
  PROVE  /\ UNCHANGED <<macSupport, rows, autoLoad, rules, persistable, granted, earned, touched>>
         /\ \A u \in Threads \ {t} : call'[u] = call[u]
         /\ call'[t].op = call[t].op /\ call'[t].tok = call[t].tok
         /\ call'[t].flag = call[t].flag /\ call'[t].req = call[t].req
         /\ ReadForRemove(t) => call[t].op = "unpersist" /\ call[t].pc = "read"
         /\ MatchPolicy(t) =>
              /\ call[t].op \in {"start", "stop"} /\ call[t].pc = "read"
              /\ call'[t].ok = call[t].ok
              /\ \E F \in SUBSET rows[call[t].tok] :
                   call'[t].todo = {q \in call[t].req : CheckPathNew(F, q)}
         /\ ReadAutoLoad(t) =>
              /\ call[t].op = "startByToken" /\ call[t].pc = "read"
              /\ call'[t].ok = call[t].ok
              /\ call'[t].todo \subseteq autoLoad[call[t].tok]
              /\ autoLoad[call[t].tok] \subseteq call'[t].sel \cup call'[t].missed
  <1>1. call \in [Threads -> Call] /\ call[t] \in Call
    BY DEF TypeOK
  <1>2. CASE ReadForRemove(t)
    <2>1. PICK F \in SUBSET rows[call[t].tok] :
            call' = [call EXCEPT
              ![t].todo = UNION {FindMatchingPaths(F, q) : q \in call[t].req},
              ![t].sel = UNION {FindMatchingPaths(F, q) : q \in call[t].req},
              ![t].pc = Onward(call[t].op, UNION {FindMatchingPaths(F, q) : q \in call[t].req},
                               UNION {FindMatchingPaths(F, q) : q \in call[t].req}),
              ![t].ok = {q \in call[t].req : FindMatchingPaths(F, q) # {}},
              ![t].missed = rows[call[t].tok] \ F]
      BY <1>2 DEF ReadForRemove
    <2>2. call[t].op = "unpersist" /\ call[t].pc = "read" /\ ~ MatchPolicy(t) /\ ~ ReadAutoLoad(t)
      BY <1>2 DEF ReadForRemove, MatchPolicy, ReadAutoLoad
    <2>3. UNCHANGED <<macSupport, rows, autoLoad, rules, persistable, granted, earned, touched>>
      BY <1>2 DEF ReadForRemove, dbVars, macVars, grantVars
    <2>4. /\ \A u \in Threads \ {t} : call'[u] = call[u]
          /\ call'[t].op = call[t].op /\ call'[t].tok = call[t].tok
          /\ call'[t].flag = call[t].flag /\ call'[t].req = call[t].req
      BY <1>1, <2>1 DEF Call
    <2> QED  BY <2>2, <2>3, <2>4
  <1>3. CASE MatchPolicy(t)
    <2>1. PICK F \in SUBSET rows[call[t].tok] :
            call' = [call EXCEPT
              ![t].todo = {q \in call[t].req : CheckPathNew(F, q)},
              ![t].sel = {q \in call[t].req : CheckPathNew(F, q)},
              ![t].pc = Onward(call[t].op, {q \in call[t].req : CheckPathNew(F, q)},
                               {q \in call[t].req : CheckPathNew(F, q)})]
      BY <1>3 DEF MatchPolicy
    <2>2. /\ call[t].op \in {"start", "stop"} /\ call[t].pc = "read"
          /\ ~ ReadForRemove(t) /\ ~ ReadAutoLoad(t)
      BY <1>3 DEF ReadForRemove, MatchPolicy, ReadAutoLoad
    <2>3. UNCHANGED <<macSupport, rows, autoLoad, rules, persistable, granted, earned, touched>>
      BY <1>3 DEF MatchPolicy, dbVars, macVars, grantVars
    <2>4. /\ \A u \in Threads \ {t} : call'[u] = call[u]
          /\ call'[t].op = call[t].op /\ call'[t].tok = call[t].tok
          /\ call'[t].flag = call[t].flag /\ call'[t].req = call[t].req
          /\ call'[t].ok = call[t].ok
          /\ call'[t].todo = {q \in call[t].req : CheckPathNew(F, q)}
      BY <1>1, <2>1 DEF Call
    <2> QED  BY <2>2, <2>3, <2>4
  <1>4. CASE ReadAutoLoad(t)
    <2>1. PICK found \in SUBSET autoLoad[call[t].tok] :
            call' = [call EXCEPT ![t].todo = found, ![t].sel = found,
                                 ![t].pc = Onward(call[t].op, found, found),
                                 ![t].ret = IF found = {} THEN "empty" ELSE "ok",
                                 ![t].missed = autoLoad[call[t].tok] \ found]
      BY <1>4 DEF ReadAutoLoad
    <2>2. /\ call[t].op = "startByToken" /\ call[t].pc = "read"
          /\ ~ ReadForRemove(t) /\ ~ MatchPolicy(t)
      BY <1>4 DEF ReadForRemove, MatchPolicy, ReadAutoLoad
    <2>3. UNCHANGED <<macSupport, rows, autoLoad, rules, persistable, granted, earned, touched>>
      BY <1>4 DEF ReadAutoLoad, dbVars, macVars, grantVars
    <2>4. /\ \A u \in Threads \ {t} : call'[u] = call[u]
          /\ call'[t].op = call[t].op /\ call'[t].tok = call[t].tok
          /\ call'[t].flag = call[t].flag /\ call'[t].req = call[t].req
          /\ call'[t].ok = call[t].ok /\ call'[t].todo = found /\ call'[t].sel = found
          /\ call'[t].missed = autoLoad[call[t].tok] \ found
      BY <1>1, <2>1 DEF Call
    <2> QED  BY <2>2, <2>3, <2>4
  <1> QED  BY <1>2, <1>3, <1>4

-----------------------------------------------------------------------------
(* Persistence is earned *)

(* What a starting handler looks like to the invariants below.               *)
NewCall(c) ==
  /\ c.sel = {}
  /\ c.op = "start" => c.flag = 0
  /\ c.op = "startByToken" => c.todo = {}
  /\ c.op \in {"start", "startByToken"} => c.pc # "mac"
  /\ c.op = "set" => c.todo \subseteq granted'[c.tok]
  /\ c.op = "set" /\ c.flag = 1 => c.todo \subseteq earned'[c.tok]

(* What begins is a new call.                                                 *)
LEMMA BeginShape ==
  ASSUME NEW t \in Threads, NEW op, NEW k \in Tokens, NEW S, NEW f, NEW pc,
         TypeOK, Begin(t, op, k, S, f, pc),
         op = "start" => f = 0,
         op = "startByToken" => S = {},
         op \in {"start", "startByToken"} => pc # "mac",
         op = "set" => S \subseteq granted'[k],
         op = "set" /\ f = 1 => S \subseteq earned'[k]
  PROVE  \E c : call' = [call EXCEPT ![t] = c] /\ NewCall(c)
  <1> DEFINE c == [op |-> op, tok |-> k, req |-> S, flag |-> f,
                   pc |-> pc, todo |-> S, sel |-> {},
                   ok |-> IF macSupport THEN {} ELSE S, ret |-> "ok",
                   missed |-> {}, kept |-> {}]
  <1>1. call' = [call EXCEPT ![t] = c]
    BY DEF Begin
  <1>2. NewCall(c)
    BY DEF NewCall
  <1> QED  BY <1>1, <1>2

(* A client starts a new call and changes neither row nor rule.               *)
LEMMA StartShape ==
  ASSUME TypeOK, NEW t \in Threads, Start(t)
  PROVE  /\ \E c : call' = [call EXCEPT ![t] = c] /\ NewCall(c)
         /\ UNCHANGED <<rows, rules, persistable>>
         /\ \A k \in Tokens : earned[k] \subseteq earned'[k] /\ granted[k] \subseteq granted'[k]
  <1>1. UNCHANGED <<rows, rules, persistable>>
    BY DEF Start, PersistPolicy, UnPersistPolicy, SetPolicy, UnSetPolicy,
           StartAccessingPolicy, StopAccessingPolicy, StartAccessingByTokenId,
           UnSetAllPolicyByToken, UnPersistAll, PackageRemoved, Begin, dbVars, macVars
  <1>2. CASE SetPolicy(t)
    <2> PICK k \in Tokens, S \in Requests, f \in {0, 1} :
          /\ Begin(t, "set", k, S, f, IfMac(Onward("set", S, {})))
          /\ granted' = [granted EXCEPT ![k] = @ \cup S]
          /\ earned' = [earned EXCEPT ![k] = IF f = 1 THEN @ \cup S ELSE @]
      BY <1>2 DEF SetPolicy
    <2>1. /\ S \subseteq granted'[k]
          /\ f = 1 => S \subseteq earned'[k]
          /\ \A j \in Tokens : earned[j] \subseteq earned'[j] /\ granted[j] \subseteq granted'[j]
      BY DEF TypeOK
    <2>2. \E c : call' = [call EXCEPT ![t] = c] /\ NewCall(c)
      <3>1. "set" # "start" /\ "set" # "startByToken"
        OBVIOUS
      <3> HIDE <1>2
      <3> QED  BY ONLY TypeOK, t \in Threads, k \in Tokens, <2>1, <3>1, BeginShape,
                  Begin(t, "set", k, S, f, IfMac(Onward("set", S, {})))
    <2> QED  BY <1>1, <2>1, <2>2
  <1>3. CASE ~ SetPolicy(t)
    <2>1. UNCHANGED grantVars
      BY <1>3 DEF Start, PersistPolicy, UnPersistPolicy, UnSetPolicy,
           StartAccessingPolicy, StopAccessingPolicy, StartAccessingByTokenId,
           UnSetAllPolicyByToken, UnPersistAll, PackageRemoved
    <2>2. IfMac("read") # "mac"
      BY DEF IfMac
    <2>3. CASE PersistPolicy(t) \/ UnPersistPolicy(t) \/ UnSetPolicy(t) \/ StopAccessingPolicy(t)
      <3> PICK op \in {"persist", "unpersist", "unset", "stop"} :
            \E k \in Tokens : \E S, f, pc : Begin(t, op, k, S, f, pc)
        BY <2>3 DEF PersistPolicy, UnPersistPolicy, UnSetPolicy, StopAccessingPolicy
      <3> QED  BY <1>1, <2>1, BeginShape DEF grantVars
    <2>4. CASE UnSetAllPolicyByToken(t) \/ UnPersistAll(t) \/ PackageRemoved(t)
      <3> PICK op \in {"unsetAll", "unpersistAll", "removeBundle"} :
            \E k \in Tokens : \E S, f, pc : Begin(t, op, k, S, f, pc)
        BY <2>4 DEF UnSetAllPolicyByToken, UnPersistAll, PackageRemoved
      <3> QED  BY <1>1, <2>1, BeginShape DEF grantVars
    <2>5. CASE StartAccessingPolicy(t)
      <3> PICK k \in Tokens, S \in Requests : Begin(t, "start", k, S, 0, IfMac("read"))
        BY <2>5 DEF StartAccessingPolicy
      <3> QED  BY <1>1, <2>1, <2>2, BeginShape DEF grantVars
    <2>6. CASE StartAccessingByTokenId(t)
      <3> PICK k \in Tokens : Begin(t, "startByToken", k, {}, 1, IfMac("read"))
        BY <2>6 DEF StartAccessingByTokenId
      <3> QED  BY <1>1, <2>1, <2>2, BeginShape DEF grantVars
    <2> QED  BY <1>3, <2>3, <2>4, <2>5, <2>6 DEF Start
  <1> QED  BY <1>2, <1>3

(* A policy within an earned one is earned: paths nest transitively.         *)
LEMMA EarnedWithin ==
  ASSUME TypeOK, NEW k \in Tokens, NEW p \in Policies, NEW q \in Policies,
         LiesWithin(p, earned[k]), <<p.path, q.path>> \in AtOrAbove, q.mode \subseteq p.mode
  PROVE  LiesWithin(q, earned[k])
  <1> PICK e \in earned[k] : <<e.path, p.path>> \in AtOrAbove /\ p.mode \subseteq e.mode
    BY DEF LiesWithin
  <1>1. e.path \in Paths /\ p.path \in Paths /\ q.path \in Paths
    BY PolicyAssumption DEF TypeOK
  <1>2. <<e.path, q.path>> \in AtOrAbove
    BY <1>1, PathAssumption
  <1> QED  BY <1>2 DEF LiesWithin

(* What is in earned is earned.                                              *)
LEMMA EarnedItself ==
  ASSUME TypeOK, NEW k \in Tokens, NEW q \in earned[k]
  PROVE  LiesWithin(q, earned[k])
  <1>1. q.path \in Paths
    BY PolicyAssumption DEF TypeOK
  <1> QED  BY <1>1, PathAssumption DEF LiesWithin

(* earned only grows, so what was earned stays earned.                       *)
LEMMA EarnedGrows ==
  ASSUME NEW k \in Tokens, NEW q, LiesWithin(q, earned[k]), earned[k] \subseteq earned'[k]
  PROVE  LiesWithin(q, earned'[k])
  BY DEF LiesWithin

(* Initially whatever is persistent was earned.                               *)
LEMMA EarnedInit == Init => PersistenceIsEarned /\ CallsEarned
  <1> SUFFICES ASSUME Init PROVE PersistenceIsEarned /\ CallsEarned
    OBVIOUS
  <1>1. TypeOK
    BY InitType
  <1>2. \A k \in Tokens : \A q \in rows[k] \cup persistable[k] : q \in earned[k]
    BY DEF Init
  <1>3. PersistenceIsEarned
    BY <1>1, <1>2, EarnedItself DEF PersistenceIsEarned
  <1>4. CallsEarned
    BY DEF Init, CallsEarned
  <1> QED  BY <1>3, <1>4

(* Starting a call makes nothing persistent.                                  *)
LEMMA EarnedStart ==
  ASSUME EarnedInv, NEW t \in Threads, Start(t)
  PROVE  PersistenceIsEarned' /\ CallsEarned'
  <1>1. TypeOK /\ TypeOK'
    BY StartType DEF EarnedInv
  <1> PICK c : call' = [call EXCEPT ![t] = c] /\ NewCall(c)
    BY <1>1, StartShape
  <1>2. /\ UNCHANGED <<rows, rules, persistable>>
        /\ \A k \in Tokens : earned[k] \subseteq earned'[k]
    BY <1>1, StartShape
  <1>3. \A k \in Tokens : \A q : LiesWithin(q, earned[k]) => LiesWithin(q, earned'[k])
    BY <1>2, EarnedGrows
  <1>4. PersistenceIsEarned'
    BY <1>2, <1>3 DEF PersistenceIsEarned, EarnedInv
  <1>5. call'[t] = c /\ \A u \in Threads \ {t} : call'[u] = call[u]
    BY <1>1 DEF TypeOK
  <1>6. c.tok \in Tokens /\ \A u \in Threads : call[u].tok \in Tokens
    BY <1>1, <1>5 DEF TypeOK, Call
  <1>7. \A k \in Tokens : \A q \in earned'[k] : LiesWithin(q, earned'[k])
    <2>1. \A k \in Tokens : \A q \in earned'[k] : q.path \in Paths
      BY <1>1, PolicyAssumption DEF TypeOK
    <2> QED  BY <2>1, PathAssumption DEF LiesWithin
  <1>8. CallsEarned'
    <2> SUFFICES ASSUME NEW u \in Threads
                 PROVE  LET d == call'[u]
                        IN /\ d.op = "start" => d.flag = 0
                           /\ d.op = "persist" => \A q \in d.sel : LiesWithin(q, earned'[d.tok])
                           /\ d.op = "startByToken" => \A q \in d.todo : LiesWithin(q, earned'[d.tok])
                           /\ d.op = "set" /\ d.flag = 1 => \A q \in d.todo : LiesWithin(q, earned'[d.tok])
      BY DEF CallsEarned
    <2>1. CASE u = t
      BY <1>5, <1>6, <1>7, <2>1 DEF NewCall
    <2>2. CASE u # t
      BY <1>3, <1>5, <1>6, <2>2 DEF EarnedInv, CallsEarned
    <2> QED  BY <2>1, <2>2
  <1> QED  BY <1>4, <1>8

(* A step that only copies or drops: nothing new reaches the table, the      *)
(* persistable rules or a handler's earned copies.                           *)
LEMMA EarnedFrame ==
  ASSUME EarnedInv, NEW t \in Threads,
         TypeOK',
         \A k \in Tokens : earned[k] \subseteq earned'[k],
         \A k \in Tokens : \A q \in rows'[k] \cup persistable'[k] :
            q \in rows[k] \cup persistable[k] \/ LiesWithin(q, earned'[k]),
         \A u \in Threads \ {t} : call'[u] = call[u],
         call'[t].op = call[t].op /\ call'[t].tok = call[t].tok /\ call'[t].flag = call[t].flag,
         call[t].op = "persist" =>
           \A q \in call'[t].sel : q \in call[t].sel \/ LiesWithin(q, earned'[call[t].tok]),
         call[t].op \in {"set", "startByToken"} =>
           \A q \in call'[t].todo : q \in call[t].todo \/ LiesWithin(q, earned'[call[t].tok])
  PROVE  PersistenceIsEarned' /\ CallsEarned'
  <1>1. \A k \in Tokens : \A q : LiesWithin(q, earned[k]) => LiesWithin(q, earned'[k])
    BY EarnedGrows
  <1>2. PersistenceIsEarned'
    BY <1>1 DEF PersistenceIsEarned, EarnedInv
  <1>3. \A u \in Threads : call[u].tok \in Tokens
    BY DEF EarnedInv, TypeOK, Call
  <1>4. CallsEarned'
    <2> SUFFICES ASSUME NEW u \in Threads
                 PROVE  LET d == call'[u]
                        IN /\ d.op = "start" => d.flag = 0
                           /\ d.op = "persist" => \A q \in d.sel : LiesWithin(q, earned'[d.tok])
                           /\ d.op = "startByToken" => \A q \in d.todo : LiesWithin(q, earned'[d.tok])
                           /\ d.op = "set" /\ d.flag = 1 => \A q \in d.todo : LiesWithin(q, earned'[d.tok])
      BY DEF CallsEarned
    <2>1. CASE u = t
      BY <1>1, <1>3, <2>1 DEF EarnedInv, CallsEarned
    <2>2. CASE u # t
      BY <1>1, <1>3, <2>2 DEF EarnedInv, CallsEarned
    <2> QED  BY <2>1, <2>2
  <1> QED  BY <1>2, <1>4

(* The query answers only for what is earned.                                *)
LEMMA QueryEarned ==
  ASSUME EarnedInv, NEW k \in Tokens, NEW q \in Policies, QueryOk(k, q)
  PROVE  LiesWithin(q, earned[k])
  <1> PICK p \in persistable[k] : Covers(p, q)
    BY DEF QueryOk
  <1>1. p \in Policies /\ LiesWithin(p, earned[k])
    BY DEF EarnedInv, TypeOK, PersistenceIsEarned
  <1>2. <<p.path, q.path>> \in AtOrAbove /\ q.mode \subseteq p.mode
    BY DEF Covers, Inherits
  <1> QED  BY <1>1, <1>2, EarnedWithin DEF EarnedInv

(* A step of a call persists only what the call earned.                       *)
LEMMA EarnedStep ==
  ASSUME EarnedInv, NEW t \in Threads, Step(t)
  PROVE  PersistenceIsEarned' /\ CallsEarned'
  <1> DEFINE c == call[t]
  <1>1. TypeOK /\ TypeOK'
    BY StepType DEF EarnedInv
  <1>2. /\ c \in Call /\ c.tok \in Tokens
        /\ c.todo \subseteq Policies /\ c.sel \subseteq Policies
    BY <1>1 DEF TypeOK, Call
  <1>3. call \in [Threads -> Call] /\ c \in Call
    BY <1>1 DEF TypeOK
  <1> HIDE DEF c
  <1>5. CASE QueryBatch(t)
    <2> PICK B \in SUBSET c.todo :
          LET verified == {q \in B : Verified(c.tok, q)}
              sel == c.sel \cup {q \in B : QueryOk(c.tok, q)} \cup verified
          IN /\ call' = [call EXCEPT ![t].todo = Rest(c.todo, B), ![t].sel = sel,
                                     ![t].pc = Onward(c.op, Rest(c.todo, B), sel)]
             /\ earned' = [earned EXCEPT ![c.tok] =
                  @ \cup {q \in verified : <<c.tok, q.path>> \in UserGranted}]
             /\ UNCHANGED <<macSupport, dbVars, macVars, bounds, granted, touched>>
      BY <1>5 DEF QueryBatch, c
    <2>1. \A k \in Tokens : earned[k] \subseteq earned'[k]
      BY <1>1, <1>2 DEF TypeOK
    <2>2. /\ \A u \in Threads \ {t} : call'[u] = call[u]
          /\ call'[t].op = c.op /\ call'[t].tok = c.tok /\ call'[t].flag = c.flag
          /\ call'[t].sel = c.sel \cup {q \in B : QueryOk(c.tok, q)}
                                 \cup {q \in B : Verified(c.tok, q)}
          /\ call'[t].todo \subseteq c.todo
      BY <1>3 DEF Call, Rest, c
    <2>3. \A q \in B : QueryOk(c.tok, q) => LiesWithin(q, earned'[c.tok])
      <3> SUFFICES ASSUME NEW q \in B, QueryOk(c.tok, q) PROVE LiesWithin(q, earned'[c.tok])
        OBVIOUS
      <3>1. LiesWithin(q, earned[c.tok])
        BY <1>2, QueryEarned
      <3> QED  BY <3>1, <2>1, <1>2, EarnedGrows
    <2>4. \A q \in B : Verified(c.tok, q) => LiesWithin(q, earned'[c.tok])
      <3> SUFFICES ASSUME NEW q \in B, Verified(c.tok, q) PROVE LiesWithin(q, earned'[c.tok])
        OBVIOUS
      <3>1. q \in earned'[c.tok]
        BY <1>1, <1>2 DEF Verified, TypeOK
      <3>2. q.path \in Paths
        BY <1>2, PolicyAssumption
      <3> QED  BY <3>1, <3>2, PathAssumption DEF LiesWithin
    <2>5. rows' = rows /\ persistable' = persistable
      BY DEF dbVars, macVars
    <2> QED  BY <1>1, <2>1, <2>2, <2>3, <2>4, <2>5, EarnedFrame DEF c
  <1>6. CASE AddToDatabase(t)
    <2>1. earned' = earned /\ persistable' = persistable /\ c.op = "persist"
      BY <1>6 DEF AddToDatabase, macVars, grantVars, c
    <2>2. /\ \A u \in Threads \ {t} : call'[u] = call[u]
          /\ call'[t].op = c.op /\ call'[t].tok = c.tok /\ call'[t].flag = c.flag
          /\ call'[t].sel = c.sel /\ call'[t].todo = c.todo
      BY <1>3, <1>6 DEF AddToDatabase, Call, c
    <2>3. \A q \in c.sel : LiesWithin(q, earned'[c.tok])
      BY <2>1 DEF EarnedInv, CallsEarned, c
    <2>4. \A k \in Tokens : \A q \in rows'[k] : q \in rows[k] \/ LiesWithin(q, earned'[k])
      BY <1>1, <1>2, <1>6, <2>3 DEF AddToDatabase, TypeOK, c
    <2> QED  BY <1>1, <2>1, <2>2, <2>4, EarnedFrame DEF c
  <1>7. CASE ReadForRemove(t) \/ MatchPolicy(t)
    <2>1. /\ earned' = earned /\ persistable' = persistable /\ rows' = rows
          /\ c.op \in {"unpersist", "start", "stop"}
      BY <1>1, <1>7, ReadShape DEF c
    <2>2. /\ \A u \in Threads \ {t} : call'[u] = call[u]
          /\ call'[t].op = c.op /\ call'[t].tok = c.tok /\ call'[t].flag = c.flag
      BY <1>1, <1>7, ReadShape DEF c
    <2> QED  BY <1>1, <2>1, <2>2, EarnedFrame DEF c
  <1>8. CASE RemoveFromDatabase(t) \/ RemoveBundlePolicy(t) \/ DestroySandboxPolicy(t)
    <2>1. /\ earned' = earned
          /\ \A k \in Tokens : rows'[k] \subseteq rows[k] /\ persistable'[k] \subseteq persistable[k]
          /\ c.op \notin {"set", "startByToken", "persist"}
      BY <1>1, <1>2, <1>8 DEF RemoveFromDatabase, RemoveBundlePolicy, DestroySandboxPolicy,
           KernelUnSet, TypeOK, dbVars, macVars, grantVars, c
    <2>2. /\ \A u \in Threads \ {t} : call'[u] = call[u]
          /\ call'[t].op = c.op /\ call'[t].tok = c.tok /\ call'[t].flag = c.flag
      BY <1>3, <1>8 DEF RemoveFromDatabase, RemoveBundlePolicy, DestroySandboxPolicy, Call, c
    <2> QED  BY <1>1, <2>1, <2>2, EarnedFrame DEF c
  <1>9. CASE ReadAutoLoad(t)
    <2>1. /\ earned' = earned /\ persistable' = persistable /\ rows' = rows
          /\ c.op = "startByToken"
      BY <1>1, <1>9, ReadShape DEF c
    <2>2. /\ \A u \in Threads \ {t} : call'[u] = call[u]
          /\ call'[t].op = c.op /\ call'[t].tok = c.tok /\ call'[t].flag = c.flag
          /\ call'[t].todo \subseteq autoLoad[c.tok]
      BY <1>1, <1>9, ReadShape DEF c
    <2>3. \A q \in autoLoad[c.tok] : LiesWithin(q, earned'[c.tok])
      BY <1>1, <1>2, <2>1 DEF EarnedInv, TypeOK, PersistenceIsEarned
    <2> QED  BY <1>1, <2>1, <2>2, <2>3, EarnedFrame DEF c
  <1>10. CASE SetBatch(t)
    <2> PICK B \in SUBSET c.todo : \E bad \in SUBSET B :
          /\ KernelSet(c.tok, B, c.flag, bad)
          /\ call' = [call EXCEPT ![t].todo = Rest(c.todo, B),
                                  ![t].ok = c.ok \cup (B \ bad),
                                  ![t].pc = Onward(c.op, Rest(c.todo, B), c.sel)]
      BY <1>10 DEF SetBatch, c
    <2> PICK bad \in SUBSET B :
          /\ KernelSet(c.tok, B, c.flag, bad)
          /\ call' = [call EXCEPT ![t].todo = Rest(c.todo, B),
                                  ![t].ok = c.ok \cup (B \ bad),
                                  ![t].pc = Onward(c.op, Rest(c.todo, B), c.sel)]
      OBVIOUS
    <2>1. /\ earned' = earned /\ rows' = rows
          /\ c.op \in {"set", "start", "startByToken"}
      BY <1>10 DEF SetBatch, dbVars, grantVars, c
    <2>2. /\ \A u \in Threads \ {t} : call'[u] = call[u]
          /\ call'[t].op = c.op /\ call'[t].tok = c.tok /\ call'[t].flag = c.flag
          /\ call'[t].todo \subseteq c.todo /\ call'[t].sel = c.sel
      BY <1>3 DEF Call, Rest, c
    <2>3. c.flag = 1 => \A q \in B : LiesWithin(q, earned'[c.tok])
      <3>1. c.flag = 1 => \A q \in B : LiesWithin(q, earned[c.tok])
        BY <2>1 DEF EarnedInv, CallsEarned, c
      <3> QED  BY <3>1, <2>1
    <2>4. \A k \in Tokens : \A q \in persistable'[k] : q \in persistable[k] \/ LiesWithin(q, earned'[k])
      <3> PICK keep \in SUBSET (persistable[c.tok] \cap (B \ bad)) :
            persistable' = [persistable EXCEPT ![c.tok] =
              IF c.flag = 1 THEN @ \cup (B \ bad) ELSE (@ \ (B \ bad)) \cup keep]
        BY DEF KernelSet
      <3> QED  BY <1>1, <1>2, <2>3 DEF TypeOK
    <2> QED  BY <1>1, <2>1, <2>2, <2>4, EarnedFrame DEF c
  <1>11. CASE UnSetBatch(t)
    <2>1. /\ earned' = earned /\ rows' = rows
          /\ c.op \in {"unset", "stop", "unpersist"}
      BY <1>11 DEF UnSetBatch, dbVars, grantVars, c
    <2>2. /\ \A u \in Threads \ {t} : call'[u] = call[u]
          /\ call'[t].op = c.op /\ call'[t].tok = c.tok /\ call'[t].flag = c.flag
      BY <1>3, <1>11 DEF UnSetBatch, Call, c
    <2>3. \A k \in Tokens : persistable'[k] \subseteq persistable[k]
      BY <1>1, <1>2, <1>11 DEF UnSetBatch, KernelUnSet, TypeOK, c
    <2> QED  BY <1>1, <2>1, <2>2, <2>3, EarnedFrame DEF c
  <1>12. CASE DbError(t) \/ MacIoctlError(t)
    <2> PICK ret : Fail(t, ret)
      BY <1>12 DEF DbError, MacIoctlError
    <2>1. earned' = earned /\ persistable' = persistable /\ rows' = rows
      BY DEF Fail, dbVars, macVars, grantVars
    <2>2. /\ \A u \in Threads \ {t} : call'[u] = call[u]
          /\ call'[t].op = c.op /\ call'[t].tok = c.tok /\ call'[t].flag = c.flag
          /\ call'[t].sel = c.sel /\ call'[t].todo = {}
      BY <1>3 DEF Fail, Call, c
    <2> QED  BY <1>1, <2>1, <2>2, EarnedFrame DEF c
  <1> QED
    BY <1>5, <1>6, <1>7, <1>8, <1>9, <1>10, <1>11, <1>12 DEF Step

(* A restart persists nothing new.                                            *)
LEMMA EarnedRestart ==
  ASSUME EarnedInv, Restart
  PROVE  PersistenceIsEarned' /\ CallsEarned'
  <1>1. /\ earned' = earned /\ rows' = rows
        /\ \A k \in Tokens : persistable'[k] \subseteq persistable[k]
    BY DEF Restart, dbVars, grantVars
  <1>2. \A k, q : LiesWithin(q, earned'[k]) <=> LiesWithin(q, earned[k])
    BY <1>1
  <1>3. PersistenceIsEarned'
    BY <1>1, <1>2 DEF PersistenceIsEarned, EarnedInv
  <1>4. \A t \in Threads : /\ call'[t].op = call[t].op /\ call'[t].tok = call[t].tok
                           /\ call'[t].flag = call[t].flag /\ call'[t].sel = call[t].sel
                           /\ call'[t].todo = call[t].todo
    BY DEF Restart, EarnedInv, TypeOK, Call
  <1>5. CallsEarned'
    BY <1>1, <1>4 DEF CallsEarned, EarnedInv
  <1> QED  BY <1>3, <1>5

(* Persistence is earned, for every number of tokens, threads, policies and  *)
(* handlers: no interleaving of handlers, failures and restarts turns a      *)
(* temporary grant into a row or a persistable rule.                         *)
THEOREM PersistenceIsAlwaysEarned == Spec => []PersistenceIsEarned
  <1>1. Init => EarnedInv
    BY InitType, EarnedInit DEF EarnedInv
  <1>2. EarnedInv /\ [Next]_vars => EarnedInv'
    <2> SUFFICES ASSUME EarnedInv, [Next]_vars PROVE EarnedInv'
      OBVIOUS
    <2>1. CASE UNCHANGED vars
      BY <2>1 DEF EarnedInv, TypeOK, PersistenceIsEarned, CallsEarned, vars
    <2>2. CASE Next
      <3>1. TypeOK'
        BY <2>2, StartType, StepType, RestartType DEF Next, EarnedInv
      <3>2. PersistenceIsEarned' /\ CallsEarned'
        BY <2>2, EarnedStart, EarnedStep, EarnedRestart DEF Next
      <3> QED  BY <3>1, <3>2 DEF EarnedInv
    <2> QED  BY <2>1, <2>2
  <1>3. EarnedInv => PersistenceIsEarned
    BY DEF EarnedInv
  <1> QED  BY <1>1, <1>2, <1>3, PTL DEF Spec

-----------------------------------------------------------------------------
(* No right from nowhere *)

(* Rights pass down: what several policies give above a path they give to    *)
(* the path.                                                                 *)
LEMMA RightsPassDown ==
  ASSUME TypeOK, NEW k \in Tokens, NEW S \in SUBSET Policies, NEW q \in Policies,
         \A p \in S : RightsWithin(p, granted[k]) /\ <<p.path, q.path>> \in AtOrAbove,
         q.mode \subseteq UNION {p.mode : p \in S}
  PROVE  RightsWithin(q, granted[k])
  <1> SUFFICES ASSUME NEW m \in q.mode
               PROVE  \E g \in granted[k] : <<g.path, q.path>> \in AtOrAbove /\ m \in g.mode
    BY DEF RightsWithin
  <1>1. PICK p \in S : m \in p.mode
    OBVIOUS
  <1>2. PICK g \in granted[k] : <<g.path, p.path>> \in AtOrAbove /\ m \in g.mode
    BY <1>1 DEF RightsWithin
  <1>3. g.path \in Paths /\ p.path \in Paths /\ q.path \in Paths
    BY PolicyAssumption DEF TypeOK
  <1>4. <<g.path, q.path>> \in AtOrAbove
    BY <1>2, <1>3, PathAssumption
  <1> QED  BY <1>2, <1>4

(* A grant covers itself.                                                     *)
LEMMA GrantedItself ==
  ASSUME TypeOK', NEW k \in Tokens, NEW q \in granted'[k]
  PROVE  RightsWithin(q, granted'[k])
  <1>1. q.path \in Paths
    BY PolicyAssumption DEF TypeOK
  <1> QED  BY <1>1, PathAssumption DEF RightsWithin

(* A later history grants whatever an earlier one did.                        *)
LEMMA GrantedGrows ==
  ASSUME NEW k \in Tokens, NEW q, RightsWithin(q, granted[k]), granted[k] \subseteq granted'[k]
  PROVE  RightsWithin(q, granted'[k])
  BY DEF RightsWithin

(* Initially every right was granted.                                         *)
LEMMA GrantedInit == Init => NoRightFromNowhere /\ CallsGranted
  <1> SUFFICES ASSUME Init PROVE NoRightFromNowhere /\ CallsGranted
    OBVIOUS
  <1>1. TypeOK
    BY InitType
  <1>2. ASSUME NEW k \in Tokens, NEW q \in rows[k] \cup rules[k]
        PROVE  RightsWithin(q, granted[k])
    <2>1. q \in granted[k] /\ q.path \in Paths
      BY <1>1, PolicyAssumption DEF Init, TypeOK
    <2> QED  BY <2>1, PathAssumption DEF RightsWithin
  <1>3. CallsGranted
    BY DEF Init, CallsGranted
  <1> QED  BY <1>2, <1>3 DEF NoRightFromNowhere

(* Starting a call grants no right that nobody gave.                          *)
LEMMA GrantedStart ==
  ASSUME GrantedInv, NEW t \in Threads, Start(t)
  PROVE  NoRightFromNowhere' /\ CallsGranted'
  <1>1. TypeOK /\ TypeOK'
    BY StartType DEF GrantedInv
  <1> PICK c : call' = [call EXCEPT ![t] = c] /\ NewCall(c)
    BY <1>1, StartShape
  <1>2. /\ UNCHANGED <<rows, rules, persistable>>
        /\ \A k \in Tokens : granted[k] \subseteq granted'[k]
    BY <1>1, StartShape
  <1>3. \A k \in Tokens : \A q : RightsWithin(q, granted[k]) => RightsWithin(q, granted'[k])
    BY <1>2, GrantedGrows
  <1>4. NoRightFromNowhere'
    BY <1>2, <1>3 DEF NoRightFromNowhere, GrantedInv
  <1>5. call'[t] = c /\ \A u \in Threads \ {t} : call'[u] = call[u]
    BY <1>1 DEF TypeOK
  <1>6. c.tok \in Tokens /\ \A u \in Threads : call[u].tok \in Tokens
    BY <1>1, <1>5 DEF TypeOK, Call
  <1>7. \A k \in Tokens : \A q \in granted'[k] : RightsWithin(q, granted'[k])
    BY <1>1, GrantedItself
  <1>8. CallsGranted'
    <2> SUFFICES ASSUME NEW u \in Threads
                 PROVE  LET d == call'[u]
                        IN /\ d.op = "persist" => \A q \in d.sel : RightsWithin(q, granted'[d.tok])
                           /\ d.op \in {"set", "start", "startByToken"} /\ d.pc = "mac" =>
                                \A q \in d.todo : RightsWithin(q, granted'[d.tok])
      BY DEF CallsGranted
    <2>1. CASE u = t
      BY <1>5, <1>6, <1>7, <2>1 DEF NewCall
    <2>2. CASE u # t
      BY <1>3, <1>5, <1>6, <2>2 DEF GrantedInv, CallsGranted
    <2> QED  BY <2>1, <2>2
  <1> QED  BY <1>4, <1>8

(* A step that copies, drops, or adds what is granted.                       *)
LEMMA GrantedFrame ==
  ASSUME GrantedInv, NEW t \in Threads, granted' = granted,
         \A k \in Tokens : \A q \in rows'[k] \cup rules'[k] :
            q \in rows[k] \cup rules[k] \/ RightsWithin(q, granted[k]),
         \A u \in Threads \ {t} : call'[u] = call[u],
         call'[t].op = call[t].op /\ call'[t].tok = call[t].tok,
         call[t].op = "persist" =>
           \A q \in call'[t].sel : q \in call[t].sel \/ RightsWithin(q, granted[call[t].tok]),
         call[t].op \in {"set", "start", "startByToken"} /\ call'[t].pc = "mac" =>
           \A q \in call'[t].todo : RightsWithin(q, granted[call[t].tok])
  PROVE  NoRightFromNowhere' /\ CallsGranted'
  <1>1. \A k, q : RightsWithin(q, granted'[k]) <=> RightsWithin(q, granted[k])
    OBVIOUS
  <1>2. NoRightFromNowhere'
    BY <1>1 DEF NoRightFromNowhere, GrantedInv
  <1>3. CallsGranted'
    <2> SUFFICES ASSUME NEW u \in Threads
                 PROVE  LET d == call'[u]
                        IN /\ d.op = "persist" => \A q \in d.sel : RightsWithin(q, granted'[d.tok])
                           /\ d.op \in {"set", "start", "startByToken"} /\ d.pc = "mac" =>
                                \A q \in d.todo : RightsWithin(q, granted'[d.tok])
      BY DEF CallsGranted
    <2>1. CASE u = t
      BY <2>1 DEF GrantedInv, CallsGranted
    <2>2. CASE u # t
      BY <2>2 DEF GrantedInv, CallsGranted
    <2> QED  BY <2>1, <2>2
  <1> QED  BY <1>2, <1>3

(* The kernel answers a query only for what is granted.                      *)
LEMMA QueryGranted ==
  ASSUME GrantedInv, NEW k \in Tokens, NEW q \in Policies, QueryOk(k, q) \/ Verified(k, q)
  PROVE  RightsWithin(q, granted[k])
  <1>1. PICK p \in rules[k] : Covers(p, q)
    BY DEF QueryOk, Verified, QueryNonPersist, GrantedInv, TypeOK
  <1>2. {p} \in SUBSET Policies /\ RightsWithin(p, granted[k])
    BY DEF GrantedInv, TypeOK, NoRightFromNowhere
  <1>3. <<p.path, q.path>> \in AtOrAbove /\ q.mode \subseteq UNION {r.mode : r \in {p}}
    BY <1>1 DEF Covers, Inherits
  <1>4. TypeOK
    BY DEF GrantedInv
  <1> QED  BY <1>2, <1>3, <1>4, RightsPassDown

(* So does the search of the table, which may join the rights of several     *)
(* rows.                                                                     *)
LEMMA MatchGranted ==
  ASSUME GrantedInv, NEW k \in Tokens, NEW q \in Policies, NEW F \in SUBSET rows[k],
         CheckPathNew(F, q)
  PROVE  RightsWithin(q, granted[k])
  <1> DEFINE reach == {r \in F : Inherits(r.path, q.path)}
             top == {r \in reach : \A s \in reach : <<r.path, s.path>> \in AtOrAbove}
  <1>1. q.mode \subseteq UNION {r.mode : r \in top}
    BY DEF CheckPathNew, ModeMatch
  <1>2. \A r \in top : r \in rows[k] /\ <<r.path, q.path>> \in AtOrAbove
    BY DEF Inherits
  <1>3. top \in SUBSET Policies /\ \A r \in top : RightsWithin(r, granted[k])
    BY DEF GrantedInv, TypeOK, NoRightFromNowhere
  <1>4. TypeOK
    BY DEF GrantedInv
  <1> HIDE DEF top
  <1> QED  BY <1>1, <1>2, <1>3, <1>4, RightsPassDown

(* A step of a call grants no right that nobody gave.                         *)
LEMMA GrantedStep ==
  ASSUME GrantedInv, NEW t \in Threads, Step(t)
  PROVE  NoRightFromNowhere' /\ CallsGranted'
  <1> DEFINE c == call[t]
  <1>1. TypeOK
    BY DEF GrantedInv
  <1>2. /\ c \in Call /\ c.tok \in Tokens /\ c.req \subseteq Policies
        /\ c.todo \subseteq Policies /\ c.sel \subseteq Policies
    BY <1>1 DEF TypeOK, Call
  <1>3. call \in [Threads -> Call] /\ c \in Call
    BY <1>1 DEF TypeOK
  <1> HIDE DEF c
  <1>5. CASE QueryBatch(t)
    <2> PICK B \in SUBSET c.todo :
          LET verified == {q \in B : Verified(c.tok, q)}
              sel == c.sel \cup {q \in B : QueryOk(c.tok, q)} \cup verified
          IN call' = [call EXCEPT ![t].todo = Rest(c.todo, B), ![t].sel = sel,
                                  ![t].pc = Onward(c.op, Rest(c.todo, B), sel)]
      BY <1>5 DEF QueryBatch, c
    <2>1. /\ \A u \in Threads \ {t} : call'[u] = call[u]
          /\ call'[t].op = c.op /\ call'[t].tok = c.tok
          /\ call'[t].sel = c.sel \cup {q \in B : QueryOk(c.tok, q)}
                                 \cup {q \in B : Verified(c.tok, q)}
      BY <1>3 DEF Call, c
    <2>2. \A q \in B : QueryOk(c.tok, q) \/ Verified(c.tok, q) => RightsWithin(q, granted[c.tok])
      BY <1>2, QueryGranted
    <2>3. granted' = granted /\ rows' = rows /\ rules' = rules /\ c.op = "persist"
      BY <1>5 DEF QueryBatch, dbVars, macVars, c
    <2> QED  BY <2>1, <2>2, <2>3, GrantedFrame DEF c
  <1>6. CASE AddToDatabase(t)
    <2>1. granted' = granted /\ rules' = rules /\ c.op = "persist"
      BY <1>6 DEF AddToDatabase, macVars, grantVars, c
    <2>2. /\ \A u \in Threads \ {t} : call'[u] = call[u]
          /\ call'[t].op = c.op /\ call'[t].tok = c.tok /\ call'[t].sel = c.sel
      BY <1>3, <1>6 DEF AddToDatabase, Call, c
    <2>3. \A q \in c.sel : RightsWithin(q, granted[c.tok])
      BY <2>1 DEF GrantedInv, CallsGranted, c
    <2>4. \A k \in Tokens : \A q \in rows'[k] : q \in rows[k] \/ RightsWithin(q, granted[k])
      BY <1>1, <1>2, <1>6, <2>3 DEF AddToDatabase, TypeOK, c
    <2> QED  BY <2>1, <2>2, <2>4, GrantedFrame DEF c
  <1>7. CASE ReadForRemove(t)
    <2>1. granted' = granted /\ rules' = rules /\ rows' = rows /\ c.op = "unpersist"
      BY <1>1, <1>7, ReadShape DEF c
    <2>2. /\ \A u \in Threads \ {t} : call'[u] = call[u]
          /\ call'[t].op = c.op /\ call'[t].tok = c.tok
      BY <1>1, <1>7, ReadShape DEF c
    <2> QED  BY <2>1, <2>2, GrantedFrame DEF c
  <1>8. CASE MatchPolicy(t)
    <2>1. granted' = granted /\ rules' = rules /\ rows' = rows /\ c.op \in {"start", "stop"}
      BY <1>1, <1>8, ReadShape DEF c
    <2>2. /\ \A u \in Threads \ {t} : call'[u] = call[u]
          /\ call'[t].op = c.op /\ call'[t].tok = c.tok
          /\ \E F \in SUBSET rows[c.tok] : call'[t].todo = {q \in c.req : CheckPathNew(F, q)}
      BY <1>1, <1>8, ReadShape DEF c
    <2>3. \A q \in call'[t].todo : RightsWithin(q, granted[c.tok])
      BY <1>2, <2>2, MatchGranted
    <2> QED  BY <2>1, <2>2, <2>3, GrantedFrame DEF c
  <1>9. CASE ReadAutoLoad(t)
    <2>1. granted' = granted /\ rules' = rules /\ rows' = rows /\ c.op = "startByToken"
      BY <1>1, <1>9, ReadShape DEF c
    <2>2. /\ \A u \in Threads \ {t} : call'[u] = call[u]
          /\ call'[t].op = c.op /\ call'[t].tok = c.tok /\ call'[t].todo \subseteq autoLoad[c.tok]
      BY <1>1, <1>9, ReadShape DEF c
    <2>3. \A q \in call'[t].todo : RightsWithin(q, granted[c.tok])
      BY <1>1, <1>2, <2>2 DEF GrantedInv, TypeOK, NoRightFromNowhere
    <2> QED  BY <2>1, <2>2, <2>3, GrantedFrame DEF c
  <1>10. CASE SetBatch(t)
    <2> PICK B \in SUBSET c.todo : \E bad \in SUBSET B :
          /\ KernelSet(c.tok, B, c.flag, bad)
          /\ call' = [call EXCEPT ![t].todo = Rest(c.todo, B),
                                  ![t].ok = c.ok \cup (B \ bad),
                                  ![t].pc = Onward(c.op, Rest(c.todo, B), c.sel)]
      BY <1>10 DEF SetBatch, c
    <2> PICK bad \in SUBSET B :
          /\ KernelSet(c.tok, B, c.flag, bad)
          /\ call' = [call EXCEPT ![t].todo = Rest(c.todo, B),
                                  ![t].ok = c.ok \cup (B \ bad),
                                  ![t].pc = Onward(c.op, Rest(c.todo, B), c.sel)]
      OBVIOUS
    <2>1. /\ granted' = granted /\ rows' = rows /\ c.pc = "mac"
          /\ c.op \in {"set", "start", "startByToken"}
      BY <1>10 DEF SetBatch, dbVars, grantVars, c
    <2>2. /\ \A u \in Threads \ {t} : call'[u] = call[u]
          /\ call'[t].op = c.op /\ call'[t].tok = c.tok
          /\ call'[t].todo \subseteq c.todo
      BY <1>3 DEF Call, Rest, c
    <2>3. \A q \in c.todo : RightsWithin(q, granted[c.tok])
      BY <2>1 DEF GrantedInv, CallsGranted, c
    <2>4. \A k \in Tokens : \A q \in rules'[k] : q \in rules[k] \/ RightsWithin(q, granted[k])
      BY <1>1, <1>2, <2>3 DEF TypeOK, KernelSet
    <2> QED  BY <2>1, <2>2, <2>3, <2>4, GrantedFrame DEF c
  <1>11. CASE UnSetBatch(t)
    <2>1. /\ granted' = granted /\ rows' = rows
          /\ c.op \in {"unset", "stop", "unpersist"}
      BY <1>11 DEF UnSetBatch, dbVars, grantVars, c
    <2>2. /\ \A u \in Threads \ {t} : call'[u] = call[u]
          /\ call'[t].op = c.op /\ call'[t].tok = c.tok
      BY <1>3, <1>11 DEF UnSetBatch, Call, c
    <2>3. \A k \in Tokens : rules'[k] \subseteq rules[k]
      BY <1>1, <1>2, <1>11 DEF UnSetBatch, KernelUnSet, TypeOK, c
    <2> QED  BY <2>1, <2>2, <2>3, GrantedFrame DEF c
  <1>12. CASE RemoveFromDatabase(t) \/ RemoveBundlePolicy(t) \/ DestroySandboxPolicy(t)
    <2>1. /\ granted' = granted
          /\ \A k \in Tokens : rows'[k] \subseteq rows[k] /\ rules'[k] \subseteq rules[k]
          /\ c.op \notin {"set", "start", "startByToken", "persist"}
      BY <1>1, <1>2, <1>12 DEF RemoveFromDatabase, RemoveBundlePolicy, DestroySandboxPolicy,
           KernelUnSet, TypeOK, dbVars, macVars, grantVars, c
    <2>2. /\ \A u \in Threads \ {t} : call'[u] = call[u]
          /\ call'[t].op = c.op /\ call'[t].tok = c.tok
      BY <1>3, <1>12 DEF RemoveFromDatabase, RemoveBundlePolicy, DestroySandboxPolicy, Call, c
    <2> QED  BY <2>1, <2>2, GrantedFrame DEF c
  <1>13. CASE DbError(t) \/ MacIoctlError(t)
    <2> PICK ret : Fail(t, ret)
      BY <1>13 DEF DbError, MacIoctlError
    <2>1. granted' = granted /\ rules' = rules /\ rows' = rows
      BY DEF Fail, dbVars, macVars, grantVars
    <2>2. /\ \A u \in Threads \ {t} : call'[u] = call[u]
          /\ call'[t].op = c.op /\ call'[t].tok = c.tok
          /\ call'[t].sel = c.sel /\ call'[t].todo = {}
      BY <1>3 DEF Fail, Call, c
    <2> QED  BY <2>1, <2>2, GrantedFrame DEF c
  <1> QED
    BY <1>5, <1>6, <1>7, <1>8, <1>9, <1>10, <1>11, <1>12, <1>13 DEF Step

(* A restart grants no right that nobody gave.                                *)
LEMMA GrantedRestart ==
  ASSUME GrantedInv, Restart
  PROVE  NoRightFromNowhere' /\ CallsGranted'
  <1>1. /\ granted' = granted /\ rows' = rows
        /\ \A k \in Tokens : rules'[k] \subseteq rules[k]
    BY DEF Restart, dbVars, grantVars
  <1>2. \A k, q : RightsWithin(q, granted'[k]) <=> RightsWithin(q, granted[k])
    BY <1>1
  <1>3. NoRightFromNowhere'
    BY <1>1, <1>2 DEF NoRightFromNowhere, GrantedInv
  <1>4. \A t \in Threads : /\ call'[t].op = call[t].op /\ call'[t].tok = call[t].tok
                           /\ call'[t].sel = call[t].sel /\ call'[t].pc = "idle"
    BY DEF Restart, GrantedInv, TypeOK, Call
  <1>5. CallsGranted'
    BY <1>1, <1>4 DEF CallsGranted, GrantedInv
  <1> QED  BY <1>3, <1>5

(* No right from nowhere, for every number of tokens, threads, policies and  *)
(* handlers: each single right in a row or a rule was granted to the token   *)
(* by SetPolicy, although handlers act on copies that others have outdated   *)
(* and StartAccessing joins the rights of several rows.                      *)
THEOREM EveryRightIsGranted == Spec => []NoRightFromNowhere
  <1>1. Init => GrantedInv
    BY InitType, GrantedInit DEF GrantedInv
  <1>2. GrantedInv /\ [Next]_vars => GrantedInv'
    <2> SUFFICES ASSUME GrantedInv, [Next]_vars PROVE GrantedInv'
      OBVIOUS
    <2>1. CASE UNCHANGED vars
      BY <2>1 DEF GrantedInv, TypeOK, NoRightFromNowhere, CallsGranted, vars
    <2>2. CASE Next
      <3>1. TypeOK'
        BY <2>2, StartType, StepType, RestartType DEF Next, GrantedInv
      <3>2. NoRightFromNowhere' /\ CallsGranted'
        BY <2>2, GrantedStart, GrantedStep, GrantedRestart DEF Next
      <3> QED  BY <3>1, <3>2 DEF GrantedInv
    <2> QED  BY <2>1, <2>2
  <1>3. GrantedInv => NoRightFromNowhere
    BY DEF GrantedInv
  <1> QED  BY <1>1, <1>2, <1>3, PTL DEF Spec

-----------------------------------------------------------------------------
(* Handlers answer truthfully *)

Matches(r, q) == Same(r.path, q.path) /\ r.mode = q.mode

(* What handlers that grant or take single policies have reported so far is  *)
(* true of the policies nobody else wrote to.                                *)
ReportsKept(t) ==
  LET c == call[t]
  IN  macSupport /\ c.pc # "idle" =>
        /\ c.op = "persist" => \A q \in c.ok \ touched[t] :
             q \in rows[c.tok] /\ (c.flag = 1 => q \in autoLoad[c.tok])
        /\ c.op \in {"set", "start", "startByToken"} => \A q \in c.ok \ touched[t] :
             q \in rules[c.tok] /\ (c.flag = 1 => q \in persistable[c.tok])
        /\ c.op = "startByToken" => c.flag = 1
        /\ c.op = "unset" => \A q \in c.ok \ touched[t] : q \notin rules[c.tok] \/ q \in c.kept
        /\ c.op = "stop" => \A q \in c.ok \ touched[t] : q \notin rules[c.tok]

(* UnPersistPolicy keeps the rows it found until their rules were asked to   *)
(* go; what it did not find is not there or was lost by its query, and what  *)
(* it took from the list has no rule or one that the kernel kept.            *)
RemovalKept(t) ==
  LET c == call[t]
  IN  c.op = "unpersist" =>
        /\ c.pc \in {"read", "mac", "write"} => c.ret = "ok"
        /\ c.pc = "read" => c.sel = {}
        /\ c.pc = "write" => c.todo = {}
        /\ c.pc \in {"mac", "write"} =>
             /\ \A q \in c.sel \ touched[t] :
                  q \in rows[c.tok] /\ (q \in rules[c.tok] => q \in c.todo \/ q \in c.kept)
             /\ \A r \in rows[c.tok] \ touched[t] : \A q \in c.req :
                  Matches(r, q) => r \in c.sel \/ r \in c.missed
        /\ c.pc = "done" /\ macSupport /\ c.ret = "ok" =>
             /\ \A q \in c.sel \ touched[t] : q \notin rules[c.tok] \/ q \in c.kept
             /\ \A r \in rows[c.tok] \ touched[t] : \A q \in c.req :
                  Matches(r, q) => r \in c.missed
        /\ c.pc = "done" /\ macSupport /\ c.ret # "ok" =>
             \A q \in c.sel \ touched[t] : q \in rows[c.tok]

(* The handlers that act on all policies of a token.                         *)
WholeKept(t) ==
  LET c == call[t]
  IN  /\ c.op = "startByToken" /\ c.pc \in {"mac", "done"} /\ c.ret = "ok" /\ macSupport =>
           \A q \in autoLoad[c.tok] \ touched[t] : q \in c.sel \/ q \in c.missed
      /\ c.op = "unsetAll" /\ c.pc = "done" /\ c.ret = "ok" /\ macSupport =>
           rules[c.tok] \subseteq touched[t]
      /\ c.op = "unpersistAll" /\ c.pc \in {"mac", "done"} /\ c.ret = "ok" =>
           rows[c.tok] \subseteq touched[t]
      /\ c.op = "unpersistAll" /\ c.pc = "done" /\ c.ret = "ok" /\ macSupport =>
           rules[c.tok] \subseteq touched[t]
      /\ c.op = "removeBundle" /\ c.pc = "done" /\ c.ret = "ok" =>
           rows[c.tok] \subseteq touched[t]

Kept(t) == ReportsKept(t) /\ RemovalKept(t) /\ WholeKept(t)

KeptInv == TypeOK /\ \A t \in Threads : Kept(t)

(* A step of another thread marks what it changes of the token of thread u.  *)
Respects(u) ==
  LET k == call[u].tok
  IN  /\ macSupport' = macSupport
      /\ call'[u] = call[u]
      /\ touched[u] \subseteq touched'[u]
      /\ \A q \in Policies \ touched'[u] :
           /\ q \in rows'[k] <=> q \in rows[k]
           /\ q \in autoLoad'[k] <=> q \in autoLoad[k]
           /\ q \in rules'[k] <=> q \in rules[k]
           /\ q \in persistable'[k] <=> q \in persistable[k]

(* A call that a step does not touch keeps what is known of it.               *)
LEMMA KeptFrame ==
  ASSUME TypeOK, TypeOK', NEW u \in Threads, Kept(u), Respects(u)
  PROVE  Kept(u)'
  <1> DEFINE c == call[u]
             k == c.tok
  <1>1. c \in Call /\ k \in Tokens /\ c.ok \subseteq Policies /\ c.sel \subseteq Policies
    BY DEF TypeOK, Call
  <1>2. /\ rows[k] \subseteq Policies /\ autoLoad[k] \subseteq Policies
        /\ rules[k] \subseteq Policies /\ persistable[k] \subseteq Policies
        /\ rows'[k] \subseteq Policies /\ autoLoad'[k] \subseteq Policies
        /\ rules'[k] \subseteq Policies /\ persistable'[k] \subseteq Policies
    BY <1>1 DEF TypeOK
  <1>3. /\ macSupport' = macSupport /\ call'[u] = c /\ touched[u] \subseteq touched'[u]
        /\ \A q \in Policies \ touched'[u] :
             /\ q \in rows'[k] <=> q \in rows[k]
             /\ q \in autoLoad'[k] <=> q \in autoLoad[k]
             /\ q \in rules'[k] <=> q \in rules[k]
             /\ q \in persistable'[k] <=> q \in persistable[k]
    BY DEF Respects
  <1>4. Kept(u)
    OBVIOUS
  <1>5. ReportsKept(u)'
    BY <1>1, <1>3, <1>4 DEF Kept, ReportsKept
  <1>6. RemovalKept(u)'
    BY <1>1, <1>2, <1>3, <1>4 DEF Kept, RemovalKept
  <1>7. WholeKept(u)'
    BY <1>1, <1>2, <1>3, <1>4 DEF Kept, WholeKept
  <1> QED  BY <1>5, <1>6, <1>7 DEF Kept

(* A handler that starts has promised nothing.                               *)
LEMMA BeginKept ==
  ASSUME TypeOK, NEW t \in Threads, NEW op, NEW k \in Tokens, NEW S, NEW f, NEW pc,
         Begin(t, op, k, S, f, pc),
         op = "startByToken" => f = 1,
         op \in {"unpersist", "startByToken"} => pc = IfMac("read"),
         op = "unsetAll" => pc = IfMac("mac"),
         op \in {"unpersistAll", "removeBundle"} => pc = "write"
  PROVE  /\ Kept(t)'
         /\ \A u \in Threads \ {t} : Respects(u)
  <1> DEFINE c == [op |-> op, tok |-> k, req |-> S, flag |-> f,
                   pc |-> pc, todo |-> S, sel |-> {},
                   ok |-> IF macSupport THEN {} ELSE S, ret |-> "ok",
                   missed |-> {}, kept |-> {}]
  <1>1. /\ call'[t] = c /\ \A u \in Threads \ {t} : call'[u] = call[u] /\ touched'[u] = touched[u]
        /\ macSupport' = macSupport /\ rows' = rows /\ autoLoad' = autoLoad
        /\ rules' = rules /\ persistable' = persistable
    BY DEF Begin, TypeOK, dbVars, macVars
  <1>2. /\ c.op = op /\ c.flag = f /\ c.pc = pc /\ c.sel = {} /\ c.ret = "ok"
        /\ macSupport => c.ok = {}
    OBVIOUS
  <1> HIDE DEF c
  <1>3. ReportsKept(t)'
    BY <1>1, <1>2 DEF ReportsKept
  <1>4. RemovalKept(t)'
    BY <1>1, <1>2 DEF RemovalKept, IfMac
  <1>5. WholeKept(t)'
    BY <1>1, <1>2 DEF WholeKept, IfMac
  <1> QED  BY <1>1, <1>3, <1>4, <1>5 DEF Kept, Respects

(* A call starts with nothing to answer for and disturbs no other.            *)
LEMMA StartKept ==
  ASSUME TypeOK, NEW t \in Threads, Start(t)
  PROVE  /\ Kept(t)'
         /\ \A u \in Threads \ {t} : Respects(u)
  <1>1. CASE PersistPolicy(t) \/ SetPolicy(t) \/ UnSetPolicy(t) \/ StartAccessingPolicy(t)
             \/ StopAccessingPolicy(t)
    <2> PICK op \in {"persist", "set", "unset", "start", "stop"} :
          \E k \in Tokens : \E S, f, pc : Begin(t, op, k, S, f, pc)
      BY <1>1 DEF PersistPolicy, SetPolicy, UnSetPolicy, StartAccessingPolicy, StopAccessingPolicy
    <2> QED  BY BeginKept
  <1>2. CASE UnPersistPolicy(t)
    <2> PICK k \in Tokens, S \in Requests : Begin(t, "unpersist", k, S, 0, IfMac("read"))
      BY <1>2 DEF UnPersistPolicy
    <2> QED  BY BeginKept
  <1>3. CASE StartAccessingByTokenId(t)
    <2> PICK k \in Tokens : Begin(t, "startByToken", k, {}, 1, IfMac("read"))
      BY <1>3 DEF StartAccessingByTokenId
    <2> QED  BY BeginKept
  <1>4. CASE UnSetAllPolicyByToken(t)
    <2> PICK k \in Tokens : Begin(t, "unsetAll", k, {}, 0, IfMac("mac"))
      BY <1>4 DEF UnSetAllPolicyByToken
    <2> QED  BY BeginKept
  <1>5. CASE UnPersistAll(t) \/ PackageRemoved(t)
    <2> PICK op \in {"unpersistAll", "removeBundle"}, k \in Tokens : Begin(t, op, k, {}, 0, "write")
      BY <1>5 DEF UnPersistAll, PackageRemoved
    <2> QED  BY BeginKept
  <1> QED  BY <1>1, <1>2, <1>3, <1>4, <1>5 DEF Start

(* Every step of thread t marks what it changes for the other threads.       *)
LEMMA StepRespects ==
  ASSUME TypeOK, NEW t \in Threads, Step(t), NEW u \in Threads, u # t
  PROVE  Respects(u)
  <1> DEFINE c == call[t]
             k == call[u].tok
  <1>1. c \in Call /\ c.tok \in Tokens /\ k \in Tokens /\ call \in [Threads -> Call]
    BY DEF TypeOK, Call
  <1>2. \A j, S : Touch(t, j, S) => touched'[u] = IF k = j THEN touched[u] \cup S ELSE touched[u]
    BY DEF Touch
  <1>3. /\ rows \in [Tokens -> SUBSET Policies] /\ autoLoad \in [Tokens -> SUBSET Policies]
        /\ rules \in [Tokens -> SUBSET Policies] /\ persistable \in [Tokens -> SUBSET Policies]
    BY DEF TypeOK
  <1>4. CASE QueryBatch(t) \/ ReadForRemove(t) \/ MatchPolicy(t) \/ ReadAutoLoad(t)
    <2>1. UNCHANGED <<macSupport, rows, autoLoad, rules, persistable, touched>>
      BY <1>4 DEF QueryBatch, ReadForRemove, MatchPolicy, ReadAutoLoad, dbVars, macVars
    <2>2. call'[u] = call[u]
      BY <1>1, <1>4 DEF QueryBatch, ReadForRemove, MatchPolicy, ReadAutoLoad
    <2> QED  BY <2>1, <2>2 DEF Respects
  <1>5. CASE AddToDatabase(t)
    <2>1. UNCHANGED <<macSupport, rules, persistable>> /\ call'[u] = call[u] /\ Touch(t, c.tok, c.sel)
      BY <1>1, <1>5 DEF AddToDatabase, macVars
    <2>2. /\ rows' = [rows EXCEPT ![c.tok] = @ \cup c.sel]
          /\ autoLoad' = [autoLoad EXCEPT ![c.tok] = AddedFlags(c.tok, c.sel, c.flag)]
      BY <1>5 DEF AddToDatabase
    <2>3. CASE k = c.tok
      <3>1. touched'[u] = touched[u] \cup c.sel
        BY <1>2, <2>1, <2>3
      <3>2. rows'[k] = rows[k] \cup c.sel /\ autoLoad'[k] = AddedFlags(k, c.sel, c.flag)
        BY <1>1, <1>3, <2>2, <2>3
      <3> QED  BY <2>1, <3>1, <3>2 DEF Respects, AddedFlags
    <2>4. CASE k # c.tok
      <3>1. touched'[u] = touched[u] /\ rows'[k] = rows[k] /\ autoLoad'[k] = autoLoad[k]
        BY <1>1, <1>2, <1>3, <2>1, <2>2, <2>4
      <3> QED  BY <2>1, <3>1 DEF Respects
    <2> QED  BY <2>3, <2>4
  <1>6. CASE RemoveFromDatabase(t)
    <2>1. UNCHANGED <<macSupport, rules, persistable>> /\ call'[u] = call[u] /\ Touch(t, c.tok, c.sel)
      BY <1>1, <1>6 DEF RemoveFromDatabase, macVars
    <2>2. CASE k = c.tok
      <3>1. touched'[u] = touched[u] \cup c.sel
        BY <1>2, <2>1, <2>2
      <3>2. rows'[k] = rows[k] \ c.sel /\ autoLoad'[k] = autoLoad[k] \ c.sel
        BY <1>1, <1>3, <1>6, <2>2 DEF RemoveFromDatabase
      <3> QED  BY <2>1, <3>1, <3>2 DEF Respects
    <2>3. CASE k # c.tok
      <3>1. touched'[u] = touched[u] /\ rows'[k] = rows[k] /\ autoLoad'[k] = autoLoad[k]
        BY <1>1, <1>2, <1>3, <1>6, <2>1, <2>3 DEF RemoveFromDatabase
      <3> QED  BY <2>1, <3>1 DEF Respects
    <2> QED  BY <2>2, <2>3
  <1>7. CASE SetBatch(t)
    <2> PICK B \in SUBSET c.todo : \E bad \in SUBSET B :
          KernelSet(c.tok, B, c.flag, bad) /\ Touch(t, c.tok, B)
      BY <1>7 DEF SetBatch
    <2> PICK bad \in SUBSET B : KernelSet(c.tok, B, c.flag, bad) /\ Touch(t, c.tok, B)
      OBVIOUS
    <2> PICK keep \in SUBSET (persistable[c.tok] \cap (B \ bad)) :
          persistable' = [persistable EXCEPT ![c.tok] =
            IF c.flag = 1 THEN @ \cup (B \ bad) ELSE (@ \ (B \ bad)) \cup keep]
      BY DEF KernelSet
    <2>1. UNCHANGED <<macSupport, rows, autoLoad>> /\ call'[u] = call[u]
      BY <1>1, <1>7 DEF SetBatch, dbVars
    <2>2. rules' = [rules EXCEPT ![c.tok] = @ \cup (B \ bad)]
      BY DEF KernelSet
    <2>3. CASE k = c.tok
      <3>1. touched'[u] = touched[u] \cup B /\ rules'[k] = rules[k] \cup (B \ bad)
        BY <1>1, <1>2, <1>3, <2>2, <2>3
      <3>2. persistable'[k] =
              IF c.flag = 1 THEN persistable[k] \cup (B \ bad) ELSE (persistable[k] \ (B \ bad)) \cup keep
        BY <1>1, <1>3, <2>3
      <3> QED  BY <2>1, <2>3, <3>1, <3>2 DEF Respects
    <2>4. CASE k # c.tok
      <3>1. touched'[u] = touched[u] /\ rules'[k] = rules[k] /\ persistable'[k] = persistable[k]
        BY <1>1, <1>2, <1>3, <2>2, <2>4
      <3> QED  BY <2>1, <3>1 DEF Respects
    <2> QED  BY <2>3, <2>4
  <1>8. CASE UnSetBatch(t)
    <2> PICK B \in SUBSET c.todo : \E bad \in SUBSET B :
          KernelUnSet(c.tok, B, bad) /\ Touch(t, c.tok, B)
      BY <1>8 DEF UnSetBatch
    <2> PICK bad \in SUBSET B : KernelUnSet(c.tok, B, bad) /\ Touch(t, c.tok, B)
      OBVIOUS
    <2>1. UNCHANGED <<macSupport, rows, autoLoad>> /\ call'[u] = call[u]
      BY <1>1, <1>8 DEF UnSetBatch, dbVars
    <2>2. CASE k = c.tok
      <3>1. /\ touched'[u] = touched[u] \cup B
            /\ rules'[k] = rules[k] \ (B \ bad) /\ persistable'[k] = persistable[k] \ (B \ bad)
        BY <1>1, <1>2, <1>3, <2>2 DEF KernelUnSet
      <3> QED  BY <2>1, <3>1 DEF Respects
    <2>3. CASE k # c.tok
      <3>1. touched'[u] = touched[u] /\ rules'[k] = rules[k] /\ persistable'[k] = persistable[k]
        BY <1>1, <1>2, <1>3, <2>3 DEF KernelUnSet
      <3> QED  BY <2>1, <3>1 DEF Respects
    <2> QED  BY <2>2, <2>3
  <1>9. CASE RemoveBundlePolicy(t)
    BY <1>1, <1>2, <1>3, <1>9 DEF RemoveBundlePolicy, macVars, Respects
  <1>10. CASE DestroySandboxPolicy(t)
    <2>1. /\ KernelUnSet(c.tok, Policies, {}) /\ Touch(t, c.tok, Policies)
          /\ UNCHANGED <<macSupport, rows, autoLoad>> /\ call'[u] = call[u]
      BY <1>1, <1>10 DEF DestroySandboxPolicy, dbVars
    <2>2. CASE k = c.tok
      <3>1. touched'[u] = touched[u] \cup Policies
        BY <1>1, <1>2, <1>3, <2>1, <2>2
      <3> QED  BY <2>1, <3>1 DEF Respects
    <2>3. CASE k # c.tok
      <3>1. touched'[u] = touched[u] /\ rules'[k] = rules[k] /\ persistable'[k] = persistable[k]
        BY <1>1, <1>2, <1>3, <2>1, <2>3 DEF KernelUnSet
      <3> QED  BY <2>1, <3>1 DEF Respects
    <2> QED  BY <2>2, <2>3
  <1>11. CASE DbError(t) \/ MacIoctlError(t)
    BY <1>1, <1>11 DEF DbError, MacIoctlError, Fail, dbVars, macVars, Respects
  <1> QED
    BY <1>4, <1>5, <1>6, <1>7, <1>8, <1>9, <1>10, <1>11 DEF Step

(* The thread that moves keeps its own promises.                             *)
LEMMA StepKept ==
  ASSUME TypeOK, NEW t \in Threads, Step(t), Kept(t)
  PROVE  Kept(t)'
  <1> DEFINE c == call[t]
             d == call'[t]
             k == call[t].tok
  <1>1. /\ c \in Call /\ k \in Tokens /\ call \in [Threads -> Call]
        /\ c.todo \subseteq Policies /\ c.sel \subseteq Policies
    BY DEF TypeOK, Call
  <1>2. \A j, S : Touch(t, j, S) => touched'[t] = touched[t]
    BY DEF Touch
  <1>3. /\ rows \in [Tokens -> SUBSET Policies] /\ autoLoad \in [Tokens -> SUBSET Policies]
        /\ rules \in [Tokens -> SUBSET Policies] /\ persistable \in [Tokens -> SUBSET Policies]
    BY DEF TypeOK
  <1>4. ReportsKept(t) /\ RemovalKept(t) /\ WholeKept(t)
    BY DEF Kept
  <1>5. CASE QueryBatch(t)
    <2>1. /\ UNCHANGED <<macSupport, rows, autoLoad, touched>> /\ c.op = "persist" /\ c.pc = "mac"
      BY <1>5 DEF QueryBatch, dbVars
    <2> PICK B \in SUBSET c.todo :
          LET sel == c.sel \cup {q \in B : QueryOk(k, q)} \cup {q \in B : Verified(k, q)}
          IN call' = [call EXCEPT ![t].todo = Rest(c.todo, B), ![t].sel = sel,
                                  ![t].pc = Onward(c.op, Rest(c.todo, B), sel)]
      BY <1>5 DEF QueryBatch
    <2>2. d.op = c.op /\ d.tok = k /\ d.ok = c.ok /\ d.flag = c.flag
      BY <1>1 DEF Call
    <2>3. ReportsKept(t)'
      BY <1>4, <2>1, <2>2 DEF ReportsKept
    <2>4. RemovalKept(t)' /\ WholeKept(t)'
      BY <2>1, <2>2 DEF RemovalKept, WholeKept
    <2> QED  BY <2>3, <2>4 DEF Kept
  <1>6. CASE AddToDatabase(t)
    <2>1. /\ macSupport' = macSupport /\ touched'[t] = touched[t] /\ c.op = "persist"
      BY <1>2, <1>6 DEF AddToDatabase
    <2>2. d.op = c.op /\ d.tok = k /\ d.ok = c.sel /\ d.flag = c.flag
      BY <1>1, <1>6 DEF AddToDatabase, Call
    <2>3. /\ rows'[k] = rows[k] \cup c.sel
          /\ c.flag = 1 => autoLoad'[k] = autoLoad[k] \cup c.sel
      BY <1>1, <1>3, <1>6 DEF AddToDatabase, AddedFlags
    <2>4. ReportsKept(t)'
      BY <2>1, <2>2, <2>3 DEF ReportsKept
    <2>5. RemovalKept(t)' /\ WholeKept(t)'
      BY <2>1, <2>2 DEF RemovalKept, WholeKept
    <2> QED  BY <2>4, <2>5 DEF Kept
  <1>7. CASE ReadForRemove(t)
    <2> PICK F \in SUBSET rows[k] :
          call' = [call EXCEPT
            ![t].todo = UNION {FindMatchingPaths(F, q) : q \in c.req},
            ![t].sel = UNION {FindMatchingPaths(F, q) : q \in c.req},
            ![t].pc = Onward(c.op, UNION {FindMatchingPaths(F, q) : q \in c.req},
                             UNION {FindMatchingPaths(F, q) : q \in c.req}),
            ![t].ok = {q \in c.req : FindMatchingPaths(F, q) # {}},
            ![t].missed = rows[k] \ F]
      BY <1>7 DEF ReadForRemove
    <2> DEFINE found == UNION {FindMatchingPaths(F, q) : q \in c.req}
    <2>1. /\ UNCHANGED <<macSupport, rows, rules, touched>> /\ c.op = "unpersist" /\ c.pc = "read"
      BY <1>7 DEF ReadForRemove, dbVars, macVars
    <2>2. /\ d.op = c.op /\ d.tok = k /\ d.req = c.req /\ d.sel = found /\ d.todo = found
          /\ d.pc = Onward(c.op, found, found) /\ d.ret = c.ret /\ d.missed = rows[k] \ F
      BY <1>1 DEF Call
    <2>3. /\ \A r \in rows[k] : \A q \in c.req : Matches(r, q) => r \in found \/ r \in rows[k] \ F
          /\ found \subseteq rows[k]
      <3>1. \A r \in F : \A q \in c.req : Matches(r, q) => r \in FindMatchingPaths(F, q)
        BY DEF FindMatchingPaths, Matches
      <3>2. \A q \in c.req : FindMatchingPaths(F, q) \subseteq F
        BY DEF FindMatchingPaths
      <3>3. \A r \in F : \A q \in c.req : Matches(r, q) => r \in found
        BY <3>1
      <3>4. found \subseteq F
        BY <3>2
      <3> HIDE DEF found
      <3> QED  BY <3>3, <3>4
    <2>4. d.pc = IF found = {} THEN "done" ELSE "mac"
      BY <2>1, <2>2 DEF Onward
    <2> HIDE DEF found
    <2>5. c.ret = "ok"
      BY <1>4, <2>1 DEF RemovalKept
    <2>6. RemovalKept(t)'
      <3>1. CASE found = {}
        <4>1. d.op = "unpersist" /\ d.tok = k /\ d.pc = "done" /\ d.ret = "ok" /\ d.sel = {}
          BY <2>1, <2>2, <2>4, <2>5, <3>1
        <4>2. \A r \in rows'[k] : \A q \in d.req : Matches(r, q) => r \in d.missed
          BY <2>1, <2>2, <2>3, <3>1
        <4> QED  BY <4>1, <4>2 DEF RemovalKept
      <3>2. CASE found # {}
        <4>1. d.op = "unpersist" /\ d.tok = k /\ d.pc = "mac" /\ d.ret = "ok"
          BY <2>1, <2>2, <2>4, <2>5, <3>2
        <4>2. \A q \in d.sel : q \in rows'[k] /\ q \in d.todo
          BY <2>1, <2>2, <2>3
        <4>3. \A r \in rows'[k] : \A q \in d.req : Matches(r, q) => r \in d.sel \/ r \in d.missed
          BY <2>1, <2>2, <2>3
        <4> QED  BY <4>1, <4>2, <4>3 DEF RemovalKept
      <3> QED  BY <3>1, <3>2
    <2>7. ReportsKept(t)' /\ WholeKept(t)'
      BY <2>1, <2>2 DEF ReportsKept, WholeKept
    <2> QED  BY <2>6, <2>7 DEF Kept
  <1>8. CASE RemoveFromDatabase(t)
    <2>1. /\ macSupport' = macSupport /\ rules' = rules /\ touched'[t] = touched[t]
          /\ c.op = "unpersist" /\ c.pc = "write"
      BY <1>2, <1>8 DEF RemoveFromDatabase, macVars
    <2>2. /\ d.op = c.op /\ d.tok = k /\ d.req = c.req /\ d.sel = c.sel
          /\ d.pc = "done" /\ d.ret = c.ret /\ d.kept = c.kept /\ d.missed = c.missed
          /\ c.todo = {}
      BY <1>1, <1>4, <1>8 DEF RemovalKept, RemoveFromDatabase, Call
    <2>3. rows'[k] = rows[k] \ c.sel
      BY <1>1, <1>3, <1>8 DEF RemoveFromDatabase
    <2>4. /\ \A q \in c.sel \ touched[t] : q \notin rules[k] \/ q \in c.kept
          /\ \A r \in rows[k] \ touched[t] : \A q \in c.req :
               Matches(r, q) => r \in c.sel \/ r \in c.missed
      BY <1>4, <2>1, <2>2 DEF RemovalKept
    <2>5. c.ret = "ok"
      BY <1>4, <2>1 DEF RemovalKept
    <2>6. RemovalKept(t)'
      BY <2>1, <2>2, <2>3, <2>4, <2>5 DEF RemovalKept
    <2>7. ReportsKept(t)' /\ WholeKept(t)'
      BY <2>1, <2>2 DEF ReportsKept, WholeKept
    <2> QED  BY <2>6, <2>7 DEF Kept
  <1>9. CASE MatchPolicy(t)
    <2>1. /\ UNCHANGED <<macSupport, rules, persistable, touched>> /\ c.op \in {"start", "stop"}
          /\ c.pc = "read"
      BY <1>9, ReadShape
    <2>2. d.op = c.op /\ d.tok = k /\ d.ok = c.ok /\ d.flag = c.flag
      BY <1>9, ReadShape
    <2>3. ReportsKept(t)'
      BY <1>4, <2>1, <2>2 DEF ReportsKept
    <2>4. RemovalKept(t)' /\ WholeKept(t)'
      BY <2>1, <2>2 DEF RemovalKept, WholeKept
    <2> QED  BY <2>3, <2>4 DEF Kept
  <1>10. CASE ReadAutoLoad(t)
    <2>1. /\ UNCHANGED <<macSupport, autoLoad, rules, persistable, touched>>
          /\ c.op = "startByToken" /\ c.pc = "read"
      BY <1>10, ReadShape
    <2>2. /\ d.op = c.op /\ d.tok = k /\ d.ok = c.ok /\ d.flag = c.flag
          /\ autoLoad[k] \subseteq d.sel \cup d.missed
      BY <1>10, ReadShape
    <2>3. ReportsKept(t)'
      BY <1>4, <2>1, <2>2 DEF ReportsKept
    <2>4. RemovalKept(t)' /\ WholeKept(t)'
      BY <2>1, <2>2 DEF RemovalKept, WholeKept
    <2> QED  BY <2>3, <2>4 DEF Kept
  <1>11. CASE SetBatch(t)
    <2> PICK B \in SUBSET c.todo : \E bad \in SUBSET B :
          /\ KernelSet(k, B, c.flag, bad)
          /\ call' = [call EXCEPT ![t].todo = Rest(c.todo, B),
                                  ![t].ok = c.ok \cup (B \ bad),
                                  ![t].pc = Onward(c.op, Rest(c.todo, B), c.sel)]
          /\ Touch(t, k, B)
      BY <1>11 DEF SetBatch
    <2> PICK bad \in SUBSET B :
          /\ KernelSet(k, B, c.flag, bad)
          /\ call' = [call EXCEPT ![t].todo = Rest(c.todo, B),
                                  ![t].ok = c.ok \cup (B \ bad),
                                  ![t].pc = Onward(c.op, Rest(c.todo, B), c.sel)]
          /\ Touch(t, k, B)
      OBVIOUS
    <2>1. /\ UNCHANGED <<macSupport, autoLoad>> /\ touched'[t] = touched[t]
          /\ c.op \in {"set", "start", "startByToken"} /\ c.pc = "mac"
      BY <1>2, <1>11 DEF SetBatch, dbVars
    <2>2. /\ d.op = c.op /\ d.tok = k /\ d.ok = c.ok \cup (B \ bad) /\ d.flag = c.flag
          /\ d.sel = c.sel /\ d.ret = c.ret /\ d.missed = c.missed
      BY <1>1 DEF Call
    <2>3. /\ rules'[k] = rules[k] \cup (B \ bad)
          /\ c.flag = 1 => persistable'[k] = persistable[k] \cup (B \ bad)
      BY <1>1, <1>3 DEF KernelSet
    <2>4. ReportsKept(t)'
      BY <1>4, <2>1, <2>2, <2>3 DEF ReportsKept
    <2>5. RemovalKept(t)' /\ WholeKept(t)'
      BY <1>4, <2>1, <2>2 DEF RemovalKept, WholeKept
    <2> QED  BY <2>4, <2>5 DEF Kept
  <1>12. CASE UnSetBatch(t)
    <2> PICK B \in SUBSET c.todo : \E bad \in SUBSET B :
          /\ KernelUnSet(k, B, bad)
          /\ call' = [call EXCEPT ![t].todo = Rest(c.todo, B),
                                  ![t].ok = Reported(c, B, bad),
                                  ![t].kept = IF c.op = "stop" THEN @
                                              ELSE @ \cup (bad \cap rules[k]),
                                  ![t].pc = Onward(c.op, Rest(c.todo, B), c.sel)]
          /\ Touch(t, k, B)
      BY <1>12 DEF UnSetBatch
    <2> PICK bad \in SUBSET B :
          /\ KernelUnSet(k, B, bad)
          /\ call' = [call EXCEPT ![t].todo = Rest(c.todo, B),
                                  ![t].ok = Reported(c, B, bad),
                                  ![t].kept = IF c.op = "stop" THEN @
                                              ELSE @ \cup (bad \cap rules[k]),
                                  ![t].pc = Onward(c.op, Rest(c.todo, B), c.sel)]
          /\ Touch(t, k, B)
      OBVIOUS
    <2>1. /\ UNCHANGED <<macSupport, rows>> /\ touched'[t] = touched[t]
          /\ c.op \in {"unset", "stop", "unpersist"} /\ c.pc = "mac"
      BY <1>2, <1>12 DEF UnSetBatch, dbVars
    <2>2. /\ d.op = c.op /\ d.tok = k /\ d.req = c.req /\ d.sel = c.sel /\ d.ret = c.ret
          /\ d.ok = Reported(c, B, bad) /\ d.missed = c.missed
          /\ d.kept = (IF c.op = "stop" THEN c.kept ELSE c.kept \cup (bad \cap rules[k]))
          /\ d.todo = c.todo \ B /\ d.pc = Onward(c.op, c.todo \ B, c.sel)
      BY <1>1 DEF Call, Rest
    <2>3. rules'[k] = rules[k] \ (B \ bad)
      BY <1>1, <1>3 DEF KernelUnSet
    <2>4. ReportsKept(t)'
      <3>1. CASE c.op = "stop"
        <4>1. macSupport => \A q \in c.ok \ touched[t] : q \notin rules[k]
          BY <1>4, <2>1, <3>1 DEF ReportsKept
        <4>2. d.ok = c.ok \cup (B \ bad)
          BY <2>2, <3>1 DEF Reported
        <4>3. macSupport => \A q \in d.ok \ touched[t] : q \notin rules'[k]
          BY <2>3, <4>1, <4>2
        <4> QED  BY <2>1, <2>2, <3>1, <4>3 DEF ReportsKept
      <3>2. CASE c.op = "unset"
        <4>1. macSupport => \A q \in c.ok \ touched[t] : q \notin rules[k] \/ q \in c.kept
          BY <1>4, <2>1, <3>2 DEF ReportsKept
        <4>2. d.ok = c.ok \cup B /\ d.kept = c.kept \cup (bad \cap rules[k])
          BY <2>2, <3>2 DEF Reported
        <4>3. macSupport => \A q \in d.ok \ touched[t] : q \notin rules'[k] \/ q \in d.kept
          BY <2>3, <4>1, <4>2
        <4> QED  BY <2>1, <2>2, <3>2, <4>3 DEF ReportsKept
      <3>3. CASE c.op = "unpersist"
        BY <2>2, <3>3 DEF ReportsKept
      <3> QED  BY <2>1, <3>1, <3>2, <3>3
    <2>5. WholeKept(t)'
      BY <2>1, <2>2 DEF WholeKept
    <2>6. RemovalKept(t)'
      <3> SUFFICES ASSUME c.op = "unpersist" PROVE RemovalKept(t)'
        BY <2>2 DEF RemovalKept
      <3>1. /\ \A q \in c.sel \ touched[t] :
                 q \in rows[k] /\ (q \in rules[k] => q \in c.todo \/ q \in c.kept)
            /\ \A r \in rows[k] \ touched[t] : \A q \in c.req :
                 Matches(r, q) => r \in c.sel \/ r \in c.missed
            /\ c.ret = "ok"
        BY <1>4, <2>1 DEF RemovalKept
      <3>2. \/ d.pc = "mac"
            \/ d.pc = "write" /\ d.todo = {}
            \/ d.pc = "done" /\ d.todo = {} /\ c.sel = {}
        BY <2>2 DEF Onward
      <3>3. d.kept = c.kept \cup (bad \cap rules[k])
        BY <2>2
      <3>4. \A q \in c.sel \ touched[t] : q \in rules'[k] => q \in d.todo \/ q \in d.kept
        BY <2>2, <2>3, <3>1, <3>3
      <3> QED  BY <2>1, <2>2, <3>1, <3>2, <3>4 DEF RemovalKept
    <2> QED  BY <2>4, <2>5, <2>6 DEF Kept
  <1>13. CASE RemoveBundlePolicy(t)
    <2>1. /\ macSupport' = macSupport /\ touched'[t] = touched[t]
          /\ c.op \in {"unpersistAll", "removeBundle"}
      BY <1>2, <1>13 DEF RemoveBundlePolicy
    <2>2. /\ d.op = c.op /\ d.tok = k /\ d.ret = c.ret
          /\ d.pc = IF c.op = "unpersistAll" THEN IfMac("mac") ELSE "done"
      BY <1>1, <1>13 DEF RemoveBundlePolicy, Call
    <2>3. rows'[k] = {}
      BY <1>1, <1>3, <1>13 DEF RemoveBundlePolicy
    <2>4. RemovalKept(t)' /\ ReportsKept(t)'
      BY <2>1, <2>2 DEF RemovalKept, ReportsKept
    <2>5. WholeKept(t)'
      BY <2>1, <2>2, <2>3 DEF WholeKept, IfMac
    <2> QED  BY <2>4, <2>5 DEF Kept
  <1>14. CASE DestroySandboxPolicy(t)
    <2>1. /\ macSupport' = macSupport /\ touched'[t] = touched[t] /\ rows' = rows
          /\ c.op \in {"unsetAll", "unpersistAll"} /\ c.pc = "mac"
      BY <1>2, <1>14 DEF DestroySandboxPolicy, dbVars
    <2>2. d.op = c.op /\ d.tok = k /\ d.ret = c.ret
      BY <1>1, <1>14 DEF DestroySandboxPolicy, Call
    <2>3. rules'[k] = {}
      BY <1>1, <1>3, <1>14 DEF DestroySandboxPolicy, KernelUnSet
    <2>4. RemovalKept(t)' /\ ReportsKept(t)'
      BY <2>1, <2>2 DEF RemovalKept, ReportsKept
    <2>5. WholeKept(t)'
      BY <1>4, <2>1, <2>2, <2>3 DEF WholeKept
    <2> QED  BY <2>4, <2>5 DEF Kept
  <1>15. CASE DbError(t) \/ MacIoctlError(t)
    <2> PICK ret \in {"dbErr", "macErr"} : Fail(t, ret)
      BY <1>15 DEF DbError, MacIoctlError
    <2>1. /\ UNCHANGED <<macSupport, rows, touched>> /\ c.pc \in {"read", "mac", "write"}
      BY <1>15 DEF DbError, MacIoctlError, Fail, dbVars
    <2>2. /\ d.op = c.op /\ d.tok = k /\ d.ret = ret /\ d.ok = {} /\ d.flag = c.flag
          /\ d.sel = c.sel /\ d.pc = "done"
      BY <1>1 DEF Fail, Call
    <2>3. ReportsKept(t)' /\ WholeKept(t)'
      BY <1>4, <2>1, <2>2 DEF ReportsKept, WholeKept
    <2>4. RemovalKept(t)'
      BY <1>4, <2>1, <2>2 DEF RemovalKept
    <2> QED  BY <2>3, <2>4 DEF Kept
  <1> QED
    BY <1>5, <1>6, <1>7, <1>8, <1>9, <1>10, <1>11, <1>12, <1>13, <1>14, <1>15 DEF Step

(* The invariant about answers holds initially.                               *)
LEMMA KeptInit == Init => KeptInv
  <1> SUFFICES ASSUME Init PROVE KeptInv
    OBVIOUS
  <1>1. \A t \in Threads : call[t].op = "none" /\ call[t].pc = "idle"
    BY DEF Init
  <1>2. \A t \in Threads : Kept(t)
    BY <1>1 DEF Kept, ReportsKept, RemovalKept, WholeKept
  <1> QED  BY <1>2, InitType DEF KeptInv

(* Every step keeps the invariant about answers.                              *)
LEMMA KeptNext == KeptInv /\ [Next]_vars => KeptInv'
  <1> SUFFICES ASSUME KeptInv, [Next]_vars PROVE KeptInv'
    OBVIOUS
  <1>1. TypeOK /\ \A t \in Threads : Kept(t)
    BY DEF KeptInv
  <1>2. CASE UNCHANGED vars
    BY <1>2 DEF KeptInv, TypeOK, Kept, ReportsKept, RemovalKept, WholeKept, vars
  <1>3. CASE \E t \in Threads : Start(t)
    <2> PICK t \in Threads : Start(t)
      BY <1>3
    <2>1. TypeOK'
      BY <1>1, StartType
    <2>2. Kept(t)' /\ \A u \in Threads \ {t} : Respects(u)
      BY <1>1, StartKept
    <2>3. \A u \in Threads \ {t} : Kept(u)'
      BY <1>1, <2>1, <2>2, KeptFrame
    <2> QED  BY <2>1, <2>2, <2>3 DEF KeptInv
  <1>4. CASE \E t \in Threads : Step(t)
    <2> PICK t \in Threads : Step(t)
      BY <1>4
    <2>1. TypeOK'
      BY <1>1, StepType
    <2>2. Kept(t)'
      BY <1>1, StepKept
    <2>3. \A u \in Threads \ {t} : Kept(u)'
      BY <1>1, <2>1, StepRespects, KeptFrame
    <2> QED  BY <2>1, <2>2, <2>3 DEF KeptInv
  <1>5. CASE Restart
    <2>1. TypeOK'
      BY <1>1, <1>5, RestartType
    <2>2. \A t \in Threads : call'[t].pc = "idle"
      BY <1>1, <1>5 DEF Restart, TypeOK, Call
    <2>3. \A t \in Threads : Kept(t)'
      BY <2>2 DEF Kept, ReportsKept, RemovalKept, WholeKept
    <2> QED  BY <2>1, <2>3 DEF KeptInv
  <1> QED  BY <1>2, <1>3, <1>4, <1>5 DEF Next

(* The invariant about answers makes every answer true.                       *)
LEMMA KeptAnswers == KeptInv => HandlersAnswerTruthfully
  <1> SUFFICES ASSUME KeptInv, macSupport, NEW t \in Threads, call[t].pc = "done"
               PROVE  /\ PromiseKept(t)
                      /\ call[t].op = "unpersist" /\ call[t].ret # "ok" =>
                           call[t].sel \ touched[t] \subseteq rows[call[t].tok]
    BY DEF HandlersAnswerTruthfully
  <1> DEFINE c == call[t]
             k == call[t].tok
  <1>1. /\ k \in Tokens /\ rows[k] \subseteq Policies /\ rules[k] \subseteq Policies
        /\ persistable[k] \subseteq rules[k]
    BY DEF KeptInv, TypeOK, Call
  <1>2. ReportsKept(t) /\ RemovalKept(t) /\ WholeKept(t)
    BY DEF KeptInv, Kept
  <1>3. c.op = "unpersist" /\ c.ret # "ok" => c.sel \ touched[t] \subseteq rows[k]
    BY <1>2 DEF RemovalKept
  <1>4. ASSUME c.ret = "ok", c.op \in {"persist", "set", "start", "startByToken", "unset", "stop"}
        PROVE  PromiseKept(t)
    BY <1>1, <1>2, <1>4 DEF PromiseKept, ReportsKept, WholeKept
  <1>5. ASSUME c.ret = "ok", c.op = "unpersist"
        PROVE  PromiseKept(t)
    <2>1. /\ \A q \in c.sel \ touched[t] : q \notin rules[k] \/ q \in c.kept
          /\ \A r \in rows[k] \ touched[t] : \A q \in c.req : Matches(r, q) => r \in c.missed
      BY <1>2, <1>5 DEF RemovalKept
    <2>2. \A q \in c.req :
            FindMatchingPaths(rows[k] \cap (Policies \ touched[t]), q) \subseteq c.missed
      BY <2>1 DEF FindMatchingPaths, Matches
    <2>3. (rules[k] \cap (Policies \ touched[t])) \cap c.sel \subseteq c.kept
      BY <2>1
    <2> QED  BY <1>5, <2>2, <2>3 DEF PromiseKept
  <1>6. ASSUME c.ret = "ok", c.op \in {"unsetAll", "unpersistAll", "removeBundle"}
        PROVE  PromiseKept(t)
    BY <1>2, <1>6 DEF PromiseKept, WholeKept
  <1>7. ASSUME c.ret # "ok" \/ c.op = "none"
        PROVE  PromiseKept(t)
    BY <1>7 DEF PromiseKept
  <1>8. c.op \in Ops
    BY DEF KeptInv, TypeOK, Call
  <1> QED  BY <1>3, <1>4, <1>5, <1>6, <1>7, <1>8 DEF Ops

(* Handlers answer truthfully, for every number of threads, tokens, policies *)
(* and batches, whatever single entries the kernel refuses and rows a cursor *)
(* loses: what a handler reported is true of the policies that no other      *)
(* thread wrote to while it ran, except for exactly the rules the kernel     *)
(* kept in a call that does not look at its result and the rows the query    *)
(* lost; and an UnPersistPolicy that failed kept its rows.                   *)
THEOREM AnswersAreTrue == Spec => []HandlersAnswerTruthfully
  <1> QED  BY KeptInit, KeptNext, KeptAnswers, PTL DEF Spec

(* The step in which UnPersistPolicy of thread t changes the table.          *)
LEMMA RowsGoLast ==
  ASSUME KeptInv, [Next]_vars, NEW t \in Threads, call[t].op = "unpersist",
         call[t].pc = "write", rows' # rows, call'[t].pc = "done", NEW j \in Tokens
  PROVE  (rows[j] \ rows'[j]) \cap rules[j] \subseteq touched[t] \cup call[t].kept
  <1> DEFINE k == call[t].tok
  <1>1. TypeOK /\ k \in Tokens /\ rows \in [Tokens -> SUBSET Policies]
    BY DEF KeptInv, TypeOK, Call
  <1>2. \A u \in Threads : Start(u) => rows' = rows
    BY <1>1, StartShape
  <1>3. Restart \/ UNCHANGED vars => rows' = rows
    BY DEF Restart, dbVars, vars
  <1>4. \A u \in Threads \ {t} : Step(u) => call'[t] = call[t]
    BY <1>1, StepRespects DEF Respects
  <1>5. Step(t)
    BY <1>2, <1>3, <1>4 DEF Next
  <1>6. RemoveFromDatabase(t)
    BY <1>5 DEF Step, QueryBatch, AddToDatabase, ReadForRemove, MatchPolicy, ReadAutoLoad, SetBatch,
       UnSetBatch, RemoveBundlePolicy, DestroySandboxPolicy, DbError, MacIoctlError, Fail, dbVars
  <1>7. \A q \in call[t].sel \ touched[t] : q \notin rules[k] \/ q \in call[t].kept
    BY DEF KeptInv, Kept, RemovalKept
  <1>8. rows[j] \ rows'[j] \subseteq IF j = k THEN call[t].sel ELSE {}
    BY <1>1, <1>6 DEF RemoveFromDatabase
  <1> QED  BY <1>7, <1>8

(* UnPersistPolicy deletes a row only after its kernel rule is gone, unless  *)
(* another thread wrote to that policy meanwhile or the kernel refused to    *)
(* remove just that rule, whatever fails or restarts in between.             *)
THEOREM RulesGoFirst == Spec => RowOutlivesRule
  <1>1. KeptInv /\ [Next]_vars =>
          [\A t \in Threads :
             call[t].op = "unpersist" /\ call[t].pc = "write" /\ rows' # rows
               /\ call'[t].pc = "done" =>
             \A k \in Tokens : (rows[k] \ rows'[k]) \cap rules[k]
                                  \subseteq touched[t] \cup call[t].kept]_vars
    BY RowsGoLast
  <1> QED  BY <1>1, KeptInit, KeptNext, PTL DEF Spec, RowOutlivesRule
=============================================================================
