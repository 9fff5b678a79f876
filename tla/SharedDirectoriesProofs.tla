----------------------- MODULE SharedDirectoriesProofs -----------------------
(***************************************************************************)
(* Proofs about the handlers that give and take rights, for any number of  *)
(* threads, tokens, users, policies, bundles, profiles, calls and faults.  *)
(*                                                                         *)
(* A step of the specification begins a handler, moves one on by a single  *)
(* access, or belongs to the system around the service (NextKinds). Every  *)
(* argument below is made once for each of these kinds:                    *)
(*                                                                         *)
(*   TypeInv    the state has its shape, and a handler its arguments;      *)
(*   AloneInv   a handler that is clean runs alone;                        *)
(*   RecordInv  a rule to be set is recorded, and the record of a rule     *)
(*              outlives it, between any two accesses;                     *)
(*   SoFarInv   what a handler that runs alone has done up to its point;   *)
(*   ScopeInv   a row, a rule or a listed row of a shared directory comes  *)
(*              from a profile of its bundle, which declares it;           *)
(*   MapInv     of every declared path the last item is in the share map   *)
(*              or some handler is still going to load it.                 *)
(***************************************************************************)
EXTENDS SharedDirectories, Algorithms, SequenceTheorems, WellFoundedInduction, TLAPS

(***************************************************************************)
(* The kinds of steps. A handler begins, or it moves on by one access;     *)
(* everything else is the system around the service.                       *)
(***************************************************************************)
Active(t) == call[t].pc # "done"

(* The rows a handler is going to delete are rows of its user, or of a token *)
(* whose user it could not learn.                                            *)
UserRows(c) == c.pc = "remove" => \A r \in c.below : UserOf[r[1]] = c.user \/ r[1] \in c.unsure

(* The handler goes on from d to c: it keeps its operation and its           *)
(* arguments, is not cleaner, and only loads when it may.                    *)
Follows(c, d) ==
  /\ c.op = d.op /\ (c.clean => d.clean) /\ UserRows(c)
  /\ c.pc # "done" =>
       /\ c.k = d.k /\ c.user = d.user
       /\ c.op # "gshare" => c.bundle = d.bundle /\ c.pols = d.pols
       /\ c.op = "gshare" => c.pols \subseteq d.pols \cup SharedPolicies
       /\ c.op \in {"setshare", "update"} => c.profile = d.profile
       /\ c.pc = "load" => d.pc = "load" \/ d.op \in {"gshare", "package", "added"}
       /\ c.pc = "read" => d.op = "package" \/ d.pc = "read"

Moves(t) ==
  \E c \in Handlers : call' = [call EXCEPT ![t] = c] /\ Follows(c, call[t])

PackageOps == {"package", "removed", "added"}

(* What is known of the arguments of a handler.                              *)
Args(c) ==
  /\ UserRows(c)
  /\ c.pc # "done" =>
       /\ c.op # "none"
       /\ c.op # "clean" => c.k \in Tokens
       /\ c.op \in {"gshare", "rshare"} \cup PackageOps => c.user \in Users
       /\ c.op \in PackageOps =>
            /\ c.bundle \in Bundles /\ c.k \in Haps
            /\ c.bundle = BundleOf[c.k] /\ c.user = UserOf[c.k]
       /\ c.op \in {"setshare", "update"} =>
            c.k \in Haps /\ c.bundle \in Bundles /\ c.bundle = BundleOf[c.k] /\ c.profile \in Profiles
       /\ c.op = "gshare" => c.user = UserOf[c.k]
       /\ c.op \in {"grant", "revoke"} => c.pols \subseteq Policies
       /\ c.op = "gshare" => c.pols \subseteq SharedPolicies
       /\ c.pc = "load" => c.op \in {"gshare", "package", "added"}
       /\ c.pc = "read" => c.op \in {"package", "added"}

TypeInv == TypeOK /\ \A t \in Threads : Args(call[t])

(* An access counts a failing access, or notes the bundles that are torn.    *)
Ticks ==
  \/ bounds' = bounds
  \/ Fault
  \/ \E S \in SUBSET Bundles : bounds' = [bounds EXCEPT !.torn = S]

GrantStep(t) ==
  \/ GrantStore(t) \/ GrantStoreFails(t) \/ GrantSet(t) \/ GrantRefused(t) \/ GrantSetFails(t)
RevokeStep(t) ==
  \/ RevokeModify(t) \/ RevokeModifyFails(t)
  \/ RevokeUnset(t) \/ RevokeRefused(t) \/ RevokeUnsetFails(t)
  \/ RevokeKill(t) \/ RevokeKillFails(t)
EraseStep(t) ==
  \/ EraseRows(t) \/ EraseRules(t) \/ RemoveUgcPermissionByTokenId(t) \/ RemoveUgcFails(t)
  \/ EraseKill(t) \/ CancelPhotoUriPersistPermission(t) \/ EraseFails(t)
CleanStep(t) == CleanFind(t) \/ CleanPolicyOnMac(t) \/ CleanFilter(t) \/ CleanRemove(t)
ShareStep(t) ==
  \/ WriteShareFileToDb(t) \/ DropShareRow(t) \/ QuerySharedFileInfoByUserId(t)
  \/ CheckFirst(t) \/ CheckAgain(t) \/ CheckNext(t) \/ SetShared(t) \/ UnsetShared(t)
  \/ LoadProfile(t) \/ LoadScope(t)
PackageStep(t) ==
  \/ CleanPolicyByPackageChanged(t) \/ RemoveBundlePolicy(t) \/ DeleteBundle(t)
  \/ GetShareCfgByBundle(t) \/ RefreshDone(t)

(* A handler begins at its first point with arguments of the right shape.    *)
Fresh(op, pc, args) ==
  /\ op \in OpNames /\ pc \in Points \ {"done", "load", "remove"} /\ args \in Handlers
  /\ op = "grant" => pc = "add"
  /\ op = "revoke" => pc = "modify" /\ args.left = args.pols /\ args.ret = "ok"
  /\ op = "erase" => pc = "rows"
  /\ op = "package" => pc = "destroy" /\ args.profile = <<>>
  /\ pc = "read" => op = "added"
  /\ op # "none"
  /\ op # "clean" => args.k \in Tokens
  /\ op \in {"gshare", "rshare"} \cup PackageOps => args.user \in Users
  /\ op \in PackageOps =>
       /\ args.bundle \in Bundles /\ args.k \in Haps
       /\ args.bundle = BundleOf[args.k] /\ args.user = UserOf[args.k]
  /\ op \in {"setshare", "update"} =>
       /\ args.k \in Haps /\ args.bundle \in Bundles /\ args.bundle = BundleOf[args.k]
       /\ args.profile \in Profiles
  /\ op \in {"grant", "revoke"} => args.pols \subseteq Policies
  /\ op = "gshare" => args.pols = {} /\ args.found = {} /\ args.user = UserOf[args.k]

Starts(t) == \E op, pc, args : Fresh(op, pc, args) /\ Begin(t, op, pc, args)

Counts == [calls: Nat, updates: Nat, faults: Nat, overlaps: {0, 1}, torn: SUBSET Bundles]

(* All of the state but the handlers and the bounds.                         *)
DataOK ==
  /\ rows \subseteq Tokens \X Policies
  /\ ugc \in [Tokens -> [Policies -> {"none", "granted", "denied"}]]
  /\ shared \in [Tokens -> SharedPolicies \cup {NoRow}]
  /\ rules \subseteq Tokens \X AllPolicies
  /\ opened \subseteq Haps \X AllPolicies
  /\ photo \subseteq Haps
  /\ profile \in [Bundles -> [Users -> Profiles]]

-----------------------------------------------------------------------------
(* The fields of a handler.                                                  *)
LEMMA HandlerFields ==
  ASSUME NEW c \in Handlers
  PROVE  /\ c.op \in OpNames /\ c.pc \in Points /\ c.ret \in Results /\ c.clean \in BOOLEAN
         /\ c.k \in Tokens \cup {""} /\ c.user \in Users \cup {0}
         /\ c.bundle \in Bundles \cup {""} /\ c.pols \subseteq AllPolicies
         /\ c.left \subseteq Policies /\ c.found \subseteq [row: SharedPolicies, bundle: Bundles]
         /\ c.below \subseteq Tokens \X Policies
         /\ c.load \subseteq AllItems /\ c.rest \subseteq SUBSET AllItems
         /\ c.profile \in Profiles \cup {<<>>} /\ c.path \in CleanPaths \cup {<<>>}
         /\ c.pol \in Policies \cup {NoRow} /\ c.unsure \subseteq Tokens
BY DEF Handlers

(* A handler that is done is one.                                            *)
LEMMA IdleIsHandler == Idle \in Handlers
<1>1. "none" \in OpNames /\ "done" \in Points /\ "ok" \in Results
  BY DEF OpNames, Points, Results
<1> QED
  BY <1>1 DEF Idle, Handlers

(* A handler that returns.                                                   *)
LEMMA ReturnMoves ==
  ASSUME TypeOK, NEW t \in Threads, NEW ret \in Results, Return(t, ret)
  PROVE  Moves(t)
<1> DEFINE c == [Idle EXCEPT !.op = call[t].op, !.ret = ret, !.clean = call[t].clean]
<1>1. call[t] \in Handlers
  BY DEF TypeOK
<1>2. call[t].op \in OpNames /\ call[t].clean \in BOOLEAN
  BY <1>1, HandlerFields
<1>3. c \in Handlers
  BY <1>2, IdleIsHandler DEF Handlers
<1>4. Follows(c, call[t])
  BY DEF Idle, Follows, UserRows
<1>5. call' = [call EXCEPT ![t] = c]
  BY DEF Return, Set
<1> HIDE DEF c
<1> QED
  BY <1>3, <1>4, <1>5 DEF Moves

(* A handler that goes to another point.                                     *)
LEMMA GotoMoves ==
  ASSUME TypeOK, NEW t \in Threads, NEW pc \in Points \ {"load", "remove"}, Goto(t, pc),
         pc = "read" => call[t].op = "package"
  PROVE  Moves(t)
<1> DEFINE c == [call[t] EXCEPT !.pc = pc]
<1>1. call[t] \in Handlers
  BY DEF TypeOK
<1>2. c \in Handlers /\ Follows(c, call[t])
  BY <1>1, ZenonT(60) DEF Handlers, Follows, UserRows
<1>3. call' = [call EXCEPT ![t] = c]
  BY DEF Goto, Set
<1> HIDE DEF c
<1> QED
  BY <1>2, <1>3 DEF Moves

(* Its history.                                                              *)
LEMMA MarkKeepsType ==
  ASSUME NEW c \in Handlers, NEW op \in OpNames, NEW pc \in Points, NEW x \in BOOLEAN
  PROVE  /\ [c EXCEPT !.op = op, !.pc = pc, !.clean = x] \in Handlers
         /\ [c EXCEPT !.op = op, !.clean = x] \in Handlers
         /\ [c EXCEPT !.clean = x] \in Handlers
<1>1. [c EXCEPT !.op = op, !.pc = pc, !.clean = x] \in Handlers
  BY ZenonT(60) DEF Handlers
<1>2. [c EXCEPT !.op = op, !.clean = x] \in Handlers
  BY ZenonT(60) DEF Handlers
<1>3. [c EXCEPT !.clean = x] \in Handlers
  BY ZenonT(60) DEF Handlers
<1> QED
  BY <1>1, <1>2, <1>3

(* The bounds, one more call.                                                *)
LEMMA CountsStep ==
  ASSUME NEW b \in Counts, NEW n \in Nat, NEW o \in {0, 1}
  PROVE  [b EXCEPT !.calls = n, !.overlaps = o] \in Counts
BY DEF Counts

(* A handler that begins.                                                    *)
LEMMA StartKeepsType ==
  ASSUME TypeOK, NEW t \in Threads, Starts(t)
  PROVE  TypeOK'
<1>1. PICK op, pc, args : Fresh(op, pc, args) /\ Begin(t, op, pc, args)
  BY DEF Starts
<1>a. op \in OpNames /\ pc \in Points /\ args \in Handlers
  BY <1>1 DEF Fresh
<1> DEFINE alone == \A u \in Threads : call[u].pc = "done"
           new == [args EXCEPT !.op = op, !.pc = pc, !.clean = alone]
<1>2. new \in Handlers
  <2>1. alone \in BOOLEAN
    OBVIOUS
  <2> HIDE DEF alone
  <2> QED
    BY <1>a, <2>1, MarkKeepsType
<1>3. \A u \in Threads : call[u] \in Handlers /\ [call[u] EXCEPT !.clean = FALSE] \in Handlers
  <2> TAKE u \in Threads
  <2>1. call[u] \in Handlers
    BY DEF TypeOK
  <2>2. call[u].op \in OpNames /\ call[u].pc \in Points /\ FALSE \in BOOLEAN
    BY <2>1, HandlerFields
  <2> QED
    BY <2>1, <2>2, MarkKeepsType
<1> HIDE DEF new
<1>5. call' = [u \in Threads |-> IF u = t THEN new
                                 ELSE IF call[u].pc # "done" THEN [call[u] EXCEPT !.clean = FALSE]
                                 ELSE call[u]]
  BY <1>1 DEF Begin, new
<1>6. call' \in [Threads -> Handlers]
  BY <1>2, <1>3, <1>5
<1> HIDE DEF alone
<1>7. bounds' = [bounds EXCEPT !.calls = bounds.calls + 1,
                               !.overlaps = IF alone THEN bounds.overlaps ELSE 1]
  BY <1>1 DEF Begin, alone
<1>8. bounds' \in Counts
  <2>1. bounds \in Counts
    BY DEF TypeOK, Counts
  <2>2. bounds.calls + 1 \in Nat /\ bounds.overlaps \in {0, 1} /\ 1 \in {0, 1}
    BY <2>1 DEF Counts
  <2>3. (IF alone THEN bounds.overlaps ELSE 1) \in {0, 1}
    <3>1. CASE alone
      BY <3>1, <2>2, Zenon
    <3>2. CASE ~alone
      BY <3>2, <2>2, Zenon
    <3> QED
      BY <3>1, <3>2
  <2> QED
    BY <1>7, <2>1, <2>2, <2>3, CountsStep, Zenon
<1>9. UNCHANGED <<rows, ugc, shared, rules, opened, photo, profile>>
  BY <1>1 DEF Begin, Tables, Outside
<1> QED
  BY <1>6, <1>8, <1>9 DEF TypeOK, Counts

(* An access moves only the count of the faults and the torn bundles.        *)
LEMMA TicksKeepsType ==
  ASSUME TypeOK, Ticks
  PROVE  /\ bounds' \in Counts
         /\ bounds'.overlaps = bounds.overlaps /\ bounds'.updates = bounds.updates
BY DEF TypeOK, Ticks, Fault, Count, Counts

(* A bound counts one more.                                                  *)
LEMMA CountKeepsType ==
  ASSUME TypeOK, Count("updates")
  PROVE  bounds' \in Counts /\ bounds'.overlaps = bounds.overlaps
<1>1. bounds \in Counts
  BY DEF TypeOK, Counts
<1> QED
  BY <1>1 DEF Count, Counts

(* A bundle is taken out of the map.                                         *)
LEMMA DeleteTicks ==
  ASSUME TypeOK, NEW t, NEW b \in Bundles, DeleteByBundleName(t, b)
  PROVE  Ticks
<1>1. PICK S : /\ S \in {bounds.torn \cup {b}, bounds.torn \ {b}}
               /\ bounds' = [bounds EXCEPT !.torn = S]
  BY DEF DeleteByBundleName
<1>2. bounds.torn \subseteq Bundles
  BY DEF TypeOK
<1> QED
  BY <1>1, <1>2 DEF Ticks

(* A handler that moves on within the types keeps them.                      *)
LEMMA MovesKeepsType ==
  ASSUME TypeOK, NEW t \in Threads, Moves(t), Ticks, DataOK'
  PROVE  TypeOK'
<1>1. call' \in [Threads -> Handlers]
  BY DEF TypeOK, Moves
<1> QED
  BY <1>1, TicksKeepsType DEF TypeOK, DataOK, Counts

(* A failing access.                                                         *)
LEMMA FailSteps ==
  ASSUME TypeOK, NEW t \in Threads, NEW ret \in Results, FailAs(t, ret)
  PROVE  Moves(t) /\ Ticks /\ DataOK'
BY ReturnMoves DEF FailAs, Ticks, Tables, Outside, TypeOK, DataOK

(* Setting statuses keeps them typed.                                        *)
LEMMA SetUgcType ==
  ASSUME TypeOK, NEW k \in Tokens \cup {""}, NEW S, NEW old,
         NEW new \in {"none", "granted", "denied"}, SetUgc(k, S, old, new)
  PROVE  ugc' \in [Tokens -> [Policies -> {"none", "granted", "denied"}]]
BY DEF SetUgc, TypeOK

(* The accesses of a grant move it on.                                       *)
LEMMA GrantStepsMove ==
  ASSUME TypeOK, NEW t \in Threads, GrantStep(t)
  PROVE  Active(t) /\ call[t].op = "grant" /\ Moves(t) /\ Ticks
<1> USE DEF Active, At, Ticks
<1>0. "set" \in Points /\ {"ok", "db", "mac"} \subseteq Results
  BY DEF Points, Results
<1>1. CASE GrantStore(t)
  BY <1>0, <1>1, GotoMoves DEF GrantStore
<1>2. CASE GrantStoreFails(t)
  BY <1>0, <1>2, FailSteps DEF GrantStoreFails
<1>3. CASE GrantSet(t)
  BY <1>0, <1>3, ReturnMoves DEF GrantSet
<1>4. CASE GrantRefused(t)
  <2> DEFINE c == [Idle EXCEPT !.op = "grant", !.clean = FALSE]
  <2>1. c \in Handlers
    <3>1. "grant" \in OpNames /\ "done" \in Points /\ FALSE \in BOOLEAN
      BY DEF OpNames, Points
    <3> QED
      BY <3>1, IdleIsHandler, MarkKeepsType
  <2>2. Follows(c, call[t])
    BY <1>4 DEF Idle, Follows, UserRows, GrantRefused
  <2>3. call' = [call EXCEPT ![t] = c]
    BY <1>4 DEF GrantRefused, Set
  <2> HIDE DEF c
  <2> QED
    BY <1>4, <2>1, <2>2, <2>3 DEF GrantRefused, Moves
<1>5. CASE GrantSetFails(t)
  BY <1>0, <1>5, FailSteps DEF GrantSetFails
<1> QED
  BY <1>1, <1>2, <1>3, <1>4, <1>5 DEF GrantStep

(* A revocation goes to its next policy, to the kill, or returns.            *)
LEMMA NextRevokedMoves ==
  ASSUME TypeOK, NEW t \in Threads, NEW p, NEW ret \in Results, NEW clean \in BOOLEAN,
         clean => call[t].clean, NextRevoked(t, p, ret, clean)
  PROVE  Moves(t)
<1> DEFINE left == call[t].left \ {p}
           more == [call[t] EXCEPT !.left = left, !.ret = ret, !.pol = NoRow, !.clean = clean]
<1>1. call[t] \in Handlers
  BY DEF TypeOK
<1>2. left \subseteq Policies
  BY <1>1, HandlerFields
<1> HIDE DEF left
<1>3. /\ more \in Handlers /\ more.op = call[t].op /\ more.clean = clean
      /\ more.k = call[t].k /\ more.user = call[t].user
      /\ more.bundle = call[t].bundle /\ more.profile = call[t].profile /\ more.pols = call[t].pols
  BY <1>1, <1>2, ZenonT(30) DEF Handlers
<1> HIDE DEF more
<1>4. \A pc \in Points \ {"load", "read", "remove"} : [more EXCEPT !.pc = pc] \in Handlers
                                       /\ Follows([more EXCEPT !.pc = pc], call[t])
  BY <1>3, ZenonT(30) DEF Handlers, Follows, UserRows
<1>5. {"modify", "kill"} \subseteq Points \ {"load", "read", "remove"}
  BY DEF Points
<1>6. CASE left # {}
  <2>1. call' = [call EXCEPT ![t] = [more EXCEPT !.pc = "modify"]]
    BY <1>6 DEF NextRevoked, left, more, Set
  <2> QED
    BY <2>1, <1>4, <1>5 DEF Moves
<1>7. CASE left = {} /\ (ret # "ok" \/ more.k \notin Haps)
  <2> DEFINE c == [Idle EXCEPT !.op = more.op, !.ret = ret, !.clean = clean]
  <2>1. more.op \in OpNames /\ ret \in Results /\ clean \in BOOLEAN
    BY <1>1, <1>3, HandlerFields
  <2>2. c \in Handlers
    BY <2>1, IdleIsHandler, ZenonT(60) DEF Handlers
  <2>3. Follows(c, call[t])
    BY <1>3 DEF Idle, Follows, UserRows
  <2>4. call' = [call EXCEPT ![t] = c]
    BY <1>7 DEF NextRevoked, left, more, Set
  <2> HIDE DEF c
  <2> QED
    BY <2>2, <2>3, <2>4 DEF Moves
<1>8. CASE left = {} /\ ~(ret # "ok" \/ more.k \notin Haps)
  <2>1. call' = [call EXCEPT ![t] = [more EXCEPT !.pc = "kill"]]
    BY <1>8 DEF NextRevoked, left, more, Set
  <2> QED
    BY <2>1, <1>4, <1>5 DEF Moves
<1> QED
  BY <1>6, <1>7, <1>8

(* The accesses of a revocation move it on.                                  *)
LEMMA RevokeStepsMove ==
  ASSUME TypeOK, NEW t \in Threads, RevokeStep(t)
  PROVE  Active(t) /\ call[t].op = "revoke" /\ Moves(t) /\ Ticks
<1> USE DEF Active, At, Ticks
<1>0. "unset" \in Points /\ {"ok", "db", "mac", "kill"} \subseteq Results
  BY DEF Points, Results
<1>9. call[t] \in Handlers
  BY DEF TypeOK
<1>1. CASE RevokeModify(t)
  <2>1. PICK p \in call[t].left :
          Set(t, [call[t] EXCEPT !.pc = "unset", !.pol = p])
    BY <1>1 DEF RevokeModify
  <2>2. call[t].op = "revoke" /\ call[t].pc = "modify" /\ bounds' = bounds
    BY <1>1 DEF RevokeModify
  <2>3. p \in Policies
    BY <1>9, HandlerFields
  <2> DEFINE c == [call[t] EXCEPT !.pc = "unset", !.pol = p]
  <2>4. c \in Handlers /\ Follows(c, call[t])
    BY <1>0, <1>9, <2>3, ZenonT(30) DEF Handlers, Follows, UserRows
  <2>5. call' = [call EXCEPT ![t] = c]
    BY <2>1 DEF Set
  <2> HIDE DEF c
  <2> QED
    BY <2>2, <2>4, <2>5 DEF Moves
<1>8. call[t].ret \in Results /\ call[t].clean \in BOOLEAN
  BY <1>9, HandlerFields
<1>2. CASE RevokeModifyFails(t)
  BY <1>0, <1>2, <1>8, NextRevokedMoves DEF RevokeModifyFails
<1>3. CASE RevokeUnset(t)
  BY <1>0, <1>3, <1>8, NextRevokedMoves DEF RevokeUnset
<1>7. CASE RevokeRefused(t)
  BY <1>0, <1>7, <1>8, NextRevokedMoves DEF RevokeRefused
<1>4. CASE RevokeUnsetFails(t)
  BY <1>0, <1>4, <1>8, NextRevokedMoves DEF RevokeUnsetFails
<1>5. CASE RevokeKill(t)
  BY <1>0, <1>5, ReturnMoves DEF RevokeKill
<1>6. CASE RevokeKillFails(t)
  BY <1>0, <1>6, FailSteps DEF RevokeKillFails
<1> QED
  BY <1>1, <1>2, <1>3, <1>4, <1>5, <1>6, <1>7 DEF RevokeStep

(* The accesses of an erasure move it on.                                    *)
LEMMA EraseStepsMove ==
  ASSUME TypeOK, NEW t \in Threads, EraseStep(t)
  PROVE  Active(t) /\ call[t].op = "erase" /\ Moves(t) /\ Ticks
<1> USE DEF Active, At, Ticks
<1>0. /\ {"destroy", "ugc", "kill", "photo"} \subseteq Points
      /\ {"ok", "db", "mac", "kill", "media"} \subseteq Results
  BY DEF Points, Results
<1>1. CASE EraseRows(t)
  BY <1>0, <1>1, GotoMoves DEF EraseRows
<1>2. CASE EraseRules(t)
  BY <1>0, <1>2, GotoMoves DEF EraseRules
<1>3. CASE RemoveUgcPermissionByTokenId(t)
  BY <1>0, <1>3, GotoMoves, ReturnMoves DEF RemoveUgcPermissionByTokenId, AfterUgc
<1>4. CASE RemoveUgcFails(t)
  BY <1>0, <1>4, GotoMoves, ReturnMoves DEF RemoveUgcFails, AfterUgc
<1>5. CASE EraseKill(t)
  BY <1>0, <1>5, GotoMoves DEF EraseKill
<1>6. CASE CancelPhotoUriPersistPermission(t)
  BY <1>0, <1>6, ReturnMoves DEF CancelPhotoUriPersistPermission
<1>7. CASE EraseFails(t)
  BY <1>0, <1>7, FailSteps DEF EraseFails
<1> QED
  BY <1>1, <1>2, <1>3, <1>4, <1>5, <1>6, <1>7 DEF EraseStep

(* A cleaning keeps the rows of its user, and of tokens it knows nothing of. *)
LEMMA KeepResultsMoves ==
  ASSUME TypeOK, NEW t \in Threads, NEW unsure \in SUBSET Tokens, KeepResults(t, unsure)
  PROVE  Moves(t)
<1> DEFINE below == RemoveResultByUserIdAndPrefix(call[t].below, call[t].user, call[t].path, unsure)
           c == [call[t] EXCEPT !.pc = "remove", !.below = below, !.unsure = unsure]
<1>1. call[t] \in Handlers
  BY DEF TypeOK
<1>2. CASE Return(t, "ok")
  BY <1>2, ReturnMoves DEF Results
<1>3. CASE call' = [call EXCEPT ![t] = c]
  <2>1. below \in SUBSET (Tokens \X Policies)
    BY <1>1, HandlerFields DEF RemoveResultByUserIdAndPrefix
  <2>2. \A r \in below : UserOf[r[1]] = call[t].user \/ r[1] \in unsure
    BY DEF RemoveResultByUserIdAndPrefix
  <2> HIDE DEF below
  <2>3. c \in Handlers
    <3>1. "remove" \in Points
      BY DEF Points
    <3> QED
      BY <1>1, <2>1, <3>1, ZenonT(60) DEF Handlers
  <2>4. /\ c.op = call[t].op /\ c.clean = call[t].clean /\ c.below = below /\ c.unsure = unsure
        /\ c.user = call[t].user /\ c.pols = call[t].pols /\ c.pc = "remove"
        /\ c.bundle = call[t].bundle /\ c.profile = call[t].profile /\ c.k = call[t].k
    BY <1>1 DEF Handlers
  <2> HIDE DEF c
  <2>5. Follows(c, call[t])
    BY <2>2, <2>4 DEF Follows, UserRows
  <2> QED
    BY <1>3, <2>3, <2>5 DEF Moves
<1> QED
  BY <1>2, <1>3 DEF KeepResults, Set

(* The accesses of a cleaning move it on.                                    *)
LEMMA CleanStepsMove ==
  ASSUME TypeOK, NEW t \in Threads, CleanStep(t)
  PROVE  Active(t) /\ call[t].op = "clean" /\ Moves(t) /\ Ticks
<1> USE DEF Active, At, Ticks
<1>0. {"byuser", "filter"} \subseteq Points /\ "ok" \in Results
  BY DEF Points, Results
<1>1. CASE CleanFind(t)
  <2>1. PICK S \in SUBSET rows : Set(t, [call[t] EXCEPT !.pc = "byuser", !.below = S])
    <3>1. FindSubPathIgnoreCase(call[t].path) \subseteq rows
      BY DEF FindSubPathIgnoreCase
    <3> QED
      BY <1>1, <3>1 DEF CleanFind
  <2> DEFINE c == [call[t] EXCEPT !.pc = "byuser", !.below = S]
  <2>2. S \in SUBSET (Tokens \X Policies) /\ call[t] \in Handlers
    BY DEF TypeOK
  <2>3. c \in Handlers
    BY <1>0, <2>2, ZenonT(60) DEF Handlers
  <2>4. /\ c.op = call[t].op /\ c.clean = call[t].clean /\ c.k = call[t].k
        /\ c.user = call[t].user /\ c.pols = call[t].pols /\ c.pc = "byuser"
        /\ c.bundle = call[t].bundle /\ c.profile = call[t].profile
    BY <2>2 DEF Handlers
  <2>5. call' = [call EXCEPT ![t] = c]
    BY <2>1 DEF Set
  <2> HIDE DEF c
  <2>6. Follows(c, call[t])
    BY <2>4 DEF Follows, UserRows
  <2> QED
    BY <1>1, <2>3, <2>5, <2>6 DEF Moves, CleanFind
<1>2. CASE CleanPolicyOnMac(t)
  BY <1>0, <1>2, GotoMoves, ReturnMoves DEF CleanPolicyOnMac
<1>4. CASE CleanFilter(t)
  <2>1. PICK unsure : unsure \in SUBSET Tokens /\ KeepResults(t, unsure)
    <3>1. NoHap \in SUBSET Tokens /\ \A failed \in SUBSET Haps : NoHap \cup failed \in SUBSET Tokens
      BY GrantAssumption DEF GrantAssumption, NoHap
    <3> QED
      BY <1>4, <3>1 DEF CleanFilter
  <2>2. Moves(t)
    BY <2>1, KeepResultsMoves
  <2> QED
    BY <1>4, <2>2 DEF CleanFilter
<1>3. CASE CleanRemove(t)
  BY <1>0, <1>3, ReturnMoves DEF CleanRemove
<1> QED
  BY <1>1, <1>2, <1>3, <1>4 DEF CleanStep

(* What the rows of a user are made of.                                      *)
LEMMA SharedOfType ==
  ASSUME TypeOK, NEW u
  PROVE  SharedOf(u) \subseteq [row: SharedPolicies, bundle: Bundles]
<1> SUFFICES ASSUME NEW x \in SharedOf(u) PROVE x \in [row: SharedPolicies, bundle: Bundles]
  OBVIOUS
<1>1. PICK k \in Haps : shared[k] # NoRow /\ x = [row |-> shared[k], bundle |-> BundleOf[k]]
  BY DEF SharedOf
<1>2. k \in Tokens /\ BundleOf[k] \in Bundles
  BY GrantAssumption DEF GrantAssumption
<1>3. shared[k] \in SharedPolicies
  BY <1>1, <1>2 DEF TypeOK
<1> QED
  BY <1>1, <1>2, <1>3

(* The list is found.                                                        *)
LEMMA ListFoundMoves ==
  ASSUME TypeOK, NEW t \in Threads, NEW found \in SUBSET [row: SharedPolicies, bundle: Bundles],
         ListFound(t, found)
  PROVE  Moves(t)
<1> DEFINE pc == IF call[t].op = "gshare" THEN "check" ELSE "unset"
           c == [call[t] EXCEPT !.found = found, !.pc = pc]
<1>a. call[t] \in Handlers
  BY DEF TypeOK
<1>1. CASE call' = [call EXCEPT ![t] = c]
  <2>1. pc \in Points \ {"load", "read", "remove"}
    BY DEF Points
  <2> HIDE DEF pc
  <2>2. c \in Handlers
    BY <1>a, <2>1 DEF Handlers
  <2>3. /\ c.op = call[t].op /\ c.clean = call[t].clean /\ c.k = call[t].k
        /\ c.user = call[t].user /\ c.pols = call[t].pols /\ c.pc = pc
        /\ c.bundle = call[t].bundle /\ c.profile = call[t].profile
    BY <1>a DEF Handlers
  <2> HIDE DEF c
  <2>4. Follows(c, call[t])
    BY <2>1, <2>3 DEF Follows, UserRows
  <2> QED
    BY <1>1, <2>2, <2>4 DEF Moves
<1>2. CASE Return(t, "ok")
  BY <1>2, ReturnMoves DEF Results
<1> QED
  BY <1>1, <1>2 DEF ListFound, Set

(* One row of a list is decided.                                             *)
LEMMA DecideMoves ==
  ASSUME TypeOK, NEW t \in Threads, NEW item \in call[t].found, NEW allowed,
         call[t].op = "gshare", Decide(t, item, allowed)
  PROVE  Moves(t)
<1> DEFINE left == call[t].found \ {item}
           pols == IF allowed /\ item.row.mode # {} THEN call[t].pols \cup {item.row}
                   ELSE call[t].pols
           pc == IF left # {} THEN "next" ELSE "set"
           c == [call[t] EXCEPT !.found = left, !.pols = pols, !.pc = pc]
<1>1. call[t] \in Handlers
  BY DEF TypeOK
<1>2. left \subseteq [row: SharedPolicies, bundle: Bundles] /\ item.row \in SharedPolicies
  BY <1>1, HandlerFields
<1>3. pols \subseteq AllPolicies /\ pols \subseteq call[t].pols \cup SharedPolicies
  BY <1>1, <1>2, HandlerFields DEF AllPolicies
<1>4. pc \in Points \ {"load", "read", "remove"}
  BY DEF Points
<1>5. call' = [call EXCEPT ![t] = c]
  BY DEF Decide, Set
<1> HIDE DEF left, pols, pc
<1>6. c \in Handlers
  BY <1>1, <1>2, <1>3, <1>4 DEF Handlers
<1>7. /\ c.op = call[t].op /\ c.clean = call[t].clean /\ c.k = call[t].k
      /\ c.user = call[t].user /\ c.pols = pols /\ c.pc = pc
  BY <1>1 DEF Handlers
<1> HIDE DEF c
<1>8. Follows(c, call[t])
  BY <1>3, <1>4, <1>7 DEF Follows, UserRows
<1> QED
  BY <1>5, <1>6, <1>8 DEF Moves

(* The bundles of a user.                                                    *)
LEMMA BundlesAre ==
  ASSUME NEW u
  PROVE  BundlesOf(u) \in SUBSET Bundles
BY GrantAssumption DEF GrantAssumption, BundlesOf

(* The scopes of a profile are items.                                        *)
LEMMA ReadType ==
  ASSUME TypeOK, NEW B \in SUBSET Bundles, NEW u \in Users
  PROVE  {Declared(b, u) : b \in B} \subseteq SUBSET AllItems
<1>1. \A b \in B : profile[b][u] \in Profiles
  BY DEF TypeOK
<1> QED
  BY <1>1 DEF AllItems, Declared

(* Profiles are read.                                                        *)
LEMMA ReadMoves ==
  ASSUME TypeOK, NEW t \in Threads, NEW B \in SUBSET Bundles, NEW d \in Handlers,
         Follows(d, call[t]), d.pc # "done", d.op \in {"gshare", "package", "added"},
         d.user \in Users, ReadProfiles(t, d, B)
  PROVE  Moves(t)
<1> DEFINE rest == {Declared(b, d.user) : b \in B}
           c == [d EXCEPT !.pc = "load", !.load = {}, !.rest = rest]
<1>1. rest \in SUBSET SUBSET AllItems /\ "load" \in Points
  BY ReadType DEF Points
<1>2. call' = [call EXCEPT ![t] = c]
  BY DEF ReadProfiles, Set
<1> HIDE DEF rest
<1>3. c \in Handlers
  BY <1>1 DEF Handlers
<1>4. /\ c.op = d.op /\ c.clean = d.clean  /\ c.k = d.k /\ c.user = d.user
      /\ c.bundle = d.bundle /\ c.pols = d.pols /\ c.pc = "load"
  BY DEF Handlers
<1> HIDE DEF c
<1>5. Follows(c, call[t])
  BY <1>4 DEF Follows, UserRows
<1> QED
  BY <1>2, <1>3, <1>5 DEF Moves

(* The items of a profile are told apart by their place in it.               *)
LEMMA ItemsAre ==
  ASSUME NEW b \in Bundles, NEW p \in Profiles
  PROVE  /\ \A i \in Items(b, p) : i.bundle = b /\ i.at \in Nat /\ i.at <= Len(p.scopes) + 1
         /\ \A i, j \in Items(b, p) : i.at = j.at => i = j
<1>1. Len(p.scopes) \in Nat /\ DOMAIN p.scopes = 1..Len(p.scopes)
  BY GrantAssumption
<1>2. \A i \in Items(b, p) :
        \/ \E n \in 1..Len(p.scopes) : i = [bundle |-> b, at |-> n, scope |-> p.scopes[n]]
        \/ i = Limit(b, p)
  BY <1>1 DEF Items, Loadable
<1>3. Limit(b, p).bundle = b /\ Limit(b, p).at = Len(p.scopes) + 1
  BY DEF Limit
<1> QED
  BY <1>1, <1>2, <1>3

(* The accesses that have to do with shared directories move on.             *)
LEMMA ShareStepsMove ==
  ASSUME TypeInv, NEW t \in Threads, ShareStep(t)
  PROVE  /\ Active(t) /\ Moves(t) /\ Ticks
         /\ call[t].op \notin {"setshare", "update", "unshare", "gshare", "rshare"} =>
              LoadScope(t) \/ LoadProfile(t)
<1> USE DEF Active, At, Ticks
<1> TypeOK
  BY DEF TypeInv
<1>0. /\ {"drop", "check", "unset"} \subseteq Points
      /\ {"ok", "db", "mac", "invalid"} \subseteq Results
  BY DEF Points, Results
<1>a. call[t] \in Handlers
  BY DEF TypeOK
<1>b. call[t].ret \in Results
  BY <1>a, HandlerFields
<1>c. \A ret \in Results : WriteEnds(t, ret) => Moves(t)
  <2> SUFFICES ASSUME NEW ret \in Results, WriteEnds(t, ret) PROVE Moves(t)
    OBVIOUS
  <2>1. CASE call[t].op = "update"
    <3> DEFINE c == [call[t] EXCEPT !.ret = ret, !.pc = "drop"]
    <3>1. c \in Handlers /\ Follows(c, call[t])
      BY <1>0, <1>a, ZenonT(30) DEF Handlers, Follows, UserRows
    <3>2. call' = [call EXCEPT ![t] = c]
      BY <2>1 DEF WriteEnds, Set
    <3> HIDE DEF c
    <3> QED
      BY <3>1, <3>2 DEF Moves
  <2>2. CASE call[t].op # "update"
    BY <2>2, ReturnMoves DEF WriteEnds
  <2> QED
    BY <2>1, <2>2
<1>1. CASE WriteShareFileToDb(t)
  BY <1>0, <1>1, <1>c, ReturnMoves DEF WriteShareFileToDb
<1>2. CASE DropShareRow(t)
  BY <1>0, <1>2, <1>b, ReturnMoves DEF DropShareRow
<1>3. CASE QuerySharedFileInfoByUserId(t)
  <2>1. SharedOf(call[t].user) \subseteq [row: SharedPolicies, bundle: Bundles]
    BY SharedOfType
  <2>2. CASE \E found \in SUBSET SharedOf(call[t].user) : ListFound(t, found)
    BY <1>3, <2>1, <2>2, ListFoundMoves DEF QuerySharedFileInfoByUserId
  <2>3. CASE Return(t, "db")
    BY <1>0, <1>3, <2>3, ReturnMoves DEF QuerySharedFileInfoByUserId
  <2> QED
    BY <1>3, <2>2, <2>3 DEF QuerySharedFileInfoByUserId
<1>4. CASE CheckFirst(t)
  <2>1. call[t].op = "gshare" /\ call[t].pc = "check" /\ Ticks
    BY <1>4 DEF CheckFirst
  <2>2. PICK item \in call[t].found :
          \/ \E allowed : Decide(t, item, allowed)
          \/ ReadProfiles(t, [call[t] EXCEPT !.bundle = item.bundle], BundlesOf(call[t].user))
    BY <1>4, Zenon DEF CheckFirst
  <2>3. CASE \E allowed : Decide(t, item, allowed)
    BY <2>1, <2>3, DecideMoves
  <2>4. CASE ReadProfiles(t, [call[t] EXCEPT !.bundle = item.bundle], BundlesOf(call[t].user))
    <3> DEFINE d == [call[t] EXCEPT !.bundle = item.bundle]
               B == BundlesOf(call[t].user)
    <3>1. item.bundle \in Bundles
      BY <1>a, HandlerFields
    <3>2. d \in Handlers /\ Follows(d, call[t]) /\ d.pc # "done" /\ d.op = "gshare"
          /\ d.user = call[t].user
      BY <1>a, <2>1, <3>1, ZenonT(30) DEF Handlers, Follows, UserRows
    <3>3. B \in SUBSET Bundles /\ ReadProfiles(t, d, B)
      BY <2>4, BundlesAre
    <3>4. call[t].user \in Users
      BY <2>1 DEF TypeInv, Args
    <3> HIDE DEF d, B
    <3>5. Moves(t)
      BY <3>2, <3>3, <3>4, ReadMoves DEF TypeInv
    <3> QED
      BY <2>1, <3>5
  <2> QED
    BY <2>2, <2>3, <2>4
<1>5. CASE CheckAgain(t)
  BY <1>5, DecideMoves DEF CheckAgain
<1>6. CASE CheckNext(t)
  BY <1>6, DecideMoves DEF CheckNext
<1>7. CASE SetShared(t)
  BY <1>0, <1>7, ReturnMoves DEF SetShared
<1>8. CASE UnsetShared(t)
  BY <1>0, <1>8, ReturnMoves DEF UnsetShared
<1>9. CASE LoadProfile(t)
  <2>1. PICK next \in call[t].rest :
          Set(t, [call[t] EXCEPT !.load = next, !.rest = call[t].rest \ {next}])
    BY <1>9 DEF LoadProfile
  <2> DEFINE rest == call[t].rest \ {next}
             c == [call[t] EXCEPT !.load = next, !.rest = rest]
  <2>2. next \in SUBSET AllItems /\ rest \in SUBSET SUBSET AllItems
    BY <1>a, HandlerFields
  <2>3. call' = [call EXCEPT ![t] = c]
    BY <2>1 DEF Set
  <2> HIDE DEF rest
  <2>4. c \in Handlers
    BY <1>a, <2>2 DEF Handlers
  <2>5. /\ c.op = call[t].op /\ c.clean = call[t].clean /\ c.k = call[t].k
        /\ c.user = call[t].user /\ c.pols = call[t].pols /\ c.pc = "load"
        /\ c.bundle = call[t].bundle /\ c.profile = call[t].profile /\ call[t].pc = "load"
    BY <1>a, <1>9 DEF Handlers, LoadProfile
  <2> HIDE DEF c
  <2>6. Follows(c, call[t])
    BY <2>5 DEF Follows, UserRows
  <2> QED
    BY <1>9, <2>3, <2>4, <2>6 DEF LoadProfile, Moves
<1>10. CASE LoadScope(t)
  <2>1. PICK item \in call[t].load : AddToMap(t, item)
    BY <1>10 DEF LoadScope
  <2>a. item.bundle \in Bundles
    <3>1. item \in AllItems
      BY <1>a, HandlerFields
    <3>2. \A i \in AllItems : i.bundle \in Bundles
      BY ItemsAre DEF AllItems
    <3> QED
      BY <3>1, <3>2
  <2>b. Ticks
    BY <2>1, <2>a, DeleteTicks DEF AddToMap, AddGood, Ticks
  <2>2. PICK load \in SUBSET AllItems : Set(t, [call[t] EXCEPT !.load = load])
    <3>1. call[t].load \ {item} \in SUBSET AllItems /\ {} \in SUBSET AllItems
      BY <1>a, HandlerFields
    <3> QED
      BY <2>1, <3>1 DEF AddToMap, AddGood
  <2> DEFINE c == [call[t] EXCEPT !.load = load]
  <2>3. c \in Handlers
    BY <1>a DEF Handlers
  <2>4. call' = [call EXCEPT ![t] = c]
    BY <2>2 DEF Set
  <2>5. /\ c.op = call[t].op /\ c.clean = call[t].clean /\ c.k = call[t].k
        /\ c.user = call[t].user /\ c.pols = call[t].pols /\ c.pc = "load"
        /\ c.bundle = call[t].bundle /\ c.profile = call[t].profile /\ call[t].pc = "load"
    BY <1>a, <1>10 DEF Handlers, LoadScope
  <2> HIDE DEF c
  <2>6. Follows(c, call[t])
    BY <2>5 DEF Follows, UserRows
  <2> QED
    BY <1>10, <2>3, <2>4, <2>6, <2>b DEF LoadScope, Moves
<1> QED
  BY <1>1, <1>2, <1>3, <1>4, <1>5, <1>6, <1>7, <1>8, <1>9, <1>10 DEF ShareStep

(* The accesses of a package event move it on.                               *)
LEMMA PackageStepsMove ==
  ASSUME TypeInv, NEW t \in Threads, PackageStep(t)
  PROVE  Active(t) /\ call[t].op \in PackageOps /\ Moves(t) /\ Ticks
<1> USE DEF Active, At, TypeInv, PackageOps
<1>0. {"delete", "read"} \subseteq Points /\ {"ok", "denied"} \subseteq Results
  BY DEF Points, Results
<1>1. CASE CleanPolicyByPackageChanged(t)
  BY <1>0, <1>1, GotoMoves, ReturnMoves DEF CleanPolicyByPackageChanged, Ticks
<1>2. CASE RemoveBundlePolicy(t)
  BY <1>0, <1>2, GotoMoves, ReturnMoves DEF RemoveBundlePolicy, Ticks
<1>3. CASE DeleteBundle(t)
  <2>1. call[t].bundle \in Bundles
    BY <1>3 DEF DeleteBundle, Args
  <2>2. Ticks
    BY <1>3, <2>1, DeleteTicks DEF DeleteBundle
  <2> QED
    BY <1>0, <1>3, <2>2, GotoMoves, ReturnMoves DEF DeleteBundle
<1>4. CASE GetShareCfgByBundle(t)
  <2> DEFINE b == call[t].bundle
             read == profile[b][call[t].user]
             d == [call[t] EXCEPT !.profile = read]
  <2>1. call[t].op \in {"package", "added"} /\ call[t].pc = "read" /\ Ticks
    BY <1>4 DEF GetShareCfgByBundle, Ticks
  <2>2. CASE ReadProfiles(t, d, {b})
    <3>1. call[t] \in Handlers /\ b \in Bundles /\ call[t].user \in Users
      BY <2>1 DEF TypeOK, Args
    <3>2. read \in Profiles
      BY <3>1 DEF TypeOK
    <3> HIDE DEF read
    <3>a. d \in Handlers
      BY <3>1, <3>2 DEF Handlers
    <3>b. /\ d.op = call[t].op /\ d.clean = call[t].clean /\ d.k = call[t].k /\ d.pc = call[t].pc
          /\ d.user = call[t].user /\ d.pols = call[t].pols /\ d.bundle = call[t].bundle
      BY <3>1 DEF Handlers
    <3>c. \A e : e = d => Follows(e, call[t])
      <4> HIDE DEF d
      <4> QED
        BY <2>1, <3>b DEF Follows, UserRows
    <3>3. d \in Handlers /\ Follows(d, call[t]) /\ d.pc # "done" /\ d.op \in {"package", "added"}
          /\ d.user = call[t].user
      BY <2>1, <3>a, <3>b, <3>c
    <3>4. {b} \in SUBSET Bundles
      BY <3>1
    <3> HIDE DEF b, d
    <3>5. Moves(t)
      BY <2>2, <3>1, <3>3, <3>4, ReadMoves
    <3> QED
      BY <2>1, <3>5
  <2>3. CASE Return(t, "ok")
    BY <1>0, <2>1, <2>3, ReturnMoves
  <2> QED
    BY <1>4, <2>2, <2>3 DEF GetShareCfgByBundle
<1>5. CASE RefreshDone(t)
  BY <1>0, <1>5, ReturnMoves DEF RefreshDone, Loaded, Ticks
<1> QED
  BY <1>1, <1>2, <1>3, <1>4, <1>5 DEF PackageStep

(* Every handler begins with arguments of the right shape.                   *)
Begins(t) ==
  \/ GrantPermissionByUser(t) \/ RevokePermissionByUser(t) \/ UnPersistPolicy(t)
  \/ CleanPolicyByUserId(t) \/ SetShareFileInfo(t) \/ UpdateShareFileInfo(t)
  \/ UnsetShareFileInfo(t) \/ GrantSharedDirectoryPermission(t)
  \/ RevokeSharedDirectoryPermission(t)
  \/ PackageChanged(t) \/ OnReceiveEventRemove(t) \/ OnReceiveEventAdd(t)

(* Every handler that begins is a start.                                     *)
LEMMA BeginsStart ==
  ASSUME NEW t \in Threads, Begins(t)
  PROVE  Starts(t)
<1>0. /\ {"grant", "revoke", "erase", "clean", "setshare", "update", "unshare", "gshare", "rshare",
          "package", "removed", "added"} \subseteq OpNames
      /\ {"add", "modify", "rows", "find", "write", "drop", "list", "destroy", "read"}
           \subseteq Points \ {"done", "load", "remove"}
  BY DEF OpNames, Points
<1>a. /\ Targets \subseteq Tokens /\ Callers \subseteq Tokens
      /\ Requests \subseteq SUBSET Policies /\ Requests \subseteq SUBSET AllPolicies
      /\ \A k \in Haps : k \in Tokens /\ BundleOf[k] \in Bundles
      /\ \A k \in Tokens : UserOf[k] \in Users
  BY GrantAssumption DEF GrantAssumption, AllPolicies, Users
<1>1. CASE GrantPermissionByUser(t)
  <2>1. PICK k \in Targets, S \in Requests :
          Begin(t, "grant", "add", [Idle EXCEPT !.k = k, !.pols = S])
    BY <1>1 DEF GrantPermissionByUser
  <2> DEFINE args == [Idle EXCEPT !.k = k, !.pols = S]
  <2>2. args \in Handlers
    BY <1>a, IdleIsHandler DEF Handlers
  <2>3. Fresh("grant", "add", args)
    BY <1>0, <1>a, <2>2 DEF Fresh, Idle, PackageOps
  <2> HIDE DEF args
  <2>4. Begin(t, "grant", "add", args)
    BY <2>1 DEF args
  <2> QED
    BY <2>3, <2>4 DEF Starts
<1>2. CASE RevokePermissionByUser(t)
  <2>1. PICK k \in Targets, S \in Requests :
          Begin(t, "revoke", "modify", [Idle EXCEPT !.k = k, !.pols = S, !.left = S])
    BY <1>2 DEF RevokePermissionByUser
  <2> DEFINE args == [Idle EXCEPT !.k = k, !.pols = S, !.left = S]
  <2>2. args \in Handlers
    BY <1>a, IdleIsHandler DEF Handlers
  <2>3. Fresh("revoke", "modify", args)
    BY <1>0, <1>a, <2>2 DEF Fresh, Idle, PackageOps
  <2> HIDE DEF args
  <2>4. Begin(t, "revoke", "modify", args)
    BY <2>1 DEF args
  <2> QED
    BY <2>3, <2>4 DEF Starts
<1>3. CASE UnPersistPolicy(t)
  <2>1. PICK k \in Targets : Begin(t, "erase", "rows", [Idle EXCEPT !.k = k])
    BY <1>3 DEF UnPersistPolicy
  <2> DEFINE args == [Idle EXCEPT !.k = k]
  <2>2. args \in Handlers
    BY <1>a, IdleIsHandler DEF Handlers
  <2>3. Fresh("erase", "rows", args)
    BY <1>0, <1>a, <2>2 DEF Fresh, Idle, PackageOps
  <2> HIDE DEF args
  <2>4. Begin(t, "erase", "rows", args)
    BY <2>1 DEF args
  <2> QED
    BY <2>3, <2>4 DEF Starts
<1>4. CASE CleanPolicyByUserId(t)
  <2>1. PICK u \in Users, dir \in CleanPaths :
          Begin(t, "clean", "find", [Idle EXCEPT !.user = u, !.path = dir])
    BY <1>4 DEF CleanPolicyByUserId
  <2> DEFINE args == [Idle EXCEPT !.user = u, !.path = dir]
  <2>2. args \in Handlers
    BY <1>a, IdleIsHandler DEF Handlers
  <2>3. Fresh("clean", "find", args)
    BY <1>0, <1>a, <2>2 DEF Fresh, Idle, PackageOps
  <2> HIDE DEF args
  <2>4. Begin(t, "clean", "find", args)
    BY <2>1 DEF args
  <2> QED
    BY <2>3, <2>4 DEF Starts
<1>5. CASE SetShareFileInfo(t)
  <2>1. PICK k \in Haps, p \in Profiles :
          Begin(t, "setshare", "write", [Idle EXCEPT !.k = k, !.bundle = BundleOf[k], !.profile = p])
    BY <1>5 DEF SetShareFileInfo
  <2> DEFINE args == [Idle EXCEPT !.k = k, !.bundle = BundleOf[k], !.profile = p]
  <2>2. args \in Handlers
    BY <1>a, IdleIsHandler DEF Handlers
  <2>3. Fresh("setshare", "write", args)
    BY <1>0, <1>a, <2>2 DEF Fresh, Idle, PackageOps
  <2> HIDE DEF args
  <2>4. Begin(t, "setshare", "write", args)
    BY <2>1 DEF args
  <2> QED
    BY <2>3, <2>4 DEF Starts
<1>6. CASE UpdateShareFileInfo(t)
  <2>1. PICK k \in Haps, p \in Profiles :
          Begin(t, "update", "write", [Idle EXCEPT !.k = k, !.bundle = BundleOf[k], !.profile = p])
    BY <1>6 DEF UpdateShareFileInfo
  <2> DEFINE args == [Idle EXCEPT !.k = k, !.bundle = BundleOf[k], !.profile = p]
  <2>2. args \in Handlers
    BY <1>a, IdleIsHandler DEF Handlers
  <2>3. Fresh("update", "write", args)
    BY <1>0, <1>a, <2>2 DEF Fresh, Idle, PackageOps
  <2> HIDE DEF args
  <2>4. Begin(t, "update", "write", args)
    BY <2>1 DEF args
  <2> QED
    BY <2>3, <2>4 DEF Starts
<1>7. CASE UnsetShareFileInfo(t)
  <2>1. PICK k \in Haps : Begin(t, "unshare", "drop", [Idle EXCEPT !.k = k, !.bundle = BundleOf[k]])
    BY <1>7 DEF UnsetShareFileInfo
  <2> DEFINE args == [Idle EXCEPT !.k = k, !.bundle = BundleOf[k]]
  <2>2. args \in Handlers
    BY <1>a, IdleIsHandler DEF Handlers
  <2>3. Fresh("unshare", "drop", args)
    BY <1>0, <1>a, <2>2 DEF Fresh, Idle, PackageOps
  <2> HIDE DEF args
  <2>4. Begin(t, "unshare", "drop", args)
    BY <2>1 DEF args
  <2> QED
    BY <2>3, <2>4 DEF Starts
<1>8. CASE GrantSharedDirectoryPermission(t)
  <2>1. PICK k \in Callers : Begin(t, "gshare", "list", [Idle EXCEPT !.k = k, !.user = UserOf[k]])
    BY <1>8 DEF GrantSharedDirectoryPermission
  <2> DEFINE args == [Idle EXCEPT !.k = k, !.user = UserOf[k]]
  <2>2. args \in Handlers
    BY <1>a, IdleIsHandler DEF Handlers
  <2>3. Fresh("gshare", "list", args)
    BY <1>0, <1>a, <2>2 DEF Fresh, Idle, PackageOps
  <2> HIDE DEF args
  <2>4. Begin(t, "gshare", "list", args)
    BY <2>1 DEF args
  <2> QED
    BY <2>3, <2>4 DEF Starts
<1>9. CASE RevokeSharedDirectoryPermission(t)
  <2>1. PICK k \in Callers : Begin(t, "rshare", "list", [Idle EXCEPT !.k = k, !.user = UserOf[k]])
    BY <1>9 DEF RevokeSharedDirectoryPermission
  <2> DEFINE args == [Idle EXCEPT !.k = k, !.user = UserOf[k]]
  <2>2. args \in Handlers
    BY <1>a, IdleIsHandler DEF Handlers
  <2>3. Fresh("rshare", "list", args)
    BY <1>0, <1>a, <2>2 DEF Fresh, Idle, PackageOps
  <2> HIDE DEF args
  <2>4. Begin(t, "rshare", "list", args)
    BY <2>1 DEF args
  <2> QED
    BY <2>3, <2>4 DEF Starts
<1>10. CASE PackageChanged(t)
  <2>1. PICK k \in Haps : Begin(t, "package", "destroy", OfApplication(k))
    BY <1>10 DEF PackageChanged
  <2>2. OfApplication(k) \in Handlers
    BY <1>a, IdleIsHandler DEF Handlers, OfApplication
  <2>3. Fresh("package", "destroy", OfApplication(k))
    BY <1>0, <1>a, <2>2 DEF Fresh, Idle, OfApplication, PackageOps
  <2> QED
    BY <2>1, <2>3 DEF Starts
<1>11. CASE OnReceiveEventRemove(t)
  <2>1. PICK k \in Haps : Begin(t, "removed", "rows", OfApplication(k))
    BY <1>11 DEF OnReceiveEventRemove
  <2>2. OfApplication(k) \in Handlers
    BY <1>a, IdleIsHandler DEF Handlers, OfApplication
  <2>3. Fresh("removed", "rows", OfApplication(k))
    BY <1>0, <1>a, <2>2 DEF Fresh, Idle, OfApplication, PackageOps
  <2> QED
    BY <2>1, <2>3 DEF Starts
<1>12. CASE OnReceiveEventAdd(t)
  <2>1. PICK k \in Haps : Begin(t, "added", "read", OfApplication(k))
    BY <1>12 DEF OnReceiveEventAdd
  <2>2. OfApplication(k) \in Handlers
    BY <1>a, IdleIsHandler DEF Handlers, OfApplication
  <2>3. Fresh("added", "read", OfApplication(k))
    BY <1>0, <1>a, <2>2 DEF Fresh, Idle, OfApplication, PackageOps
  <2> QED
    BY <2>1, <2>3 DEF Starts
<1> QED
  BY <1>1, <1>2, <1>3, <1>4, <1>5, <1>6, <1>7, <1>8, <1>9, <1>10, <1>11, <1>12 DEF Begins

(* The steps of the service and of the system around it.                     *)
LEMMA NextIsAStep ==
  ASSUME Next
  PROVE  \/ \E t \in Threads : \/ Begins(t) \/ GrantStep(t) \/ RevokeStep(t) \/ EraseStep(t)
                             \/ CleanStep(t) \/ ShareStep(t) \/ PackageStep(t)
         \/ BundleChanges \/ Open \/ Restart
<1>1. ASSUME NEW t \in Threads, GrantNext(t)
      PROVE  Begins(t) \/ GrantStep(t) \/ RevokeStep(t)
  BY <1>1, Zenon DEF GrantNext, Begins, GrantStep, RevokeStep
<1>2. ASSUME NEW t \in Threads, EraseNext(t)
      PROVE  Begins(t) \/ EraseStep(t)
  BY <1>2, Zenon DEF EraseNext, Begins, EraseStep
<1>3. ASSUME NEW t \in Threads, CleanNext(t)
      PROVE  Begins(t) \/ CleanStep(t)
  BY <1>3, Zenon DEF CleanNext, Begins, CleanStep
<1>4. ASSUME NEW t \in Threads, ShareNext(t)
      PROVE  Begins(t) \/ ShareStep(t)
  BY <1>4, Zenon DEF ShareNext, Begins, ShareStep
<1>5. ASSUME NEW t \in Threads, PackageNext(t)
      PROVE  Begins(t) \/ PackageStep(t)
  BY <1>5, Zenon DEF PackageNext, Begins, PackageStep
<1> QED
  BY <1>1, <1>2, <1>3, <1>4, <1>5, Zenon DEF Next

(* A handler that moves on keeps its arguments.                              *)
LEMMA MovesKeepsArgs ==
  ASSUME TypeInv, NEW t \in Threads, Active(t), Moves(t)
  PROVE  \A u \in Threads : Args(call'[u])
<1>1. PICK c \in Handlers : call' = [call EXCEPT ![t] = c] /\ Follows(c, call[t])
  BY DEF Moves
<1>2. Args(c)
  BY <1>1 DEF TypeInv, Args, Follows, Active, PackageOps
<1>3. \A u \in Threads : call'[u] = IF u = t THEN c ELSE call[u]
  BY <1>1 DEF TypeInv, TypeOK
<1> QED
  BY <1>2, <1>3 DEF TypeInv

(* A start keeps the arguments right.                                        *)
LEMMA StartKeepsArgs ==
  ASSUME TypeInv, NEW t \in Threads, Starts(t)
  PROVE  \A u \in Threads : Args(call'[u])
<1>1. PICK op, pc, args : Fresh(op, pc, args) /\ Begin(t, op, pc, args)
  BY DEF Starts
<1> DEFINE alone == \A u \in Threads : call[u].pc = "done"
           new == [args EXCEPT !.op = op, !.pc = pc, !.clean = alone]
<1>2. call' = [u \in Threads |-> IF u = t THEN new
                                 ELSE IF call[u].pc # "done" THEN [call[u] EXCEPT !.clean = FALSE]
                                 ELSE call[u]]
  BY <1>1 DEF Begin
<1> HIDE DEF alone
<1>3. /\ new.op = op /\ new.pc = pc /\ new.k = args.k /\ new.user = args.user
      /\ new.bundle = args.bundle /\ new.profile = args.profile /\ new.pols = args.pols
  BY <1>1 DEF Fresh, Handlers
<1> HIDE DEF new
<1>4. Args(new)
  BY <1>1, <1>3 DEF Args, Fresh, UserRows, PackageOps
<1> SUFFICES ASSUME NEW u \in Threads PROVE Args(call'[u])
  OBVIOUS
<1>5. call[u] \in Handlers /\ Args(call[u])
  BY DEF TypeInv, TypeOK
<1> DEFINE d == [call[u] EXCEPT !.clean = FALSE]
<1>6. /\ d.op = call[u].op /\ d.below = call[u].below /\ d.unsure = call[u].unsure
      /\ d.pc = call[u].pc /\ d.k = call[u].k /\ d.user = call[u].user
      /\ d.bundle = call[u].bundle /\ d.profile = call[u].profile /\ d.pols = call[u].pols
  BY <1>5 DEF Handlers
<1>7. call'[u] = IF u = t THEN new ELSE IF call[u].pc # "done" THEN d ELSE call[u]
  BY <1>2
<1> HIDE DEF d
<1>8. Args(d)
  BY <1>5, <1>6 DEF Args, UserRows
<1> QED
  BY <1>4, <1>5, <1>7, <1>8

(* Every step keeps tables, rules and the rest within their types.           *)
LEMMA GrantStepData ==
  ASSUME TypeInv, NEW t \in Threads, GrantStep(t) \/ RevokeStep(t)
  PROVE  DataOK'
<1> USE DEF TypeInv, TypeOK, DataOK, Tables, Outside
<1>0. call[t].k \in Tokens /\ call[t].pols \subseteq AllPolicies
  <2>1. call[t].op \in {"grant", "revoke"} /\ Active(t)
    BY GrantStepsMove, RevokeStepsMove
  <2> QED
    BY <2>1 DEF Args, Active, AllPolicies
<1>1. CASE GrantStore(t)
  BY <1>0, <1>1, SetUgcType DEF GrantStore
<1>2. CASE GrantStoreFails(t) \/ GrantSetFails(t) \/ RevokeKillFails(t)
  BY <1>2 DEF GrantStoreFails, GrantSetFails, RevokeKillFails, FailAs
<1>3. CASE GrantSet(t)
  BY <1>0, <1>3 DEF GrantSet
<1>4. CASE GrantRefused(t)
  BY <1>0, <1>4 DEF GrantRefused
<1>5. CASE RevokeModify(t)
  BY <1>0, <1>5, SetUgcType DEF RevokeModify
<1>6. CASE RevokeModifyFails(t) \/ RevokeRefused(t) \/ RevokeUnsetFails(t)
  BY <1>6 DEF RevokeModifyFails, RevokeRefused, RevokeUnsetFails
<1>7. CASE RevokeUnset(t)
  BY <1>7 DEF RevokeUnset
<1>8. CASE RevokeKill(t)
  BY <1>8 DEF RevokeKill, KillProcessForPermissionUpdate
<1> QED
  BY <1>1, <1>2, <1>3, <1>4, <1>5, <1>6, <1>7, <1>8 DEF GrantStep, RevokeStep

(* Erasing and cleaning keep the shape of the data.                          *)
LEMMA EraseStepData ==
  ASSUME TypeInv, NEW t \in Threads, EraseStep(t) \/ CleanStep(t)
  PROVE  DataOK'
<1> USE DEF TypeInv, TypeOK, DataOK, Tables, Outside
<1>1. CASE EraseRows(t)
  BY <1>1 DEF EraseRows
<1>2. CASE EraseRules(t)
  BY <1>2 DEF EraseRules, DestroySandboxPolicy
<1>3. CASE RemoveUgcPermissionByTokenId(t)
  <2>1. ugc' = [ugc EXCEPT ![call[t].k] = [p \in Policies |-> "none"]]
    BY <1>3 DEF RemoveUgcPermissionByTokenId
  <2>2. ugc' \in [Tokens -> [Policies -> {"none", "granted", "denied"}]]
    BY <2>1
  <2> QED
    BY <1>3, <2>2 DEF RemoveUgcPermissionByTokenId
<1>4. CASE RemoveUgcFails(t)
  BY <1>4 DEF RemoveUgcFails
<1>5. CASE EraseKill(t)
  BY <1>5 DEF EraseKill, KillProcessForPermissionUpdate
<1>6. CASE CancelPhotoUriPersistPermission(t)
  BY <1>6 DEF CancelPhotoUriPersistPermission
<1>7. CASE EraseFails(t)
  BY <1>7 DEF EraseFails, FailAs
<1>8. CASE CleanFind(t) \/ CleanFilter(t)
  BY <1>8 DEF CleanFind, CleanFilter
<1>9. CASE CleanPolicyOnMac(t)
  BY <1>9 DEF CleanPolicyOnMac, UnSetSandboxPolicyByUser
<1>10. CASE CleanRemove(t)
  BY <1>10 DEF CleanRemove
<1> QED
  BY <1>1, <1>2, <1>3, <1>4, <1>5, <1>6, <1>7, <1>8, <1>9, <1>10 DEF EraseStep, CleanStep

(* Shared directories and module updates keep the shape of the data.         *)
LEMMA ShareStepData ==
  ASSUME TypeInv, NEW t \in Threads, ShareStep(t) \/ PackageStep(t)
  PROVE  DataOK'
<1> USE DEF TypeInv, TypeOK, DataOK, Tables, Outside
<1>1. CASE WriteShareFileToDb(t)
  <2>1. shared' \in [Tokens -> SharedPolicies \cup {NoRow}]
    <3> DEFINE new == ProcessShareFileInfo(call[t].profile, call[t].bundle)
    <3>1. call[t].bundle \in Bundles /\ call[t].profile \in Profiles
      BY <1>1 DEF Args, WriteShareFileToDb
    <3>2. new.row \in SharedPolicies \cup {NoRow}
      BY <3>1 DEF SharedPolicies
    <3>3. \/ shared' = shared
          \/ shared' = [shared EXCEPT ![call[t].k] = new.row]
      BY <1>1 DEF WriteShareFileToDb
    <3> HIDE DEF new
    <3> QED
      BY <3>2, <3>3
  <2> QED
    BY <1>1, <2>1 DEF WriteShareFileToDb
<1>2. CASE DropShareRow(t)
  BY <1>2 DEF DropShareRow
<1>3. CASE QuerySharedFileInfoByUserId(t) \/ CheckFirst(t) \/ CheckAgain(t) \/ CheckNext(t)
  BY <1>3 DEF QuerySharedFileInfoByUserId, CheckFirst, CheckAgain, CheckNext
<1>4. CASE SetShared(t)
  <2>1. call[t].k \in Tokens /\ call[t].pols \subseteq AllPolicies
    BY <1>4 DEF Args, SetShared, At, AllPolicies
  <2> QED
    BY <1>4, <2>1 DEF SetShared
<1>5. CASE UnsetShared(t)
  BY <1>5 DEF UnsetShared
<1>6. CASE LoadProfile(t) \/ LoadScope(t)
  BY <1>6 DEF LoadProfile, LoadScope
<1>7. CASE CleanPolicyByPackageChanged(t)
  BY <1>7 DEF CleanPolicyByPackageChanged, DestroySandboxPolicy
<1>8. CASE DeleteBundle(t) \/ GetShareCfgByBundle(t) \/ RefreshDone(t)
  BY <1>8 DEF DeleteBundle, GetShareCfgByBundle, RefreshDone
<1>9. CASE RemoveBundlePolicy(t)
  BY <1>9 DEF RemoveBundlePolicy
<1> QED
  BY <1>1, <1>2, <1>3, <1>4, <1>5, <1>6, <1>7, <1>8, <1>9 DEF ShareStep, PackageStep

(* The first state.                                                          *)
LEMMA InitTyped ==
  ASSUME Init
  PROVE  TypeInv
<1>1. PICK s \in Scenarios :
        rows = s.rows /\ shared \in s.shared /\ profile \in s.profiles
  BY DEF Init
<1>2. DataOK
  <2>1. rows \subseteq Tokens \X Policies /\ shared \in [Tokens -> SharedPolicies \cup {NoRow}]
        /\ profile \in [Bundles -> [Users -> Profiles]]
    BY <1>1, ScenarioAssumption DEF ScenarioAssumption
  <2>2. rules \subseteq Tokens \X AllPolicies
    BY <2>1 DEF Init, AllPolicies
  <2> QED
    BY <2>1, <2>2 DEF Init, DataOK
<1>3. call \in [Threads -> Handlers] /\ \A t \in Threads : call[t].pc = "done"
  <2>1. call = [t \in Threads |-> Idle]
    BY DEF Init
  <2> QED
    BY <2>1, IdleIsHandler DEF Idle
<1>4. bounds \in Counts
  BY DEF Init, Counts
<1> QED
  BY <1>2, <1>3, <1>4 DEF TypeInv, TypeOK, DataOK, Args, UserRows, Counts

(* The system around the service.                                            *)
LEMMA AroundTyped ==
  ASSUME TypeInv, BundleChanges \/ Open \/ Restart
  PROVE  TypeInv'
<1> USE DEF TypeInv, TypeOK, Tables, Outside
<1>1. CASE BundleChanges
  <2>1. profile' \in [Bundles -> [Users -> Profiles]]
    <3>1. PICK b \in Bundles, u \in Users, p \in Updates : profile' = [profile EXCEPT ![b][u] = p]
      BY <1>1 DEF BundleChanges
    <3>2. p \in Profiles
      BY GrantAssumption DEF GrantAssumption
    <3> QED
      BY <3>1, <3>2
  <2>2. bounds' \in Counts
    BY <1>1, CountKeepsType DEF BundleChanges
  <2>3. UNCHANGED <<rows, ugc, shared, rules, opened, photo, call>>
    BY <1>1 DEF BundleChanges
  <2> QED
    BY <2>1, <2>2, <2>3 DEF Counts
<1>2. CASE Open
  <2>1. PICK r \in rules : r[1] \in Haps /\ opened' = opened \cup {r}
    BY <1>2 DEF Open
  <2>2. r \in Haps \X AllPolicies
    BY <2>1
  <2>3. opened' \subseteq Haps \X AllPolicies
    BY <2>1, <2>2
  <2> QED
    BY <1>2, <2>3 DEF Open
<1>3. CASE Restart
  <2>1. call' = [t \in Threads |-> Idle] /\ UNCHANGED <<rows, ugc, shared, rules, opened, photo, profile>>
    BY <1>3 DEF Restart
  <2>2. call' \in [Threads -> Handlers] /\ \A t \in Threads : call'[t].pc = "done"
    BY <2>1, IdleIsHandler DEF Idle
  <2>3. bounds' \in Counts
    BY <1>3, TicksKeepsType DEF Restart, Ticks
  <2> QED
    BY <2>1, <2>2, <2>3 DEF Args, UserRows, Counts
<1> QED
  BY <1>1, <1>2, <1>3

(* A handler that has begun moves on by one of its accesses.                 *)
Accesses(t) ==
  \/ GrantStep(t) \/ RevokeStep(t) \/ EraseStep(t) \/ CleanStep(t) \/ ShareStep(t) \/ PackageStep(t)

(* Every access moves its handler on and keeps the shape of the data.        *)
LEMMA AccessMoves ==
  ASSUME TypeInv, NEW t \in Threads, Accesses(t)
  PROVE  Active(t) /\ Moves(t) /\ Ticks /\ DataOK'
<1>1. TypeOK
  BY DEF TypeInv
<1>2. CASE GrantStep(t) \/ RevokeStep(t)
  BY <1>1, <1>2, GrantStepsMove, RevokeStepsMove, GrantStepData
<1>3. CASE EraseStep(t) \/ CleanStep(t)
  BY <1>1, <1>3, EraseStepsMove, CleanStepsMove, EraseStepData
<1>4. CASE ShareStep(t) \/ PackageStep(t)
  BY <1>1, <1>4, ShareStepsMove, PackageStepsMove, ShareStepData
<1> QED
  BY <1>2, <1>3, <1>4 DEF Accesses

(* Every step of the system is of one of these kinds.                        *)
LEMMA NextKinds ==
  ASSUME Next
  PROVE  (\E t \in Threads : Starts(t) \/ Accesses(t)) \/ BundleChanges \/ Open \/ Restart
BY NextIsAStep, BeginsStart DEF Accesses

(* Every step keeps the shape of the state and the arguments.                *)
LEMMA NextTyped ==
  ASSUME TypeInv, [Next]_vars
  PROVE  TypeInv'
<1>1. CASE UNCHANGED vars
  BY <1>1 DEF vars, TypeInv, TypeOK
<1>2. ASSUME NEW t \in Threads, Starts(t)
      PROVE  TypeInv'
  BY <1>2, StartKeepsType, StartKeepsArgs DEF TypeInv
<1>3. ASSUME NEW t \in Threads, Accesses(t)
      PROVE  TypeInv'
  BY <1>3, AccessMoves, MovesKeepsType, MovesKeepsArgs DEF TypeInv
<1> QED
  BY <1>1, <1>2, <1>3, NextKinds, AroundTyped

(* The state keeps its shape.                                                *)
THEOREM TypeCorrect == Spec => []TypeOK
<1>1. TypeInv => TypeOK
  BY DEF TypeInv
<1> QED
  BY <1>1, InitTyped, NextTyped, PTL DEF Spec

(* Every handler works with arguments of the right kind: tokens, users,      *)
(* bundles and profiles that exist, and rows of its own user or of a token   *)
(* whose user it could not learn.                                            *)
THEOREM ArgsCorrect == Spec => []TypeInv
BY InitTyped, NextTyped, PTL DEF Spec

-----------------------------------------------------------------------------
(***************************************************************************)
(* Nobody loses what is another user's.                                    *)
(***************************************************************************)
(* Everybody else stays where they are.                                      *)
LEMMA OthersStay ==
  ASSUME TypeInv, NEW t \in Threads, Moves(t)
  PROVE  \A u \in Threads \ {t} : call'[u] = call[u]
BY DEF TypeInv, TypeOK, Moves

(* What an access takes, it takes from the token or the user it works for.   *)
LEMMA TakesItsOwn ==
  ASSUME TypeInv, NEW t \in Threads, Accesses(t),
         NEW r \in (rows \ rows') \cup (rules \ rules')
  PROVE  \/ call[t].op = "clean" /\ call[t].user = UserOf[r[1]]
         \/ call[t].op = "clean" /\ rules' = rules /\ r[1] \in call[t].unsure
         \/ call[t].op # "clean" /\ call[t].k = r[1]
<1> USE DEF Tables, Outside, At
<1>0. r \in Tokens \X AllPolicies
  BY DEF TypeInv, TypeOK, AllPolicies
<1>1. CASE GrantStep(t)
  <2>1. rows' = rows /\ rules \subseteq rules'
    BY <1>1 DEF GrantStep, GrantStore, GrantStoreFails, GrantSet, GrantRefused, GrantSetFails, FailAs
  <2> QED
    BY <2>1
<1>2. CASE RevokeStep(t)
  <2>1. rows' = rows /\ (rules' = rules \/ rules' = rules \ {<<call[t].k, call[t].pol>>})
    BY <1>2 DEF RevokeStep, RevokeModify, RevokeModifyFails, RevokeUnset, RevokeRefused, RevokeUnsetFails,
                RevokeKill, RevokeKillFails, FailAs
  <2>2. call[t].op = "revoke"
    BY <1>2, RevokeStepsMove DEF TypeInv
  <2> QED
    BY <2>1, <2>2
<1>3. CASE EraseStep(t)
  <2>1. /\ rows' = rows \/ rows' = {x \in rows : x[1] # call[t].k}
        /\ rules' = rules \/ rules' = {x \in rules : x[1] # call[t].k}
    BY <1>3 DEF EraseStep, EraseRows, EraseRules, RemoveUgcPermissionByTokenId, RemoveUgcFails,
                EraseKill, CancelPhotoUriPersistPermission, EraseFails, FailAs, DestroySandboxPolicy
  <2>2. call[t].op = "erase"
    BY <1>3, EraseStepsMove DEF TypeInv
  <2> QED
    BY <2>1, <2>2
<1>4. CASE CleanStep(t)
  <2>1. call[t].op = "clean"
    BY <1>4, CleanStepsMove DEF TypeInv
  <2>2. CASE CleanRemove(t)
    <3>1. \A x \in call[t].below : UserOf[x[1]] = call[t].user \/ x[1] \in call[t].unsure
      BY <2>2 DEF CleanRemove, TypeInv, Args, UserRows
    <3>2. rules' = rules /\ (rows' = rows \/ rows' = rows \ call[t].below)
      BY <2>2 DEF CleanRemove
    <3> QED
      BY <2>1, <3>1, <3>2
  <2>3. CASE ~CleanRemove(t)
    <3>1. rows' = rows /\ \A x \in rules \ rules' : UserOf[x[1]] = call[t].user
      BY <1>4, <2>3 DEF CleanStep, CleanFind, CleanPolicyOnMac, CleanFilter, UnSetSandboxPolicyByUser
    <3> QED
      BY <2>1, <3>1
  <2> QED
    BY <2>2, <2>3
<1>5. CASE ShareStep(t)
  <2>1. CASE UnsetShared(t)
    BY <1>0, <2>1 DEF UnsetShared
  <2>2. CASE ~UnsetShared(t)
    <3>1. rows' = rows /\ rules \subseteq rules'
      BY <1>5, <2>2 DEF ShareStep, WriteShareFileToDb, DropShareRow, QuerySharedFileInfoByUserId,
            CheckFirst, CheckAgain, CheckNext, SetShared, LoadProfile, LoadScope
    <3> QED
      BY <3>1
  <2> QED
    BY <2>1, <2>2
<1>6. CASE PackageStep(t)
  <2>1. /\ rows' = rows \/ rows' = {x \in rows : x[1] # call[t].k}
        /\ rules' = rules \/ rules' = {x \in rules : x[1] # call[t].k}
    BY <1>6 DEF PackageStep, CleanPolicyByPackageChanged, RemoveBundlePolicy, DeleteBundle,
                GetShareCfgByBundle, RefreshDone, DestroySandboxPolicy
  <2>2. call[t].op # "clean"
    BY <1>6, PackageStepsMove DEF PackageOps
  <2> QED
    BY <2>1, <2>2
<1> QED
  BY <1>1, <1>2, <1>3, <1>4, <1>5, <1>6 DEF Accesses

(* No handler takes a rule from a token of another user, or from a token it  *)
(* was not called for, and no row either, unless a cleaning could not learn  *)
(* the token's user, however handlers meet and whatever fails.               *)
THEOREM OthersAreSpared == Spec => OtherUsersKeep
<1>1. ASSUME TypeInv, Next, NEW t \in Threads, call[t].pc # call'[t].pc,
             NEW r \in (rows \ rows') \cup (rules \ rules')
      PROVE  \/ call[t].op = "clean" /\ call[t].user = UserOf[r[1]]
             \/ call[t].op = "clean" /\ rules' = rules /\ r[1] \in call[t].unsure
             \/ call[t].op # "clean" /\ call[t].k = r[1]
  <2>1. CASE \E u \in Threads : Starts(u)
    BY <2>1 DEF Starts, Begin, Tables
  <2>2. CASE BundleChanges \/ Open \/ Restart
    BY <2>2 DEF BundleChanges, Open, Restart, Tables
  <2>3. ASSUME NEW u \in Threads, Accesses(u)
        PROVE  \/ call[t].op = "clean" /\ call[t].user = UserOf[r[1]]
               \/ call[t].op = "clean" /\ rules' = rules /\ r[1] \in call[t].unsure
               \/ call[t].op # "clean" /\ call[t].k = r[1]
    <3>1. u = t
      BY <1>1, <2>3, AccessMoves, OthersStay
    <3> QED
      BY <1>1, <2>3, <3>1, TakesItsOwn
  <2> QED
    BY <1>1, <2>1, <2>2, <2>3, NextKinds
<1>2. TypeInv /\ [Next]_vars =>
        [\A t \in Threads, r \in (rows \ rows') \cup (rules \ rules') :
           call[t].pc # call'[t].pc =>
             \/ call[t].op = "clean" /\ call[t].user = UserOf[r[1]]
             \/ call[t].op = "clean" /\ rules' = rules /\ r[1] \in call[t].unsure
             \/ call[t].op # "clean" /\ call[t].k = r[1]]_vars
  BY <1>1
<1> QED
  BY <1>2, ArgsCorrect, PTL DEF Spec, OtherUsersKeep

-----------------------------------------------------------------------------
(***************************************************************************)
(* Who runs alone.                                                         *)
(***************************************************************************)
(* A handler that is clean runs alone, and until handlers met each of them   *)
(* did.                                                                      *)
AloneInv ==
  \A t, u \in Threads : t # u /\ Active(t) =>
    /\ call[t].clean => call[u].pc = "done"
    /\ bounds.overlaps = 0 => call[u].pc = "done"

(* Where a handler starts, and with what.                                    *)
LEMMA StartOwn ==
  ASSUME TypeInv, NEW t \in Threads, NEW op, NEW pc, NEW args, Fresh(op, pc, args),
         Begin(t, op, pc, args)
  PROVE  /\ call'[t].op = op /\ call'[t].pc = pc /\ call'[t].left = args.left
         /\ call'[t].pols = args.pols /\ call'[t].ret = args.ret /\ call'[t].k = args.k
         /\ call'[t].found = args.found /\ call'[t].profile = args.profile
<1> DEFINE alone == \A u \in Threads : call[u].pc = "done"
           new == [args EXCEPT !.op = op, !.pc = pc, !.clean = alone]
<1>1. call' = [u \in Threads |-> IF u = t THEN new
                                 ELSE IF call[u].pc # "done" THEN [call[u] EXCEPT !.clean = FALSE]
                                 ELSE call[u]]
  BY DEF Begin
<1>2. /\ new.op = op /\ new.pc = pc /\ new.left = args.left /\ new.pols = args.pols
      /\ new.ret = args.ret /\ new.k = args.k /\ new.found = args.found
      /\ new.profile = args.profile
  <2> HIDE DEF alone
  <2> QED
    BY DEF Fresh, Handlers
<1>3. call'[t] = new
  BY <1>1
<1> HIDE DEF new
<1> QED
  BY <1>2, <1>3

(* What a start leaves of the handlers.                                      *)
LEMMA StartFields ==
  ASSUME TypeInv, NEW t \in Threads, NEW op, NEW pc, NEW args, Fresh(op, pc, args),
         Begin(t, op, pc, args)
  PROVE  /\ call'[t].clean \/ bounds'.overlaps = 0 =>
              \A u \in Threads \ {t} : call[u].pc = "done" /\ call'[u] = call[u]
         /\ \A u \in Threads \ {t} :
              /\ call'[u].pc = call[u].pc /\ call'[u].op = call[u].op
              /\ call'[u].user = call[u].user /\ call'[u].bundle = call[u].bundle
              /\ call'[u].load = call[u].load /\ call'[u].rest = call[u].rest
              /\ call'[u].found = call[u].found /\ call'[u].pols = call[u].pols
              /\ call[u].pc # "done" => call'[u].clean = FALSE
         /\ UNCHANGED <<rows, ugc, shared, rules, opened, photo, profile, offered, shareMap>>
         /\ bounds'.updates = bounds.updates /\ bounds'.faults = bounds.faults
         /\ bounds'.overlaps = 0 => bounds.overlaps = 0
<1> DEFINE alone == \A u \in Threads : call[u].pc = "done"
           new == [args EXCEPT !.op = op, !.pc = pc, !.clean = alone]
<1>1. call' = [u \in Threads |-> IF u = t THEN new
                                 ELSE IF call[u].pc # "done" THEN [call[u] EXCEPT !.clean = FALSE]
                                 ELSE call[u]]
  BY DEF Begin
<1>3. new.clean => alone
  <2>1. alone \in BOOLEAN
    OBVIOUS
  <2> HIDE DEF alone
  <2> QED
    BY <2>1 DEF Fresh, Handlers
<1>4. call'[t] = new
  BY <1>1
<1> HIDE DEF new
<1>5. \A u \in Threads \ {t} :
        /\ call[u].pc = "done" => call'[u] = call[u]
        /\ call'[u].pc = call[u].pc /\ call'[u].op = call[u].op
        /\ call'[u].user = call[u].user /\ call'[u].bundle = call[u].bundle
        /\ call'[u].load = call[u].load /\ call'[u].rest = call[u].rest
        /\ call'[u].found = call[u].found /\ call'[u].pols = call[u].pols
        /\ call[u].pc # "done" => call'[u].clean = FALSE
  <2> TAKE u \in Threads \ {t}
  <2>1. call[u] \in Handlers
    BY DEF TypeInv, TypeOK
  <2>2. call'[u] = IF call[u].pc # "done" THEN [call[u] EXCEPT !.clean = FALSE] ELSE call[u]
    BY <1>1
  <2> QED
    BY <2>1, <2>2 DEF Handlers
<1>6. /\ bounds'.overlaps = 0 => alone /\ bounds.overlaps = 0
      /\ bounds'.updates = bounds.updates /\ bounds'.faults = bounds.faults
  <2>1. bounds' = [bounds EXCEPT !.calls = bounds.calls + 1,
                                 !.overlaps = IF alone THEN bounds.overlaps ELSE 1]
    BY DEF Begin
  <2> HIDE DEF alone
  <2>2. /\ bounds'.updates = bounds.updates /\ bounds'.faults = bounds.faults
        /\ bounds'.overlaps = IF alone THEN bounds.overlaps ELSE 1
    BY <2>1 DEF TypeInv, TypeOK
  <2>3. CASE alone
    BY <2>2, <2>3
  <2>4. CASE ~alone
    BY <2>2, <2>4
  <2> QED
    BY <2>3, <2>4
<1>7. UNCHANGED <<rows, ugc, shared, rules, opened, photo, profile, offered, shareMap>>
  BY DEF Begin, Tables, Outside
<1> QED
  BY <1>3, <1>4, <1>5, <1>6, <1>7

(* Handlers that run alone keep doing so.                                    *)
LEMMA NextAlone ==
  ASSUME TypeInv, AloneInv, [Next]_vars
  PROVE  AloneInv'
<1>1. CASE UNCHANGED vars
  BY <1>1 DEF vars, AloneInv, Active
<1>2. ASSUME NEW t \in Threads, Starts(t)
      PROVE  AloneInv'
  <2>1. PICK op, pc, args : Fresh(op, pc, args) /\ Begin(t, op, pc, args)
    BY <1>2 DEF Starts
  <2>2. /\ call'[t].clean \/ bounds'.overlaps = 0 =>
             \A u \in Threads \ {t} : call[u].pc = "done" /\ call'[u] = call[u]
        /\ \A u \in Threads \ {t} :
             call'[u].pc = call[u].pc /\ (call[u].pc # "done" => call'[u].clean = FALSE)
    BY <2>1, StartFields, Zenon
  <2>3. ASSUME NEW a \in Threads, NEW b \in Threads, a # b, call'[a].pc # "done"
        PROVE  /\ call'[a].clean => call'[b].pc = "done"
               /\ bounds'.overlaps = 0 => call'[b].pc = "done"
    <3>1. CASE a = t
      BY <2>2, <2>3, <3>1
    <3>2. CASE a # t
      <4>1. call'[a].clean = FALSE /\ call[a].pc # "done"
        BY <2>2, <2>3, <3>2
      <4>2. bounds'.overlaps # 0
        BY <2>2, <4>1, <3>2
      <4> QED
        BY <4>1, <4>2
    <3> QED
      BY <3>1, <3>2
  <2> QED
    BY <2>3 DEF AloneInv, Active
<1>3. ASSUME NEW t \in Threads, Accesses(t)
      PROVE  AloneInv'
  <2>1. Active(t) /\ bounds'.overlaps = bounds.overlaps
    BY <1>3, AccessMoves, TicksKeepsType DEF TypeInv
  <2>2. \A u \in Threads \ {t} : call'[u] = call[u]
    BY <1>3, AccessMoves, OthersStay
  <2>3. call'[t].clean => call[t].clean
    BY <1>3, AccessMoves DEF Moves, Follows, TypeInv, TypeOK
  <2> QED
    BY <2>1, <2>2, <2>3 DEF AloneInv, Active
<1>4. CASE BundleChanges \/ Open
  <2>1. call' = call /\ bounds'.overlaps = bounds.overlaps
    BY <1>4, CountKeepsType DEF BundleChanges, Open, TypeInv
  <2> QED
    BY <2>1 DEF AloneInv, Active
<1>5. CASE Restart
  BY <1>5 DEF Restart, AloneInv, Active, Idle
<1> QED
  BY <1>1, <1>2, <1>3, <1>4, <1>5, NextKinds

(***************************************************************************)
(* Rules are recorded.                                                     *)
(***************************************************************************)
(* What the record relies on between two accesses: a handler that is about   *)
(* to set the rules of a grant has recorded it, and one that is about to     *)
(* remove the records of a token has taken its rules.                        *)
Recorded(t) ==
  /\ At(t, "grant", "set") => \A p \in call[t].pols : ugc[call[t].k][p] # "none"
  /\ At(t, "erase", "ugc") => \A r \in rules : r[1] # call[t].k

RecordInv ==
  /\ RuleIsRecorded
  /\ bounds.overlaps = 0 => \A t \in Threads : Recorded(t)

(* Rules that only go, or are those of shared directories, and records that  *)
(* stay need nothing.                                                        *)
LEMMA RecordKept ==
  ASSUME TypeInv, RuleIsRecorded, bounds'.overlaps = bounds.overlaps,
         rules' \subseteq rules \cup (Tokens \X SharedPolicies),
         \A k \in Tokens, p \in Policies : ugc[k][p] # "none" => ugc'[k][p] # "none"
  PROVE  RuleIsRecorded'
BY DEF RuleIsRecorded

(* Where a handler that returns is.                                          *)
LEMMA ReturnIs ==
  ASSUME TypeInv, NEW t \in Threads, NEW ret, Return(t, ret)
  PROVE  call'[t].pc = "done" /\ call'[t].ret = ret /\ call'[t].op = call[t].op
<1> DEFINE c == [Idle EXCEPT !.op = call[t].op, !.ret = ret, !.clean = call[t].clean]
<1>1. c.pc = "done" /\ c.ret = ret /\ c.op = call[t].op
  BY DEF Idle
<1>2. call'[t] = c
  BY DEF Return, Set, TypeInv, TypeOK
<1> HIDE DEF c
<1> QED
  BY <1>1, <1>2

(* Where a handler that goes on is, and with what.                           *)
LEMMA GotoIs ==
  ASSUME TypeInv, NEW t \in Threads, NEW pc, Goto(t, pc)
  PROVE  /\ call'[t].pc = pc /\ call'[t].op = call[t].op /\ call'[t].k = call[t].k
         /\ call'[t].pols = call[t].pols /\ call'[t].ret = call[t].ret
         /\ call'[t].bundle = call[t].bundle /\ call'[t].user = call[t].user
         /\ call'[t].profile = call[t].profile
<1> DEFINE c == [call[t] EXCEPT !.pc = pc]
<1>1. call[t] \in Handlers
  BY DEF TypeInv, TypeOK
<1>2. /\ c.pc = pc /\ c.op = call[t].op /\ c.k = call[t].k /\ c.pols = call[t].pols
      /\ c.ret = call[t].ret /\ c.bundle = call[t].bundle /\ c.user = call[t].user
      /\ c.profile = call[t].profile
  BY <1>1 DEF Handlers
<1>3. call'[t] = c
  BY DEF Goto, Set, TypeInv, TypeOK
<1> HIDE DEF c
<1> QED
  BY <1>2, <1>3

(* A grant keeps the records.                                                *)
LEMMA GrantRecords ==
  ASSUME TypeInv, RecordInv, bounds.overlaps = 0, NEW t \in Threads, GrantStep(t)
  PROVE  RuleIsRecorded' /\ Recorded(t)'
<1> USE DEF Tables, Outside, At
<1>0. /\ call[t].k \in Tokens /\ call[t].pols \subseteq Policies /\ call[t] \in Handlers
      /\ bounds'.overlaps = bounds.overlaps
  BY GrantStepsMove, TicksKeepsType DEF TypeInv, TypeOK, Args, Active
<1>a. RuleIsRecorded /\ Recorded(t)
  BY DEF RecordInv
<1>1. CASE GrantStore(t)
  <2>1. ugc' = [ugc EXCEPT ![call[t].k] =
                 [p \in Policies |-> IF p \in call[t].pols /\ @[p] \in {"none", "granted", "denied"}
                                     THEN "granted" ELSE @[p]]]
    BY <1>1 DEF GrantStore, SetUgc
  <2>2. \A k \in Tokens, p \in Policies :
          ugc'[k][p] = IF k = call[t].k /\ p \in call[t].pols THEN "granted" ELSE ugc[k][p]
    BY <1>0, <2>1 DEF TypeInv, TypeOK
  <2>3. RuleIsRecorded'
    BY <1>0, <1>1, <1>a, <2>2, RecordKept DEF GrantStore
  <2>4. call'[t].op = "grant" /\ call'[t].pols = call[t].pols /\ call'[t].k = call[t].k
    BY <1>0, <1>1 DEF GrantStore, Goto, Set, Handlers, TypeInv, TypeOK
  <2> QED
    BY <1>0, <2>2, <2>3, <2>4 DEF Recorded
<1>2. CASE GrantStoreFails(t) \/ GrantSetFails(t)
  <2>1. call'[t].pc = "done" /\ rules' = rules /\ ugc' = ugc
    BY <1>2, ReturnIs DEF GrantStoreFails, GrantSetFails, FailAs
  <2> QED
    BY <1>0, <1>a, <2>1, RecordKept DEF Recorded
<1>3. CASE GrantSet(t) \/ GrantRefused(t)
  <2>1. call'[t].pc = "done"
    <3>1. CASE GrantSet(t)
      BY <3>1, ReturnIs DEF GrantSet
    <3>2. CASE GrantRefused(t)
      <4>1. call'[t] = [Idle EXCEPT !.op = "grant", !.clean = FALSE]
        BY <3>2 DEF GrantRefused, Set, TypeInv, TypeOK
      <4> QED
        BY <4>1 DEF Idle
    <3> QED
      BY <1>3, <3>1, <3>2
  <2>2. ugc' = ugc /\ rules' \subseteq rules \cup ({call[t].k} \X call[t].pols)
    BY <1>3 DEF GrantSet, GrantRefused
  <2>3. \A p \in call[t].pols : ugc[call[t].k][p] # "none"
    BY <1>3, <1>a DEF Recorded, GrantSet, GrantRefused
  <2> QED
    BY <1>0, <1>a, <2>1, <2>2, <2>3 DEF Recorded, RuleIsRecorded
<1> QED
  BY <1>1, <1>2, <1>3 DEF GrantStep

(* A revocation keeps the records.                                           *)
LEMMA RevokeRecords ==
  ASSUME TypeInv, RecordInv, bounds.overlaps = 0, NEW t \in Threads, RevokeStep(t)
  PROVE  RuleIsRecorded' /\ Recorded(t)'
<1> USE DEF Tables, Outside, At
<1>0. /\ call[t].k \in Tokens /\ call[t].op = "revoke"
      /\ bounds'.overlaps = bounds.overlaps /\ Moves(t)
  BY RevokeStepsMove, TicksKeepsType DEF TypeInv, TypeOK, Args, Active
<1>1. Recorded(t)'
  BY <1>0 DEF Recorded, Moves, Follows, TypeInv, TypeOK
<1>2. rules' \subseteq rules
  BY DEF RevokeStep, RevokeModify, RevokeModifyFails, RevokeUnset, RevokeRefused, RevokeUnsetFails,
         RevokeKill, RevokeKillFails, FailAs
<1>3. \A k \in Tokens, p \in Policies : ugc[k][p] # "none" => ugc'[k][p] # "none"
  <2>1. CASE ugc' = ugc
    BY <2>1
  <2>2. ASSUME NEW q, SetUgc(call[t].k, {q}, {"granted", "denied"}, "denied")
        PROVE  \A k \in Tokens, p \in Policies : ugc[k][p] # "none" => ugc'[k][p] # "none"
    BY <1>0, <2>2 DEF SetUgc, TypeInv, TypeOK
  <2>3. ugc' = ugc \/ \E q : SetUgc(call[t].k, {q}, {"granted", "denied"}, "denied")
    BY DEF RevokeStep, RevokeModify, RevokeModifyFails, RevokeUnset, RevokeRefused, RevokeUnsetFails,
           RevokeKill, RevokeKillFails, FailAs
  <2> QED
    BY <2>1, <2>2, <2>3
<1> QED
  BY <1>0, <1>1, <1>2, <1>3, RecordKept DEF RecordInv

(* An erasure keeps the records.                                             *)
LEMMA EraseRecords ==
  ASSUME TypeInv, RecordInv, bounds.overlaps = 0, NEW t \in Threads, EraseStep(t)
  PROVE  RuleIsRecorded' /\ Recorded(t)'
<1> USE DEF Tables, Outside, At
<1>0. /\ call[t].k \in Tokens /\ call[t].op = "erase" /\ call[t] \in Handlers
      /\ bounds'.overlaps = bounds.overlaps /\ Moves(t)
  BY EraseStepsMove, TicksKeepsType DEF TypeInv, TypeOK, Args, Active
<1>a. RuleIsRecorded /\ Recorded(t)
  BY DEF RecordInv
<1>b. call'[t].op = "erase"
  BY <1>0 DEF Moves, Follows, TypeInv, TypeOK
<1>1. CASE EraseRules(t)
  <2>1. call'[t].k = call[t].k /\ ugc' = ugc /\ rules' = {r \in rules : r[1] # call[t].k}
    BY <1>0, <1>1 DEF EraseRules, Goto, Set, DestroySandboxPolicy, Handlers, TypeInv, TypeOK
  <2> QED
    BY <1>0, <1>a, <1>b, <2>1, RecordKept DEF Recorded
<1>2. CASE RemoveUgcPermissionByTokenId(t)
  <2>1. call'[t].pc \in {"kill", "done"} /\ rules' = rules
    BY <1>2, ReturnIs, GotoIs DEF RemoveUgcPermissionByTokenId, AfterUgc
  <2>2. \A k \in Tokens \ {call[t].k} : ugc'[k] = ugc[k]
    BY <1>2 DEF RemoveUgcPermissionByTokenId, TypeInv, TypeOK
  <2>3. \A r \in rules : r[1] # call[t].k
    BY <1>2, <1>a DEF Recorded, RemoveUgcPermissionByTokenId
  <2> QED
    BY <1>0, <1>a, <1>b, <2>1, <2>2, <2>3 DEF Recorded, RuleIsRecorded
<1>3. CASE ~EraseRules(t) /\ ~RemoveUgcPermissionByTokenId(t)
  <2>1. rules' = rules /\ ugc' = ugc /\ call'[t].pc # "ugc"
    <3>1. CASE EraseRows(t)
      BY <3>1, GotoIs DEF EraseRows
    <3>2. CASE RemoveUgcFails(t)
      BY <3>2, GotoIs, ReturnIs DEF RemoveUgcFails, AfterUgc
    <3>3. CASE EraseKill(t)
      BY <3>3, GotoIs DEF EraseKill
    <3>4. CASE CancelPhotoUriPersistPermission(t)
      BY <3>4, ReturnIs DEF CancelPhotoUriPersistPermission
    <3>5. CASE EraseFails(t)
      BY <3>5, ReturnIs DEF EraseFails, FailAs
    <3> QED
      BY <1>3, <3>1, <3>2, <3>3, <3>4, <3>5 DEF EraseStep
  <2> QED
    BY <1>0, <1>a, <1>b, <2>1, RecordKept DEF Recorded
<1> QED
  BY <1>1, <1>2, <1>3

(* The other handlers keep the records.                                      *)
LEMMA OtherRecords ==
  ASSUME TypeInv, RecordInv, bounds.overlaps = 0, NEW t \in Threads,
         CleanStep(t) \/ ShareStep(t) \/ PackageStep(t)
  PROVE  RuleIsRecorded' /\ Recorded(t)'
<1> USE DEF Tables, Outside, At
<1>1. Accesses(t)
  BY DEF Accesses
<1>2. Active(t) /\ Moves(t) /\ bounds'.overlaps = bounds.overlaps
  BY <1>1, AccessMoves, TicksKeepsType DEF TypeInv
<1>3. call[t].op \notin {"grant", "erase"}
  BY CleanStepsMove, ShareStepsMove, PackageStepsMove
     DEF TypeInv, Args, Active, PackageOps, LoadScope, LoadProfile
<1>4. Recorded(t)'
  <2>1. call'[t].op = call[t].op
    BY <1>2 DEF Moves, Follows, TypeInv, TypeOK
  <2> QED
    BY <1>3, <2>1 DEF Recorded
<1>5. ugc' = ugc
  BY DEF CleanStep, ShareStep, PackageStep, CleanFind, CleanPolicyOnMac, CleanFilter, CleanRemove,
         WriteShareFileToDb, DropShareRow, QuerySharedFileInfoByUserId, CheckFirst, CheckAgain,
         CheckNext, SetShared, UnsetShared, LoadProfile, LoadScope, CleanPolicyByPackageChanged,
         RemoveBundlePolicy, DeleteBundle, GetShareCfgByBundle, RefreshDone
<1>6. rules' \subseteq rules \cup (Tokens \X SharedPolicies)
  <2>1. CASE SetShared(t)
    <3>1. call[t].k \in Tokens /\ call[t].pols \subseteq SharedPolicies
      BY <2>1 DEF SetShared, TypeInv, Args
    <3> QED
      BY <2>1, <3>1 DEF SetShared
  <2>2. CASE ~SetShared(t)
    <3>1. rules' \subseteq rules
      BY <2>2 DEF CleanStep, ShareStep, PackageStep, CleanFind, CleanPolicyOnMac, CleanFilter,
         CleanRemove,
         WriteShareFileToDb, DropShareRow, QuerySharedFileInfoByUserId, CheckFirst, CheckAgain,
         CheckNext, UnsetShared, LoadProfile, LoadScope, CleanPolicyByPackageChanged,
         RemoveBundlePolicy, DeleteBundle, GetShareCfgByBundle, RefreshDone,
         UnSetSandboxPolicyByUser, DestroySandboxPolicy
    <3> QED
      BY <3>1
  <2> QED
    BY <2>1, <2>2
<1> QED
  BY <1>2, <1>4, <1>5, <1>6, RecordKept DEF RecordInv

(* Every step keeps the records.                                             *)
LEMMA NextRecords ==
  ASSUME TypeInv, AloneInv, RecordInv, [Next]_vars
  PROVE  RecordInv'
<1>1. CASE UNCHANGED vars
  BY <1>1 DEF vars, RecordInv, RuleIsRecorded, Recorded, At
<1>2. ASSUME NEW t \in Threads, Starts(t)
      PROVE  RecordInv'
  <2>1. PICK op, pc, args : Fresh(op, pc, args) /\ Begin(t, op, pc, args)
    BY <1>2 DEF Starts
  <2>d. call'[t].op = op /\ call'[t].pc = pc
    BY <2>1, StartOwn
  <2>a. call'[t].clean \/ bounds'.overlaps = 0 =>
          \A u \in Threads \ {t} : call[u].pc = "done" /\ call'[u] = call[u]
    BY <2>1, StartFields, Zenon
  <2>c. bounds'.overlaps = 0 => bounds.overlaps = 0
    BY <2>1, StartFields, Zenon
  <2>b. ugc' = ugc /\ rules' = rules
    BY <2>1 DEF Begin, Tables, Outside
  <2>2. /\ call'[t].op = op /\ call'[t].pc = pc /\ ugc' = ugc /\ rules' = rules
        /\ bounds'.overlaps = 0 =>
             /\ bounds.overlaps = 0
             /\ \A u \in Threads \ {t} : call[u].pc = "done" /\ call'[u] = call[u]
    BY <2>a, <2>b, <2>c, <2>d
  <2>3. RuleIsRecorded'
    BY <2>2 DEF RecordInv, RuleIsRecorded
  <2>4. bounds'.overlaps = 0 => \A u \in Threads : Recorded(u)'
    BY <2>1, <2>2 DEF Recorded, At, Fresh
  <2> QED
    BY <2>3, <2>4 DEF RecordInv
<1>3. ASSUME NEW t \in Threads, Accesses(t)
      PROVE  RecordInv'
  <2>1. Active(t) /\ bounds'.overlaps = bounds.overlaps
    BY <1>3, AccessMoves, TicksKeepsType DEF TypeInv
  <2>2. CASE bounds.overlaps # 0
    BY <2>1, <2>2 DEF RecordInv, RuleIsRecorded
  <2>3. CASE bounds.overlaps = 0
    <3>1. \A u \in Threads \ {t} : call'[u].pc = "done"
      BY <1>3, <2>1, <2>3, AccessMoves, OthersStay DEF AloneInv
    <3>2. RuleIsRecorded' /\ Recorded(t)'
      BY <1>3, <2>3, GrantRecords, RevokeRecords, EraseRecords, OtherRecords DEF Accesses
    <3> QED
      BY <3>1, <3>2 DEF RecordInv, Recorded, At
  <2> QED
    BY <2>2, <2>3
<1>4. CASE BundleChanges \/ Open
  <2>1. call' = call /\ bounds'.overlaps = bounds.overlaps /\ rules' = rules /\ ugc' = ugc
    BY <1>4, CountKeepsType DEF BundleChanges, Open, TypeInv, Tables
  <2> QED
    BY <2>1 DEF RecordInv, RuleIsRecorded, Recorded, At
<1>5. CASE Restart
  <2>1. /\ bounds'.overlaps = bounds.overlaps /\ rules' = rules /\ ugc' = ugc
        /\ \A t \in Threads : call'[t].pc = "done"
    BY <1>5, TicksKeepsType DEF Restart, Idle, Ticks, TypeInv, Tables
  <2> QED
    BY <2>1 DEF RecordInv, RuleIsRecorded, Recorded, At
<1> QED
  BY <1>1, <1>2, <1>3, <1>4, <1>5, NextKinds

(* As long as no two handlers met, a rule that only the user granted has a   *)
(* status record, whatever fails and whenever the service dies.              *)
THEOREM RulesAreRecorded == Spec => []RuleIsRecorded
<1>1. Init => AloneInv /\ RecordInv
  <2> SUFFICES ASSUME Init PROVE AloneInv /\ RecordInv
    OBVIOUS
  <2>1. \A t \in Threads : call[t].pc = "done"
    BY DEF Init, Idle
  <2>2. rules \subseteq rows /\ \E s \in Scenarios : rows = s.rows
    BY DEF Init
  <2> QED
    BY <2>1, <2>2 DEF AloneInv, Active, RecordInv, RuleIsRecorded, Recorded, At
<1>2. RecordInv => RuleIsRecorded
  BY DEF RecordInv
<1> QED
  BY <1>1, <1>2, InitTyped, NextTyped, NextAlone, NextRecords, PTL DEF Spec

-----------------------------------------------------------------------------
(***************************************************************************)
(* The share map.                                                          *)
(***************************************************************************)
(* The map has an entry for every bundle and user.                           *)
MapShape == shareMap = [b \in Bundles |-> [u \in Users |-> shareMap[b][u]]]

(* What the deletion of a bundle does to the map.                            *)
Deleted(t, b) ==
  /\ \A u \in Users : shareMap'[b][u] = Unset
  /\ \A a \in Bundles : a # b => shareMap'[a] = shareMap[a]
  /\ \A a : a # b => (a \in bounds'.torn <=> a \in bounds.torn)
  /\ b \in bounds'.torn <=> \E u \in Threads \ {t} : Halfway(u, b)

LEMMA DeleteIs ==
  ASSUME TypeInv, MapShape, NEW t, NEW b \in Bundles, DeleteByBundleName(t, b)
  PROVE  MapShape' /\ Deleted(t, b)
<1>1. shareMap' = [shareMap EXCEPT ![b] = [u \in Users |-> Unset]]
  BY DEF DeleteByBundleName
<1>2. MapShape'
  BY <1>1 DEF MapShape
<1>3. /\ \A u \in Users : shareMap'[b][u] = Unset
      /\ \A a \in Bundles : a # b => shareMap'[a] = shareMap[a]
  BY <1>1 DEF MapShape
<1>4. PICK S : /\ bounds' = [bounds EXCEPT !.torn = S]
               /\ S = IF \E u \in Threads \ {t} : Halfway(u, b) THEN bounds.torn \cup {b}
                      ELSE bounds.torn \ {b}
  BY DEF DeleteByBundleName
<1>5. bounds'.torn = S
  BY <1>4 DEF TypeInv, TypeOK
<1>6. CASE \E u \in Threads \ {t} : Halfway(u, b)
  <2>1. S = bounds.torn \cup {b}
    BY <1>4, <1>6
  <2> QED
    BY <1>2, <1>3, <1>5, <1>6, <2>1, Zenon DEF Deleted
<1>7. CASE ~\E u \in Threads \ {t} : Halfway(u, b)
  <2>1. S = bounds.torn \ {b}
    BY <1>4, <1>7
  <2> QED
    BY <1>2, <1>3, <1>5, <1>7, <2>1, Zenon DEF Deleted
<1> QED
  BY <1>6, <1>7

(* What loading one scope does to the map and the handler.                   *)
Loads(t, item) ==
  /\ item \in call[t].load /\ \A other \in call[t].load : item.at <= other.at
  /\ call'[t].pc = "load" /\ call'[t].op = call[t].op /\ call'[t].user = call[t].user
  /\ call'[t].bundle = call[t].bundle /\ call'[t].profile = call[t].profile
  /\ call'[t].rest = call[t].rest
  /\ \A b \in Bundles : b # item.bundle => shareMap'[b] = shareMap[b]
  /\ \/ /\ GoodItem(item) /\ call'[t].load = call[t].load \ {item}
        /\ shareMap'[item.bundle][call[t].user] =
             Add(shareMap[item.bundle][call[t].user], ItemPath(item), ItemMode(item))
        /\ \A u \in Users : u # call[t].user => shareMap'[item.bundle][u] = shareMap[item.bundle][u]
        /\ bounds'.torn = bounds.torn
     \/ ~GoodItem(item) /\ call'[t].load = {} /\ Deleted(t, item.bundle)

(* A handler that loads is of a user, and its items are of bundles.          *)
LEMMA LoaderArgs ==
  ASSUME TypeInv, NEW t \in Threads, call[t].pc = "load"
  PROVE  /\ call[t].user \in Users /\ \A i \in call[t].load : i.bundle \in Bundles
<1>1. call[t] \in Handlers /\ call[t].user \in Users
  BY DEF TypeInv, TypeOK, Args, PackageOps
<1>2. call[t].load \subseteq AllItems
  BY <1>1, HandlerFields
<1>3. \A i \in AllItems : i.bundle \in Bundles
  BY ItemsAre DEF AllItems
<1> QED
  BY <1>1, <1>2, <1>3

(* LoadScope loads one scope.                                                *)
LEMMA LoadScopeIs ==
  ASSUME TypeInv, MapShape, NEW t \in Threads, LoadScope(t)
  PROVE  MapShape' /\ \E item \in call[t].load : Loads(t, item)
<1>1. PICK item \in call[t].load :
        (\A other \in call[t].load : item.at <= other.at) /\ AddToMap(t, item)
  BY DEF LoadScope
<1>2. call[t].pc = "load" /\ call[t] \in Handlers
  BY DEF LoadScope, TypeInv, TypeOK
<1>3. call[t].user \in Users /\ item.bundle \in Bundles
  BY <1>2, LoaderArgs
<1>4. ASSUME NEW load, Set(t, [call[t] EXCEPT !.load = load])
      PROVE  /\ call'[t].pc = "load" /\ call'[t].op = call[t].op /\ call'[t].user = call[t].user
             /\ call'[t].bundle = call[t].bundle /\ call'[t].profile = call[t].profile
             /\ call'[t].rest = call[t].rest /\ call'[t].load = load
  <2> DEFINE c == [call[t] EXCEPT !.load = load]
  <2>1. /\ c.pc = "load" /\ c.op = call[t].op /\ c.user = call[t].user /\ c.bundle = call[t].bundle
        /\ c.profile = call[t].profile /\ c.rest = call[t].rest /\ c.load = load
    BY <1>2 DEF Handlers
  <2>2. call'[t] = c
    BY <1>4 DEF Set, TypeInv, TypeOK
  <2> HIDE DEF c
  <2> QED
    BY <2>1, <2>2
<1>5. CASE GoodItem(item)
  <2> DEFINE b == item.bundle
             v == call[t].user
             new == Add(shareMap[b][v], ItemPath(item), ItemMode(item))
  <2>1. Set(t, [call[t] EXCEPT !.load = call[t].load \ {item}])
    BY <1>1, <1>5 DEF AddToMap, AddGood
  <2>2. shareMap' = [shareMap EXCEPT ![b][v] = new] /\ bounds' = bounds
    BY <1>1, <1>5 DEF AddToMap, AddGood
  <2>3. b \in Bundles /\ v \in Users
    BY <1>3
  <2> HIDE DEF b, v, new
  <2>4. /\ shareMap'[b][v] = new
        /\ \A u \in Users : u # v => shareMap'[b][u] = shareMap[b][u]
        /\ \A a \in Bundles : a # b => shareMap'[a] = shareMap[a]
    BY <2>2, <2>3 DEF MapShape
  <2>5. MapShape'
    BY <2>2, <2>3, ZenonT(60) DEF MapShape
  <2>6. bounds'.torn = bounds.torn
    BY <2>2
  <2> QED
    BY <1>1, <1>4, <1>5, <2>1, <2>4, <2>5, <2>6, ZenonT(30) DEF b, v, new, Loads
<1>6. CASE ~GoodItem(item)
  <2> DEFINE b == item.bundle
  <2>1. Set(t, [call[t] EXCEPT !.load = {}])
    BY <1>1, <1>6 DEF AddToMap, AddGood
  <2>2. b \in Bundles /\ DeleteByBundleName(t, b)
    BY <1>1, <1>3, <1>6 DEF AddToMap, AddGood
  <2> HIDE DEF b
  <2>3. MapShape' /\ Deleted(t, b)
    BY <2>2, DeleteIs
  <2>4. /\ call'[t].pc = "load" /\ call'[t].op = call[t].op /\ call'[t].user = call[t].user
        /\ call'[t].bundle = call[t].bundle /\ call'[t].profile = call[t].profile
        /\ call'[t].rest = call[t].rest /\ call'[t].load = {}
    BY <1>4, <2>1
  <2>5. \A a \in Bundles : a # b => shareMap'[a] = shareMap[a]
    BY <2>3 DEF Deleted
  <2> QED
    BY <1>1, <1>6, <2>3, <2>4, <2>5, Zenon DEF b, Loads
<1> QED
  BY <1>5, <1>6

(* Only these two actions of a handler write the map.                        *)
LEMMA OthersKeepMap ==
  ASSUME NEW t \in Threads, Accesses(t), ~LoadScope(t), ~DeleteBundle(t)
  PROVE  shareMap' = shareMap
<1>1. CASE GrantStep(t)
  BY <1>1 DEF GrantStep, GrantStore, GrantStoreFails, GrantSet, GrantRefused, GrantSetFails, FailAs
<1>2. CASE RevokeStep(t)
  BY <1>2 DEF RevokeStep, RevokeModify, RevokeModifyFails, RevokeUnset, RevokeRefused, RevokeUnsetFails,
              RevokeKill, RevokeKillFails, FailAs
<1>3. CASE EraseStep(t)
  BY <1>3 DEF EraseStep, EraseRows, EraseRules, RemoveUgcPermissionByTokenId, RemoveUgcFails,
              EraseKill, CancelPhotoUriPersistPermission, EraseFails, FailAs
<1>4. CASE CleanStep(t)
  BY <1>4 DEF CleanStep, CleanFind, CleanPolicyOnMac, CleanFilter, CleanRemove
<1>5. CASE ShareStep(t)
  BY <1>5 DEF ShareStep, WriteShareFileToDb, DropShareRow, QuerySharedFileInfoByUserId, CheckFirst,
              CheckAgain, CheckNext, SetShared, UnsetShared, LoadProfile
<1>6. CASE PackageStep(t)
  BY <1>6 DEF PackageStep, CleanPolicyByPackageChanged, RemoveBundlePolicy, GetShareCfgByBundle,
              RefreshDone
<1> QED
  BY <1>1, <1>2, <1>3, <1>4, <1>5, <1>6 DEF Accesses

(* What DeleteBundle deletes.                                                *)
LEMMA DeleteBundleIs ==
  ASSUME TypeInv, MapShape, NEW t \in Threads, DeleteBundle(t)
  PROVE  MapShape' /\ call[t].bundle \in Bundles /\ Deleted(t, call[t].bundle)
<1>1. call[t].bundle \in Bundles
  BY DEF DeleteBundle, TypeInv, Args, PackageOps
<1> QED
  BY <1>1, DeleteIs DEF DeleteBundle

(* The map keeps its shape.                                                  *)
LEMMA NextShape ==
  ASSUME TypeInv, MapShape, [Next]_vars
  PROVE  MapShape'
<1>1. CASE shareMap' = shareMap
  BY <1>1 DEF MapShape
<1>2. ASSUME NEW t \in Threads, Accesses(t)
      PROVE  MapShape'
  <2>1. CASE LoadScope(t) \/ DeleteBundle(t)
    BY <2>1, LoadScopeIs, DeleteBundleIs
  <2>2. CASE ~LoadScope(t) /\ ~DeleteBundle(t)
    BY <1>1, <1>2, <2>2, OthersKeepMap
  <2> QED
    BY <2>1, <2>2
<1>3. ASSUME NEW t \in Threads, Starts(t)
      PROVE  MapShape'
  BY <1>1, <1>3 DEF Starts, Begin
<1>4. CASE BundleChanges \/ Open \/ UNCHANGED vars
  BY <1>1, <1>4 DEF BundleChanges, Open, vars
<1>5. CASE Restart
  <2>1. PICK u : shareMap' = InitShareMap(u)
    BY <1>5 DEF Restart
  <2> QED
    BY <2>1 DEF InitShareMap, MapShape
<1> QED
  BY <1>2, <1>3, <1>4, <1>5, NextKinds

-----------------------------------------------------------------------------
(***************************************************************************)
(* What OK means.                                                          *)
(***************************************************************************)
(* What a handler that runs alone has done so far.                           *)
RevokedSoFar(t) ==
  LET c == call[t] IN
  /\ c.pc \in {"modify", "unset", "kill"} /\ c.left \subseteq c.pols
  /\ c.ret = "ok" => \A p \in c.pols \ c.left : ugc[c.k][p] # "granted" /\ <<c.k, p>> \notin rules
  /\ c.pc = "unset" => c.pol \in c.left /\ ugc[c.k][c.pol] # "granted"
  /\ c.pc = "kill" => c.left = {} /\ c.ret = "ok"

ErasedSoFar(t) ==
  LET c == call[t] IN
  /\ c.pc \in {"rows", "destroy", "ugc", "kill", "photo"}
  /\ c.pc # "rows" => \A r \in rows : r[1] # c.k
  /\ c.pc \notin {"rows", "destroy"} => \A r \in rules : r[1] # c.k
  /\ c.pc = "photo" => \A r \in opened : r[1] # c.k

(* The map m holds the items of S, the latest of them for each path.         *)
LatestIn(S, i) == \A j \in S : ItemPath(j) = ItemPath(i) => j.at <= i.at
Holds(m, S) ==
  /\ S = {} => m = Unset
  /\ S # {} => m = [x \in {ItemPath(i) : i \in S} |-> m[x]]
  /\ \A i \in S : \E j \in S : /\ ItemPath(j) = ItemPath(i) /\ LatestIn(S, j)
                               /\ m[ItemPath(j)] = ItemMode(j)

NotLoaded(b) == \A u \in Users : shareMap[b][u] = Unset

(* The profile whose items are given is loaded, up to the ones in load.      *)
LoadedUpTo(b, user, items, load) ==
  /\ load \subseteq items
  /\ \A i \in load, j \in items : i.at <= j.at => j \in load
  /\ \/ load = {} /\ NotLoaded(b) /\ \E i \in items : ~GoodItem(i)
     \/ /\ \A i \in items \ load : GoodItem(i)
        /\ \A u \in Users : u # user => shareMap[b][u] = Unset
        /\ Holds(shareMap[b][user], items \ load)

RefreshedSoFar(t) ==
  LET c == call[t]
      items == Items(c.bundle, c.profile)
  IN  /\ c.pc \in {"destroy", "delete", "read", "load"}
      /\ c.pc # "load" => c.profile = <<>>
      /\ c.pc = "read" => NotLoaded(c.bundle)
      /\ c.pc = "load" =>
           /\ c.profile \in Profiles
           /\ \/ c.rest = {items} /\ c.load = {} /\ NotLoaded(c.bundle)
              \/ c.rest = {} /\ LoadedUpTo(c.bundle, c.user, items, c.load)

SoFar(t) ==
  /\ call[t].op = "revoke" => RevokedSoFar(t)
  /\ call[t].op = "erase" => ErasedSoFar(t)
  /\ call[t].op = "package" => RefreshedSoFar(t)

SoFarInv == \A t \in Threads : Active(t) /\ call[t].clean => SoFar(t)

(* What the return of a handler promises.                                    *)
Promise(t) ==
  /\ Returns(t, "revoke", "ok") => AccessEnded(call[t].k, call[t].pols)
  /\ Returns(t, "erase", "ok") => Erased(call[t].k)
  /\ Returns(t, "package", "ok") => Refreshed(call[t].bundle, call[t].user, call[t].profile)

(* Where the revocation of one policy leads.                                 *)
RevokedTo(t, p, ret) ==
  \/ call'[t].pc = "done" /\ call'[t].ret = ret
     /\ (ret = "ok" => call[t].left \ {p} = {} /\ call[t].k \notin Haps)
  \/ /\ call'[t].op = call[t].op /\ call'[t].k = call[t].k /\ call'[t].pols = call[t].pols
     /\ call'[t].left = call[t].left \ {p} /\ call'[t].ret = ret
     /\ \/ call'[t].pc = "modify"
        \/ call'[t].pc = "kill" /\ call'[t].left = {} /\ ret = "ok"

LEMMA NextRevokedIs ==
  ASSUME TypeInv, NEW t \in Threads, NEW p, NEW ret \in Results, NEW clean \in BOOLEAN,
         NextRevoked(t, p, ret, clean)
  PROVE  call'[t].clean = clean /\ RevokedTo(t, p, ret)
<1> USE DEF RevokedTo
<1> DEFINE left == call[t].left \ {p}
           more == [call[t] EXCEPT !.left = left, !.ret = ret, !.pol = NoRow, !.clean = clean]
<1>1. call[t] \in Handlers
  BY DEF TypeInv, TypeOK
<1> HIDE DEF left
<1>2. /\ more.op = call[t].op /\ more.k = call[t].k /\ more.pols = call[t].pols
      /\ more.left = left /\ more.ret = ret
      /\ \A pc : /\ [more EXCEPT !.pc = pc].op = call[t].op
                 /\ [more EXCEPT !.pc = pc].k = call[t].k
                 /\ [more EXCEPT !.pc = pc].pols = call[t].pols
                 /\ [more EXCEPT !.pc = pc].left = left
                 /\ [more EXCEPT !.pc = pc].ret = ret
                 /\ [more EXCEPT !.pc = pc].pc = pc
                 /\ [more EXCEPT !.pc = pc].clean = clean
  BY <1>1 DEF Handlers
<1> HIDE DEF more
<1>6. CASE left # {}
  <2>1. call'[t] = [more EXCEPT !.pc = "modify"]
    BY <1>6 DEF NextRevoked, left, more, Set, TypeInv, TypeOK
  <2> QED
    BY <1>2, <2>1 DEF left
<1>7. CASE left = {} /\ (ret # "ok" \/ more.k \notin Haps)
  <2> DEFINE c == [Idle EXCEPT !.op = more.op, !.ret = ret, !.clean = clean]
  <2>1. call'[t] = c
    BY <1>7 DEF NextRevoked, left, more, Set, TypeInv, TypeOK
  <2>2. c.pc = "done" /\ c.ret = ret /\ c.clean = clean
    BY DEF Idle
  <2> HIDE DEF c
  <2> QED
    BY <1>2, <1>7, <2>1, <2>2 DEF left
<1>8. CASE left = {} /\ ~(ret # "ok" \/ more.k \notin Haps)
  <2>1. call'[t] = [more EXCEPT !.pc = "kill"]
    BY <1>8 DEF NextRevoked, left, more, Set, TypeInv, TypeOK
  <2> QED
    BY <1>2, <1>8, <2>1 DEF left
<1> QED
  BY <1>6, <1>7, <1>8

(* A revocation.                                                             *)
LEMMA RevokeDone ==
  ASSUME TypeInv, NEW t \in Threads, RevokedSoFar(t), RevokeStep(t),
         call'[t].clean
  PROVE  (call'[t].pc # "done" => RevokedSoFar(t)') /\ Promise(t)
<1> USE DEF Tables, Outside, At
<1>0. {"ok", "db", "mac", "kill"} \subseteq Results
  BY DEF Results
<1>1. /\ call[t] \in Handlers /\ call[t].op = "revoke" /\ call[t].k \in Tokens
      /\ call[t].pols \subseteq Policies /\ call[t].ret \in Results /\ call[t].pc # "done"
  BY RevokeStepsMove, HandlerFields DEF TypeInv, TypeOK, Args, Active
<1>2. call'[t].op = "revoke"
  BY <1>1, RevokeStepsMove DEF Moves, Follows, TypeInv, TypeOK
<1>a. PICK k, pols, left, ret : /\ k = call[t].k /\ pols = call[t].pols
                                /\ left = call[t].left /\ ret = call[t].ret
  OBVIOUS
<1>3. CASE RevokeModify(t)
  <2>1. PICK p \in left : /\ SetUgc(k, {p}, {"granted", "denied"}, "denied")
                          /\ Set(t, [call[t] EXCEPT !.pc = "unset", !.pol = p])
    BY <1>a, <1>3 DEF RevokeModify
  <2>2. /\ call'[t].pc = "unset" /\ call'[t].pol = p /\ call'[t].k = k /\ call'[t].pols = pols
        /\ call'[t].left = left /\ call'[t].ret = ret
    <3> DEFINE c == [call[t] EXCEPT !.pc = "unset", !.pol = p]
    <3>1. /\ c.pc = "unset" /\ c.pol = p /\ c.k = k /\ c.pols = pols /\ c.left = left /\ c.ret = ret
      BY <1>1, <1>a DEF Handlers
    <3>2. call'[t] = c
      BY <2>1 DEF Set, TypeInv, TypeOK
    <3> HIDE DEF c
    <3> QED
      BY <3>1, <3>2
  <2>3. /\ \A q \in Policies : ugc[k][q] # "granted" => ugc'[k][q] # "granted"
        /\ p \in Policies => ugc'[k][p] # "granted"
    BY <1>1, <1>a, <2>1 DEF SetUgc, TypeInv, TypeOK
  <2>4. rules' = rules /\ left \subseteq pols
    BY <1>3, <1>a DEF RevokeModify, RevokedSoFar
  <2> QED
    BY <1>1, <1>a, <2>2, <2>3, <2>4 DEF RevokedSoFar, Promise, Returns
<1>b. call[t].clean \in BOOLEAN
  BY <1>1, HandlerFields
<1>4. ASSUME NEW p, NEW r \in Results, NextRevoked(t, p, r, call[t].clean), ugc' = ugc, rules' \subseteq rules,
             opened' = opened,
             r = "ok" => /\ p \in left /\ ret = "ok" /\ ugc[k][p] # "granted"
                         /\ <<k, p>> \notin rules'
      PROVE  (call'[t].pc # "done" => RevokedSoFar(t)') /\ Promise(t)
  <2>0. \/ call'[t].pc = "done" /\ call'[t].ret = r /\ (r = "ok" => left \ {p} = {} /\ k \notin Haps)
        \/ /\ call'[t].k = k /\ call'[t].pols = pols /\ call'[t].left = left \ {p}
           /\ call'[t].ret = r
           /\ \/ call'[t].pc = "modify"
              \/ call'[t].pc = "kill" /\ call'[t].left = {} /\ r = "ok"
    <3> HIDE DEF Tables, Outside, At
    <3>1. NextRevoked(t, p, r, call[t].clean) /\ r \in Results
      BY <1>4
    <3>2. RevokedTo(t, p, r)
      BY <1>b, <3>1, NextRevokedIs, Zenon
    <3> QED
      BY <1>a, <3>2 DEF RevokedTo
  <2>1. r = "ok" => \A q \in pols \ (left \ {p}) : ugc'[k][q] # "granted" /\ <<k, q>> \notin rules'
    BY <1>4, <1>a DEF RevokedSoFar
  <2>2. left \subseteq pols
    BY <1>a DEF RevokedSoFar
  <2>3. CASE call'[t].pc = "done"
    <3>1. r = "ok" => left \ {p} = {} /\ k \notin Haps
      BY <2>0, <2>3
    <3>2. call'[t].ret = r
      BY <2>0, <2>3
    <3>3. k \notin Haps => \A q : <<k, q>> \notin opened'
      BY <1>4 DEF TypeInv, TypeOK
    <3>4. call'[t].ret = "ok" => AccessEnded(k, pols)
      BY <2>1, <3>1, <3>2, <3>3 DEF AccessEnded
    <3> QED
      BY <1>2, <1>a, <2>3, <3>4 DEF Promise, Returns
  <2>4. CASE call'[t].pc # "done"
    <3>1. /\ call'[t].k = k /\ call'[t].pols = pols /\ call'[t].left = left \ {p}
          /\ call'[t].ret = r
          /\ \/ call'[t].pc = "modify"
             \/ call'[t].pc = "kill" /\ call'[t].left = {} /\ r = "ok"
      BY <2>0, <2>4
    <3> QED
      BY <2>1, <2>2, <2>4, <3>1 DEF RevokedSoFar, Promise, Returns
  <2> QED
    BY <2>3, <2>4
<1>5. CASE RevokeModifyFails(t)
  BY <1>0, <1>4, <1>5 DEF RevokeModifyFails
<1>6. CASE RevokeUnsetFails(t)
  BY <1>0, <1>4, <1>6 DEF RevokeUnsetFails
<1>10. CASE RevokeRefused(t)
  <2>1. FALSE \in BOOLEAN /\ NextRevoked(t, call[t].pol, call[t].ret, FALSE)
    BY <1>10 DEF RevokeRefused
  <2>2. call'[t].clean = FALSE
    BY <1>1, <2>1, NextRevokedIs
  <2> QED
    BY <2>2
<1>7. CASE RevokeUnset(t)
  <2>1. PICK p : p = call[t].pol
    OBVIOUS
  <2>2. /\ NextRevoked(t, p, ret, call[t].clean) /\ ugc' = ugc /\ rules' = rules \ {<<k, p>>} /\ opened' = opened
    BY <1>7, <1>a, <2>1 DEF RevokeUnset
  <2>3. p \in left /\ ugc[k][p] # "granted"
    BY <1>7, <1>a, <2>1 DEF RevokeUnset, RevokedSoFar
  <2> QED
    BY <1>1, <1>4, <1>a, <2>2, <2>3
<1>8. CASE RevokeKill(t)
  <2>1. /\ call'[t].pc = "done" /\ ugc' = ugc /\ rules' = rules
        /\ opened' = {o \in opened : o[1] # k}
    BY <1>8, <1>a, ReturnIs DEF RevokeKill, KillProcessForPermissionUpdate
  <2>2. \A q \in pols : ugc[k][q] # "granted" /\ <<k, q>> \notin rules
    BY <1>8, <1>a DEF RevokeKill, RevokedSoFar
  <2>3. AccessEnded(k, pols)
    BY <2>1, <2>2 DEF AccessEnded
  <2> QED
    BY <1>2, <1>a, <2>1, <2>3 DEF Promise, Returns
<1>9. CASE RevokeKillFails(t)
  <2>1. call'[t].pc = "done" /\ call'[t].ret = "kill"
    BY <1>9, ReturnIs DEF RevokeKillFails, FailAs
  <2> QED
    BY <1>2, <2>1 DEF Promise, Returns
<1> QED
  BY <1>3, <1>5, <1>6, <1>7, <1>8, <1>9, <1>10 DEF RevokeStep

(* An erasure.                                                               *)
LEMMA EraseDone ==
  ASSUME TypeInv, NEW t \in Threads, ErasedSoFar(t), EraseStep(t)
  PROVE  (call'[t].pc # "done" => ErasedSoFar(t)') /\ Promise(t)
<1> USE DEF Tables, Outside, At
<1>1. /\ call[t] \in Handlers /\ call[t].op = "erase" /\ call[t].k \in Tokens /\ call[t].pc # "done"
  BY EraseStepsMove DEF TypeInv, TypeOK, Args, Active
<1>2. call'[t].op = "erase" /\ (call'[t].pc # "done" => call'[t].k = call[t].k)
  BY <1>1, EraseStepsMove DEF Moves, Follows, TypeInv, TypeOK
<1>3. CASE EraseRows(t)
  <2>1. call'[t].pc = "destroy" /\ rows' = {r \in rows : r[1] # call[t].k}
    BY <1>3, GotoIs DEF EraseRows
  <2> QED
    BY <1>2, <2>1 DEF ErasedSoFar, Promise, Returns
<1>4. CASE EraseRules(t)
  <2>1. /\ call'[t].pc = "ugc" /\ rules' = {r \in rules : r[1] # call[t].k} /\ rows' = rows
        /\ call[t].pc = "destroy"
    BY <1>4, GotoIs DEF EraseRules, DestroySandboxPolicy
  <2> QED
    BY <1>2, <2>1 DEF ErasedSoFar, Promise, Returns
<1>5. CASE RemoveUgcPermissionByTokenId(t) \/ RemoveUgcFails(t)
  <2>1. /\ rules' = rules /\ rows' = rows /\ opened' = opened /\ photo' = photo
        /\ call[t].pc = "ugc" /\ AfterUgc(t)
    BY <1>5 DEF RemoveUgcPermissionByTokenId, RemoveUgcFails
  <2>2. CASE call[t].k \in Haps
    <3>1. call'[t].pc = "kill"
      BY <2>1, <2>2, GotoIs DEF AfterUgc
    <3> QED
      BY <1>2, <2>1, <3>1 DEF ErasedSoFar, Promise, Returns
  <2>3. CASE call[t].k \notin Haps
    <3>1. call'[t].pc = "done"
      BY <2>1, <2>3, ReturnIs DEF AfterUgc
    <3>2. call[t].k \notin photo' /\ \A r \in opened' : r[1] # call[t].k
      BY <2>1, <2>3 DEF TypeInv, TypeOK
    <3>3. Erased(call[t].k)
      BY <2>1, <3>2 DEF ErasedSoFar, Erased
    <3> QED
      BY <1>2, <3>1, <3>3 DEF Promise, Returns
  <2> QED
    BY <2>2, <2>3
<1>6. CASE EraseKill(t)
  <2>1. /\ call'[t].pc = "photo" /\ rules' = rules /\ rows' = rows /\ call[t].pc = "kill"
        /\ opened' = {o \in opened : o[1] # call[t].k}
    BY <1>6, GotoIs DEF EraseKill, KillProcessForPermissionUpdate
  <2> QED
    BY <1>2, <2>1 DEF ErasedSoFar, Promise, Returns
<1>7. CASE CancelPhotoUriPersistPermission(t)
  <2>1. /\ call'[t].pc = "done" /\ rules' = rules /\ rows' = rows /\ call[t].pc = "photo"
        /\ opened' = opened /\ photo' = photo \ {call[t].k}
    BY <1>7, ReturnIs DEF CancelPhotoUriPersistPermission
  <2>2. Erased(call[t].k)
    BY <2>1 DEF ErasedSoFar, Erased
  <2> QED
    BY <1>2, <2>1, <2>2 DEF Promise, Returns
<1>8. CASE EraseFails(t)
  <2>1. call'[t].pc = "done" /\ call'[t].ret # "ok"
    BY <1>8, ReturnIs DEF EraseFails, FailAs
  <2> QED
    BY <1>2, <2>1 DEF Promise, Returns
<1> QED
  BY <1>3, <1>4, <1>5, <1>6, <1>7, <1>8 DEF EraseStep

(* Adding the next item of a profile to a map that holds the ones before.    *)
LEMMA HoldsAdd ==
  ASSUME NEW S, NEW item, NEW m, Holds(m, S), item.at \in Nat,
         \A j \in S : j.at \in Nat /\ j.at < item.at
  PROVE  Holds(Add(m, ItemPath(item), ItemMode(item)), S \cup {item})
<1> DEFINE T == S \cup {item}
           x == ItemPath(item)
           n == Add(m, x, ItemMode(item))
<1>1. DOMAIN m = {ItemPath(i) : i \in S}
  <2>1. CASE S = {}
    BY <2>1 DEF Holds, Unset
  <2>2. CASE S # {}
    BY <2>2 DEF Holds
  <2> QED
    BY <2>1, <2>2
<1>2. n = [p \in {ItemPath(i) : i \in T} |-> IF p = x THEN ItemMode(item) ELSE m[p]]
  BY <1>1 DEF Add
<1> HIDE DEF n
<1>3. n = [p \in {ItemPath(i) : i \in T} |-> n[p]]
  BY <1>2
<1>4. LatestIn(T, item)
  BY DEF LatestIn
<1>5. ASSUME NEW i \in T
      PROVE  \E j \in T : ItemPath(j) = ItemPath(i) /\ LatestIn(T, j) /\ n[ItemPath(j)] = ItemMode(j)
  <2>1. CASE ItemPath(i) = x
    BY <1>2, <1>4, <2>1
  <2>2. CASE ItemPath(i) # x
    <3>1. i \in S
      BY <1>5, <2>2
    <3>2. PICK j \in S : ItemPath(j) = ItemPath(i) /\ LatestIn(S, j) /\ m[ItemPath(j)] = ItemMode(j)
      BY <3>1 DEF Holds
    <3>3. LatestIn(T, j)
      BY <2>2, <3>2 DEF LatestIn
    <3>4. n[ItemPath(j)] = ItemMode(j)
      BY <1>2, <2>2, <3>2
    <3> QED
      BY <3>2, <3>3, <3>4
  <2> QED
    BY <2>1, <2>2
<1> HIDE DEF x
<1>6. Holds(n, T)
  BY <1>3, <1>5 DEF Holds
<1> QED
  BY <1>6 DEF n, x

(* A map that holds all items of a good profile is what Load makes of it.    *)
LEMMA HoldsAll ==
  ASSUME NEW b \in Bundles, NEW u \in Users, NEW m, profile[b][u] \in Profiles,
         Holds(m, Declared(b, u)), \A i \in Declared(b, u) : GoodItem(i)
  PROVE  m = Load(b, u)
<1> DEFINE items == Declared(b, u)
           Latest(path) == CHOOSE i \in items :
                             ItemPath(i) = path /\ \A j \in items : ItemPath(j) = path => j.at <= i.at
<1>1. /\ \A i \in items : i.at \in Nat
      /\ \A i, j \in items : i.at = j.at => i = j
      /\ Holds(m, items) /\ \A i \in items : GoodItem(i)
  BY ItemsAre DEF Declared
<1>2. Load(b, u) = IF items = {} \/ \E i \in items : ~GoodItem(i) THEN Unset
                ELSE [path \in {ItemPath(i) : i \in items} |-> ItemMode(Latest(path))]
  BY DEF Load
<1> HIDE DEF items
<1>3. CASE items = {}
  BY <1>1, <1>2, <1>3 DEF Holds
<1>4. CASE items # {}
  <2>1. ASSUME NEW path \in {ItemPath(i) : i \in items}
        PROVE  m[path] = ItemMode(Latest(path))
    <3>1. PICK j \in items : ItemPath(j) = path /\ LatestIn(items, j) /\ m[path] = ItemMode(j)
      <4>1. PICK i \in items : path = ItemPath(i)
        BY <2>1
      <4> QED
        BY <1>1, <4>1 DEF Holds
    <3>2. \E i \in items : ItemPath(i) = path /\ \A k \in items : ItemPath(k) = path => k.at <= i.at
      BY <3>1 DEF LatestIn
    <3>3. /\ Latest(path) \in items /\ ItemPath(Latest(path)) = path
          /\ \A k \in items : ItemPath(k) = path => k.at <= Latest(path).at
      BY <3>2, Zenon
    <3>4. PICK l : l = Latest(path)
      OBVIOUS
    <3>5. l \in items /\ l.at <= j.at /\ j.at <= l.at
      BY <3>1, <3>3, <3>4 DEF LatestIn
    <3>6. l = j
      BY <1>1, <3>5
    <3> QED
      BY <3>1, <3>4, <3>6
  <2> HIDE DEF Latest
  <2>2. m = [x \in {ItemPath(i) : i \in items} |-> m[x]]
    BY <1>1, <1>4 DEF Holds
  <2>3. Load(b, u) = [path \in {ItemPath(i) : i \in items} |-> ItemMode(Latest(path))]
    BY <1>1, <1>2, <1>4
  <2> QED
    BY <2>1, <2>2, <2>3
<1> QED
  BY <1>3, <1>4

(* The next profile.                                                         *)
LEMMA LoadProfileIs ==
  ASSUME TypeInv, NEW t \in Threads, LoadProfile(t)
  PROVE  \E next \in call[t].rest :
           /\ call[t].load = {} /\ call'[t].load = next /\ call'[t].rest = call[t].rest \ {next}
           /\ call'[t].pc = "load" /\ call'[t].op = call[t].op /\ call'[t].user = call[t].user
           /\ call'[t].bundle = call[t].bundle /\ call'[t].profile = call[t].profile
<1>1. PICK next \in call[t].rest :
        Set(t, [call[t] EXCEPT !.load = next, !.rest = call[t].rest \ {next}])
  BY DEF LoadProfile
<1>2. call[t].pc = "load" /\ call[t].load = {} /\ call[t] \in Handlers
  BY DEF LoadProfile, TypeInv, TypeOK
<1>3. PICK rest : rest = call[t].rest \ {next}
  OBVIOUS
<1> DEFINE c == [call[t] EXCEPT !.load = next, !.rest = rest]
<1>4. /\ c.pc = "load" /\ c.op = call[t].op /\ c.user = call[t].user /\ c.bundle = call[t].bundle
      /\ c.profile = call[t].profile /\ c.rest = rest /\ c.load = next
  BY <1>2 DEF Handlers
<1>5. call'[t] = c
  BY <1>1, <1>3 DEF Set, TypeInv, TypeOK
<1> HIDE DEF c
<1> QED
  BY <1>2, <1>3, <1>4, <1>5

(* Profiles are read.                                                        *)
LEMMA ReadIs ==
  ASSUME TypeInv, NEW t \in Threads, NEW c \in Handlers, NEW B, ReadProfiles(t, c, B)
  PROVE  /\ call'[t].load = {} /\ call'[t].rest = {Declared(b, c.user) : b \in B}
         /\ call'[t].pc = "load" /\ call'[t].op = c.op /\ call'[t].user = c.user
         /\ call'[t].bundle = c.bundle /\ call'[t].profile = c.profile
<1>1. PICK rest : rest = {Declared(b, c.user) : b \in B}
  OBVIOUS
<1> DEFINE d == [c EXCEPT !.pc = "load", !.load = {}, !.rest = rest]
<1>2. /\ d.pc = "load" /\ d.op = c.op /\ d.user = c.user /\ d.bundle = c.bundle
      /\ d.profile = c.profile /\ d.rest = rest /\ d.load = {}
  BY DEF Handlers
<1>3. call'[t] = d
  BY <1>1 DEF ReadProfiles, Set, TypeInv, TypeOK
<1> HIDE DEF d
<1> QED
  BY <1>1, <1>2, <1>3

(* Loading the next scope of a profile.                                      *)
LEMMA LoadsNext ==
  ASSUME TypeInv, MapShape, NEW t \in Threads, NEW b \in Bundles, NEW p \in Profiles,
         LoadedUpTo(b, call[t].user, Items(b, p), call[t].load),
         NEW item, Loads(t, item)
  PROVE  LoadedUpTo(b, call[t].user, Items(b, p), call[t].load)'
<1>1. PICK items, load, user : /\ items = Items(b, p) /\ load = call[t].load
                               /\ user = call[t].user
  OBVIOUS
<1>2. /\ item \in load /\ load \subseteq items /\ item \in items
      /\ \A i \in load, j \in items : i.at <= j.at => j \in load
      /\ \A other \in load : item.at <= other.at
  BY <1>1 DEF Loads, LoadedUpTo
<1>3. /\ \A i \in items : i.bundle = b /\ i.at \in Nat
      /\ \A i, j \in items : i.at = j.at => i = j
  BY <1>1, ItemsAre
<1>4. /\ \A i \in items \ load : GoodItem(i)
      /\ \A u \in Users : u # user => shareMap[b][u] = Unset
      /\ Holds(shareMap[b][user], items \ load)
  BY <1>1, <1>2 DEF LoadedUpTo
<1>5. call'[t].user = user
  BY <1>1 DEF Loads
<1>6. CASE GoodItem(item)
  <2>1. /\ call'[t].load = load \ {item}
        /\ shareMap'[b][user] = Add(shareMap[b][user], ItemPath(item), ItemMode(item))
        /\ \A u \in Users : u # user => shareMap'[b][u] = shareMap[b][u]
    BY <1>1, <1>2, <1>3, <1>6 DEF Loads
  <2>2. items \ (load \ {item}) = (items \ load) \cup {item}
    BY <1>2
  <2>3. \A j \in items \ load : j.at \in Nat /\ j.at < item.at
    BY <1>2, <1>3
  <2>4. Holds(shareMap'[b][user], items \ (load \ {item}))
    BY <1>2, <1>3, <1>4, <2>1, <2>2, <2>3, HoldsAdd
  <2>5. \A i \in load \ {item}, j \in items : i.at <= j.at => j \in load \ {item}
    BY <1>2, <1>3
  <2>6. load \ {item} \subseteq items /\ \A i \in items \ (load \ {item}) : GoodItem(i)
    BY <1>2, <1>4, <1>6
  <2>7. \A u \in Users : u # user => shareMap'[b][u] = Unset
    BY <1>4, <2>1
  <2> QED
    BY <1>1, <1>5, <2>1, <2>4, <2>5, <2>6, <2>7 DEF LoadedUpTo
<1>7. CASE ~GoodItem(item)
  <2>1. call'[t].load = {} /\ \A u \in Users : shareMap'[b][u] = Unset
    BY <1>1, <1>2, <1>3, <1>7 DEF Loads, Deleted
  <2> QED
    BY <1>1, <1>2, <1>7, <2>1 DEF LoadedUpTo, NotLoaded
<1> QED
  BY <1>6, <1>7

(* A module update.                                                          *)
LEMMA PackageDone ==
  ASSUME TypeInv, MapShape, NEW t \in Threads, call[t].op = "package", call[t].pc # "done",
         RefreshedSoFar(t), PackageStep(t) \/ LoadScope(t) \/ LoadProfile(t)
  PROVE  (call'[t].pc # "done" => RefreshedSoFar(t)') /\ Promise(t)
<1> USE DEF At
<1>1. call[t] \in Handlers /\ call[t].bundle \in Bundles /\ call[t].user \in Users
  BY DEF TypeInv, TypeOK, Args, PackageOps
<1>2. PICK b, user : b = call[t].bundle /\ user = call[t].user
  OBVIOUS
<1>3. CASE CleanPolicyByPackageChanged(t)
  <2>1. \/ call'[t].pc = "delete" /\ call'[t].profile = call[t].profile
        \/ call'[t].pc = "done" /\ call'[t].ret = "denied"
    BY <1>3, GotoIs, ReturnIs DEF CleanPolicyByPackageChanged
  <2>2. call'[t].op = "package"
    BY <1>3, PackageStepsMove DEF PackageStep, Moves, Follows, TypeInv, TypeOK
  <2>3. call[t].pc = "destroy"
    BY <1>3 DEF CleanPolicyByPackageChanged
  <2> QED
    BY <2>1, <2>2, <2>3 DEF RefreshedSoFar, Promise, Returns
<1>9. CASE RemoveBundlePolicy(t)
  BY <1>9 DEF RemoveBundlePolicy
<1>4. CASE DeleteBundle(t)
  <2>1. /\ call'[t].pc = "read" /\ call'[t].bundle = b /\ call'[t].profile = call[t].profile
        /\ call[t].pc = "delete"
    BY <1>2, <1>4, GotoIs DEF DeleteBundle
  <2>2. \A u \in Users : shareMap'[b][u] = Unset
    BY <1>2, <1>4, DeleteBundleIs DEF Deleted
  <2> QED
    BY <2>1, <2>2 DEF RefreshedSoFar, NotLoaded, Promise, Returns
<1>5. CASE GetShareCfgByBundle(t)
  <2>a. PICK p : p = profile[b][user]
    OBVIOUS
  <2>b. p \in Profiles
    BY <1>1, <1>2, <2>a DEF TypeInv, TypeOK
  <2>0. shareMap' = shareMap /\ profile' = profile /\ NotLoaded(b) /\ call[t].profile = <<>>
    BY <1>2, <1>5 DEF GetShareCfgByBundle, RefreshedSoFar, Outside
  <2>1. CASE Return(t, "ok")
    <3>1. call'[t].pc = "done" /\ call'[t].op = "package"
      BY <2>1, ReturnIs
    <3>2. call[t].profile # profile[b][user]
      BY <2>0, <2>a, <2>b, GrantAssumption DEF GrantAssumption
    <3>3. Refreshed(b, user, call[t].profile)
      BY <1>1, <1>2, <2>0, <3>2 DEF Refreshed, NotLoaded
    <3> QED
      BY <1>2, <3>1, <3>3 DEF Promise, Returns
  <2>2. CASE ReadProfiles(t, [call[t] EXCEPT !.profile = p], {b})
    <3> DEFINE c == [call[t] EXCEPT !.profile = p]
    <3>2. c \in Handlers /\ c.bundle = b /\ c.profile = p /\ c.user = user
      BY <1>1, <1>2, <2>b DEF Handlers
    <3> HIDE DEF c
    <3>5. ReadProfiles(t, c, {b})
      BY <2>2 DEF c
    <3>3. /\ call'[t].load = {} /\ call'[t].rest = {Declared(a, c.user) : a \in {b}}
          /\ call'[t].pc = "load" /\ call'[t].bundle = b /\ call'[t].profile = p
      BY <3>2, <3>5, ReadIs
    <3>4. call'[t].rest = {Items(b, p)}
      BY <2>a, <3>2, <3>3 DEF Declared
    <3> QED
      BY <2>0, <2>b, <3>3, <3>4 DEF RefreshedSoFar, NotLoaded, Promise, Returns
  <2> QED
    BY <1>2, <1>5, <2>a, <2>1, <2>2 DEF GetShareCfgByBundle
<1>6. CASE LoadProfile(t)
  <2>1. PICK next \in call[t].rest :
          /\ call'[t].load = next /\ call'[t].rest = call[t].rest \ {next}
          /\ call'[t].pc = "load" /\ call'[t].user = user /\ call'[t].bundle = b
          /\ call'[t].profile = call[t].profile
    BY <1>2, <1>6, LoadProfileIs
  <2>2. shareMap' = shareMap /\ call[t].pc = "load"
    BY <1>6 DEF LoadProfile
  <2>3. PICK items : items = Items(b, call[t].profile)
    OBVIOUS
  <2>4. call[t].profile \in Profiles /\ call[t].rest = {items} /\ NotLoaded(b)
    BY <1>2, <2>1, <2>2, <2>3 DEF RefreshedSoFar
  <2>5. next = items /\ call'[t].rest = {} /\ call'[t].load = items
    BY <2>1, <2>4
  <2>6. Holds(shareMap'[b][user], {})
    BY <1>1, <1>2, <2>2, <2>4 DEF Holds, NotLoaded
  <2>7. items \ items = {}
    OBVIOUS
  <2>8. LoadedUpTo(b, user, items, items)'
    BY <2>2, <2>4, <2>6, <2>7 DEF LoadedUpTo, NotLoaded
  <2> QED
    BY <1>2, <2>1, <2>3, <2>4, <2>5, <2>8 DEF RefreshedSoFar, Promise, Returns
<1>7. CASE LoadScope(t)
  <2>1. PICK item \in call[t].load : Loads(t, item)
    BY <1>7, LoadScopeIs
  <2>2. PICK p : p = call[t].profile
    OBVIOUS
  <2>3. call[t].pc = "load"
    BY <1>7 DEF LoadScope
  <2>4. p \in Profiles /\ call[t].rest = {} /\ LoadedUpTo(b, user, Items(b, p), call[t].load)
    BY <1>2, <2>1, <2>2, <2>3 DEF RefreshedSoFar
  <2>5. LoadedUpTo(b, call[t].user, Items(b, p), call[t].load)'
    BY <1>1, <1>2, <2>1, <2>4, LoadsNext
  <2>6. /\ call'[t].pc = "load" /\ call'[t].rest = {} /\ call'[t].bundle = b
        /\ call'[t].profile = p /\ call'[t].user = user
    BY <1>2, <2>1, <2>2, <2>4 DEF Loads
  <2> QED
    BY <2>4, <2>5, <2>6 DEF RefreshedSoFar, Promise, Returns
<1>8. CASE RefreshDone(t)
  <2>1. /\ call'[t].pc = "done" /\ shareMap' = shareMap /\ call[t].pc = "load"
        /\ call[t].load = {} /\ call[t].rest = {}
    BY <1>8, ReturnIs DEF RefreshDone, Loaded
  <2>a. PICK p : p = call[t].profile
    OBVIOUS
  <2>b. profile' = profile /\ p \in Profiles /\ p # <<>> /\ LoadedUpTo(b, user, Items(b, p), {})
    BY <1>2, <1>8, <2>1, <2>a, GrantAssumption DEF RefreshDone, Outside, RefreshedSoFar, GrantAssumption
  <2>c. \A u \in Users : u # user => shareMap[b][u] = Unset
    BY <2>b DEF LoadedUpTo, NotLoaded
  <2>2. ASSUME p = profile[b][user]
        PROVE  shareMap[b][user] = Load(b, user)
    <3>1. PICK items : items = Declared(b, user)
      OBVIOUS
    <3>2. LoadedUpTo(b, user, items, {})
      BY <2>b, <2>2, <3>1 DEF Declared
    <3>3. CASE \E i \in items : ~GoodItem(i)
      <4>1. shareMap[b][user] = Unset
        BY <1>1, <1>2, <3>2, <3>3 DEF LoadedUpTo, NotLoaded
      <4>2. Load(b, user) = Unset
        BY <3>1, <3>3 DEF Load
      <4> QED
        BY <4>1, <4>2
    <3>4. CASE \A i \in items : GoodItem(i)
      <4>1. items \ {} = items
        OBVIOUS
      <4>2. Holds(shareMap[b][user], items)
        BY <3>2, <3>4, <4>1 DEF LoadedUpTo
      <4> QED
        BY <1>1, <1>2, <2>b, <2>2, <3>1, <3>4, <4>2, HoldsAll
    <3> QED
      BY <3>3, <3>4
  <2>d. Load(b, user)' = Load(b, user)
    BY <2>b DEF Load, Declared
  <2>e. Refreshed(b, user, p)
    BY <2>1, <2>b, <2>c, <2>2, <2>d DEF Refreshed
  <2>3. call'[t].op = "package"
    BY <1>8, PackageStepsMove DEF PackageStep, Moves, Follows, TypeInv, TypeOK
  <2> QED
    BY <1>2, <2>1, <2>3, <2>a, <2>e DEF Promise, Returns
<1> QED
  BY <1>3, <1>4, <1>5, <1>6, <1>7, <1>8, <1>9 DEF PackageStep

(* A handler that starts has done nothing yet.                               *)
LEMMA StartSoFar ==
  ASSUME TypeInv, NEW t \in Threads, Starts(t)
  PROVE  SoFar(t)'
<1>1. PICK op, pc, args : Fresh(op, pc, args) /\ Begin(t, op, pc, args)
  BY DEF Starts
<1>2. /\ call'[t].op = op /\ call'[t].pc = pc /\ call'[t].left = args.left
      /\ call'[t].pols = args.pols /\ call'[t].profile = args.profile
  BY <1>1, StartOwn
<1> QED
  BY <1>1, <1>2 DEF SoFar, RevokedSoFar, ErasedSoFar, RefreshedSoFar, Fresh

(* What a handler that runs alone does is what it has to do.                 *)
LEMMA StepSoFar ==
  ASSUME TypeInv, MapShape, NEW t \in Threads, Accesses(t), SoFar(t),
         call'[t].clean
  PROVE  (call'[t].pc # "done" => SoFar(t)') /\ Promise(t)
<1>1. Active(t) /\ Moves(t)
  BY AccessMoves
<1>2. call'[t].op = call[t].op
  BY <1>1 DEF Moves, Follows, TypeInv, TypeOK
<1>3. CASE RevokeStep(t)
  <2>1. call[t].op = "revoke"
    BY <1>3, RevokeStepsMove DEF TypeInv
  <2> QED
    BY <1>2, <1>3, <2>1, RevokeDone DEF SoFar
<1>4. CASE EraseStep(t)
  <2>1. call[t].op = "erase"
    BY <1>4, EraseStepsMove DEF TypeInv
  <2> QED
    BY <1>2, <1>4, <2>1, EraseDone DEF SoFar
<1>5. CASE PackageStep(t)
  <2>1. CASE call[t].op = "package"
    BY <1>1, <1>2, <1>5, <2>1, PackageDone DEF SoFar, Active
  <2>2. CASE call[t].op \in {"removed", "added"}
    BY <1>2, <2>2 DEF SoFar, Promise, Returns
  <2> QED
    BY <1>5, <2>1, <2>2, PackageStepsMove DEF PackageOps
<1>6. CASE GrantStep(t) \/ CleanStep(t)
  <2>1. call[t].op \in {"grant", "clean"}
    BY <1>6, GrantStepsMove, CleanStepsMove DEF TypeInv
  <2> QED
    BY <1>2, <2>1 DEF SoFar, Promise, Returns
<1>7. CASE ShareStep(t)
  <2>1. CASE call[t].op = "package"
    <3>1. LoadScope(t) \/ LoadProfile(t)
      BY <1>7, <2>1 DEF ShareStep, WriteShareFileToDb, DropShareRow, QuerySharedFileInfoByUserId,
                        CheckFirst, CheckAgain, CheckNext, SetShared, UnsetShared, At
    <3> QED
      BY <1>1, <1>2, <2>1, <3>1, PackageDone DEF SoFar, Active
  <2>2. CASE call[t].op # "package"
    <3>1. call[t].op \notin {"revoke", "erase"}
      BY <1>1, <1>7, ShareStepsMove DEF TypeInv, Args, Active, LoadScope, LoadProfile
    <3> QED
      BY <1>2, <2>2, <3>1 DEF SoFar, Promise, Returns
  <2> QED
    BY <2>1, <2>2
<1> QED
  BY <1>3, <1>4, <1>5, <1>6, <1>7 DEF Accesses

(* The others leave what a handler that runs alone relies on.                *)
LEMMA AroundSoFar ==
  ASSUME TypeInv, NEW t \in Threads, Active(t), SoFar(t), BundleChanges \/ Open \/ UNCHANGED vars
  PROVE  SoFar(t)' /\ call' = call
<1>1. call' = call /\ rows' = rows /\ ugc' = ugc /\ rules' = rules /\ shareMap' = shareMap
  BY DEF BundleChanges, Open, vars, Tables
<1>2. opened' \subseteq opened \cup rules
  BY DEF BundleChanges, Open, vars
<1>3. call[t].op = "revoke" => RevokedSoFar(t)'
  BY <1>1 DEF SoFar, RevokedSoFar
<1>4. call[t].op = "erase" => ErasedSoFar(t)'
  BY <1>1, <1>2 DEF SoFar, ErasedSoFar
<1>5. call[t].op = "package" => RefreshedSoFar(t)'
  BY <1>1 DEF SoFar, RefreshedSoFar, NotLoaded, LoadedUpTo
<1> QED
  BY <1>1, <1>3, <1>4, <1>5 DEF SoFar

(* Every step keeps what has been done, and every return keeps its promise.  *)
LEMMA NextSoFar ==
  ASSUME TypeInv, AloneInv, MapShape, SoFarInv, [Next]_vars
  PROVE  SoFarInv' /\ \A t \in Threads : call[t].clean /\ call'[t].clean => Promise(t)
<1> SUFFICES ASSUME NEW t \in Threads
             PROVE  /\ Active(t)' /\ call'[t].clean => SoFar(t)'
                    /\ call[t].clean /\ call'[t].clean => Promise(t)
  BY DEF SoFarInv
<1>1. CASE BundleChanges \/ Open \/ UNCHANGED vars
  <2>1. call' = call
    BY <1>1 DEF BundleChanges, Open, vars
  <2>2. Promise(t)
    BY <2>1 DEF Promise, Returns
  <2>3. Active(t) /\ call[t].clean => SoFar(t)'
    BY <1>1, AroundSoFar DEF SoFarInv
  <2> QED
    BY <2>1, <2>2, <2>3 DEF Active
<1>2. ASSUME NEW u \in Threads, Starts(u)
      PROVE  /\ Active(t)' /\ call'[t].clean => SoFar(t)'
             /\ call[t].clean /\ call'[t].clean => Promise(t)
  <2>1. PICK op, pc, args : Fresh(op, pc, args) /\ Begin(u, op, pc, args)
    BY <1>2 DEF Starts
  <2>2. CASE t = u
    <3>1. call[t].pc = "done"
      BY <2>1, <2>2 DEF Begin
    <3> QED
      BY <1>2, <2>2, <3>1, StartSoFar DEF Promise, Returns
  <2>3. CASE t # u
    <3>1. \A v \in Threads \ {u} :
            /\ call'[v].pc = call[v].pc /\ call'[v].op = call[v].op
            /\ call'[v].user = call[v].user /\ call'[v].bundle = call[v].bundle
            /\ call'[v].load = call[v].load /\ call'[v].rest = call[v].rest
            /\ call[v].pc # "done" => call'[v].clean = FALSE
      BY <2>1, StartFields, Zenon
    <3>2. call'[t].pc = call[t].pc /\ (call[t].pc # "done" => call'[t].clean = FALSE)
      BY <2>3, <3>1
    <3> QED
      BY <3>2 DEF Active, Promise, Returns
  <2> QED
    BY <2>2, <2>3
<1>3. ASSUME NEW u \in Threads, Accesses(u)
      PROVE  /\ Active(t)' /\ call'[t].clean => SoFar(t)'
             /\ call[t].clean /\ call'[t].clean => Promise(t)
  <2>1. Active(u) /\ Moves(u)
    BY <1>3, AccessMoves
  <2>2. CASE t = u
    <3>1. call'[t].clean => call[t].clean
      BY <2>1, <2>2 DEF Moves, Follows, TypeInv, TypeOK
    <3>2. call[t].clean => SoFar(t)
      BY <2>1, <2>2 DEF SoFarInv
    <3>3. call[t].clean /\ call'[t].clean =>
            (call'[t].pc # "done" => SoFar(t)') /\ Promise(t)
      BY <1>3, <2>2, <3>2, StepSoFar
    <3> QED
      BY <3>1, <3>3 DEF Active
  <2>3. CASE t # u
    <3>1. call'[t] = call[t]
      BY <2>1, <2>3, OthersStay
    <3>2. ~(Active(t) /\ call[t].clean)
      BY <2>1, <2>3 DEF AloneInv, Active
    <3> QED
      BY <3>1, <3>2 DEF Active, Promise, Returns
  <2> QED
    BY <2>2, <2>3
<1>4. CASE Restart
  <2>1. call'[t].pc = "done" /\ call'[t].op = "none"
    BY <1>4 DEF Restart, Idle
  <2> QED
    BY <2>1 DEF Active, Promise, Returns
<1> QED
  BY <1>1, <1>2, <1>3, <1>4, NextKinds

(* OK means done: of a handler that ran alone, and that the kernel refused   *)
(* nothing, a revocation ended every access, an erasure left nothing of the  *)
(* token, and a module update left exactly the profile it read in the share  *)
(* map, or nothing when it could not read it.                                *)
THEOREM OkIsHonest == Spec => OkMeansDone
<1>1. Init => AloneInv /\ MapShape /\ SoFarInv
  <2> SUFFICES ASSUME Init PROVE AloneInv /\ MapShape /\ SoFarInv
    OBVIOUS
  <2>1. \A t \in Threads : call[t].pc = "done"
    BY DEF Init, Idle
  <2>2. MapShape
    BY DEF Init, MapShape
  <2> QED
    BY <2>1, <2>2 DEF AloneInv, SoFarInv, Active
<1>2. TypeInv /\ AloneInv /\ MapShape /\ SoFarInv /\ [Next]_vars =>
        [\A t \in Threads : call[t].clean /\ call'[t].clean =>
           /\ Returns(t, "revoke", "ok") => AccessEnded(call[t].k, call[t].pols)
           /\ Returns(t, "erase", "ok") => Erased(call[t].k)
           /\ Returns(t, "package", "ok") =>
                Refreshed(call[t].bundle, call[t].user, call[t].profile)]_vars
  BY NextSoFar DEF Promise
<1> QED
  BY <1>1, <1>2, InitTyped, NextTyped, NextAlone, NextShape, NextSoFar, PTL DEF Spec, OkMeansDone

-----------------------------------------------------------------------------
(***************************************************************************)
(* The share map is whole.                                                 *)
(***************************************************************************)
(* A handler stays as it is, as far as the share map is concerned.           *)
SameLoader(u) ==
  /\ call'[u].pc = call[u].pc /\ call'[u].user = call[u].user
  /\ call'[u].load = call[u].load /\ call'[u].rest = call[u].rest

(* The share map stays, and so do the bundles that are torn.                 *)
MapStays == shareMap' = shareMap /\ bounds'.torn = bounds.torn

(* A step of a handler that has nothing to load before or after it.          *)
Rests(t) ==
  /\ MapStays /\ call'[t].pc # "load"
  /\ call[t].pc = "load" => call[t].load = {}

(* A step of a handler that reads profiles of its user.                      *)
Reads(t) ==
  /\ MapStays /\ call[t].pc # "load" /\ call'[t].pc = "load" /\ call'[t].load = {}
  /\ \E B \in SUBSET Bundles : call'[t].rest = {Declared(b, call'[t].user) : b \in B}

(* Only two steps write the map or tear a bundle.                            *)
LEMMA OthersTearNothing ==
  ASSUME TypeInv, NEW t \in Threads, Accesses(t), ~LoadScope(t), ~DeleteBundle(t)
  PROVE  MapStays
<1>1. bounds' = bounds \/ Fault
  <2>1. CASE GrantStep(t)
    BY <2>1 DEF GrantStep, GrantStore, GrantStoreFails, GrantSet, GrantRefused, GrantSetFails, FailAs
  <2>2. CASE RevokeStep(t)
    BY <2>2 DEF RevokeStep, RevokeModify, RevokeModifyFails, RevokeUnset, RevokeRefused,
                RevokeUnsetFails, RevokeKill, RevokeKillFails, FailAs
  <2>3. CASE EraseStep(t)
    BY <2>3 DEF EraseStep, EraseRows, EraseRules, RemoveUgcPermissionByTokenId, RemoveUgcFails,
                EraseKill, CancelPhotoUriPersistPermission, EraseFails, FailAs
  <2>4. CASE CleanStep(t)
    BY <2>4 DEF CleanStep, CleanFind, CleanPolicyOnMac, CleanFilter, CleanRemove
  <2>5. CASE ShareStep(t)
    BY <2>5 DEF ShareStep, WriteShareFileToDb, DropShareRow, QuerySharedFileInfoByUserId,
                CheckFirst, CheckAgain, CheckNext, SetShared, UnsetShared, LoadProfile
  <2>6. CASE PackageStep(t)
    BY <2>6 DEF PackageStep, CleanPolicyByPackageChanged, RemoveBundlePolicy, GetShareCfgByBundle,
                RefreshDone
  <2> QED
    BY <2>1, <2>2, <2>3, <2>4, <2>5, <2>6 DEF Accesses
<1>2. bounds \in Counts
  BY DEF TypeInv, TypeOK, Counts
<1>3. Fault => bounds'.torn = bounds.torn
  BY <1>2 DEF Fault, Count, Counts
<1> QED
  BY <1>1, <1>3, OthersKeepMap DEF MapStays

(* Where the decision on a row leads.                                        *)
LEMMA DecideIs ==
  ASSUME TypeInv, NEW t \in Threads, NEW item, NEW allowed, Decide(t, item, allowed)
  PROVE  call'[t].pc \in {"next", "set"}
<1> DEFINE left == call[t].found \ {item}
           pols == IF allowed /\ item.row.mode # {} THEN call[t].pols \cup {item.row}
                   ELSE call[t].pols
           pc == IF left # {} THEN "next" ELSE "set"
           c == [call[t] EXCEPT !.found = left, !.pols = pols, !.pc = pc]
<1>1. call[t] \in Handlers
  BY DEF TypeInv, TypeOK
<1>2. pc \in {"next", "set"}
  OBVIOUS
<1>3. call'[t] = c
  BY DEF Decide, Set, TypeInv, TypeOK
<1> HIDE DEF left, pols, pc
<1>4. c.pc = pc
  BY <1>1 DEF Handlers
<1> HIDE DEF c
<1> QED
  BY <1>2, <1>3, <1>4

(* Where a list of rows leads.                                               *)
LEMMA ListFoundIs ==
  ASSUME TypeInv, NEW t \in Threads, NEW found, ListFound(t, found)
  PROVE  call'[t].pc \in {"done", "check", "unset"}
<1>1. CASE Return(t, "ok")
  BY <1>1, ReturnIs
<1>2. CASE Set(t, [call[t] EXCEPT !.found = found,
                      !.pc = IF call[t].op = "gshare" THEN "check" ELSE "unset"])
  <2> DEFINE pc == IF call[t].op = "gshare" THEN "check" ELSE "unset"
             c == [call[t] EXCEPT !.found = found, !.pc = pc]
  <2>1. call'[t] = c
    BY <1>2 DEF Set, TypeInv, TypeOK
  <2>2. pc \in {"check", "unset"}
    OBVIOUS
  <2> HIDE DEF pc
  <2>3. call[t] \in Handlers
    BY DEF TypeInv, TypeOK
  <2>4. c.pc = pc
    BY <2>3 DEF Handlers
  <2> HIDE DEF c
  <2> QED
    BY <2>1, <2>2, <2>4
<1> QED
  BY <1>1, <1>2 DEF ListFound

(* The steps of a handler, as far as the share map is concerned.             *)
LEMMA MapKinds ==
  ASSUME TypeInv, TypeInv', NEW t \in Threads, Accesses(t)
  PROVE  Rests(t) \/ Reads(t) \/ LoadProfile(t) \/ LoadScope(t) \/ DeleteBundle(t)
<1> USE DEF At
<1>0. SUFFICES ASSUME ~LoadProfile(t), ~LoadScope(t), ~DeleteBundle(t)
               PROVE  Rests(t) \/ Reads(t)
  OBVIOUS
<1>1. Active(t) /\ Moves(t) /\ MapStays /\ call[t] \in Handlers
  BY <1>0, AccessMoves, OthersTearNothing DEF TypeInv, TypeOK
<1>2. call'[t].op = call[t].op
  BY <1>1 DEF Moves, Follows, TypeInv, TypeOK
<1>a. call'[t].pc # "load" /\ call[t].pc # "load" => Rests(t)
  BY <1>1 DEF Rests
<1>3. CASE call[t].op \notin {"gshare", "package", "added"}
  <2>1. call[t].pc # "load" /\ call'[t].pc # "load"
    BY <1>1, <1>2, <1>3 DEF TypeInv, Args, Active
  <2> QED
    BY <1>a, <2>1
<1>4. CASE call[t].op \in {"package", "added"}
  <2>1. CleanPolicyByPackageChanged(t) \/ GetShareCfgByBundle(t) \/ RefreshDone(t)
    <3>1. PackageStep(t)
      <4>1. ~GrantStep(t) /\ ~RevokeStep(t) /\ ~EraseStep(t) /\ ~CleanStep(t)
        BY <1>4, GrantStepsMove, RevokeStepsMove, EraseStepsMove, CleanStepsMove DEF TypeInv
      <4>2. ~ShareStep(t)
        BY <1>0, <1>4, ShareStepsMove
      <4> QED
        BY <4>1, <4>2 DEF Accesses
    <3>2. ~RemoveBundlePolicy(t)
      BY <1>4 DEF RemoveBundlePolicy
    <3> QED
      BY <1>0, <3>1, <3>2 DEF PackageStep
  <2>2. CASE CleanPolicyByPackageChanged(t)
    <3>1. call[t].pc = "destroy" /\ (Goto(t, "delete") \/ Return(t, "denied"))
      BY <2>2 DEF CleanPolicyByPackageChanged
    <3>2. call'[t].pc \in {"delete", "done"}
      BY <3>1, GotoIs, ReturnIs
    <3> QED
      BY <1>a, <3>1, <3>2
  <2>3. CASE RefreshDone(t)
    <3>1. call[t].load = {} /\ call'[t].pc = "done"
      BY <2>3, ReturnIs DEF RefreshDone, Loaded
    <3> QED
      BY <1>1, <3>1 DEF Rests
  <2>4. CASE GetShareCfgByBundle(t)
    <3>1. PICK b, p : b = call[t].bundle /\ p = profile[b][call[t].user]
      OBVIOUS
    <3>2. call[t].pc = "read"
      BY <2>4 DEF GetShareCfgByBundle
    <3>3. CASE Return(t, "ok")
      <4>1. call'[t].pc = "done"
        BY <3>3, ReturnIs
      <4> QED
        BY <1>a, <3>2, <4>1
    <3>4. CASE ReadProfiles(t, [call[t] EXCEPT !.profile = p], {b})
      <4> DEFINE c == [call[t] EXCEPT !.profile = p]
      <4>1. b \in Bundles /\ call[t].user \in Users
        BY <1>1, <1>4, <3>1 DEF TypeInv, Args, Active, PackageOps
      <4>2. p \in Profiles
        BY <3>1, <4>1 DEF TypeInv, TypeOK
      <4>3. c \in Handlers
        BY <1>1, <4>2 DEF Handlers
      <4>4. ReadProfiles(t, c, {b})
        BY <3>4
      <4> HIDE DEF c
      <4>5. /\ call'[t].pc = "load" /\ call'[t].load = {} /\ call'[t].user = c.user
            /\ call'[t].rest = {Declared(a, c.user) : a \in {b}}
        BY <4>3, <4>4, ReadIs
      <4>6. {b} \in SUBSET Bundles
        BY <4>1
      <4> QED
        BY <1>1, <3>2, <4>5, <4>6 DEF Reads
    <3> QED
      BY <2>4, <3>1, <3>3, <3>4 DEF GetShareCfgByBundle
  <2> QED
    BY <2>1, <2>2, <2>3, <2>4
<1>5. CASE call[t].op = "gshare"
  <2>1. \/ QuerySharedFileInfoByUserId(t) \/ CheckFirst(t) \/ CheckAgain(t) \/ CheckNext(t)
        \/ SetShared(t)
    <3>1. ShareStep(t)
      BY <1>5, GrantStepsMove, RevokeStepsMove, EraseStepsMove, CleanStepsMove, PackageStepsMove
         DEF TypeInv, Accesses, PackageOps
    <3> QED
      BY <1>0, <1>5, <3>1 DEF ShareStep, WriteShareFileToDb, DropShareRow, UnsetShared
  <2>2. CASE QuerySharedFileInfoByUserId(t)
    <3>1. call[t].pc = "list" /\ ((\E found : ListFound(t, found)) \/ Return(t, "db"))
      BY <2>2 DEF QuerySharedFileInfoByUserId
    <3>2. call'[t].pc \in {"done", "check", "unset"}
      BY <3>1, ListFoundIs, ReturnIs
    <3> QED
      BY <1>a, <3>1, <3>2
  <2>3. CASE CheckFirst(t)
    <3>1. PICK item \in call[t].found :
            \/ \E allowed : Decide(t, item, allowed)
            \/ ReadProfiles(t, [call[t] EXCEPT !.bundle = item.bundle], BundlesOf(call[t].user))
      BY <2>3, Zenon DEF CheckFirst
    <3>2. call[t].pc = "check"
      BY <2>3 DEF CheckFirst
    <3>3. CASE \E allowed : Decide(t, item, allowed)
      <4>1. call'[t].pc \in {"next", "set"}
        BY <3>3, DecideIs
      <4> QED
        BY <1>a, <3>2, <4>1
    <3>4. CASE ReadProfiles(t, [call[t] EXCEPT !.bundle = item.bundle], BundlesOf(call[t].user))
      <4> DEFINE c == [call[t] EXCEPT !.bundle = item.bundle]
                 B == BundlesOf(call[t].user)
      <4>1. item.bundle \in Bundles
        BY <1>1, HandlerFields
      <4>2. c \in Handlers
        BY <1>1, <4>1 DEF Handlers
      <4>3. ReadProfiles(t, c, B) /\ B \in SUBSET Bundles
        BY <3>4, BundlesAre
      <4> HIDE DEF c, B
      <4>4. /\ call'[t].pc = "load" /\ call'[t].load = {} /\ call'[t].user = c.user
            /\ call'[t].rest = {Declared(b, c.user) : b \in B}
        BY <4>2, <4>3, ReadIs
      <4> QED
        BY <1>1, <3>2, <4>3, <4>4 DEF Reads
    <3> QED
      BY <3>1, <3>3, <3>4
  <2>4. CASE CheckAgain(t)
    <3>1. call[t].load = {}
      BY <2>4 DEF CheckAgain, Loaded
    <3>2. call'[t].pc \in {"next", "set"}
      BY <2>4, DecideIs DEF CheckAgain
    <3> QED
      BY <1>1, <3>1, <3>2 DEF Rests
  <2>5. CASE CheckNext(t)
    <3>1. call[t].pc = "next"
      BY <2>5 DEF CheckNext
    <3>2. call'[t].pc \in {"next", "set"}
      BY <2>5, DecideIs DEF CheckNext
    <3> QED
      BY <1>a, <3>1, <3>2
  <2>6. CASE SetShared(t)
    <3>1. call[t].pc = "set" /\ call'[t].pc = "done"
      BY <2>6, ReturnIs DEF SetShared
    <3> QED
      BY <1>a, <3>1
  <2> QED
    BY <2>1, <2>2, <2>3, <2>4, <2>5, <2>6
<1> QED
  BY <1>3, <1>4, <1>5

(* A handler loads the declared items of one bundle of its user after the    *)
(* other, in their order; of a profile that is not valid it has an item that *)
(* is not until it is through with it.                                       *)
Remaining(b, u, load) ==
  /\ load \subseteq Declared(b, u)
  /\ \A i \in load, j \in Declared(b, u) : i.at <= j.at => j \in load
  /\ load # {} /\ (\E i \in Declared(b, u) : ~GoodItem(i)) => \E i \in load : ~GoodItem(i)

LoadsDeclared(t) ==
  call[t].pc = "load" =>
    /\ call[t].load # {} => \E b \in Bundles : Remaining(b, call[t].user, call[t].load)
    /\ \A S \in call[t].rest : \E b \in Bundles : S = Declared(b, call[t].user)

(* Handler t of user u is going to load item i.                              *)
OnWay(t, u, i) == call[t].pc = "load" /\ call[t].user = u /\ i \in call[t].load

InMap(m, i) == ItemPath(i) \in DOMAIN m /\ m[ItemPath(i)] = ItemMode(i)
Settled(m, u, i) == InMap(m, i) \/ \E t \in Threads : OnWay(t, u, i)

(* The map m of a bundle and user u whose profile, with the items D, is      *)
(* valid: nothing is loaded and who loads it is about to start, or of every  *)
(* path the last item is in the map or on its way.  Of a torn bundle that    *)
(* holds only of the paths the map has.                                      *)
Starting(D, u) == \A t \in Threads : (\E i \in D : OnWay(t, u, i)) => call[t].load = D

WholeMap(D, u, m) ==
  \/ m = Unset /\ Starting(D, u)
  \/ D # {} /\ \A i \in D : LatestIn(D, i) => Settled(m, u, i)

Shaped(D, m) == m = [x \in DOMAIN m |-> m[x]] /\ DOMAIN m \subseteq {ItemPath(i) : i \in D}

PartMap(D, u, m) ==
  \/ m = Unset
  \/ Shaped(D, m) /\ \A i \in D : LatestIn(D, i) /\ ItemPath(i) \in DOMAIN m => Settled(m, u, i)

(* The map of a profile that is not valid: what is in it will be taken out.  *)
BadMap(D, u, m) == m = Unset \/ \E t \in Threads, i \in D : ~GoodItem(i) /\ OnWay(t, u, i)

UserMap(b, u) ==
  /\ (\E i \in Declared(b, u) : ~GoodItem(i)) => BadMap(Declared(b, u), u, shareMap[b][u])
  /\ (\A i \in Declared(b, u) : GoodItem(i)) =>
       /\ PartMap(Declared(b, u), u, shareMap[b][u])
       /\ b \notin bounds.torn => WholeMap(Declared(b, u), u, shareMap[b][u])

LoadersRight == \A t \in Threads : LoadsDeclared(t)
MapsRight == \A b \in Bundles, u \in Users : UserMap(b, u)
MapInv == bounds.updates = 0 => LoadersRight /\ MapsRight

(* The declared items.                                                       *)
LEMMA DeclaredAre ==
  ASSUME TypeInv, NEW b \in Bundles, NEW u \in Users
  PROVE  /\ \A i \in Declared(b, u) : i.bundle = b /\ i.at \in Nat
         /\ \A i, j \in Declared(b, u) : i.at = j.at => i = j
<1>1. profile[b][u] \in Profiles
  BY DEF TypeInv, TypeOK
<1> QED
  BY <1>1, ItemsAre DEF Declared

(* What is on the way stays on the way, and what handler t has got to load   *)
(* of D for user u, it has got as a whole.                                   *)
HandsOn(t, u, D) ==
  /\ \A i \in D : OnWay(t, u, i) => OnWay(t, u, i)'
  /\ (\E i \in D : OnWay(t, u, i)') =>
       \/ call'[t].load = D
       \/ call'[t].load = call[t].load /\ \E i \in D : OnWay(t, u, i)

(* A step that leaves the map of a bundle and user keeps it right.           *)
LEMMA ElsewhereKeeps ==
  ASSUME NEW b \in Bundles, NEW u \in Users, UserMap(b, u), profile' = profile,
         shareMap'[b][u] = shareMap[b][u], b \in bounds'.torn <=> b \in bounds.torn,
         \A t \in Threads : HandsOn(t, u, Declared(b, u))
  PROVE  UserMap(b, u)'
<1>1. PICK D, m : D = Declared(b, u) /\ m = shareMap[b][u]
  OBVIOUS
<1>2. Declared(b, u)' = D /\ shareMap'[b][u] = m
  BY <1>1 DEF Declared
<1>3. \A i \in D, t \in Threads : OnWay(t, u, i) => OnWay(t, u, i)'
  BY <1>1 DEF HandsOn
<1>4. BadMap(D, u, m) => BadMap(D, u, m)'
  BY <1>3 DEF BadMap
<1>5. \A i \in D : Settled(m, u, i) => Settled(m, u, i)'
  BY <1>3 DEF Settled
<1>6. Starting(D, u) => Starting(D, u)'
  <2> SUFFICES ASSUME Starting(D, u), NEW t \in Threads, \E i \in D : OnWay(t, u, i)'
               PROVE  call'[t].load = D
    BY DEF Starting
  <2> QED
    BY <1>1 DEF HandsOn, Starting
<1>7. WholeMap(D, u, m) => WholeMap(D, u, m)'
  BY <1>5, <1>6 DEF WholeMap
<1>8. PartMap(D, u, m) => PartMap(D, u, m)'
  BY <1>5 DEF PartMap
<1>9. /\ (\E i \in D : ~GoodItem(i)) => BadMap(D, u, m)
      /\ (\A i \in D : GoodItem(i)) => /\ PartMap(D, u, m)
                                       /\ b \notin bounds.torn => WholeMap(D, u, m)
  BY <1>1 DEF UserMap
<1>10. /\ (\E i \in D : ~GoodItem(i)) => BadMap(D, u, m)'
       /\ (\A i \in D : GoodItem(i)) => /\ PartMap(D, u, m)'
                                        /\ b \notin bounds'.torn => WholeMap(D, u, m)'
  BY <1>4, <1>7, <1>8, <1>9
<1> QED
  BY <1>2, <1>10 DEF UserMap

(* A handler that stays where it is.                                         *)
LEMMA SameHandsOn ==
  ASSUME NEW t \in Threads, NEW u, NEW D, SameLoader(t)
  PROVE  HandsOn(t, u, D)
  BY DEF HandsOn, OnWay, SameLoader

(* A bundle that is deleted while nobody is halfway through it is not loaded *)
(* at all; else it is torn.                                                  *)
LEMMA DeleteKeeps ==
  ASSUME TypeInv, LoadersRight, NEW t \in Threads, NEW b \in Bundles, NEW u \in Users,
         Deleted(t, b), profile' = profile, \A v \in Threads \ {t} : SameLoader(v),
         \A i : ~OnWay(t, u, i)'
  PROVE  UserMap(b, u)'
<1>1. shareMap'[b][u] = Unset
  BY DEF Deleted
<1>2. PICK D : D = Declared(b, u) /\ Declared(b, u)' = D
  BY DEF Declared
<1>3. ASSUME b \notin bounds'.torn
      PROVE  Starting(D, u)'
  <2> SUFFICES ASSUME NEW v \in Threads, NEW i \in D, OnWay(v, u, i)'
               PROVE  call'[v].load = D
    BY DEF Starting
  <2>1. v # t
    OBVIOUS
  <2>2. call[v].pc = "load" /\ call[v].user = u /\ i \in call[v].load /\ call'[v].load = call[v].load
    BY <2>1 DEF OnWay, SameLoader
  <2>3. i.bundle = b
    BY <1>2, DeclaredAre
  <2>4. ~Halfway(v, b)
    BY <1>3, <2>1 DEF Deleted
  <2> QED
    BY <1>2, <2>2, <2>3, <2>4 DEF Halfway
<1>4. BadMap(D, u, Unset)' /\ PartMap(D, u, Unset)'
  BY DEF BadMap, PartMap
<1>5. b \notin bounds'.torn => WholeMap(D, u, Unset)'
  BY <1>3 DEF WholeMap
<1> QED
  BY <1>1, <1>2, <1>4, <1>5 DEF UserMap

(* Loading a good scope of b.                                                *)
LEMMA LoadKeeps ==
  ASSUME TypeInv, NEW t \in Threads, NEW b \in Bundles, NEW o \in Users, UserMap(b, o),
         profile' = profile, \A v \in Threads \ {t} : SameLoader(v), call[t].pc = "load",
         call[t].user = o, Remaining(b, o, call[t].load), NEW item, Loads(t, item), GoodItem(item)
  PROVE  UserMap(b, o)'
<1>1. PICK D, m, load, n : /\ D = Declared(b, o) /\ m = shareMap[b][o]
                           /\ load = call[t].load /\ n = shareMap'[b][o]
  OBVIOUS
<1>2. Declared(b, o)' = D
  BY <1>1 DEF Declared
<1>3. /\ item \in load /\ load \subseteq D /\ item \in D /\ item.bundle = b
      /\ \A i, j \in D : i \in load /\ i.at <= j.at => j \in load
      /\ \A i \in D : i.at \in Nat
  BY <1>1, DeclaredAre DEF Remaining, Loads
<1>4. /\ call'[t].pc = "load" /\ call'[t].user = o /\ call'[t].load = load \ {item}
      /\ n = Add(m, ItemPath(item), ItemMode(item)) /\ bounds'.torn = bounds.torn
  BY <1>1, <1>3 DEF Loads
<1>5. DOMAIN n = DOMAIN m \cup {ItemPath(item)} /\ n = [x \in DOMAIN n |-> n[x]]
  BY <1>4 DEF Add
<1>6. InMap(n, item)
  BY <1>4 DEF InMap, Add
<1>7. \A i \in load \ {item} : Settled(n, o, i)'
  BY <1>4 DEF Settled, OnWay
<1>8. ASSUME NEW i \in D \ load, LatestIn(D, i), Settled(m, o, i)
      PROVE  Settled(n, o, i)'
  <2>1. ItemPath(i) # ItemPath(item)
    BY <1>3, <1>8 DEF LatestIn
  <2>2. CASE InMap(m, i)
    BY <1>4, <2>1, <2>2 DEF InMap, Add, Settled
  <2>3. ASSUME NEW v \in Threads, OnWay(v, o, i)
        PROVE  OnWay(v, o, i)'
    <3>1. v # t
      BY <1>1, <1>8, <2>3 DEF OnWay
    <3> QED
      BY <2>3, <3>1 DEF OnWay, SameLoader
  <2> QED
    BY <1>8, <2>2, <2>3 DEF Settled
<1>9. \A i \in D : LatestIn(D, i) /\ Settled(m, o, i) => Settled(n, o, i)'
  BY <1>6, <1>7, <1>8 DEF Settled
<1>10. ASSUME \E i \in D : ~GoodItem(i)
       PROVE  BadMap(D, o, n)'
  <2>1. PICK i \in load : ~GoodItem(i)
    BY <1>1, <1>3, <1>10 DEF Remaining
  <2>2. i \in D /\ OnWay(t, o, i)'
    BY <1>3, <1>4, <2>1 DEF OnWay
  <2> QED
    BY <2>1, <2>2 DEF BadMap
<1>11. ASSUME \A i \in D : GoodItem(i)
       PROVE  PartMap(D, o, n)' /\ (b \notin bounds'.torn => WholeMap(D, o, n)')
  <2>1. PartMap(D, o, m) /\ (b \notin bounds.torn => WholeMap(D, o, m))
    BY <1>1, <1>11 DEF UserMap
  <2>2. Shaped(D, n)
    <3>1. DOMAIN m \subseteq {ItemPath(i) : i \in D}
      <4>1. CASE m = Unset
        BY <4>1 DEF Unset
      <4> QED
        BY <2>1, <4>1 DEF PartMap, Shaped
    <3> QED
      BY <1>3, <1>5, <3>1 DEF Shaped
  <2>3. ASSUME NEW i \in D, LatestIn(D, i), ItemPath(i) \in DOMAIN n
        PROVE  Settled(n, o, i)'
    <3>1. CASE i \in load
      BY <1>6, <1>7, <3>1 DEF Settled
    <3>2. CASE i \notin load
      <4>1. ItemPath(i) # ItemPath(item)
        BY <1>3, <2>3, <3>2 DEF LatestIn
      <4>2. ItemPath(i) \in DOMAIN m
        BY <1>5, <2>3, <4>1
      <4>3. m # Unset
        BY <4>2 DEF Unset
      <4>4. Settled(m, o, i)
        BY <2>1, <2>3, <4>2, <4>3 DEF PartMap
      <4> QED
        BY <1>9, <2>3, <4>4
    <3> QED
      BY <3>1, <3>2
  <2>4. PartMap(D, o, n)'
    BY <2>2, <2>3 DEF PartMap
  <2>5. ASSUME b \notin bounds.torn, NEW i \in D, LatestIn(D, i)
        PROVE  Settled(n, o, i)'
    <3>1. CASE m = Unset /\ Starting(D, o)
      <4>1. OnWay(t, o, item)
        BY <1>1, <1>3 DEF OnWay
      <4>2. load = D
        BY <1>1, <1>3, <3>1, <4>1 DEF Starting
      <4> QED
        BY <1>6, <1>7, <4>2 DEF Settled
    <3>2. CASE \A j \in D : LatestIn(D, j) => Settled(m, o, j)
      BY <1>9, <2>5, <3>2
    <3> QED
      BY <2>1, <2>5, <3>1, <3>2 DEF WholeMap
  <2>6. b \notin bounds'.torn => WholeMap(D, o, n)'
    BY <1>3, <1>4, <2>5 DEF WholeMap
  <2> QED
    BY <2>4, <2>6
<1> QED
  BY <1>1, <1>2, <1>10, <1>11 DEF UserMap

(* Only the bundle manager changes what it has.                              *)
LEMMA ProfileStays ==
  ASSUME NEW t \in Threads, Accesses(t)
  PROVE  profile' = profile
<1> USE DEF Outside
<1>1. CASE GrantStep(t)
  BY <1>1 DEF GrantStep, GrantStore, GrantStoreFails, GrantSet, GrantRefused, GrantSetFails, FailAs
<1>2. CASE RevokeStep(t)
  BY <1>2 DEF RevokeStep, RevokeModify, RevokeModifyFails, RevokeUnset, RevokeRefused, RevokeUnsetFails,
              RevokeKill, RevokeKillFails, FailAs
<1>3. CASE EraseStep(t)
  BY <1>3 DEF EraseStep, EraseRows, EraseRules, RemoveUgcPermissionByTokenId, RemoveUgcFails,
              EraseKill, CancelPhotoUriPersistPermission, EraseFails, FailAs
<1>4. CASE CleanStep(t)
  BY <1>4 DEF CleanStep, CleanFind, CleanPolicyOnMac, CleanFilter, CleanRemove
<1>5. CASE ShareStep(t)
  BY <1>5 DEF ShareStep, WriteShareFileToDb, DropShareRow, QuerySharedFileInfoByUserId, CheckFirst,
              CheckAgain, CheckNext, SetShared, UnsetShared, LoadProfile, LoadScope
<1>6. CASE PackageStep(t)
  BY <1>6 DEF PackageStep, CleanPolicyByPackageChanged, RemoveBundlePolicy, DeleteBundle,
              GetShareCfgByBundle, RefreshDone
<1> QED
  BY <1>1, <1>2, <1>3, <1>4, <1>5, <1>6 DEF Accesses

(* An access leaves every handler with declared items to load, and the map   *)
(* of every bundle and user right.                                           *)
LEMMA AccessMap ==
  ASSUME TypeInv, TypeInv', MapShape, NEW t \in Threads, Accesses(t), LoadersRight, MapsRight
  PROVE  LoadsDeclared(t)' /\ MapsRight'
<1>1. profile' = profile /\ \A b, u : Declared(b, u)' = Declared(b, u)
  BY ProfileStays DEF Declared
<1>2. \A v \in Threads \ {t} : SameLoader(v)
  BY AccessMoves, OthersStay DEF SameLoader
<1>3. \A u, D : \A v \in Threads \ {t} : HandsOn(v, u, D)
  BY <1>2, SameHandsOn
<1>4. ASSUME NEW b \in Bundles, NEW u \in Users, shareMap'[b][u] = shareMap[b][u],
             b \in bounds'.torn <=> b \in bounds.torn, HandsOn(t, u, Declared(b, u))
      PROVE  UserMap(b, u)'
  <2>1. \A v \in Threads : HandsOn(v, u, Declared(b, u))
    BY <1>3, <1>4
  <2>2. UserMap(b, u)
    BY DEF MapsRight
  <2> QED
    BY <1>1, <1>4, <2>1, <2>2, ElsewhereKeeps
<1>5. CASE Rests(t)
  <2>1. \A b \in Bundles, u \in Users : HandsOn(t, u, Declared(b, u))
    BY <1>5 DEF Rests, HandsOn, OnWay
  <2>2. MapsRight'
    BY <1>4, <1>5, <2>1 DEF Rests, MapStays, MapsRight
  <2> QED
    BY <1>5, <2>2 DEF Rests, LoadsDeclared
<1>6. CASE Reads(t)
  <2>1. /\ MapStays /\ call[t].pc # "load" /\ call'[t].pc = "load" /\ call'[t].load = {}
        /\ \E B \in SUBSET Bundles : call'[t].rest = {Declared(b, call'[t].user) : b \in B}
    BY <1>6 DEF Reads
  <2>2. \A b \in Bundles, u \in Users : HandsOn(t, u, Declared(b, u))
    BY <2>1 DEF HandsOn, OnWay
  <2>3. MapsRight'
    BY <1>4, <2>1, <2>2 DEF MapStays, MapsRight
  <2>4. LoadsDeclared(t)'
    BY <1>1, <2>1 DEF LoadsDeclared
  <2> QED
    BY <2>3, <2>4
<1>7. CASE LoadProfile(t)
  <2>1. PICK next \in call[t].rest :
          /\ call[t].load = {} /\ call'[t].load = next /\ call'[t].rest = call[t].rest \ {next}
          /\ call'[t].pc = "load" /\ call'[t].user = call[t].user
    BY <1>7, LoadProfileIs
  <2>2. call[t].pc = "load" /\ call[t].user \in Users /\ bounds' = bounds /\ shareMap' = shareMap
    BY <1>7, LoaderArgs DEF LoadProfile
  <2>3. PICK user \in Users : user = call[t].user
    BY <2>2
  <2>4. PICK c \in Bundles : next = Declared(c, user)
    BY <2>1, <2>2, <2>3 DEF LoadersRight, LoadsDeclared
  <2>5. ASSUME NEW b \in Bundles, NEW u \in Users
        PROVE  HandsOn(t, u, Declared(b, u))
    <3>1. \A i : ~OnWay(t, u, i)
      BY <2>1 DEF OnWay
    <3>2. ASSUME NEW i \in Declared(b, u), OnWay(t, u, i)'
          PROVE  next = Declared(b, u)
      <4>1. u = user /\ i \in next
        BY <2>1, <2>3, <3>2 DEF OnWay
      <4>2. i.bundle = b /\ i.bundle = c
        BY <2>4, <3>2, <4>1, DeclaredAre
      <4> QED
        BY <2>4, <4>1, <4>2
    <3> QED
      BY <2>1, <3>1, <3>2 DEF HandsOn
  <2>6. MapsRight'
    BY <1>4, <2>2, <2>5 DEF MapsRight
  <2>7. Remaining(c, user, next)'
    BY <1>1, <2>4 DEF Remaining
  <2>8. \A S \in call'[t].rest : \E b \in Bundles : S = Declared(b, user)
    BY <2>1, <2>2, <2>3 DEF LoadersRight, LoadsDeclared
  <2>9. LoadsDeclared(t)'
    BY <1>1, <2>1, <2>3, <2>7, <2>8 DEF LoadsDeclared
  <2> QED
    BY <2>6, <2>9
<1>8. CASE LoadScope(t)
  <2>1. PICK item : Loads(t, item)
    BY <1>8, LoadScopeIs
  <2>2. call[t].pc = "load"
    BY <1>8 DEF LoadScope
  <2>3. PICK user \in Users : user = call[t].user
    BY <2>2, LoaderArgs
  <2>4. PICK c \in Bundles : Remaining(c, user, call[t].load)
    BY <2>1, <2>2, <2>3 DEF LoadersRight, LoadsDeclared, Loads
  <2>5. item \in Declared(c, user) /\ item.bundle = c /\ item \in call[t].load
    BY <2>1, <2>4, DeclaredAre DEF Loads, Remaining
  <2>6. /\ call'[t].pc = "load" /\ call'[t].rest = call[t].rest /\ call'[t].user = user
        /\ call'[t].load \subseteq call[t].load
    BY <2>1, <2>3 DEF Loads
  <2>7. ASSUME NEW b \in Bundles, NEW u \in Users, b # c
        PROVE  UserMap(b, u)'
    <3>1. shareMap'[b] = shareMap[b] /\ (b \in bounds'.torn <=> b \in bounds.torn)
      BY <2>1, <2>5, <2>7 DEF Loads, Deleted
    <3>2. \A i \in Declared(b, u) : i \notin call[t].load
      BY <2>4, <2>7, DeclaredAre DEF Remaining
    <3>3. HandsOn(t, u, Declared(b, u))
      BY <2>6, <3>2 DEF HandsOn, OnWay
    <3> QED
      BY <1>4, <3>1, <3>3
  <2>8. ASSUME NEW u \in Users
        PROVE  UserMap(c, u)'
    <3>1. CASE ~GoodItem(item)
      <4>1. call'[t].load = {} /\ Deleted(t, c)
        BY <2>1, <2>5, <3>1 DEF Loads
      <4> QED
        BY <1>1, <1>2, <4>1, DeleteKeeps DEF OnWay
    <3>2. CASE GoodItem(item) /\ u = user
      <4>1. UserMap(c, u)
        BY DEF MapsRight
      <4> QED
        BY <1>1, <1>2, <2>1, <2>2, <2>3, <2>4, <3>2, <4>1, LoadKeeps
    <3>3. CASE GoodItem(item) /\ u # user
      <4>1. shareMap'[c][u] = shareMap[c][u] /\ bounds'.torn = bounds.torn
        BY <2>1, <2>3, <2>5, <3>3 DEF Loads
      <4>2. HandsOn(t, u, Declared(c, u))
        BY <2>3, <2>6, <3>3 DEF HandsOn, OnWay
      <4> QED
        BY <1>4, <4>1, <4>2
    <3> QED
      BY <3>1, <3>2, <3>3
  <2>9. LoadsDeclared(t)'
    <3>1. Remaining(c, user, call[t].load)'
      <4>1. PICK D, load : D = Declared(c, user) /\ load = call[t].load
        OBVIOUS
      <4>2. /\ load \subseteq D /\ \A i \in load, j \in D : i.at <= j.at => j \in load
            /\ load # {} /\ (\E i \in D : ~GoodItem(i)) => \E i \in load : ~GoodItem(i)
        BY <2>4, <4>1 DEF Remaining
      <4>3. CASE GoodItem(item)
        <5>1. call'[t].load = load \ {item} /\ item \in load
          BY <2>1, <4>1, <4>3 DEF Loads
        <5>2. \A i \in load \ {item}, j \in D : i.at <= j.at => j \in load \ {item}
          <6>1. \A i \in load : item.at <= i.at /\ i.at \in Nat /\ (i.at = item.at => i = item)
            BY <2>1, <2>5, <4>1, <4>2, DeclaredAre DEF Loads
          <6> QED
            BY <4>2, <5>1, <6>1
        <5>3. (\E i \in D : ~GoodItem(i)) => \E i \in load \ {item} : ~GoodItem(i)
          BY <4>2, <4>3, <5>1
        <5>4. load \ {item} \subseteq D
          BY <4>2
        <5> QED
          BY <1>1, <4>1, <5>1, <5>2, <5>3, <5>4 DEF Remaining
      <4>4. CASE ~GoodItem(item)
        <5>1. call'[t].load = {}
          BY <2>1, <4>4 DEF Loads
        <5> QED
          BY <5>1 DEF Remaining
      <4> QED
        BY <4>3, <4>4
    <3>2. \A S \in call'[t].rest : \E b \in Bundles : S = Declared(b, user)
      BY <2>2, <2>3, <2>6 DEF LoadersRight, LoadsDeclared
    <3> QED
      BY <1>1, <2>6, <3>1, <3>2 DEF LoadsDeclared
  <2>10. MapsRight'
    BY <2>7, <2>8 DEF MapsRight
  <2> QED
    BY <2>9, <2>10
<1>9. CASE DeleteBundle(t)
  <2>1. call'[t].pc # "load" /\ call[t].pc = "delete"
    BY <1>9, GotoIs, ReturnIs DEF DeleteBundle
  <2>2. PICK c \in Bundles : c = call[t].bundle /\ Deleted(t, c)
    BY <1>9, DeleteBundleIs
  <2>3. ASSUME NEW b \in Bundles, NEW u \in Users, b # c
        PROVE  UserMap(b, u)'
    <3>1. HandsOn(t, u, Declared(b, u))
      BY <2>1 DEF HandsOn, OnWay
    <3>2. shareMap'[b] = shareMap[b] /\ (b \in bounds'.torn <=> b \in bounds.torn)
      BY <2>2, <2>3 DEF Deleted
    <3> QED
      BY <1>4, <3>1, <3>2
  <2>4. ASSUME NEW u \in Users
        PROVE  UserMap(c, u)'
    BY <1>1, <1>2, <2>1, <2>2, DeleteKeeps DEF OnWay
  <2>5. MapsRight'
    BY <2>3, <2>4 DEF MapsRight
  <2> QED
    BY <2>1, <2>5 DEF LoadsDeclared
<1> QED
  BY <1>5, <1>6, <1>7, <1>8, <1>9, MapKinds

(* A nonempty set of numbers has a least one.                                *)
LEMMA LeastPlace ==
  ASSUME NEW T, T \subseteq Nat, T # {}
  PROVE  \E x \in T : \A y \in T : x <= y
<1> DEFINE R == OpToRel(<, Nat)
<1>1. IsWellFoundedOn(R, Nat) /\ \A x, y \in Nat : y < x => <<y, x>> \in R
  BY NatLessThanWellFounded DEF OpToRel
<1> HIDE DEF R
<1>2. PICK x \in T : \A y \in T : <<y, x>> \notin R
  BY <1>1, WFMin
<1>3. \A y \in T : ~(y < x)
  BY <1>1, <1>2, Zenon
<1> QED
  BY <1>2, <1>3

(* Of the items with one path one is the latest.                             *)
LEMMA LatestExists ==
  ASSUME TypeInv, NEW b \in Bundles, NEW u \in Users, NEW i \in Declared(b, u)
  PROVE  \E j \in Declared(b, u) : ItemPath(j) = ItemPath(i) /\ LatestIn(Declared(b, u), j)
<1>1. PICK D, n : D = Declared(b, u) /\ n = Len(profile[b][u].scopes) + 1
  OBVIOUS
<1>2. n \in Nat /\ \A j \in D : j.at \in Nat /\ j.at <= n
  <2>1. profile[b][u] \in Profiles
    BY DEF TypeInv, TypeOK
  <2> QED
    BY <1>1, <2>1, ItemsAre, GrantAssumption DEF Declared, GrantAssumption
<1> DEFINE Same == {j \in D : ItemPath(j) = ItemPath(i)}
           T == {n - j.at : j \in Same}
<1>3. T \subseteq Nat /\ T # {}
  BY <1>1, <1>2
<1>4. PICK x \in T : \A y \in T : x <= y
  BY <1>3, LeastPlace
<1>5. PICK j \in Same : x = n - j.at
  BY <1>4
<1>6. ASSUME NEW k \in D, ItemPath(k) = ItemPath(j)
      PROVE  k.at <= j.at
  <2>1. n - k.at \in T
    BY <1>5, <1>6
  <2>2. n - j.at <= n - k.at
    BY <1>4, <1>5, <2>1
  <2> QED
    BY <1>2, <1>5, <2>2
<1> QED
  BY <1>1, <1>5, <1>6 DEF LatestIn

(* The items of a map that holds the latest item of each path.               *)
LEMMA HoldsLatest ==
  ASSUME TypeInv, NEW b \in Bundles, NEW u \in Users, NEW m, Declared(b, u) # {},
         Shaped(Declared(b, u), m),
         \A i \in Declared(b, u) : LatestIn(Declared(b, u), i) => InMap(m, i)
  PROVE  Holds(m, Declared(b, u))
<1>1. PICK D : D = Declared(b, u)
  OBVIOUS
<1>2. \A i \in D : \E j \in D : ItemPath(j) = ItemPath(i) /\ LatestIn(D, j) /\ InMap(m, j)
  BY <1>1, LatestExists
<1>3. DOMAIN m = {ItemPath(i) : i \in D}
  BY <1>1, <1>2 DEF InMap, Shaped
<1> QED
  BY <1>1, <1>2, <1>3 DEF Holds, InMap, Shaped

(* What Load makes of a good profile has the latest item of each path.       *)
LEMMA LoadHasLatest ==
  ASSUME TypeInv, NEW b \in Bundles, NEW u \in Users, \A i \in Declared(b, u) : GoodItem(i)
  PROVE  \/ Declared(b, u) = {} /\ Load(b, u) = Unset
         \/ /\ Declared(b, u) # {} /\ Shaped(Declared(b, u), Load(b, u))
            /\ \A i \in Declared(b, u) :
                 LatestIn(Declared(b, u), i) => InMap(Load(b, u), i)
<1> DEFINE items == Declared(b, u)
           Latest(path) == CHOOSE i \in items :
                             ItemPath(i) = path /\ \A j \in items : ItemPath(j) = path => j.at <= i.at
<1>1. /\ \A i \in items : i.at \in Nat
      /\ \A i, j \in items : i.at = j.at => i = j
  BY DeclaredAre
<1>2. Load(b, u) = IF items = {} \/ \E i \in items : ~GoodItem(i) THEN Unset
                   ELSE [path \in {ItemPath(i) : i \in items} |-> ItemMode(Latest(path))]
  BY DEF Load
<1>3. CASE items = {}
  BY <1>2, <1>3
<1>4. CASE items # {}
  <2>1. ASSUME NEW i \in items, LatestIn(items, i)
        PROVE  Latest(ItemPath(i)) = i
    <3>1. PICK path : path = ItemPath(i)
      OBVIOUS
    <3>2. \E k \in items : ItemPath(k) = path /\ \A j \in items : ItemPath(j) = path => j.at <= k.at
      BY <2>1, <3>1 DEF LatestIn
    <3>3. /\ Latest(path) \in items /\ ItemPath(Latest(path)) = path
          /\ \A j \in items : ItemPath(j) = path => j.at <= Latest(path).at
      BY <3>2, Zenon
    <3>4. PICK l : l = Latest(path)
      OBVIOUS
    <3>5. l \in items /\ l.at <= i.at /\ i.at <= l.at
      BY <2>1, <3>1, <3>3, <3>4 DEF LatestIn
    <3>6. l = i
      BY <1>1, <2>1, <3>5
    <3> QED
      BY <3>1, <3>4, <3>6
  <2> HIDE DEF Latest
  <2>2. Load(b, u) = [path \in {ItemPath(i) : i \in items} |-> ItemMode(Latest(path))]
    BY <1>2, <1>4
  <2> HIDE DEF items
  <2>3. Shaped(items, Load(b, u))
    BY <2>2 DEF Shaped
  <2>4. \A i \in items : LatestIn(items, i) => InMap(Load(b, u), i)
    BY <2>1, <2>2 DEF InMap
  <2> QED
    BY <1>4, <2>3, <2>4 DEF items
<1> QED
  BY <1>3, <1>4

(* After a restart a user's profiles are loaded or not.                      *)
LEMMA RestartKeeps ==
  ASSUME TypeInv, NEW b \in Bundles, NEW u \in Users, Restart
  PROVE  UserMap(b, u)'
<1>1. PICK D, m : D = Declared(b, u) /\ m = shareMap'[b][u]
  OBVIOUS
<1>2. Declared(b, u)' = D
  BY <1>1 DEF Restart, Outside, Declared
<1>3. m \in {Unset, Load(b, u)}
  <2>1. PICK v : shareMap' = InitShareMap(v)
    BY DEF Restart
  <2> QED
    BY <1>1, <2>1 DEF InitShareMap
<1>4. \A t \in Threads : call'[t].pc = "done"
  BY DEF Restart, Idle
<1>5. Starting(D, u)'
  BY <1>4 DEF Starting, OnWay
<1>6. CASE m = Unset
  BY <1>1, <1>2, <1>5, <1>6 DEF UserMap, BadMap, PartMap, WholeMap
<1>7. CASE m # Unset
  <2>1. m = Load(b, u)
    BY <1>3, <1>7
  <2>2. \A i \in D : GoodItem(i)
    BY <1>1, <1>7, <2>1 DEF Load
  <2>3. D # {} /\ Shaped(D, m) /\ \A i \in D : LatestIn(D, i) => InMap(m, i)
    BY <1>1, <1>7, <2>1, <2>2, LoadHasLatest
  <2>4. PartMap(D, u, m)' /\ WholeMap(D, u, m)'
    BY <2>3 DEF PartMap, WholeMap, Settled
  <2> QED
    BY <1>1, <1>2, <2>2, <2>4 DEF UserMap
<1> QED
  BY <1>6, <1>7

(* No step disturbs the map.                                                 *)
LEMMA NextMap ==
  ASSUME TypeInv, TypeInv', MapShape, MapInv, [Next]_vars
  PROVE  MapInv'
<1> SUFFICES ASSUME bounds'.updates = 0
             PROVE  LoadersRight' /\ MapsRight'
  BY DEF MapInv
<1>0. bounds \in Counts
  BY DEF TypeInv, TypeOK, Counts
<1>1. ~BundleChanges
  BY <1>0 DEF BundleChanges, Count, Counts
<1>2. ASSUME bounds.updates = 0, bounds'.torn = bounds.torn, profile' = profile, shareMap' = shareMap,
             \A t \in Threads : \/ SameLoader(t)
                                \/ call[t].pc = "done" /\ call'[t].pc # "load"
      PROVE  LoadersRight' /\ MapsRight'
  <2>1. \A b, u : Declared(b, u)' = Declared(b, u)
    BY <1>2 DEF Declared
  <2>2. ASSUME NEW b \in Bundles, NEW u \in Users
        PROVE  UserMap(b, u)'
    <3>1. ASSUME NEW t \in Threads
          PROVE  HandsOn(t, u, Declared(b, u))
      <4>1. CASE SameLoader(t)
        BY <4>1, SameHandsOn
      <4>2. CASE call[t].pc = "done" /\ call'[t].pc # "load"
        BY <4>2 DEF HandsOn, OnWay
      <4> QED
        BY <1>2, <4>1, <4>2
    <3>2. UserMap(b, u)
      BY <1>2 DEF MapInv, MapsRight
    <3> QED
      BY <1>2, <3>1, <3>2, ElsewhereKeeps
  <2>3. ASSUME NEW t \in Threads
        PROVE  LoadsDeclared(t)'
    BY <1>2, <2>1 DEF MapInv, LoadersRight, LoadsDeclared, Remaining, SameLoader
  <2> QED
    BY <2>2, <2>3 DEF LoadersRight, MapsRight
<1>3. CASE Open \/ UNCHANGED vars
  <2>1. bounds' = bounds /\ call' = call /\ profile' = profile /\ shareMap' = shareMap
    BY <1>3 DEF Open, vars
  <2> QED
    BY <1>2, <2>1 DEF SameLoader
<1>4. ASSUME NEW t \in Threads, Starts(t)
      PROVE  LoadersRight' /\ MapsRight'
  <2>1. PICK op, pc, args : Fresh(op, pc, args) /\ Begin(t, op, pc, args)
    BY <1>4 DEF Starts
  <2>2. \A u \in Threads \ {t} :
          /\ call'[u].pc = call[u].pc /\ call'[u].op = call[u].op
          /\ call'[u].user = call[u].user /\ call'[u].bundle = call[u].bundle
          /\ call'[u].load = call[u].load /\ call'[u].rest = call[u].rest
          /\ call[u].pc # "done" => call'[u].clean = FALSE
    BY <2>1, StartFields, Zenon
  <2>3. bounds'.updates = bounds.updates /\ bounds'.torn = bounds.torn
    BY <1>0, <2>1 DEF Begin, Counts
  <2>4. call[t].pc = "done" /\ call'[t].pc # "load"
    <3>1. call[t].pc = "done"
      BY <2>1 DEF Begin
    <3>2. call'[t].pc = pc
      BY <2>1, StartOwn
    <3>3. pc # "load"
      BY <2>1 DEF Fresh
    <3> QED
      BY <3>1, <3>2, <3>3
  <2>5. profile' = profile /\ shareMap' = shareMap
    BY <2>1 DEF Begin, Outside
  <2> QED
    BY <1>2, <2>2, <2>3, <2>4, <2>5 DEF SameLoader
<1>5. ASSUME NEW t \in Threads, Accesses(t)
      PROVE  LoadersRight' /\ MapsRight'
  <2>1. Ticks
    BY <1>5, AccessMoves
  <2>2. bounds.updates = 0
    BY <1>0, <2>1 DEF Ticks, Fault, Count, Counts
  <2>3. LoadersRight /\ MapsRight
    BY <2>2 DEF MapInv
  <2>4. LoadsDeclared(t)' /\ MapsRight'
    BY <1>5, <2>3, AccessMap
  <2>5. \A b, u : Declared(b, u)' = Declared(b, u)
    BY <1>5, ProfileStays DEF Declared
  <2>6. \A u \in Threads \ {t} : call'[u] = call[u]
    BY <1>5, AccessMoves, OthersStay
  <2>7. \A u \in Threads \ {t} : LoadsDeclared(u)'
    BY <2>3, <2>5, <2>6 DEF LoadersRight, LoadsDeclared, Remaining
  <2> QED
    BY <2>4, <2>7 DEF LoadersRight
<1>6. CASE Restart
  <2>1. \A t \in Threads : call'[t].pc = "done"
    BY <1>6 DEF Restart, Idle
  <2> QED
    BY <1>6, <2>1, RestartKeeps DEF LoadersRight, LoadsDeclared, MapsRight
<1> QED
  BY <1>1, <1>3, <1>4, <1>5, <1>6, NextKinds

(* The invariant implies the property.                                       *)
LEMMA MapInvIsWhole ==
  ASSUME TypeInv, MapInv
  PROVE  MapIsWhole
<1> SUFFICES ASSUME bounds.updates = 0, \A t \in Threads : call[t].pc # "load",
                    NEW b \in Bundles, NEW u \in Users
             PROVE  IF b \in bounds.torn THEN PartOf(shareMap[b][u], Load(b, u))
                    ELSE shareMap[b][u] \in {Unset, Load(b, u)}
  BY DEF MapIsWhole
<1>1. PICK D, m : D = Declared(b, u) /\ m = shareMap[b][u]
  OBVIOUS
<1>2. UserMap(b, u)
  BY DEF MapInv, MapsRight
<1>3. PartOf(Unset, Load(b, u))
  BY DEF PartOf, Unset
<1>4. CASE \E i \in D : ~GoodItem(i)
  <2>1. m = Unset
    BY <1>1, <1>2, <1>4 DEF UserMap, BadMap, OnWay
  <2> QED
    BY <1>1, <1>3, <2>1
<1>5. CASE (\A i \in D : GoodItem(i)) /\ m # Unset
  <2>1. /\ Shaped(D, m)
        /\ \A i \in D : LatestIn(D, i) /\ ItemPath(i) \in DOMAIN m => InMap(m, i)
        /\ b \notin bounds.torn => D # {} /\ \A i \in D : LatestIn(D, i) => InMap(m, i)
    BY <1>1, <1>2, <1>5 DEF UserMap, PartMap, WholeMap, Settled, OnWay
  <2>2. CASE b \in bounds.torn
    <3>1. ASSUME NEW x \in DOMAIN m
          PROVE  x \in DOMAIN Load(b, u) /\ m[x] = Load(b, u)[x]
      <4>1. PICK i \in D : x = ItemPath(i)
        BY <2>1 DEF Shaped
      <4>2. PICK j \in D : ItemPath(j) = x /\ LatestIn(D, j)
        BY <1>1, <4>1, LatestExists
      <4>3. InMap(m, j) /\ InMap(Load(b, u), j)
        BY <1>1, <1>5, <2>1, <3>1, <4>2, LoadHasLatest
      <4> QED
        BY <4>2, <4>3 DEF InMap
    <3> QED
      BY <1>1, <2>2, <3>1 DEF PartOf
  <2>3. CASE b \notin bounds.torn
    <3>1. Holds(m, D)
      BY <1>1, <2>1, <2>3, HoldsLatest
    <3>2. profile[b][u] \in Profiles
      BY DEF TypeInv, TypeOK
    <3>3. m = Load(b, u)
      BY <1>1, <1>5, <3>1, <3>2, HoldsAll
    <3> QED
      BY <1>1, <2>3, <3>3
  <2> QED
    BY <2>2, <2>3
<1> QED
  BY <1>1, <1>3, <1>4, <1>5

(* As long as no profile changes, whenever nothing is being loaded the share *)
(* map has the whole profile of a bundle and user or nothing of it, and a    *)
(* part of it when the bundle was deleted halfway through a load.            *)
THEOREM MapStaysWhole == Spec => []MapIsWhole
<1>1. Init => MapShape /\ MapInv
  <2> SUFFICES ASSUME Init PROVE MapShape /\ MapInv
    OBVIOUS
  <2>1. \A t \in Threads : call[t].pc = "done"
    BY DEF Init, Idle
  <2>2. shareMap = [b \in Bundles |-> [u \in Users |-> Unset]]
    BY DEF Init
  <2>3. LoadersRight
    BY <2>1 DEF LoadersRight, LoadsDeclared
  <2>4. MapsRight
    BY <2>1, <2>2 DEF MapsRight, UserMap, BadMap, PartMap, WholeMap, Starting, OnWay
  <2> QED
    BY <2>2, <2>3, <2>4 DEF MapShape, MapInv
<1> QED
  BY <1>1, InitTyped, NextTyped, NextShape, NextMap, MapInvIsWhole, PTL DEF Spec

-----------------------------------------------------------------------------
(***************************************************************************)
(* What a profile shares, it declares (ProcessShareFileInfo). "/base/..."  *)
(* and "/el2/base/..." are two spellings of one directory: the scope that  *)
(* decides is found by the long form, the directory is composed from the   *)
(* path as it was written.                                                 *)
(***************************************************************************)
(* Short sequences.                                                          *)
LEMMA TwoLong ==
  ASSUME NEW S, NEW a \in S, NEW b \in S
  PROVE  <<a, b>> \in Seq(S) /\ Len(<<a, b>>) = 2 /\ <<a, b>>[1] = a /\ <<a, b>>[2] = b
  OBVIOUS

(* A sequence with two pieces put before what follows its first one ...      *)
LEMMA PutBefore ==
  ASSUME NEW S, NEW x \in Seq(S), Len(x) >= 3, NEW a \in S, NEW b \in S
  PROVE  LET y == <<a, b>> \o Tail(x) IN
         /\ y \in Seq(S) /\ Len(y) = Len(x) + 1 /\ y[1] = a /\ y[2] = b
         /\ \A i \in 3..Len(y) : y[i] = x[i - 1]
<1>0. PICK n \in Nat : n = Len(x)
  BY LenProperties
<1>1. PICK h, z, y : n = Len(x) /\ h = <<a, b>> /\ z = Tail(x) /\ y = h \o z
  BY <1>0
<1>2. h \in Seq(S) /\ Len(h) = 2 /\ h[1] = a /\ h[2] = b
  BY <1>1, TwoLong, Zenon
<1>3. z \in Seq(S) /\ Len(z) = n - 1 /\ \A i \in 1..n - 1 : z[i] = x[i + 1]
  BY <1>1
<1>4. /\ y \in Seq(S) /\ Len(y) = n + 1
      /\ \A i \in 1..n + 1 : y[i] = IF i <= 2 THEN h[i] ELSE z[i - 2]
  <2>1. /\ y \in Seq(S) /\ Len(y) = Len(h) + Len(z)
        /\ \A i \in 1..Len(h) + Len(z) : y[i] = IF i <= Len(h) THEN h[i] ELSE z[i - Len(h)]
    BY <1>1, <1>2, <1>3, ConcatProperties
  <2>2. Len(h) + Len(z) = n + 1
    BY <1>2, <1>3
  <2> QED
    BY <1>2, <2>1, <2>2, Zenon
<1>5. y[1] = h[1] /\ y[2] = h[2]
  BY <1>1, <1>4
<1>6. ASSUME NEW i \in 3..n + 1 PROVE y[i] = x[i - 1]
  <2>1. y[i] = z[i - 2]
    BY <1>4
  <2>2. z[i - 2] = x[i - 2 + 1]
    BY <1>3
  <2> QED
    BY <2>1, <2>2
<1> QED
  BY <1>1, <1>2, <1>4, <1>5, <1>6, Zenon

(* Five pieces.                                                              *)
LEMMA FiveLong ==
  ASSUME NEW S, NEW a \in S, NEW b \in S, NEW c \in S, NEW d \in S, NEW e \in S
  PROVE  <<a, b, c, d, e>> \in Seq(S)
  OBVIOUS

(* Concatenation is associative.                                             *)
LEMMA Associates ==
  ASSUME NEW S, NEW a \in Seq(S), NEW b \in Seq(S), NEW c \in Seq(S)
  PROVE  (a \o b) \o c = a \o (b \o c)
  BY ConcatAssociative

(* Four texts, regrouped; the provers use it by a name.                      *)
Regroups(s, c, d, v) == s \o c \o (d \o v) = s \o (c \o d) \o v

LEMMA Regroup ==
  ASSUME NEW S, NEW s \in Seq(S), NEW c \in Seq(S), NEW d \in Seq(S), NEW v \in Seq(S)
  PROVE  Regroups(s, c, d, v)
<1>1. PICK x \in Seq(S) : x = s \o c
  BY ConcatProperties
<1>2. (x \o d) \o v = x \o (d \o v)
  BY ONLY <1>1, d \in Seq(S), v \in Seq(S), Associates, SMTT(30)
<1>3. (s \o c) \o d = s \o (c \o d)
  BY ONLY s \in Seq(S), c \in Seq(S), d \in Seq(S), Associates, SMTT(30)
<1> QED
  BY <1>1, <1>2, <1>3, Zenon DEF Regroups

(* One piece more ...                                                        *)
LEMMA AddOne ==
  ASSUME NEW S, NEW u \in Seq(S), NEW d \in S
  PROVE  /\ u \o <<d>> \in Seq(S) /\ Len(u \o <<d>>) = Len(u) + 1
         /\ \A i \in 1..Len(u) : (u \o <<d>>)[i] = u[i]
         /\ (u \o <<d>>)[Len(u) + 1] = d
  OBVIOUS

(* ... makes three pieces four.                                              *)
LEMMA FourLong ==
  ASSUME NEW S, NEW a \in S, NEW b \in S, NEW c \in S, NEW d \in S
  PROVE  <<a, b, c>> \o <<d>> = <<a, b, c, d>>
<1>1. PICK u, w, n : u = <<a, b, c>> /\ w = <<a, b, c, d>> /\ n = 3
  OBVIOUS
<1>2. /\ u \in Seq(S) /\ Len(u) = n /\ u[1] = a /\ u[2] = b /\ u[3] = c
      /\ w \in Seq(S) /\ Len(w) = n + 1 /\ w[1] = a /\ w[2] = b /\ w[3] = c /\ w[4] = d
  BY <1>1
<1>3. PICK v : v = u \o <<d>>
  OBVIOUS
<1>4. /\ v \in Seq(S) /\ Len(v) = n + 1 /\ \A i \in 1..n : v[i] = u[i]
      /\ v[n + 1] = d
  BY <1>2, <1>3, AddOne
<1>5. v[1] = u[1] /\ v[2] = u[2] /\ v[3] = u[3] /\ v[4] = d
  BY <1>1, <1>4
<1>6. \A i \in 1..Len(v) : v[i] = w[i]
  <2>1. ASSUME NEW i \in 1..4 PROVE v[i] = w[i]
    <3>1. i = 1 \/ i = 2 \/ i = 3 \/ i = 4
      OBVIOUS
    <3> QED
      BY <1>2, <1>5, <3>1, Zenon
  <2> QED
    BY <1>1, <1>4, <2>1
<1>7. v = w
  BY <1>2, <1>4, <1>6, SeqEqual
<1> QED
  BY <1>1, <1>3, <1>7, Zenon
(* ... has the same pieces one place later ...                               *)
LEMMA SameTail ==
  ASSUME NEW S, NEW x \in Seq(S), NEW y \in Seq(S),
         Len(x) >= 3, Len(y) = Len(x) + 1, \A i \in 3..Len(y) : y[i] = x[i - 1]
  PROVE  SubSeq(y, 4, Len(y)) = <<x[3]>> \o SubSeq(x, 4, Len(x))
<1>1. PICK n \in Nat : n = Len(x)
  BY LenProperties
<1>2. SubSeq(x, 3, n) = <<x[3]>> \o SubSeq(x, 4, n)
  BY <1>1, SubSeqRecursiveFirst
<1>3. /\ SubSeq(x, 3, n) \in Seq(S) /\ Len(SubSeq(x, 3, n)) = n - 2
      /\ \A i \in 1..n - 2 : SubSeq(x, 3, n)[i] = x[3 + i - 1]
  BY <1>1, SubSeqProperties
<1>4. /\ SubSeq(y, 4, n + 1) \in Seq(S) /\ Len(SubSeq(y, 4, n + 1)) = n - 2
      /\ \A i \in 1..n - 2 : SubSeq(y, 4, n + 1)[i] = y[4 + i - 1]
  BY <1>1, SubSeqProperties
<1>5. ASSUME NEW i \in 1..n - 2 PROVE y[4 + i - 1] = x[3 + i - 1]
  BY <1>1
<1>6. \A i \in 1..n - 2 : SubSeq(y, 4, n + 1)[i] = SubSeq(x, 3, n)[i]
  BY <1>3, <1>4, <1>5
<1>7. SubSeq(y, 4, n + 1) = SubSeq(x, 3, n)
  BY <1>3, <1>4, <1>6, SeqEqual, Zenon
<1> QED
  BY <1>1, <1>2, <1>7

(* ... whatever comes before them ...                                        *)
SameEnd(start, c, x, y) ==
  start \o c \o SubSeq(y, 4, Len(y)) = start \o (c \o <<x[3]>>) \o SubSeq(x, 4, Len(x))

LEMMA SameAfter ==
  ASSUME NEW S, NEW x \in Seq(S), NEW y \in Seq(S), NEW start \in Seq(S), NEW c \in Seq(S),
         Len(x) >= 3, Len(y) = Len(x) + 1, \A i \in 3..Len(y) : y[i] = x[i - 1]
  PROVE  SameEnd(start, c, x, y)
<1>1. PICK k, v : k = <<x[3]>> /\ v = SubSeq(x, 4, Len(x))
  OBVIOUS
<1>2. SubSeq(y, 4, Len(y)) = k \o v
  BY <1>1, SameTail, Zenon
<1>3. v \in Seq(S) /\ k \in Seq(S)
  BY <1>1
<1>4. Regroups(start, c, k, v)
  BY <1>3, Regroup, Zenon
<1> QED
  BY <1>1, <1>2, <1>4, Zenon DEF SameEnd, Regroups

(* ... and the same pieces among those that are not allowed.                 *)
LEMMA SameSecure ==
  ASSUME NEW S, NEW x \in Seq(S), NEW y \in Seq(S), NEW Bad, y[2] \notin Bad,
         Len(x) >= 3, Len(y) = Len(x) + 1, \A i \in 3..Len(y) : y[i] = x[i - 1]
  PROVE  (\A i \in 2..Len(y) : y[i] \notin Bad) <=> (\A i \in 2..Len(x) : x[i] \notin Bad)
<1>1. ASSUME \A i \in 2..Len(y) : y[i] \notin Bad, NEW i \in 2..Len(x)
      PROVE  x[i] \notin Bad
  <2>1. i + 1 \in 3..Len(y) /\ i + 1 \in 2..Len(y) /\ i + 1 - 1 = i
    OBVIOUS
  <2>2. y[i + 1] = x[i + 1 - 1]
    BY <2>1
  <2> QED
    BY <1>1, <2>1, <2>2, Zenon
<1>2. ASSUME \A i \in 2..Len(x) : x[i] \notin Bad, NEW i \in 2..Len(y)
      PROVE  y[i] \notin Bad
  <2>1. CASE i = 2
    BY <2>1
  <2>2. CASE i # 2
    <3>1. i \in 3..Len(y) /\ i - 1 \in 2..Len(x)
      BY <2>2
    <3> QED
      BY <1>2, <3>1, Zenon
  <2> QED
    BY <2>1, <2>2
<1> QED
  BY <1>1, <1>2

(* The long form of a path means the same directory as the path, unless it   *)
(* has too many parts.                                                       *)
LEMMA LongFormComposes ==
  ASSUME NEW S, NEW x \in Seq(S), NEW name, Len(NormalizeBasePath(x)) - 1 <= MaxPartsFormat
  PROVE  PathCompose(NormalizeBasePath(x), name) = PathCompose(x, name)
<1>1. CASE ~(Len(x) >= 3 /\ x[1] = "" /\ x[2] = "base")
  BY <1>1, Zenon DEF NormalizeBasePath
<1>2. CASE Len(x) >= 3 /\ x[1] = "" /\ x[2] = "base"
  <2>1. PICK U : U = S \cup {"", "el2", "base", name, "storage", "Users", "currentUser", "appdata"}
    OBVIOUS
  <2>2. x \in Seq(U)
    <3>1. S \subseteq U
      BY <2>1, Zenon
    <3> QED
      BY <3>1
  <2>3. "" \in U /\ "el2" \in U /\ name \in U
    BY <2>1, Zenon
  <2>4. FullPathStart \in Seq(U)
    BY <2>1, FiveLong, Zenon DEF FullPathStart
  <2>5. PICK y : y = NormalizeBasePath(x)
    OBVIOUS
  <2>6. y = <<"", "el2">> \o Tail(x)
    BY <1>2, <2>5, Zenon DEF NormalizeBasePath
  <2>7. /\ y \in Seq(U) /\ Len(y) = Len(x) + 1 /\ y[1] = "" /\ y[2] = "el2"
        /\ \A i \in 3..Len(y) : y[i] = x[i - 1]
    <3>1. PICK e, l : e = "" /\ l = "el2"
      OBVIOUS
    <3>2. y = <<e, l>> \o Tail(x)
      BY <2>6, <3>1, Zenon
    <3>3. e \in U /\ l \in U /\ Len(x) >= 3
      BY <1>2, <2>3, <3>1, Zenon
    <3>4. /\ y \in Seq(U) /\ Len(y) = Len(x) + 1 /\ y[1] = e /\ y[2] = l
          /\ \A i \in 3..Len(y) : y[i] = x[i - 1]
      BY ONLY <2>2, <3>2, <3>3, PutBefore
    <3> QED
      BY <3>1, <3>4, Zenon
  <2>8. Len(x) - 1 \in MinPartsFormat..MaxPartsFormat /\ Len(y) - 1 \in MinPartsFormat..MaxPartsFormat
        /\ Len(x) >= 2 /\ Len(y) >= 2 /\ 3 \in 3..Len(y)
    <3>1. Len(x) >= 3 /\ Len(y) = Len(x) + 1 /\ Len(y) - 1 <= MaxPartsFormat /\ Len(x) \in Nat
      BY <1>2, <2>2, <2>5, <2>7, LenProperties, Zenon
    <3>2. PICK m \in Nat : m = Len(x)
      BY <3>1, Zenon
    <3>3. PICK n : n = Len(y)
      OBVIOUS
    <3>4. m >= 3 /\ n = m + 1 /\ n - 1 <= MaxPartsFormat
      BY <3>1, <3>2, <3>3, Zenon
    <3>5. m - 1 \in MinPartsFormat..MaxPartsFormat /\ n - 1 \in MinPartsFormat..MaxPartsFormat
          /\ m >= 2 /\ n >= 2 /\ 3 \in 3..n
      BY ONLY <3>4, m \in Nat DEF MinPartsFormat, MaxPartsFormat
    <3> QED
      BY <3>2, <3>3, <3>5, Zenon
  <2>9. y[2] \notin {"", ".", ".."}
    BY <2>7
  <2>10. IsPathSecure(y) <=> IsPathSecure(x)
    <3>1. (\A i \in 2..Len(y) : y[i] \notin {"", ".", ".."})
          <=> (\A i \in 2..Len(x) : x[i] \notin {"", ".", ".."})
      BY <1>2, <2>2, <2>7, <2>9, SameSecure, Zenon
    <3> QED
      BY <1>2, <2>7, <2>8, <3>1, Zenon DEF IsPathSecure
  <2>11. IsValidElNumber(y[2]) /\ ~IsValidElNumber(x[2])
    BY <1>2, <2>7 DEF IsValidElNumber
  <2>12. FullPathStart \o <<y[2], y[3], name>> \o SubSeq(y, 4, Len(y))
           = FullPathStart \o <<"el2", "base", name, x[3]>> \o SubSeq(x, 4, Len(x))
    <3>1. 3 \in 3..Len(y)
      BY <2>8, Zenon
    <3>2. y[3] = x[2]
      <4>1. y[3] = x[3 - 1]
        BY <2>7, <3>1, Zenon
      <4> QED
        BY ONLY <4>1
    <3>3. "base" \in U
      BY <2>1, Zenon
    <3>4. PICK l, b : l = "el2" /\ b = "base"
      OBVIOUS
    <3>5. l \in U /\ b \in U /\ name \in U /\ Len(x) >= 3
      BY <1>2, <2>3, <3>3, <3>4, Zenon
    <3>6. PICK start \in Seq(U) : start = FullPathStart
      BY <2>4, Zenon
    <3>7. Len(y) = Len(x) + 1 /\ (\A i \in 3..Len(y) : y[i] = x[i - 1]) /\ y \in Seq(U)
      BY <2>7, Zenon
    <3>8. PICK c : c = <<l, b, name>>
      OBVIOUS
    <3>9. c \in Seq(U)
      BY <3>5, <3>8
    <3>10. SameEnd(start, c, x, y)
      BY <2>2, <3>5, <3>7, <3>9, SameAfter, Zenon
    <3>11. c \o <<x[3]>> = <<l, b, name, x[3]>>
      <4>1. x[3] \in U
        BY <2>2, <3>5
      <4> QED
        BY <3>5, <3>8, <4>1, FourLong
    <3> QED
      BY <1>2, <2>7, <3>2, <3>4, <3>6, <3>8, <3>10, <3>11, Zenon DEF SameEnd
  <2>13. CASE IsPathSecure(x) /\ name # ""
    <3>1. PathCompose(y, name) = FullPathStart \o <<y[2], y[3], name>> \o SubSeq(y, 4, Len(y))
      BY <2>8, <2>10, <2>11, <2>13, Zenon DEF PathCompose
    <3>2. PathCompose(x, name) = FullPathStart \o <<"el2", "base", name, x[3]>> \o SubSeq(x, 4, Len(x))
      BY <1>2, <2>8, <2>11, <2>13, Zenon DEF PathCompose
    <3> QED
      BY <2>5, <2>12, <3>1, <3>2, Zenon
  <2>14. CASE ~IsPathSecure(x) \/ name = ""
    BY <2>5, <2>10, <2>14, Zenon DEF PathCompose
  <2> QED
    BY <2>13, <2>14, Zenon
<1> QED
  BY <1>1, <1>2, Zenon

(* Three parts make a sequence ...                                           *)
LEMMA JoinThree ==
  ASSUME NEW S, NEW a \in Seq(S), NEW b \in Seq(S), NEW c \in Seq(S)
  PROVE  a \o b \o c \in Seq(S)
  BY ConcatProperties

(* ... and so does what is composed.                                         *)
LEMMA ComposeIsSeq ==
  ASSUME NEW S, NEW x \in Seq(S), NEW name
  PROVE  \E T : PathCompose(x, name) \in Seq(T)
<1>1. CASE PathCompose(x, name) = <<>>
  BY <1>1
<1>2. CASE PathCompose(x, name) # <<>>
  <2>1. PICK n \in Nat : n = Len(x)
    BY LenProperties, Zenon
  <2>2. /\ Len(x) - 1 \in MinPartsFormat..MaxPartsFormat
        /\ \/ PathCompose(x, name) = FullPathStart \o <<x[2], x[3], name>> \o SubSeq(x, 4, Len(x))
           \/ PathCompose(x, name) =
                FullPathStart \o <<"el2", "base", name, x[3]>> \o SubSeq(x, 4, Len(x))
    BY <1>2, Zenon DEF PathCompose
  <2>3. 2 \in 1..n /\ 3 \in 1..n
    <3>1. n - 1 \in MinPartsFormat..MaxPartsFormat
      BY <2>1, <2>2, Zenon
    <3> QED
      BY ONLY <3>1, n \in Nat DEF MinPartsFormat, MaxPartsFormat
  <2>4. x[2] \in S /\ x[3] \in S
    BY <2>1, <2>3, ElementOfSeq, Zenon
  <2>5. PICK U : U = S \cup {"", "el2", "base", name, "storage", "Users", "currentUser", "appdata"}
    OBVIOUS
  <2>6. /\ "" \in U /\ "el2" \in U /\ "base" \in U /\ name \in U /\ x[2] \in U /\ x[3] \in U
        /\ "storage" \in U /\ "Users" \in U /\ "currentUser" \in U /\ "appdata" \in U
        /\ S \subseteq U
    BY <2>4, <2>5, Zenon
  <2>7. FullPathStart \in Seq(U)
    BY <2>6, FiveLong, Zenon DEF FullPathStart
  <2>8. PICK v : v = SubSeq(x, 4, Len(x))
    OBVIOUS
  <2>9. v \in Seq(U)
    <3>1. v \in Seq(S)
      BY <2>8
    <3> QED
      BY <2>6, <3>1, SeqMonotonic
  <2>10. <<x[2], x[3], name>> \in Seq(U) /\ <<"el2", "base", name, x[3]>> \in Seq(U)
    <3>1. PICK l, b, c, d : l = "el2" /\ b = "base" /\ c = x[2] /\ d = x[3]
      OBVIOUS
    <3>2. l \in U /\ b \in U /\ c \in U /\ d \in U /\ name \in U
      BY <2>6, <3>1, Zenon
    <3>3. <<c, d, name>> \in Seq(U) /\ <<l, b, name, d>> \in Seq(U)
      BY <3>2
    <3> QED
      BY <3>1, <3>3, Zenon
  <2>11. PathCompose(x, name) \in Seq(U)
    <3>1. PICK f, c, d : /\ f = FullPathStart
                         /\ c = <<x[2], x[3], name>> /\ d = <<"el2", "base", name, x[3]>>
      OBVIOUS
    <3>2. f \in Seq(U) /\ c \in Seq(U) /\ d \in Seq(U)
      BY <2>7, <2>10, <3>1, Zenon
    <3>3. f \o c \o v \in Seq(U) /\ f \o d \o v \in Seq(U)
      BY <2>9, <3>2, JoinThree
    <3> QED
      BY <2>2, <2>8, <3>1, <3>3, Zenon
  <2> QED
    BY <2>11
<1> QED
  BY <1>1, <1>2

(* A sequence is a prefix of every longer one that starts with it.           *)
LEMMA PrefixOfJoin ==
  ASSUME NEW S, NEW a \in Seq(S), NEW b \in Seq(S)
  PROVE  IsPrefix(a, a \o b)
<1>1. PICK n \in Nat, m \in Nat, c \in Seq(S) : n = Len(a) /\ m = Len(b) /\ c = a \o b
  BY LenProperties, ConcatProperties
<1>2. Len(c) = n + m /\ \A i \in 1..n : c[i] = a[i]
  BY <1>1, ConcatProperties
<1>3. n <= Len(c)
  BY <1>2
<1>4. SubSeq(a, 1, n) = a
  BY <1>1, SubSeqFull
<1>5. SubSeq(c, 1, n) = a
  <2>1. /\ SubSeq(c, 1, n) \in Seq(S) /\ Len(SubSeq(c, 1, n)) = n
        /\ \A i \in 1..n : SubSeq(c, 1, n)[i] = c[i]
    BY <1>2, <1>3
  <2>2. \A i \in 1..n : SubSeq(c, 1, n)[i] = a[i]
    BY <1>2, <2>1
  <2> QED
    BY <1>1, <2>1, <2>2, SeqEqual, Zenon
<1> QED
  BY <1>1, <1>3, <1>4, <1>5, Zenon DEF IsPrefix

(* The scope that decides about a shared path.                               *)
Decides(scope, path, permission) ==
  /\ NormalizeBasePath(scope.path) = NormalizeBasePath(path)
  /\ \/ scope.permission = permission
     \/ scope.permission = "r+w" /\ permission = "r"

LEMMA DecidingScope ==
  ASSUME NEW scopes, NEW path, NEW permission, Len(scopes) \in Nat,
         ValidateSharingOSPathAndPermission(scopes, path, permission)
  PROVE  \E i \in 1..Len(scopes) : Decides(scopes[i], path, permission)
<1> DEFINE I == {i \in 1..Len(scopes) : NormalizeBasePath(scopes[i].path) = NormalizeBasePath(path)}
           first == IF I # {} THEN Min(I) ELSE 0
<1>1. /\ first # 0
      /\ \/ scopes[first].permission = permission
         \/ scopes[first].permission = "r+w" /\ permission = "r"
  BY Zenon DEF ValidateSharingOSPathAndPermission, SelectInSeq
<1>2. I # {}
  BY <1>1, Zenon
<1>3. I \subseteq Nat
  OBVIOUS
<1>4. \E x \in I : \A y \in I : x <= y
  BY <1>2, <1>3, LeastPlace
<1>5. Min(I) \in I
  BY <1>4, Zenon DEF Min
<1> QED
  BY <1>1, <1>2, <1>5, Zenon DEF Decides

(* A profile as the parser leaves it.                                        *)
WellFormed(p) ==
  /\ Len(p.scopes) \in Nat /\ DOMAIN p.scopes = 1..Len(p.scopes)
  /\ \A i \in DOMAIN p.scopes : p.scopes[i].path \in Seq(STRING)
  /\ p.sharing # NoSharing => p.sharing.path \in Seq(STRING) /\ p.sharing.sub \in Seq(STRING)

(* The long form has one part more at most.                                  *)
LEMMA ShortBecomesLong ==
  ASSUME NEW S, NEW x \in Seq(S), Len(x) - 1 < MaxPartsFormat
  PROVE  Len(NormalizeBasePath(x)) - 1 <= MaxPartsFormat
<1>1. PICK n \in Nat : n = Len(x)
  BY LenProperties, Zenon
<1>2. Len(NormalizeBasePath(x)) = n \/ Len(NormalizeBasePath(x)) = n + 1
  <2>1. CASE Len(x) >= 3 /\ x[1] = "" /\ x[2] = "base"
    <3>1. PICK e, l, U : e = "" /\ l = "el2" /\ U = S \cup {"", "el2"}
      OBVIOUS
    <3>2. S \subseteq U /\ e \in U /\ l \in U /\ Len(x) >= 3
      BY <2>1, <3>1, Zenon
    <3>3. x \in Seq(U)
      BY <3>2
    <3>4. Len(<<e, l>> \o Tail(x)) = Len(x) + 1
      BY <3>2, <3>3, PutBefore
    <3> QED
      BY <1>1, <2>1, <3>1, <3>4, Zenon DEF NormalizeBasePath
  <2>2. CASE ~(Len(x) >= 3 /\ x[1] = "" /\ x[2] = "base")
    BY <1>1, <2>2, Zenon DEF NormalizeBasePath
  <2> QED
    BY <2>1, <2>2, Zenon
<1>3. PICK m : m = Len(NormalizeBasePath(x))
  OBVIOUS
<1>4. (m = n \/ m = n + 1) /\ n - 1 < MaxPartsFormat
  BY <1>1, <1>2, <1>3, Zenon
<1>5. m - 1 <= MaxPartsFormat
  BY ONLY <1>4, n \in Nat DEF MaxPartsFormat
<1> QED
  BY <1>3, <1>5, Zenon

(* What a profile shares, ProcessShareFileInfo only lets through when a      *)
(* scope of it declares it.                                                  *)
LEMMA SharingDeclared ==
  ASSUME NEW p, NEW b, WellFormed(p)
  PROVE  SharingIsDeclared(p, b)
<1> DEFINE s == p.sharing
           result == ProcessShareFileInfo(p, b)
           composed == PathCompose(s.path, b)
           rest == IF s.sub = <<>> THEN <<>> ELSE Tail(s.sub)
<1> SUFFICES ASSUME result.ret = "ok", Len(s.path) - 1 < MaxPartsFormat
             PROVE  DeclaredIn(p, b, result.row)
  BY Zenon DEF SharingIsDeclared
<1>1. /\ s # NoSharing /\ composed # <<>>
      /\ ValidateSharingOSPathAndPermission(p.scopes, s.path, s.permission)
      /\ result = [ret |-> "ok", row |-> [path |-> composed \o rest,
                                          mode |-> PermissionToMode(s.permission)]]
  BY DEF ProcessShareFileInfo
<1>2. result.row.path = composed \o rest /\ result.row.mode = PermissionToMode(s.permission)
  <2>1. PICK r, m, k : r = composed \o rest /\ m = PermissionToMode(s.permission) /\ k = "ok"
    OBVIOUS
  <2>2. result = [ret |-> k, row |-> [path |-> r, mode |-> m]]
    BY <1>1, <2>1, Zenon
  <2> HIDE DEF result
  <2>3. result.row.path = r /\ result.row.mode = m
    BY <2>2
  <2> QED
    BY <2>1, <2>3, Zenon
<1>3. s.path \in Seq(STRING) /\ s.sub \in Seq(STRING)
  BY <1>1, Zenon DEF WellFormed
<1>4. PICK i \in DOMAIN p.scopes : Decides(p.scopes[i], s.path, s.permission)
  <2>1. Len(p.scopes) \in Nat /\ DOMAIN p.scopes = 1..Len(p.scopes)
    BY DEF WellFormed
  <2> QED
    BY <1>1, <2>1, DecidingScope, Zenon
<1>5. PathCompose(p.scopes[i].path, b) = composed
  <2>1. p.scopes[i].path \in Seq(STRING)
    BY <1>4, Zenon DEF WellFormed
  <2>2. Len(NormalizeBasePath(s.path)) - 1 <= MaxPartsFormat
    BY <1>3, ShortBecomesLong, Zenon
  <2>3. PathCompose(NormalizeBasePath(s.path), b) = composed
    BY <1>3, <2>2, LongFormComposes, Zenon
  <2>4. PathCompose(NormalizeBasePath(p.scopes[i].path), b) = PathCompose(p.scopes[i].path, b)
    BY <1>4, <2>1, <2>2, LongFormComposes, Zenon DEF Decides
  <2> QED
    BY <1>4, <2>3, <2>4, Zenon DEF Decides
<1>6. IsPrefix(composed, composed \o rest)
  <2>1. PICK T : composed \in Seq(T)
    BY <1>3, ComposeIsSeq, Zenon
  <2>2. rest \in Seq(STRING)
    <3>1. PICK q \in Seq(STRING) : q = s.sub
      BY <1>3, Zenon
    <3>2. q # <<>> => Tail(q) \in Seq(STRING)
      BY HeadTailProperties
    <3>3. <<>> \in Seq(STRING)
      BY EmptySeq
    <3> QED
      BY <3>1, <3>2, <3>3, Zenon
  <2>3. PICK U : U = T \cup STRING
    OBVIOUS
  <2>4. composed \in Seq(U) /\ rest \in Seq(U)
    BY <2>1, <2>2, <2>3, SeqMonotonic
  <2> QED
    BY <2>4, PrefixOfJoin, Zenon
<1>7. PermissionToMode(s.permission) \subseteq PermissionToMode(p.scopes[i].permission)
  BY <1>4 DEF PermissionToMode, Decides
<1> QED
  BY <1>1, <1>2, <1>4, <1>5, <1>6, <1>7, Zenon DEF DeclaredIn

-----------------------------------------------------------------------------
(***************************************************************************)
(* Shared rights are declared.                                               *)
(***************************************************************************)
(* Some application of the user has a profile that leads to the row.         *)
OfUser(u, row) ==
  \E h \in Haps, p \in Profiles : UserOf[h] = u /\ MadeFrom(p, BundleOf[h], row)

(* What a grant of shared directories has listed and accepted are rows of    *)
(* its user.                                                                 *)
Gathers(t) ==
  Active(t) /\ call[t].op = "gshare" =>
    /\ \A i \in call[t].found : OfUser(call[t].user, i.row)
    /\ \A q \in call[t].pols : OfUser(call[t].user, q)

RowsMade ==
  \A k \in Tokens :
    shared[k] # NoRow =>
      k \in Haps /\ \E p \in Profiles : MadeFrom(p, BundleOf[k], shared[k])

RulesMade == \A r \in rules : r[2] \notin Policies => OfUser(UserOf[r[1]], r[2])

ScopeInv == RowsMade /\ RulesMade /\ \A t \in Threads : Gathers(t)

(* A row that was made is declared.                                          *)
LEMMA MadeIsDeclared ==
  ASSUME NEW b \in Bundles, NEW p \in Profiles, NEW row, MadeFrom(p, b, row)
  PROVE  DeclaredRow(b, row)
<1>1. WellFormed(p)
  <2>1. Len(p.scopes) \in Nat /\ DOMAIN p.scopes = 1..Len(p.scopes)
    BY GrantAssumption DEF GrantAssumption
  <2> QED
    BY <2>1, ProfileAssumption, Zenon DEF ProfileAssumption, WellFormed
<1> DEFINE result == ProcessShareFileInfo(p, b)
<1>2. result.ret = "ok" /\ row = result.row
  BY Zenon DEF MadeFrom
<1>3. p.sharing # NoSharing
  BY <1>2 DEF ProcessShareFileInfo
<1>4. PICK n \in Nat : n = Len(p.sharing.path)
  BY <1>1, <1>3, LenProperties, Zenon DEF WellFormed
<1>5. n - 1 < MaxPartsFormat \/ n - 1 >= MaxPartsFormat
  BY DEF MaxPartsFormat
<1>6. SharingIsDeclared(p, b)
  BY <1>1, SharingDeclared, Zenon
<1> QED
  BY <1>2, <1>4, <1>5, <1>6, Zenon DEF DeclaredRow, SharingIsDeclared

(* The invariant implies the property.                                       *)
LEMMA ScopeInvDeclares ==
  ASSUME TypeInv, ScopeInv
  PROVE  SharedIsWithinScope
<1>0. \A h \in Haps : BundleOf[h] \in Bundles
  BY GrantAssumption DEF GrantAssumption
<1>1. ASSUME NEW k \in Tokens, shared[k] # NoRow
      PROVE  k \in Haps /\ DeclaredRow(BundleOf[k], shared[k])
  BY <1>0, <1>1, MadeIsDeclared, Zenon DEF ScopeInv, RowsMade
<1>2. ASSUME NEW r \in rules, r[2] \notin Policies
      PROVE  \E h \in Haps : UserOf[h] = UserOf[r[1]] /\ DeclaredRow(BundleOf[h], r[2])
  BY <1>0, <1>2, MadeIsDeclared, Zenon DEF ScopeInv, RulesMade, OfUser
<1> QED
  BY <1>1, <1>2, Zenon DEF SharedIsWithinScope

(* The list of a user's rows.                                                *)
LEMMA ListIsOfUser ==
  ASSUME TypeInv, RowsMade, NEW u, NEW i \in SharedOf(u)
  PROVE  OfUser(u, i.row)
<1>1. PICK k \in Haps : UserOf[k] = u /\ shared[k] # NoRow /\ i.row = shared[k]
  BY DEF SharedOf
<1>2. k \in Tokens
  BY GrantAssumption DEF GrantAssumption
<1>3. PICK p \in Profiles : MadeFrom(p, BundleOf[k], shared[k])
  BY <1>1, <1>2, Zenon DEF RowsMade
<1> QED
  BY <1>1, <1>3, Zenon DEF OfUser

(* One decision adds at most the row decided about.                          *)
LEMMA DecideGathers ==
  ASSUME TypeInv, NEW t \in Threads, NEW item \in call[t].found, NEW allowed,
         Decide(t, item, allowed)
  PROVE  /\ call'[t].found \subseteq call[t].found
         /\ call'[t].pols \subseteq call[t].pols \cup {item.row}
<1> DEFINE left == call[t].found \ {item}
           pols == IF allowed /\ item.row.mode # {} THEN call[t].pols \cup {item.row}
                   ELSE call[t].pols
           pc == IF left # {} THEN "next" ELSE "set"
           c == [call[t] EXCEPT !.found = left, !.pols = pols, !.pc = pc]
<1>1. call[t] \in Handlers
  BY DEF TypeInv, TypeOK
<1>2. call' = [call EXCEPT ![t] = c]
  BY DEF Decide, Set
<1>3. left \subseteq call[t].found /\ pols \subseteq call[t].pols \cup {item.row}
  OBVIOUS
<1> HIDE DEF left, pols, pc
<1>4. c.found = left /\ c.pols = pols
  BY <1>1 DEF Handlers
<1> HIDE DEF c
<1>5. call'[t] = c
  BY <1>2 DEF TypeInv, TypeOK
<1> QED
  BY <1>3, <1>4, <1>5

(* An access of a grant of shared directories lists rows of its user, or     *)
(* accepts rows it had listed.                                               *)
LEMMA AccessGathers ==
  ASSUME TypeInv, NEW t \in Threads, Accesses(t), call[t].op = "gshare"
  PROVE  \/ call'[t].pc = "done"
         \/ /\ call'[t].found \subseteq call[t].found \cup SharedOf(call[t].user)
            /\ call'[t].pols \subseteq call[t].pols \cup {i.row : i \in call[t].found}
<1> DEFINE Goal == \/ call'[t].pc = "done"
                   \/ /\ call'[t].found \subseteq call[t].found \cup SharedOf(call[t].user)
                      /\ call'[t].pols \subseteq call[t].pols \cup {i.row : i \in call[t].found}
<1>a. call[t] \in Handlers /\ \A c : call' = [call EXCEPT ![t] = c] => call'[t] = c
  BY DEF TypeInv, TypeOK
<1>b. \A ret : Return(t, ret) => call'[t].pc = "done"
  <2> SUFFICES ASSUME NEW ret, Return(t, ret) PROVE call'[t].pc = "done"
    OBVIOUS
  <2>1. call'[t] = [Idle EXCEPT !.op = call[t].op, !.ret = ret, !.clean = call[t].clean]
    BY <1>a, Zenon DEF Return, Set
  <2> QED
    BY <2>1 DEF Idle
<1>c. \A item \in call[t].found : \A allowed : Decide(t, item, allowed) => Goal
  BY DecideGathers
<1>1. ShareStep(t)
  <2>1. ~GrantStep(t) /\ ~RevokeStep(t)
    BY GrantStepsMove, RevokeStepsMove DEF TypeInv
  <2>2. ~EraseStep(t) /\ ~CleanStep(t)
    BY EraseStepsMove, CleanStepsMove DEF TypeInv
  <2>3. ~PackageStep(t)
    BY PackageStepsMove DEF TypeInv, PackageOps
  <2> QED
    BY <2>1, <2>2, <2>3 DEF Accesses
<1>2. ~WriteShareFileToDb(t) /\ ~DropShareRow(t) /\ ~UnsetShared(t)
  BY DEF WriteShareFileToDb, DropShareRow, UnsetShared, At
<1>3. CASE QuerySharedFileInfoByUserId(t)
  <2>0. \/ \E seen \in SUBSET SharedOf(call[t].user) : ListFound(t, seen)
        \/ Return(t, "db")
    BY <1>3 DEF QuerySharedFileInfoByUserId
  <2>a. PICK found : \/ found \subseteq SharedOf(call[t].user) /\ ListFound(t, found)
                     \/ found = {} /\ Return(t, "db")
    BY <2>0
  <2> DEFINE pc == IF call[t].op = "gshare" THEN "check" ELSE "unset"
             c == [call[t] EXCEPT !.found = found, !.pc = pc]
  <2>1. call' = [call EXCEPT ![t] = c] \/ \E ret : Return(t, ret)
    BY <2>a DEF ListFound, Set
  <2> HIDE DEF pc
  <2>2. c.found = found /\ c.pols = call[t].pols
    BY <1>a DEF Handlers
  <2> HIDE DEF c
  <2> QED
    BY <1>a, <1>b, <2>a, <2>1, <2>2
<1>4. CASE CheckFirst(t)
  <2>1. PICK item \in call[t].found :
          \/ \E allowed : Decide(t, item, allowed)
          \/ ReadProfiles(t, [call[t] EXCEPT !.bundle = item.bundle], BundlesOf(call[t].user))
    BY <1>4, Zenon DEF CheckFirst
  <2> DEFINE d == [call[t] EXCEPT !.bundle = item.bundle]
             rest == {Declared(b, d.user) : b \in BundlesOf(call[t].user)}
             c == [d EXCEPT !.pc = "load", !.load = {}, !.rest = rest]
  <2>2. ReadProfiles(t, d, BundlesOf(call[t].user)) => call' = [call EXCEPT ![t] = c]
    BY DEF ReadProfiles, Set
  <2> HIDE DEF rest
  <2>3. c.found = call[t].found /\ c.pols = call[t].pols
    BY <1>a DEF Handlers
  <2> HIDE DEF c
  <2> QED
    BY <1>a, <1>c, <2>1, <2>2, <2>3
<1>5. CASE CheckAgain(t) \/ CheckNext(t)
  BY <1>5, <1>c, Zenon DEF CheckAgain, CheckNext
<1>6. CASE SetShared(t)
  BY <1>6, <1>b DEF SetShared
<1>7. CASE LoadProfile(t)
  <2>1. PICK next \in call[t].rest :
          Set(t, [call[t] EXCEPT !.load = next, !.rest = call[t].rest \ {next}])
    BY <1>7 DEF LoadProfile
  <2> DEFINE rest == call[t].rest \ {next}
             c == [call[t] EXCEPT !.load = next, !.rest = rest]
  <2>2. call' = [call EXCEPT ![t] = c]
    BY <2>1 DEF Set
  <2>3. c.found = call[t].found /\ c.pols = call[t].pols
    BY <1>a DEF Handlers
  <2> HIDE DEF c
  <2> QED
    BY <1>a, <2>2, <2>3
<1>8. CASE LoadScope(t)
  <2>1. PICK load : Set(t, [call[t] EXCEPT !.load = load])
    BY <1>8 DEF LoadScope, AddToMap, AddGood
  <2> DEFINE c == [call[t] EXCEPT !.load = load]
  <2>2. call' = [call EXCEPT ![t] = c]
    BY <2>1 DEF Set
  <2>3. c.found = call[t].found /\ c.pols = call[t].pols
    BY <1>a DEF Handlers
  <2> HIDE DEF c
  <2> QED
    BY <1>a, <2>2, <2>3
<1> QED
  BY <1>1, <1>2, <1>3, <1>4, <1>5, <1>6, <1>7, <1>8 DEF ShareStep

(* An access writes the row of its own token, as the profile has it.         *)
LEMMA AccessWrites ==
  ASSUME TypeInv, RowsMade, NEW t \in Threads, Accesses(t)
  PROVE  RowsMade'
<1> USE DEF Tables, Outside, At
<1>1. CASE WriteShareFileToDb(t) /\ shared' # shared
  <2> DEFINE new == ProcessShareFileInfo(call[t].profile, call[t].bundle)
  <2>1. /\ call[t].profile \in Profiles
        /\ call[t].bundle = BundleOf[call[t].k] /\ call[t].k \in Haps /\ call[t].k \in Tokens
    BY <1>1 DEF TypeInv, Args, WriteShareFileToDb
  <2>2. new.ret = "ok" /\ shared' = [shared EXCEPT ![call[t].k] = new.row]
    BY <1>1 DEF WriteShareFileToDb
  <2>3. MadeFrom(call[t].profile, call[t].bundle, new.row)
    BY <2>2, Zenon DEF MadeFrom
  <2> HIDE DEF new
  <2>4. \A k \in Tokens : shared'[k] = IF k = call[t].k THEN new.row ELSE shared[k]
    BY <2>2 DEF TypeInv, TypeOK
  <2> QED
    BY <2>1, <2>3, <2>4, Zenon DEF RowsMade
<1>2. CASE DropShareRow(t) /\ shared' # shared
  <2>1. shared' = [shared EXCEPT ![call[t].k] = NoRow]
    BY <1>2 DEF DropShareRow
  <2>2. \A k \in Tokens : shared'[k] = NoRow \/ shared'[k] = shared[k]
    BY <2>1 DEF TypeInv, TypeOK
  <2> QED
    BY <2>2 DEF RowsMade
<1>3. CASE ~WriteShareFileToDb(t) /\ ~DropShareRow(t)
  <2>1. shared' = shared
    <3>1. CASE GrantStep(t) \/ RevokeStep(t)
      BY <3>1 DEF GrantStep, GrantStore, GrantStoreFails, GrantSet, GrantRefused, GrantSetFails,
                  RevokeStep, RevokeModify, RevokeModifyFails, RevokeUnset, RevokeRefused, RevokeUnsetFails,
                  RevokeKill, RevokeKillFails, FailAs
    <3>2. CASE EraseStep(t) \/ CleanStep(t)
      BY <3>2 DEF EraseStep, EraseRows, EraseRules, RemoveUgcPermissionByTokenId, RemoveUgcFails,
                  EraseKill, CancelPhotoUriPersistPermission, EraseFails, FailAs,
                  CleanStep, CleanFind, CleanPolicyOnMac, CleanFilter, CleanRemove
    <3>3. CASE ShareStep(t) \/ PackageStep(t)
      BY <1>3, <3>3 DEF ShareStep, QuerySharedFileInfoByUserId, CheckFirst, CheckAgain, CheckNext,
                  SetShared, UnsetShared, LoadProfile, LoadScope,
                  PackageStep, CleanPolicyByPackageChanged, RemoveBundlePolicy, DeleteBundle,
                  GetShareCfgByBundle, RefreshDone
    <3> QED
      BY <3>1, <3>2, <3>3 DEF Accesses
  <2> QED
    BY <2>1 DEF RowsMade
<1>4. CASE shared' = shared
  BY <1>4 DEF RowsMade
<1> QED
  BY <1>1, <1>2, <1>3, <1>4

(* An access that sets rules sets policies a caller named, or the rows a     *)
(* grant of shared directories has accepted.                                 *)
LEMMA AccessSets ==
  ASSUME TypeInv, RulesMade, NEW t \in Threads, Gathers(t), Accesses(t)
  PROVE  RulesMade'
<1> USE DEF Tables, Outside, At
<1>1. CASE SetShared(t)
  <2>1. /\ call[t].op = "gshare" /\ Active(t) /\ call[t].user = UserOf[call[t].k]
        /\ \A q \in call[t].pols : OfUser(call[t].user, q)
    BY <1>1 DEF SetShared, Gathers, Active, TypeInv, Args
  <2>2. rules' \subseteq rules \cup ({call[t].k} \X call[t].pols)
    BY <1>1 DEF SetShared
  <2>3. ASSUME NEW r \in rules', r \notin rules, r[2] \notin Policies
        PROVE  OfUser(UserOf[r[1]], r[2])
    <3>1. r[1] = call[t].k /\ r[2] \in call[t].pols
      BY <2>2, <2>3
    <3> QED
      BY <2>1, <3>1, Zenon
  <2> QED
    BY <2>3, Zenon DEF RulesMade, OfUser
<1>2. CASE ~SetShared(t)
  <2>1. rules' \subseteq rules \cup (Tokens \X Policies)
    <3>1. CASE GrantStep(t)
      <4>1. call[t].op = "grant" /\ Active(t)
        BY <3>1, GrantStepsMove DEF TypeInv
      <4>2. call[t].k \in Tokens /\ call[t].pols \subseteq Policies
        BY <4>1 DEF TypeInv, Args, Active
      <4>3. rules' = rules \/ \E S : rules' = rules \cup {call[t].k} \X (call[t].pols \ S)
        <5>1. CASE GrantSet(t)
          <6>1. call[t].pols \ {} = call[t].pols
            OBVIOUS
          <6> QED
            BY <5>1, <6>1, Zenon DEF GrantSet
        <5>2. CASE GrantRefused(t)
          BY <5>2, Zenon DEF GrantRefused
        <5>3. CASE GrantStore(t) \/ GrantStoreFails(t) \/ GrantSetFails(t)
          BY <5>3 DEF GrantStore, GrantStoreFails, GrantSetFails, FailAs
        <5> QED
          BY <3>1, <5>1, <5>2, <5>3 DEF GrantStep
      <4> QED
        BY <4>2, <4>3
    <3>2. CASE RevokeStep(t)
      BY <3>2 DEF RevokeStep, RevokeModify, RevokeModifyFails, RevokeUnset, RevokeRefused, RevokeUnsetFails,
                  RevokeKill, RevokeKillFails, FailAs
    <3>3. CASE EraseStep(t) \/ CleanStep(t)
      BY <3>3 DEF EraseStep, EraseRows, EraseRules, RemoveUgcPermissionByTokenId, RemoveUgcFails,
                  EraseKill, CancelPhotoUriPersistPermission, EraseFails, FailAs,
                  DestroySandboxPolicy, UnSetSandboxPolicyByUser,
                  CleanStep, CleanFind, CleanPolicyOnMac, CleanFilter, CleanRemove
    <3>4. CASE ShareStep(t) \/ PackageStep(t)
      BY <1>2, <3>4 DEF ShareStep, WriteShareFileToDb, DropShareRow, QuerySharedFileInfoByUserId,
                  CheckFirst, CheckAgain, CheckNext, UnsetShared, LoadProfile, LoadScope,
                  PackageStep, CleanPolicyByPackageChanged, RemoveBundlePolicy, DeleteBundle,
                  GetShareCfgByBundle, RefreshDone, DestroySandboxPolicy
    <3> QED
      BY <3>1, <3>2, <3>3, <3>4 DEF Accesses
  <2>2. \A r \in rules' : r[2] \in Policies \/ r \in rules
    BY <2>1
  <2> QED
    BY <2>2, Zenon DEF RulesMade, OfUser
<1> QED
  BY <1>1, <1>2

(* Every step keeps the invariant.                                           *)
LEMMA NextScope ==
  ASSUME TypeInv, ScopeInv, [Next]_vars
  PROVE  ScopeInv'
<1>1. CASE UNCHANGED <<shared, rules, call>>
  BY <1>1 DEF ScopeInv, RowsMade, RulesMade, Gathers, OfUser, Active
<1>2. ASSUME NEW t \in Threads, Starts(t)
      PROVE  ScopeInv'
  <2>1. PICK op, pc, args : Fresh(op, pc, args) /\ Begin(t, op, pc, args)
    BY <1>2 DEF Starts
  <2>2. /\ call'[t].op = op /\ call'[t].pols = args.pols /\ call'[t].found = args.found
    BY <2>1, StartOwn
  <2>3. \A u \in Threads \ {t} :
          /\ call'[u].pc = call[u].pc /\ call'[u].op = call[u].op /\ call'[u].user = call[u].user
          /\ call'[u].found = call[u].found /\ call'[u].pols = call[u].pols
    BY <2>1, StartFields, Zenon
  <2>4. rules' = rules /\ shared' = shared
    BY <2>1 DEF Begin, Tables, Outside
  <2>5. Gathers(t)'
    BY <2>1, <2>2 DEF Gathers, Fresh
  <2>6. ASSUME NEW u \in Threads \ {t}
        PROVE  Gathers(u)'
    <3>1. Gathers(u)
      BY DEF ScopeInv
    <3>2. /\ call'[u].pc = call[u].pc /\ call'[u].op = call[u].op /\ call'[u].user = call[u].user
          /\ call'[u].found = call[u].found /\ call'[u].pols = call[u].pols
      BY <2>3
    <3> QED
      BY <3>1, <3>2 DEF Gathers, Active, OfUser
  <2>7. RowsMade' /\ RulesMade'
    BY <2>4 DEF ScopeInv, RowsMade, RulesMade, OfUser
  <2> QED
    BY <2>5, <2>6, <2>7 DEF ScopeInv
<1>3. ASSUME NEW t \in Threads, Accesses(t)
      PROVE  ScopeInv'
  <2>1. Active(t) /\ Moves(t)
    BY <1>3, AccessMoves
  <2>2. \A u \in Threads \ {t} : call'[u] = call[u]
    BY <2>1, OthersStay
  <2>3. /\ call'[t].op = call[t].op
        /\ call'[t].pc # "done" => call'[t].user = call[t].user
    BY <2>1 DEF Moves, Follows, TypeInv, TypeOK
  <2>4. Gathers(t)'
    <3> SUFFICES ASSUME call'[t].pc # "done", call'[t].op = "gshare"
                 PROVE  /\ \A i \in call'[t].found : OfUser(call'[t].user, i.row)
                        /\ \A q \in call'[t].pols : OfUser(call'[t].user, q)
      BY DEF Gathers, Active, OfUser
    <3>1. call[t].op = "gshare" /\ call'[t].user = call[t].user
      BY <2>3
    <3>2. /\ \A i \in call[t].found : OfUser(call[t].user, i.row)
          /\ \A q \in call[t].pols : OfUser(call[t].user, q)
      BY <2>1, <3>1, Zenon DEF ScopeInv, Gathers
    <3>3. /\ call'[t].found \subseteq call[t].found \cup SharedOf(call[t].user)
          /\ call'[t].pols \subseteq call[t].pols \cup {i.row : i \in call[t].found}
      BY <1>3, <3>1, AccessGathers
    <3>4. \A i \in SharedOf(call[t].user) : OfUser(call[t].user, i.row)
      BY ListIsOfUser DEF ScopeInv
    <3> QED
      BY <3>1, <3>2, <3>3, <3>4
  <2>5. ASSUME NEW u \in Threads \ {t}
        PROVE  Gathers(u)'
    <3>1. Gathers(u)
      BY DEF ScopeInv
    <3>2. call'[u] = call[u]
      BY <2>2
    <3> QED
      BY <3>1, <3>2 DEF Gathers, Active, OfUser
  <2>6. RowsMade' /\ RulesMade'
    BY <1>3, AccessWrites, AccessSets DEF ScopeInv
  <2> QED
    BY <2>4, <2>5, <2>6 DEF ScopeInv
<1>4. CASE BundleChanges \/ Open
  BY <1>1, <1>4 DEF BundleChanges, Open, Tables
<1>5. CASE Restart
  <2>1. shared' = shared /\ rules' = rules /\ \A t \in Threads : call'[t].pc = "done"
    BY <1>5 DEF Restart, Idle, Tables
  <2> QED
    BY <2>1 DEF ScopeInv, RowsMade, RulesMade, Gathers, OfUser, Active
<1>6. CASE UNCHANGED vars
  BY <1>1, <1>6 DEF vars
<1> QED
  BY <1>2, <1>3, <1>4, <1>5, <1>6, NextKinds

(* The first state.                                                          *)
LEMMA InitScope ==
  ASSUME Init
  PROVE  ScopeInv
<1>1. PICK s \in Scenarios : rows = s.rows /\ shared \in s.shared
  BY DEF Init
<1>2. RowsMade
  BY <1>1, ScenarioAssumption, Zenon DEF ScenarioAssumption, RowsMade
<1>3. RulesMade
  <2>1. rules \subseteq rows
    BY DEF Init
  <2>2. rows \subseteq Tokens \X Policies
    BY <1>1, ScenarioAssumption, Zenon DEF ScenarioAssumption
  <2> QED
    BY <2>1, <2>2 DEF RulesMade
<1>4. \A t \in Threads : call[t].pc = "done"
  BY DEF Init, Idle
<1> QED
  BY <1>2, <1>3, <1>4 DEF ScopeInv, Gathers, Active

(* Whatever handlers meet, profiles change to and accesses fail, a shared    *)
(* row, and a rule set from one, lies within a scope that a profile of the   *)
(* owner declared, with no more rights, and the rule is held by a caller of  *)
(* the owner's user.                                                         *)
THEOREM SharedStaysInScope == Spec => []SharedIsWithinScope
BY InitTyped, NextTyped, InitScope, NextScope, ScopeInvDeclares, PTL DEF Spec

(* SharedIsDeclared for every profile, whatever the number and the spelling   *)
(* of its paths: ProcessShareFileInfo lets no directory through that lies in  *)
(* no scope of the profile, nor more rights than such a scope has.            *)
THEOREM SharingNeedsAScope == AnyInput => []SharedIsDeclared
<1> DEFINE Parsed == input.kind = "share" => WellFormed(input.config)
<1>1. NoInput => Parsed
  BY DEF NoInput
<1>2. Parsed /\ [TakeInput]_input => Parsed'
  <2> SUFFICES ASSUME Parsed, [TakeInput]_input PROVE Parsed'
    OBVIOUS
  <2>1. CASE Share
    <3>1. PICK c \in ShareConfigs : input' = [kind |-> "share", config |-> c]
      BY <2>1 DEF Share
    <3>2. WellFormed(c)
      BY InputAssumption, Zenon DEF InputAssumption, WellFormed
    <3>3. input'.config = c
      BY <3>1
    <3> QED
      BY <3>2, <3>3, Zenon DEF WellFormed
  <2>2. CASE Pattern \/ SysCall \/ Profile \/ Json
    BY <2>2 DEF Pattern, SysCall, Profile, Json
  <2>3. CASE UNCHANGED input
    BY <2>3 DEF WellFormed
  <2> QED
    BY <2>1, <2>2, <2>3 DEF TakeInput
<1>3. Parsed => SharedIsDeclared
  BY SharingDeclared, Zenon DEF SharedIsDeclared
<1> QED
  BY <1>1, <1>2, <1>3, PTL DEF AnyInput
=============================================================================
