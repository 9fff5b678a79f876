------------------------------ MODULE UserGrants ------------------------------
(***************************************************************************)
(* The handlers that give and take rights outside the persist and activate *)
(* cycle: grants of the user (GrantPermissionByUser, RevokePermissionBy-   *)
(* User), erasing a token (UnPersistPolicy(tokenId)), cleaning the paths   *)
(* of a user, shared directories, and package events.                      *)
(*                                                                         *)
(* Each handler is a sequence of single accesses: to a table, to the       *)
(* kernel, to the ability manager that kills processes, to the media       *)
(* library, or to the share map, whose mutex is taken per access. IPC      *)
(* threads run handlers concurrently, every access may fail, the kernel    *)
(* may refuse an entry, and the service may die and start again.           *)
(***************************************************************************)
EXTENDS ShareProfile, FiniteSets

CONSTANTS
  Tokens,        \* applications and services
  Haps,          \* the tokens that are applications: their processes are killed
  Targets,       \* the tokens that grants, revocations and erasures name
  Callers,       \* the system applications that use shared directories
  UserOf,        \* UserOf[k]: the user of token k
  Policies,      \* valid policies that callers name
  Requests,      \* the policy lists of grants and revocations
  CleanPaths,    \* the paths CleanPolicyByUserId is called with
  Bundles,       \* bundles with a share_files profile
  BundleOf,      \* BundleOf[k]: the bundle of application k; a bundle may have several users
  Profiles,      \* the profiles a bundle may have
  Threads,       \* IPC threads
  MaxShareConfigCount,  \* scopes of one profile, 20 in the code
  Scenarios,     \* bound: which handlers meet, and the state they start from
  Updates,       \* bound: the profiles a bundle may change to
  MaxCalls,      \* bound: handlers called
  MaxUpdates,    \* bound: profiles that change
  MaxFaults      \* bound: failing accesses, refused entries and restarts

Users == {UserOf[k] : k \in Tokens}
Unset == <<>>      \* the share map of a bundle and user that is not loaded

(* Every row the profiles of a bundle can lead to.                           *)
SharedPolicies ==
  {ProcessShareFileInfo(p, b).row : p \in Profiles, b \in Bundles} \ {NoRow}

AllPolicies == Policies \cup SharedPolicies

ASSUME GrantAssumption ==
  /\ Haps \subseteq Tokens /\ Targets \subseteq Tokens /\ Callers \subseteq Haps
  /\ Requests \subseteq SUBSET Policies
  /\ BundleOf \in [Haps -> Bundles] /\ Updates \subseteq Profiles /\ <<>> \notin Profiles
  /\ \A p \in Profiles : Len(p.scopes) \in Nat /\ DOMAIN p.scopes = 1..Len(p.scopes)
  /\ MaxCalls \in Nat /\ MaxUpdates \in Nat /\ MaxFaults \in Nat
  /\ MaxShareConfigCount \in Nat

(* The paths of a profile are sequences of pieces.                           *)
ASSUME ProfileAssumption ==
  \A p \in Profiles :
    /\ \A i \in DOMAIN p.scopes : p.scopes[i].path \in Seq(STRING)
    /\ p.sharing # NoSharing => p.sharing.path \in Seq(STRING) /\ p.sharing.sub \in Seq(STRING)

(* The row is what profile p of bundle b leads to.                           *)
MadeFrom(p, b, row) ==
  LET result == ProcessShareFileInfo(p, b) IN result.ret = "ok" /\ row = result.row

(* A scenario starts from tables and profiles of the right shape, and a row  *)
(* of a token that was written for one of its bundles.                       *)
ASSUME ScenarioAssumption ==
  \A s \in Scenarios :
    /\ s.rows \subseteq Tokens \X Policies
    /\ s.shared \subseteq [Tokens -> SharedPolicies \cup {NoRow}]
    /\ \A table \in s.shared, k \in Tokens :
         table[k] # NoRow => k \in Haps /\ \E p \in Profiles : MadeFrom(p, BundleOf[k], table[k])
    /\ s.profiles \subseteq [Bundles -> [Users -> Profiles]]

VARIABLES
  rows,       \* persisted_policy
  ugc,        \* ugc_permission: ugc[k][p] is "none", "granted" or "denied"
  shared,     \* shared_file_info: shared[k] is the row of token k, or NoRow
  rules,      \* the token and policy pairs the kernel enforces
  opened,     \* the pairs a running process has files open through
  photo,      \* the tokens with persisted rights in the media library
  profile,    \* profile[b][u]: what the bundle manager has for bundle b of user u
  shareMap,   \* g_shareMap[b][u]: loaded paths with their modes, or Unset
  call,       \* call[t]: the handler of thread t
  offered,    \* the handlers that are called in this behaviour
  bounds      \* [calls, updates, faults] so far; overlaps is 1 once handlers met,
              \* torn has the bundles that were deleted halfway through a load

vars == <<rows, ugc, shared, rules, opened, photo, profile, shareMap, call, offered, bounds>>

Tables == <<rows, ugc, shared>>
Outside == <<opened, photo, profile, offered>>

Idle == [op |-> "none", pc |-> "done", k |-> "", user |-> 0, bundle |-> "", pols |-> {},
         left |-> {}, pol |-> NoRow, path |-> <<>>, below |-> {}, unsure |-> {}, profile |-> <<>>, found |-> {},
         load |-> {}, rest |-> {}, ret |-> "ok", clean |-> TRUE]

Count(what) == bounds' = [bounds EXCEPT ![what] = @ + 1]

Fault == bounds.faults < MaxFaults /\ Count("faults")

(* The next step of the handler of t.                                        *)
Set(t, c) == call' = [call EXCEPT ![t] = c]
Goto(t, pc) == Set(t, [call[t] EXCEPT !.pc = pc])
Return(t, ret) ==
  Set(t, [Idle EXCEPT !.op = call[t].op, !.ret = ret, !.clean = call[t].clean])
At(t, op, pc) == call[t].op = op /\ call[t].pc = pc

(* An access that fails ends the handler with its own code.                  *)
FailAs(t, ret) ==
  /\ Fault /\ Return(t, ret)
  /\ UNCHANGED <<Tables, rules, Outside, shareMap>>

(* A handler starts with its arguments. clean says that no other handler ran *)
(* beside it and that the kernel refused it no entry: history the properties *)
(* condition on.                                                             *)
Begin(t, op, pc, args) ==
  LET alone == \A u \in Threads : call[u].pc = "done"
      new == [args EXCEPT !.op = op, !.pc = pc, !.clean = alone]
  IN  /\ call[t].pc = "done" /\ op \in offered
      /\ bounds.calls < MaxCalls
      /\ bounds' = [bounds EXCEPT !.calls = @ + 1, !.overlaps = IF alone THEN @ ELSE 1]
      /\ call' = [u \in Threads |-> IF u = t THEN new
                                    ELSE IF call[u].pc # "done" THEN [call[u] EXCEPT !.clean = FALSE]
                                    ELSE call[u]]
      /\ UNCHANGED <<Tables, rules, Outside, shareMap>>

Under(dir, p) == IsPrefix(dir, p.path)

(* The ioctls that destroy the rules of a token, or of a user below paths.   *)
DestroySandboxPolicy(k) == rules' = {r \in rules : r[1] # k}
UnSetSandboxPolicyByUser(u, dir) ==
  rules' = {r \in rules : ~(UserOf[r[1]] = u /\ Under(dir, r[2]))}

KillProcessForPermissionUpdate(k) == opened' = {o \in opened : o[1] # k}

-----------------------------------------------------------------------------
(***************************************************************************)
(* Grants of the user.                                                     *)
(***************************************************************************)
SetUgc(k, S, old, new) ==
  ugc' = [ugc EXCEPT ![k] = [p \in Policies |-> IF p \in S /\ @[p] \in old THEN new ELSE @[p]]]

(* FilterValidPolicy leaves nothing of an empty or invalid request.          *)
GrantPermissionByUser(t) ==
  \E k \in Targets, S \in Requests :
    S # {} /\ Begin(t, "grant", "add", [Idle EXCEPT !.k = k, !.pols = S])

(* The status is stored, for all policies in one statement ...               *)
GrantStore(t) ==
  /\ At(t, "grant", "add")
  /\ SetUgc(call[t].k, call[t].pols, {"none", "granted", "denied"}, "granted")
  /\ Goto(t, "set")
  /\ UNCHANGED <<rows, shared, rules, Outside, shareMap, bounds>>

GrantStoreFails(t) == At(t, "grant", "add") /\ FailAs(t, "db")

(* ... and then the rules are set; the results of the entries are dropped.   *)
GrantSet(t) ==
  /\ At(t, "grant", "set")
  /\ rules' = rules \cup {call[t].k} \X call[t].pols
  /\ Return(t, "ok")
  /\ UNCHANGED <<Tables, Outside, shareMap, bounds>>

GrantRefused(t) ==
  /\ At(t, "grant", "set")
  /\ Fault
  /\ \E S \in (SUBSET call[t].pols) \ {{}} :
       rules' = rules \cup {call[t].k} \X (call[t].pols \ S)
  /\ Set(t, [Idle EXCEPT !.op = "grant", !.clean = FALSE])
  /\ UNCHANGED <<Tables, Outside, shareMap>>

GrantSetFails(t) == At(t, "grant", "set") /\ FailAs(t, "mac")

RevokePermissionByUser(t) ==
  \E k \in Targets, S \in Requests :
    S # {} /\ Begin(t, "revoke", "modify", [Idle EXCEPT !.k = k, !.pols = S, !.left = S])

(* One policy after the other: its status is changed if it has one. A        *)
(* failing access is remembered and the next policy follows.                 *)
NextRevoked(t, p, ret, clean) ==
  LET left == call[t].left \ {p}
      more == [call[t] EXCEPT !.left = left, !.ret = ret, !.pol = NoRow, !.clean = clean]
  IN  IF left # {} THEN Set(t, [more EXCEPT !.pc = "modify"])
      ELSE IF ret # "ok" \/ more.k \notin Haps
           THEN Set(t, [Idle EXCEPT !.op = more.op, !.ret = ret, !.clean = clean])
      ELSE Set(t, [more EXCEPT !.pc = "kill"])

RevokeModify(t) ==
  /\ At(t, "revoke", "modify")
  /\ \E p \in call[t].left :
       /\ SetUgc(call[t].k, {p}, {"granted", "denied"}, "denied")
       /\ Set(t, [call[t] EXCEPT !.pc = "unset", !.pol = p])
  /\ UNCHANGED <<rows, shared, rules, Outside, shareMap, bounds>>

RevokeModifyFails(t) ==
  /\ At(t, "revoke", "modify")
  /\ Fault
  /\ \E p \in call[t].left : NextRevoked(t, p, "db", call[t].clean)
  /\ UNCHANGED <<Tables, rules, Outside, shareMap>>

RevokeUnset(t) ==
  /\ At(t, "revoke", "unset")
  /\ rules' = rules \ {<<call[t].k, call[t].pol>>}
  /\ NextRevoked(t, call[t].pol, call[t].ret, call[t].clean)
  /\ UNCHANGED <<Tables, Outside, shareMap, bounds>>

(* The kernel may refuse the entry: UnSetPolicy drops its result.            *)
RevokeRefused(t) ==
  /\ At(t, "revoke", "unset")
  /\ Fault
  /\ NextRevoked(t, call[t].pol, call[t].ret, FALSE)
  /\ UNCHANGED <<Tables, rules, Outside, shareMap>>

RevokeUnsetFails(t) ==
  /\ At(t, "revoke", "unset")
  /\ Fault
  /\ NextRevoked(t, call[t].pol, "mac", call[t].clean)
  /\ UNCHANGED <<Tables, rules, Outside, shareMap>>

(* An application is killed only after everything was taken from it.         *)
RevokeKillFirst(t) ==
  /\ At(t, "revoke", "modify") \/ At(t, "revoke", "kill")
  /\ IF call[t].pc = "modify" THEN KillProcessForPermissionUpdate(call[t].k)
     ELSE UNCHANGED opened
  /\ IF call[t].pc = "kill" THEN Return(t, "ok") ELSE UNCHANGED call
  /\ UNCHANGED <<Tables, rules, photo, profile, offered, shareMap, bounds>>

RevokeKill(t) ==
  /\ At(t, "revoke", "kill")
  /\ KillProcessForPermissionUpdate(call[t].k)
  /\ Return(t, "ok")
  /\ UNCHANGED <<Tables, rules, photo, profile, offered, shareMap, bounds>>

RevokeKillFails(t) == At(t, "revoke", "kill") /\ FailAs(t, "kill")

GrantNext(t) ==
  \/ GrantPermissionByUser(t) \/ GrantStore(t) \/ GrantStoreFails(t)
  \/ GrantSet(t) \/ GrantRefused(t) \/ GrantSetFails(t)
  \/ RevokePermissionByUser(t) \/ RevokeModify(t) \/ RevokeModifyFails(t)
  \/ RevokeUnset(t) \/ RevokeRefused(t) \/ RevokeUnsetFails(t)
  \/ RevokeKill(t) \/ RevokeKillFails(t)

-----------------------------------------------------------------------------
(***************************************************************************)
(* Erasing a token, UnPersistPolicy(tokenId): five stages, each of which   *)
(* ends the call when it fails, except for the status records.             *)
(***************************************************************************)
UnPersistPolicy(t) == \E k \in Targets : Begin(t, "erase", "rows", [Idle EXCEPT !.k = k])

EraseRecordsFirst(t) ==
  /\ At(t, "erase", "rows")
  /\ rows' = {r \in rows : r[1] # call[t].k}
  /\ ugc' = [ugc EXCEPT ![call[t].k] = [p \in Policies |-> "none"]]
  /\ Goto(t, "destroy")
  /\ UNCHANGED <<shared, rules, Outside, shareMap, bounds>>

EraseRows(t) ==
  /\ At(t, "erase", "rows")
  /\ rows' = {r \in rows : r[1] # call[t].k}
  /\ Goto(t, "destroy")
  /\ UNCHANGED <<ugc, shared, rules, Outside, shareMap, bounds>>

EraseRules(t) ==
  /\ At(t, "erase", "destroy")
  /\ DestroySandboxPolicy(call[t].k)
  /\ Goto(t, "ugc")
  /\ UNCHANGED <<Tables, Outside, shareMap, bounds>>

AfterUgc(t) == IF call[t].k \in Haps THEN Goto(t, "kill") ELSE Return(t, "ok")

RemoveUgcPermissionByTokenId(t) ==
  /\ At(t, "erase", "ugc")
  /\ ugc' = [ugc EXCEPT ![call[t].k] = [p \in Policies |-> "none"]]
  /\ AfterUgc(t)
  /\ UNCHANGED <<rows, shared, rules, Outside, shareMap, bounds>>

RemoveUgcFails(t) ==
  /\ At(t, "erase", "ugc")
  /\ Fault /\ AfterUgc(t)
  /\ UNCHANGED <<Tables, rules, Outside, shareMap>>

EraseKill(t) ==
  /\ At(t, "erase", "kill")
  /\ KillProcessForPermissionUpdate(call[t].k)
  /\ Goto(t, "photo")
  /\ UNCHANGED <<Tables, rules, photo, profile, offered, shareMap, bounds>>

(* EnsureMediaInitialized and the call of the media library.                 *)
CancelPhotoUriPersistPermission(t) ==
  /\ At(t, "erase", "photo")
  /\ photo' = photo \ {call[t].k}
  /\ Return(t, "ok")
  /\ UNCHANGED <<Tables, rules, opened, profile, offered, shareMap, bounds>>

EraseFails(t) ==
  \/ At(t, "erase", "rows") /\ FailAs(t, "db")
  \/ At(t, "erase", "destroy") /\ FailAs(t, "mac")
  \/ At(t, "erase", "kill") /\ FailAs(t, "kill")
  \/ At(t, "erase", "photo") /\ FailAs(t, "media")

EraseNext(t) ==
  \/ UnPersistPolicy(t) \/ EraseRows(t) \/ EraseRules(t)
  \/ RemoveUgcPermissionByTokenId(t) \/ RemoveUgcFails(t)
  \/ EraseKill(t) \/ CancelPhotoUriPersistPermission(t) \/ EraseFails(t)

-----------------------------------------------------------------------------
(***************************************************************************)
(* CleanPolicyByUserId, also behind CleanPersistPolicyByPath: the rows     *)
(* below a path are read, the rules of the user below it are taken from    *)
(* the kernel, and the rows read are deleted. Failures are only logged.    *)
(***************************************************************************)
CleanPolicyByUserId(t) ==
  \E u \in Users, dir \in CleanPaths :
    Begin(t, "clean", "find", [Idle EXCEPT !.user = u, !.path = dir])

RowsBelow(S, u, dir, unsure) == {r \in S : Under(dir, r[2])}

(* The rows of the list that stay in it: those of the user, and those of a   *)
(* token whose user could not be learned.                                    *)
RemoveResultByUserIdAndPrefix(S, u, dir, unsure) ==
  {r \in S : Under(dir, r[2]) /\ (r[1] \in unsure \/ UserOf[r[1]] = u)}

(* GetHapTokenInfo knows no token that is not an application.                *)
NoHap == Tokens \ Haps

FindSubPathIgnoreCase(dir) == {r \in rows : Under(dir, r[2])}

(* A query that fails or breaks off leaves a part of the rows in the list,   *)
(* and its result is only logged.                                            *)
CleanFind(t) ==
  LET found == FindSubPathIgnoreCase(call[t].path) IN
  /\ At(t, "clean", "find")
  /\ \/ Set(t, [call[t] EXCEPT !.pc = "byuser", !.below = found]) /\ UNCHANGED bounds
     \/ /\ Fault
        /\ \E seen \in SUBSET found : Set(t, [call[t] EXCEPT !.pc = "byuser", !.below = seen])
  /\ UNCHANGED <<Tables, rules, Outside, shareMap>>

CleanPolicyOnMac(t) ==
  /\ At(t, "clean", "byuser")
  /\ \/ UnSetSandboxPolicyByUser(call[t].user, call[t].path) /\ UNCHANGED bounds
     \/ Fault /\ UNCHANGED rules
  /\ IF call[t].below = {} THEN Return(t, "ok") ELSE Goto(t, "filter")
  /\ UNCHANGED <<Tables, Outside, shareMap>>

KeepResults(t, unsure) ==
  LET c == call[t]
      below == RemoveResultByUserIdAndPrefix(c.below, c.user, c.path, unsure)
  IN  IF below = {} THEN Return(t, "ok")
      ELSE Set(t, [c EXCEPT !.pc = "remove", !.below = below, !.unsure = unsure])

(* The user of each row's token is looked up, and a lookup may fail.         *)
CleanFilter(t) ==
  /\ At(t, "clean", "filter")
  /\ \/ KeepResults(t, NoHap) /\ UNCHANGED bounds
     \/ Fault /\ \E failed \in SUBSET Haps : KeepResults(t, NoHap \cup failed)
  /\ UNCHANGED <<Tables, rules, Outside, shareMap>>

CleanRemove(t) ==
  /\ At(t, "clean", "remove")
  /\ \/ rows' = rows \ call[t].below /\ UNCHANGED bounds
     \/ Fault /\ UNCHANGED rows
  /\ Return(t, "ok")
  /\ UNCHANGED <<ugc, shared, rules, Outside, shareMap>>

CleanNext(t) ==
  \/ CleanPolicyByUserId(t) \/ CleanFind(t) \/ CleanPolicyOnMac(t) \/ CleanFilter(t)
  \/ CleanRemove(t)
=============================================================================
