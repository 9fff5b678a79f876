---------------------------- MODULE PolicyManager ----------------------------
(***************************************************************************)
(* The policy engine of the sandbox manager service: PolicyInfoManager     *)
(* with the service entry points that call it and the MAC adapter below    *)
(* it.                                                                     *)
(*                                                                         *)
(* IPC threads run the handlers concurrently and no lock spans a handler.  *)
(* What is atomic is one statement or transaction on the table             *)
(* persisted_policy and one ioctl on /dev/dec, so a handler is a sequence  *)
(* of steps: "read" (query the table), "mac" (one ioctl per batch of       *)
(* entries), "write" (change the table).  Every table access and every     *)
(* ioctl may fail, a query may lose rows to a failing cursor, the kernel   *)
(* may refuse single entries, and the service may be killed between two    *)
(* steps.                                                                  *)
(*                                                                         *)
(* A policy is a path with a set of access rights.  A request is the set   *)
(* of its entries that passed CheckPolicyValidity and CheckPathIsBlocked:  *)
(* a refused entry gets its own result code and reaches neither table nor  *)
(* kernel, so a request may be empty.  The kernel is external: its rules   *)
(* are modelled from how mac_adapter.cpp uses the ioctls.                  *)
(***************************************************************************)
EXTENDS Naturals, FiniteSets

CONSTANTS
  Tokens,        \* access token identifiers of applications
  Threads,       \* IPC threads of the service
  Paths,         \* directories and files
  AtOrAbove,     \* <<p, q>>: p is q, a directory above q, or a case variant
  NoInherit,     \* paths whose deny entry stops inheritance from above
  Policies,      \* the policies in play: records [path, mode]
  Requests,      \* the policy sets a caller may pass
  UserGranted,   \* <<token, path>> for which IsVerifyPermissionPass holds
  BatchSize,     \* entries per ioctl (MAX_POLICY_NUM)
  MaxCalls,      \* bound: handlers started in one behaviour
  MaxFaults      \* bound: failing accesses and restarts in one behaviour

ASSUME PathAssumption ==
  /\ AtOrAbove \subseteq Paths \X Paths
  /\ \A p \in Paths : <<p, p>> \in AtOrAbove
  /\ \A p, q, r \in Paths :
       <<p, q>> \in AtOrAbove /\ <<q, r>> \in AtOrAbove => <<p, r>> \in AtOrAbove
  /\ NoInherit \subseteq Paths

ASSUME PolicyAssumption ==
  /\ \A p \in Policies : p.path \in Paths
  /\ Requests \subseteq SUBSET Policies
  /\ Tokens # {}
  /\ UserGranted \subseteq Tokens \X Paths

ASSUME BoundAssumption ==
  /\ BatchSize \in Nat \ {0}
  /\ MaxCalls \in Nat
  /\ MaxFaults \in Nat

VARIABLES
  macSupport,    \* isMacSupport_: the device node exists
  rows,          \* rows[k]: the rows of persisted_policy with token k
  autoLoad,      \* autoLoad[k]: the rows of token k whose flag is 1
  rules,         \* rules[k]: the kernel's rules for token k
  persistable,   \* persistable[k]: those set with the persist flag
  call,          \* call[t]: the handler thread t runs, or ran last
  calls,         \* handlers started so far
  faults,        \* faults that happened so far
  granted,       \* history: what SetPolicy was asked to grant
  earned,        \* history: what was granted for persisting, by SetPolicy's
                 \* caller or by the permission the user gave the token
  touched        \* history: touched[t] is what others wrote to the token of
                 \* call[t] since it started

dbVars == <<rows, autoLoad>>
macVars == <<rules, persistable>>
bounds == <<calls, faults>>
grantVars == <<granted, earned>>
vars == <<macSupport, rows, autoLoad, rules, persistable, call, calls, faults,
          granted, earned, touched>>

Ops == {"none", "persist", "unpersist", "set", "unset", "start", "stop",
        "startByToken", "unsetAll", "unpersistAll", "removeBundle"}

PCs == {"idle", "read", "mac", "write", "done"}

Rets == {"ok", "dbErr", "macErr", "empty"}

Call == [op : Ops, tok : Tokens, req : SUBSET Policies, flag : {0, 1},
         pc : PCs, todo : SUBSET Policies, sel : SUBSET Policies,
         ok : SUBSET Policies, ret : Rets,
         missed : SUBSET Policies,  \* history: rows its query lost
         kept : SUBSET Policies]    \* history: rules the kernel kept unnoticed

-----------------------------------------------------------------------------
(* Paths and modes *)

Same(p, q) == <<p, q>> \in AtOrAbove /\ <<q, p>> \in AtOrAbove

(* p's policy reaches q: no path at or above q, strictly below p, denies     *)
(* inheritance.                                                              *)
Inherits(p, q) ==
  /\ <<p, q>> \in AtOrAbove
  /\ \A d \in NoInherit :
       ~ (<<p, d>> \in AtOrAbove /\ <<d, q>> \in AtOrAbove /\ ~ Same(p, d))

(* PolicyTrie::IsPolicyMatch: all rights asked for are among those stored.    *)
ModeMatchMutant(refer, search) == refer \cap search # {}
ModeMatch(refer, search) == search \subseteq refer

(* PolicyTrie::CheckPathNew on the token's rows: of the policies that reach   *)
(* the path the shallowest decides, with the rights of all rows on that path. *)
CheckPathNew(R, q) ==
  LET reach == {r \in R : Inherits(r.path, q.path)}
      top == {r \in reach : \A s \in reach : <<r.path, s.path>> \in AtOrAbove}
  IN  /\ top # {}
      /\ ModeMatch(UNION {r.mode : r \in top}, q.mode)

(* PolicyTrie::FindMatchingPaths: every case variant, the mode exactly.       *)
FindMatchingPaths(R, q) == {r \in R : Same(r.path, q.path) /\ r.mode = q.mode}

-----------------------------------------------------------------------------
(* The kernel (external) *)

Covers(p, q) == Inherits(p.path, q.path) /\ q.mode \subseteq p.mode

(* The three answers of QUERY_POLICY_CMD that SetQueryResult tells apart.     *)
QueryOk(k, q) == \E p \in persistable[k] : Covers(p, q)
QueryNonPersist(k, q) == ~ QueryOk(k, q) /\ \E p \in rules[k] : Covers(p, q)

(* The entries whose non-persist rule is enough because the token holds the   *)
(* permission the user grants for that directory (IsVerifyPermissionPass).    *)
VerifiedMutant(k, q) == QueryNonPersist(k, q)
Verified(k, q) == QueryNonPersist(k, q) /\ <<k, q.path>> \in UserGranted

(* SET_POLICY_CMD on the entries S: the kernel refuses the entries in bad.    *)
(* Whether setting a rule again without the flag clears it is not known: the  *)
(* entries in keep stay persistable.                                          *)
KernelSet(k, S, flag, bad) ==
  /\ rules' = [rules EXCEPT ![k] = @ \cup (S \ bad)]
  /\ \E keep \in SUBSET (persistable[k] \cap (S \ bad)) :
       persistable' = [persistable EXCEPT ![k] =
         IF flag = 1 THEN @ \cup (S \ bad) ELSE (@ \ (S \ bad)) \cup keep]

(* The ioctls that remove the rules S succeed; the rules in bad stay.         *)
KernelUnSet(k, S, bad) ==
  /\ rules' = [rules EXCEPT ![k] = @ \ (S \ bad)]
  /\ persistable' = [persistable EXCEPT ![k] = @ \ (S \ bad)]

-----------------------------------------------------------------------------
(* Handlers *)

Free(t) == call[t].pc \in {"idle", "done"}

(* Where a handler goes with the entries todo still to be sent: the ioctl      *)
(* loop, then the transaction if there is something to write, then home.      *)
OnwardMutant(op, todo, sel) ==
  IF op \in {"persist", "unpersist"} /\ sel # {} THEN "write"
  ELSE IF todo # {} THEN "mac" ELSE "done"
Onward(op, todo, sel) ==
  IF todo # {} THEN "mac"
  ELSE IF op \in {"persist", "unpersist"} /\ sel # {} THEN "write" ELSE "done"

(* The batch loops of mac_adapter.cpp: MAX_POLICY_NUM entries per ioctl;      *)
(* RemoveNormalPolicy unsets its rows one by one.                             *)
Batch(c, B) ==
  /\ B # {}
  /\ B \subseteq c.todo
  /\ LET size == IF c.op = "unpersist" THEN 1 ELSE BatchSize
     IN  Cardinality(B) = IF Cardinality(c.todo) < size
                          THEN Cardinality(c.todo) ELSE size

(* Others whose call is about token k see that thread t wrote S.              *)
Touch(t, k, S) ==
  touched' = [u \in Threads |->
    IF u # t /\ call[u].tok = k THEN touched[u] \cup S ELSE touched[u]]

Begin(t, op, k, S, f, pc) ==
  /\ Free(t)
  /\ calls < MaxCalls
  /\ calls' = calls + 1
  /\ call' = [call EXCEPT ![t] =
       [op |-> op, tok |-> k, req |-> S, flag |-> f,
        pc |-> pc, todo |-> S, sel |-> {}, ok |-> IF macSupport THEN {} ELSE S,
        ret |-> "ok", missed |-> {}, kept |-> {}]]
  /\ touched' = [touched EXCEPT ![t] = {}]
  /\ UNCHANGED <<macSupport, dbVars, macVars, faults>>

(* Without the device node most handlers answer OK and do nothing.            *)
IfMac(pc) == IF macSupport THEN pc ELSE "done"

(* What is left of a batch loop after the batch B.                            *)
RestMutant(todo, B) == IF Cardinality(todo) > BatchSize THEN todo \ B ELSE todo
Rest(todo, B) == todo \ B

(* One access fails: the handler returns its error at once.                   *)
Fail(t, ret) ==
  /\ faults < MaxFaults
  /\ faults' = faults + 1
  /\ call' = [call EXCEPT ![t].pc = "done", ![t].ret = ret, ![t].ok = {},
                          ![t].todo = {}]
  /\ UNCHANGED <<macSupport, dbVars, macVars, calls, grantVars, touched>>

(* SandboxManagerRdb::Find over the rows R returns F: all of them, or those    *)
(* before an error of the cursor, which the loop takes for the end of R.      *)
Find(R, F) ==
  /\ calls' = calls
  /\ \/ F = R /\ faults' = faults
     \/ F # R /\ faults < MaxFaults /\ faults' = faults + 1

(* PersistPolicy and PersistPolicyByTokenId; the flag is 1 for foundation.    *)
PersistPolicy(t) ==
  \E k \in Tokens, S \in Requests, f \in {0, 1} :
    /\ Begin(t, "persist", k, S, f, IfMac(Onward("persist", S, {})))
    /\ UNCHANGED grantVars

(* QuerySandboxPolicy: one ioctl asks about one batch.  An entry passes when  *)
(* the kernel has a persistable rule for it, or has another rule and the user *)
(* granted the directory.                                                     *)
QueryBatch(t) ==
  LET c == call[t]
      verified(B) == {q \in B : Verified(c.tok, q)}
  IN /\ c.op = "persist" /\ c.pc = "mac"
     /\ \E B \in SUBSET c.todo :
          LET sel == c.sel \cup {q \in B : QueryOk(c.tok, q)} \cup verified(B)
          IN
          /\ Batch(c, B)
          /\ call' = [call EXCEPT ![t].todo = Rest(c.todo, B), ![t].sel = sel,
                                  ![t].pc = Onward(c.op, Rest(c.todo, B), sel)]
          /\ earned' = [earned EXCEPT ![c.tok] =
               @ \cup {q \in verified(B) : <<c.tok, q.path>> \in UserGranted}]
          /\ UNCHANGED <<macSupport, dbVars, macVars, bounds, granted, touched>>

(* The rows with flag 1 after the transaction.                                *)
AddedFlagsMutant(k, S, flag) ==
  IF flag = 1 THEN autoLoad[k] \cup (S \ rows[k]) ELSE autoLoad[k]
AddedFlags(k, S, flag) == IF flag = 1 THEN autoLoad[k] \cup S ELSE autoLoad[k]

(* AddToDatabaseIfNotDuplicate: one transaction, REPLACE when the flag is 1   *)
(* (the row's flag becomes 1) and IGNORE otherwise (an old row stays as is).  *)
AddToDatabase(t) ==
  LET c == call[t]
  IN /\ c.op = "persist" /\ c.pc = "write"
     /\ rows' = [rows EXCEPT ![c.tok] = @ \cup c.sel]
     /\ autoLoad' = [autoLoad EXCEPT ![c.tok] = AddedFlags(c.tok, c.sel, c.flag)]
     /\ call' = [call EXCEPT ![t].pc = "done", ![t].ok = c.sel]
     /\ Touch(t, c.tok, c.sel)
     /\ UNCHANGED <<macSupport, macVars, bounds, grantVars>>

(* UnPersistPolicy and UnPersistPolicyByTokenId (RemovePolicy).               *)
UnPersistPolicy(t) ==
  \E k \in Tokens, S \in Requests :
    /\ Begin(t, "unpersist", k, S, 0, IfMac("read"))
    /\ UNCHANGED grantVars

(* RemoveNormalPolicy reads the token's rows and collects what they match.    *)
ReadForRemove(t) ==
  LET c == call[t]
  IN /\ c.op = "unpersist" /\ c.pc = "read"
     /\ \E F \in SUBSET rows[c.tok] :
          LET found == UNION {FindMatchingPaths(F, q) : q \in c.req}
          IN /\ Find(rows[c.tok], F)
             /\ call' = [call EXCEPT
                  ![t].todo = found, ![t].sel = found,
                  ![t].pc = Onward(c.op, found, found),
                  ![t].ok = {q \in c.req : FindMatchingPaths(F, q) # {}},
                  ![t].missed = rows[c.tok] \ F]
     /\ UNCHANGED <<macSupport, dbVars, macVars, grantVars, touched>>

(* The transaction at the end of RemoveNormalPolicy.                          *)
RemoveFromDatabase(t) ==
  LET c == call[t]
  IN /\ c.op = "unpersist" /\ c.pc = "write"
     /\ rows' = [rows EXCEPT ![c.tok] = @ \ c.sel]
     /\ autoLoad' = [autoLoad EXCEPT ![c.tok] = @ \ c.sel]
     /\ call' = [call EXCEPT ![t].pc = "done"]
     /\ Touch(t, c.tok, c.sel)
     /\ UNCHANGED <<macSupport, macVars, bounds, grantVars>>

(* SetPolicy: a privileged caller grants S, for persisting when the flag      *)
(* is 1.                                                                      *)
SetPolicy(t) ==
  \E k \in Tokens, S \in Requests, f \in {0, 1} :
    /\ Begin(t, "set", k, S, f, IfMac(Onward("set", S, {})))
    /\ granted' = [granted EXCEPT ![k] = @ \cup S]
    /\ earned' = [earned EXCEPT ![k] = IF f = 1 THEN @ \cup S ELSE @]

UnSetPolicy(t) ==
  \E k \in Tokens, p \in Policies :
    /\ Begin(t, "unset", k, {p}, 0, IfMac("mac"))
    /\ UNCHANGED grantVars

StartAccessingPolicy(t) ==
  \E k \in Tokens, S \in Requests :
    /\ Begin(t, "start", k, S, 0, IfMac("read"))
    /\ UNCHANGED grantVars

StopAccessingPolicy(t) ==
  \E k \in Tokens, S \in Requests :
    /\ Begin(t, "stop", k, S, 0, IfMac("read"))
    /\ UNCHANGED grantVars

(* MatchPolicy on behalf of StartAccessing and StopAccessing.                 *)
MatchPolicy(t) ==
  LET c == call[t]
  IN /\ c.op \in {"start", "stop"} /\ c.pc = "read"
     /\ \E F \in SUBSET rows[c.tok] :
          LET match == {q \in c.req : CheckPathNew(F, q)}
          IN /\ Find(rows[c.tok], F)
             /\ call' = [call EXCEPT ![t].todo = match, ![t].sel = match,
                                     ![t].pc = Onward(c.op, match, match)]
     /\ UNCHANGED <<macSupport, dbVars, macVars, grantVars, touched>>

StartAccessingByTokenId(t) ==
  \E k \in Tokens :
    /\ Begin(t, "startByToken", k, {}, 1, IfMac("read"))
    /\ UNCHANGED grantVars

ReadAutoLoad(t) ==
  LET c == call[t]
  IN /\ c.op = "startByToken" /\ c.pc = "read"
     /\ \E found \in SUBSET autoLoad[c.tok] :
          /\ Find(autoLoad[c.tok], found)
          /\ call' = [call EXCEPT ![t].todo = found, ![t].sel = found,
                                  ![t].pc = Onward(c.op, found, found),
                                  ![t].ret = IF found = {} THEN "empty" ELSE "ok",
                                  ![t].missed = autoLoad[c.tok] \ found]
     /\ UNCHANGED <<macSupport, dbVars, macVars, grantVars, touched>>

(* SetPolicyToMac: one batch.                                                 *)
SetBatch(t) ==
  LET c == call[t]
  IN /\ c.op \in {"set", "start", "startByToken"} /\ c.pc = "mac"
     /\ \E B \in SUBSET c.todo : \E bad \in SUBSET B :
          /\ Batch(c, B)
          /\ KernelSet(c.tok, B, c.flag, bad)
          /\ call' = [call EXCEPT ![t].todo = Rest(c.todo, B),
                                  ![t].ok = c.ok \cup (B \ bad),
                                  ![t].pc = Onward(c.op, Rest(c.todo, B), c.sel)]
          /\ Touch(t, c.tok, B)
     /\ UNCHANGED <<macSupport, dbVars, bounds, grantVars>>

(* The policies reported as done after the batch B.                           *)
Reported(c, B, bad) ==
  CASE c.op = "unpersist" -> c.ok
    [] c.op = "stop" -> c.ok \cup (B \ bad)
    [] OTHER -> c.ok \cup B

(* UnSetSandboxPolicy: one batch.  The ioctl succeeds and the kernel refuses  *)
(* the entries in bad, whether there is a rule for them or not.  The vector   *)
(* form StopAccessing calls reports their results; the form for one policy    *)
(* (UnSetPolicyToMac) looks at the ioctl only and takes them for removed.     *)
UnSetBatch(t) ==
  LET c == call[t]
  IN /\ c.op \in {"unset", "stop", "unpersist"} /\ c.pc = "mac"
     /\ \E B \in SUBSET c.todo : \E bad \in SUBSET B :
          /\ Batch(c, B)
          /\ KernelUnSet(c.tok, B, bad)
          /\ call' = [call EXCEPT ![t].todo = Rest(c.todo, B),
                                  ![t].ok = Reported(c, B, bad),
                                  ![t].kept = IF c.op = "stop" THEN @
                                              ELSE @ \cup (bad \cap rules[c.tok]),
                                  ![t].pc = Onward(c.op, Rest(c.todo, B), c.sel)]
          /\ Touch(t, c.tok, B)
     /\ UNCHANGED <<macSupport, dbVars, bounds, grantVars>>

UnSetAllPolicyByToken(t) ==
  \E k \in Tokens :
    /\ Begin(t, "unsetAll", k, {}, 0, IfMac("mac"))
    /\ UNCHANGED grantVars

(* UnPersistPolicy(tokenId) removes the rows even without MAC support.        *)
UnPersistAll(t) ==
  \E k \in Tokens :
    /\ Begin(t, "unpersistAll", k, {}, 0, "write")
    /\ UNCHANGED grantVars

(* The package-removed event of an application that is not preserved.         *)
PackageRemoved(t) ==
  \E k \in Tokens :
    /\ Begin(t, "removeBundle", k, {}, 0, "write")
    /\ UNCHANGED grantVars

(* RemoveBundlePolicy: one statement deletes the token's rows.                *)
RemoveBundlePolicy(t) ==
  LET c == call[t]
  IN /\ c.op \in {"unpersistAll", "removeBundle"} /\ c.pc = "write"
     /\ rows' = [rows EXCEPT ![c.tok] = {}]
     /\ autoLoad' = [autoLoad EXCEPT ![c.tok] = {}]
     /\ call' = [call EXCEPT ![t].pc = IF c.op = "unpersistAll"
                                     THEN IfMac("mac") ELSE "done"]
     /\ Touch(t, c.tok, Policies)
     /\ UNCHANGED <<macSupport, macVars, bounds, grantVars>>

(* DestroySandboxPolicy.                                                      *)
DestroySandboxPolicy(t) ==
  LET c == call[t]
  IN /\ c.op \in {"unsetAll", "unpersistAll"} /\ c.pc = "mac"
     /\ KernelUnSet(c.tok, Policies, {})
     /\ call' = [call EXCEPT ![t].pc = "done"]
     /\ Touch(t, c.tok, Policies)
     /\ UNCHANGED <<macSupport, dbVars, bounds, grantVars>>

(* A query or a transaction fails; nothing of it is visible.                  *)
DbError(t) ==
  /\ call[t].pc \in {"read", "write"}
  /\ Fail(t, "dbErr")

(* The device is not open, or an ioctl returns an error: this batch and the   *)
(* later ones are not applied, the earlier ones stay.                         *)
MacIoctlError(t) ==
  /\ call[t].pc = "mac"
  /\ Fail(t, "macErr")

(* The service process ends (unloaded, killed or crashed) or, with            *)
(* reboot = TRUE, the device restarts and the kernel forgets its rules.       *)
Restart ==
  /\ faults < MaxFaults
  /\ faults' = faults + 1
  /\ call' = [t \in Threads |-> [call[t] EXCEPT !.pc = "idle"]]
  /\ \E reboot \in BOOLEAN :
       /\ rules' = IF reboot THEN [k \in Tokens |-> {}] ELSE rules
       /\ persistable' = IF reboot THEN [k \in Tokens |-> {}] ELSE persistable
  /\ UNCHANGED <<macSupport, dbVars, calls, grantVars, touched>>

(* The service starts over the table and the kernel rules an earlier life     *)
(* left, granted and earned then.  Without the device there are no rules.     *)
Init ==
  /\ macSupport \in BOOLEAN
  /\ rows \in [Tokens -> SUBSET Policies]
  /\ autoLoad \in [Tokens -> SUBSET Policies]
  /\ \A k \in Tokens : autoLoad[k] \subseteq rows[k]
  /\ rules \in [Tokens -> SUBSET Policies]
  /\ persistable \in [Tokens -> SUBSET Policies]
  /\ \A k \in Tokens : persistable[k] \subseteq rules[k] /\ (rules[k] # {} => macSupport)
  /\ call = [t \in Threads |->
       [op |-> "none", tok |-> CHOOSE k \in Tokens : TRUE, req |-> {}, flag |-> 0,
        pc |-> "idle", todo |-> {}, sel |-> {}, ok |-> {}, ret |-> "ok",
        missed |-> {}, kept |-> {}]]
  /\ calls = 0
  /\ faults = 0
  /\ granted = [k \in Tokens |-> rows[k] \cup rules[k]]
  /\ earned = [k \in Tokens |-> rows[k] \cup persistable[k]]
  /\ touched = [t \in Threads |-> {}]

Step(t) ==
  \/ QueryBatch(t) \/ AddToDatabase(t)
  \/ ReadForRemove(t) \/ RemoveFromDatabase(t)
  \/ MatchPolicy(t) \/ ReadAutoLoad(t)
  \/ SetBatch(t) \/ UnSetBatch(t)
  \/ RemoveBundlePolicy(t) \/ DestroySandboxPolicy(t)
  \/ DbError(t) \/ MacIoctlError(t)

Start(t) ==
  \/ PersistPolicy(t) \/ UnPersistPolicy(t)
  \/ SetPolicy(t) \/ UnSetPolicy(t)
  \/ StartAccessingPolicy(t) \/ StopAccessingPolicy(t)
  \/ StartAccessingByTokenId(t) \/ UnSetAllPolicyByToken(t)
  \/ UnPersistAll(t) \/ PackageRemoved(t)

Next == (\E t \in Threads : Start(t) \/ Step(t)) \/ Restart

Spec == Init /\ [][Next]_vars

(* Every IPC thread that runs a handler is scheduled until it returns.        *)
FairSpec == Spec /\ \A t \in Threads : WF_vars(Step(t))
-----------------------------------------------------------------------------
(* Properties *)

(* Types, and: a flag belongs to a row, the persist mark to a rule.           *)
TypeOK ==
  /\ macSupport \in BOOLEAN
  /\ rows \in [Tokens -> SUBSET Policies]
  /\ autoLoad \in [Tokens -> SUBSET Policies]
  /\ rules \in [Tokens -> SUBSET Policies]
  /\ persistable \in [Tokens -> SUBSET Policies]
  /\ call \in [Threads -> Call]
  /\ calls \in 0..MaxCalls
  /\ faults \in 0..MaxFaults
  /\ granted \in [Tokens -> SUBSET Policies]
  /\ earned \in [Tokens -> SUBSET Policies]
  /\ touched \in [Threads -> SUBSET Policies]
  /\ \A k \in Tokens : autoLoad[k] \subseteq rows[k] /\ persistable[k] \subseteq rules[k]

(* The policy q lies within one of the policies E.                            *)
LiesWithin(q, E) ==
  \E p \in E : <<p.path, q.path>> \in AtOrAbove /\ q.mode \subseteq p.mode

(* Each single right of q is given by one of the policies G.                  *)
RightsWithin(q, G) ==
  \A m \in q.mode : \E p \in G : <<p.path, q.path>> \in AtOrAbove /\ m \in p.mode

(* A temporary grant is never laundered into a persistent one: whatever mix   *)
(* of PersistPolicy, Start/StopAccessing, StartAccessingByTokenId, failures   *)
(* and restarts happens, a row of the table and a persistable rule of the     *)
(* kernel lie within one policy that the token was granted for persisting,    *)
(* by SetPolicy with flag 1 or by the permission the user gave.               *)
PersistenceIsEarned ==
  \A k \in Tokens : \A q \in rows[k] \cup persistable[k] : LiesWithin(q, earned[k])

(* No right from nowhere: each right of each rule and each row was once       *)
(* granted to the same token by SetPolicy, on the path or a directory above   *)
(* it.  StartAccessing builds rules from the union of the rights of several   *)
(* rows, so this is about single rights.                                      *)
NoRightFromNowhere ==
  \A k \in Tokens : \A q \in rows[k] \cup rules[k] : RightsWithin(q, granted[k])

(* What handlers hold between two steps: the part of the inductive invariants *)
(* that is about stale local copies.                                          *)
CallsEarned ==
  \A t \in Threads :
    LET c == call[t]
    IN  /\ c.op = "start" => c.flag = 0
        /\ c.op = "persist" => \A q \in c.sel : LiesWithin(q, earned[c.tok])
        /\ c.op = "startByToken" => \A q \in c.todo : LiesWithin(q, earned[c.tok])
        /\ c.op = "set" /\ c.flag = 1 => \A q \in c.todo : LiesWithin(q, earned[c.tok])

CallsGranted ==
  \A t \in Threads :
    LET c == call[t]
    IN  /\ c.op = "persist" => \A q \in c.sel : RightsWithin(q, granted[c.tok])
        /\ c.op \in {"set", "start", "startByToken"} /\ c.pc = "mac" =>
             \A q \in c.todo : RightsWithin(q, granted[c.tok])

EarnedInv == TypeOK /\ PersistenceIsEarned /\ CallsEarned

GrantedInv == TypeOK /\ NoRightFromNowhere /\ CallsGranted

(* What the handler of thread t answered is true of every policy that no     *)
(* other thread wrote to since the handler started.                           *)
PromiseKept(t) ==
  LET c == call[t]
      own == Policies \ touched[t]
      mine(S) == S[c.tok] \cap own
  IN  c.ret = "ok" =>
        /\ c.op = "persist" =>
             /\ c.ok \cap own \subseteq rows[c.tok]
             /\ c.flag = 1 => c.ok \cap own \subseteq autoLoad[c.tok]
        /\ c.op = "unpersist" =>
             /\ \A q \in c.req : FindMatchingPaths(mine(rows), q) \subseteq c.missed
             /\ mine(rules) \cap c.sel \subseteq c.kept
        /\ c.op \in {"set", "start"} =>
             /\ c.ok \cap own \subseteq rules[c.tok]
             /\ c.flag = 1 => c.ok \cap own \subseteq persistable[c.tok]
        /\ c.op = "startByToken" =>
             /\ c.ok \cap own \subseteq persistable[c.tok]
             /\ mine(autoLoad) \subseteq c.sel \cup c.missed
        /\ c.op = "unset" => mine(rules) \cap c.ok \subseteq c.kept
        /\ c.op = "stop" => mine(rules) \cap c.ok = {}
        /\ c.op = "unsetAll" => mine(rules) = {}
        /\ c.op = "unpersistAll" => mine(rows) = {} /\ mine(rules) = {}
        /\ c.op = "removeBundle" => mine(rows) = {}

(* Handlers answer truthfully: after PersistPolicy reported a policy as done  *)
(* it is in the table (with flag 1 for foundation, also over an old row),     *)
(* after UnPersistPolicy neither a row in any case variant nor the rule of a  *)
(* removed row is left, what StopAccessing reports as stopped has no rule,    *)
(* and so on, except where another thread interfered.  Two errors the code    *)
(* passes over are the only other exceptions: rows the query lost to a        *)
(* failing cursor (c.missed), and for the calls that do not look at the       *)
(* kernel's result for the entry, the rules it refused to remove (c.kept).    *)
(* An UnPersistPolicy that failed keeps all rows it did not find gone, so     *)
(* that the caller can repeat it.                                             *)
HandlersAnswerTruthfully ==
  macSupport => \A t \in Threads : call[t].pc = "done" =>
    /\ PromiseKept(t)
    /\ call[t].op = "unpersist" /\ call[t].ret # "ok" =>
         call[t].sel \ touched[t] \subseteq rows[call[t].tok]

(* UnPersistPolicy deletes a row only after the kernel was asked to remove    *)
(* its rule and took the request: a crash or an ioctl error in between leaves *)
(* a row without a rule, never a rule the table no longer knows.  The rule    *)
(* can outlive the row only when another thread set it again meanwhile, or    *)
(* when the kernel refused that entry in an ioctl that succeeded.             *)
RowOutlivesRule ==
  [][\A t \in Threads :
       call[t].op = "unpersist" /\ call[t].pc = "write" /\ rows' # rows
         /\ call'[t].pc = "done" =>
       \A k \in Tokens : (rows[k] \ rows'[k]) \cap rules[k]
                             \subseteq touched[t] \cup call[t].kept]_vars

(* Every handler returns (or dies with the service): the batch loops end.     *)
EveryCallReturns ==
  \A t \in Threads : call[t].pc \in {"read", "mac", "write"} ~> Free(t)
=============================================================================
