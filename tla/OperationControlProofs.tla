----------------------- MODULE OperationControlProofs -----------------------
(***************************************************************************)
(* Theorems about OperationControl for every set of paths, inodes, tails   *)
(* and commands, every set of profile and request documents, and any       *)
(* number of requests, changes of the file system and failing calls.       *)
(*                                                                         *)
(* The inductive invariant follows one delivery.  Account says that the    *)
(* modules answered so far are the configured ones that are not to do any  *)
(* more; Untouched that a module not answered "ok" left its part of the    *)
(* device alone; Bound that while no name has moved since the conversion,  *)
(* the open fds are what the conflict check looked at; Guarded that a      *)
(* request compares with the inode the protection is bound to.             *)
(*                                                                         *)
(* The second part is about the stream a profile is sent as: for every     *)
(* profile made of lists, of any length, the reader of PolicyTlv gets the  *)
(* rules back.  A text Parses when, wherever it stands in a stream and     *)
(* whatever was read before it, reading as many blocks as it counts ends   *)
(* behind it and adds what it means; texts that do, one after the other,   *)
(* do together (the least number of them that would not).                  *)
(***************************************************************************)
EXTENDS OperationControl, Algorithms, SequenceTheorems, WellFoundedInduction, TLAPS

Pending == {m \in Modules : \E i \in DOMAIN run.todo : run.todo[i] = m}

\* What a parsed document lets through.
Parsed ==
    /\ run.group.scope = "self_session"
    /\ run.phase = "dynamic" => ~run.group.hasNetwork
    /\ run.group.hasNetwork => run.group.network \in Actions
    /\ run.group.hasFile => run.group.fileDefault \in Actions \cup {"none"}
    /\ run.group.hasProcess => run.group.processDefault \in Actions \cup {"none"}

\* Where each stage finds the delivery, and what start-up has done before it.
Staged ==
    /\ run.pc \in {"parse", "device", "daemon", "scope"} =>
           run.phase = "startup" /\ run.todo = STARTUP_DELIVERY_MODULES
    /\ run.pc \in {"protect", "executer"} => run.phase = "startup" /\ run.todo = <<>>
    /\ run.pc = "ready" /\ run.phase = "startup" => run.todo = <<>>
    /\ run.pc = "report" =>
           run.phase = "dynamic" /\ (run.verdict # "invalid" => run.todo = <<>>)
    /\ run.pc \in {"open", "send"} => run.todo # <<>> /\ Configured(Module)
    /\ run.phase = "startup" /\ run.pc \notin {"parse", "device", "daemon", "aborted"} =>
           dec.daemon /\ dec.subscribed
    /\ run.phase = "startup" /\ run.pc \notin {"parse", "device", "daemon", "scope", "aborted"} =>
           dec.scope = "self_session"

Account ==
    /\ DOMAIN run.delivered = {m \in Modules \ Pending : Configured(m)}
    /\ run.phase = "startup" /\ run.pc # "aborted" =>
           \A m \in DOMAIN run.delivered : run.delivered[m] = "ok"

PartOf(m) ==
    /\ dec.defaults[m] = past.defaults[m]
    /\ m = "file" => dec.files = past.files
    /\ m = "process" => dec.cmds = past.cmds

Untouched ==
    run.phase = "dynamic" /\ run.pc \in {"convert", "open", "send", "report"} =>
        \A m \in Modules : (m \in DOMAIN run.delivered /\ run.delivered[m] = "ok") \/ PartOf(m)

Verdict ==
    /\ run.phase = "dynamic" /\ run.pc \in {"convert", "open", "send"} => run.verdict = "none"
    /\ run.pc = "report" =>
           /\ run.verdict = "invalid" => DOMAIN run.delivered = {}
           /\ run.verdict # "invalid" =>
                  (run.verdict = "ok") = ("refused" \notin Range(run.delivered))

Bound ==
    /\ run.pc # "send" => fds = {}
    /\ run.pc = "send" => \A f \in fds : Module = "file" /\ f.rule \in run.group.file
    /\ run.pc \in {"open", "send"} /\ Module = "file" =>
           /\ ValidateFilePatternArray(run.group.file)
           /\ ~past.raced => /\ ValidateOperationActionConflict(run.group.file)
                             /\ \A f \in fds : f.inode = fs[f.rule.path] /\ f.inode # Absent

Guarded ==
    /\ run.phase = "startup" /\ run.pc \notin {"executer", "ready", "aborted"} =>
           past.socket = Absent
    /\ run.phase = "dynamic" /\ past.socket # Absent /\ ~past.recreated =>
           run.guarded = past.socket
    /\ SocketStaysProtected

Inv == TypeOK /\ Parsed /\ Staged /\ Account /\ Untouched /\ Verdict /\ Bound /\ Guarded

-----------------------------------------------------------------------------
(* The list of modules to do, and the answers given. *)

TodoType == {STARTUP_DELIVERY_MODULES, DYNAMIC_DELIVERY_MODULES, <<"process">>, <<>>}

(* The first module of the list is pending until it is handled.               *)
LEMMA TodoStep ==
  ASSUME run.todo \in TodoType, run.todo # <<>>
  PROVE  /\ Module \in Modules /\ Module \in Pending
         /\ Tail(run.todo) \in TodoType
         /\ run.todo # STARTUP_DELIVERY_MODULES => Module # "network"
         /\ run'.todo = Tail(run.todo) => Pending' = Pending \ {Module}
  <1>1. CASE run.todo = <<"network", "file", "process">>
    <2>1. Module = "network" /\ Tail(run.todo) = <<"file", "process">>
      BY <1>1 DEF Module
    <2>2. Pending = {"network", "file", "process"}
      BY <1>1 DEF Pending, Modules
    <2>3. ASSUME run'.todo = <<"file", "process">> PROVE Pending' = {"file", "process"}
      BY <2>3 DEF Pending, Modules
    <2> QED  BY <1>1, <2>1, <2>2, <2>3 DEF TodoType, Modules, STARTUP_DELIVERY_MODULES, DYNAMIC_DELIVERY_MODULES
  <1>2. CASE run.todo = <<"file", "process">>
    <2>1. Module = "file" /\ Tail(run.todo) = <<"process">>
      BY <1>2 DEF Module
    <2>2. Pending = {"file", "process"}
      BY <1>2 DEF Pending, Modules
    <2>3. ASSUME run'.todo = <<"process">> PROVE Pending' = {"process"}
      BY <2>3 DEF Pending, Modules
    <2> QED  BY <1>2, <2>1, <2>2, <2>3 DEF TodoType, Modules, STARTUP_DELIVERY_MODULES, DYNAMIC_DELIVERY_MODULES
  <1>3. CASE run.todo = <<"process">>
    <2>1. Module = "process" /\ Tail(run.todo) = <<>>
      BY <1>3 DEF Module
    <2>2. Pending = {"process"}
      BY <1>3 DEF Pending, Modules
    <2>3. ASSUME run'.todo = <<>> PROVE Pending' = {}
      BY <2>3 DEF Pending, Modules
    <2> QED  BY <1>3, <2>1, <2>2, <2>3 DEF TodoType, Modules, STARTUP_DELIVERY_MODULES, DYNAMIC_DELIVERY_MODULES
  <1> QED  BY <1>1, <1>2, <1>3 DEF TodoType, STARTUP_DELIVERY_MODULES, DYNAMIC_DELIVERY_MODULES

(* What is pending at the start of a delivery and at its end.                 *)
LEMMA TodoEnds ==
  /\ run.todo = STARTUP_DELIVERY_MODULES => Pending = Modules
  /\ run.todo = DYNAMIC_DELIVERY_MODULES => Pending = {"file", "process"}
  /\ run.todo = <<>> => Pending = {}
  <1>1. run.todo = STARTUP_DELIVERY_MODULES => Pending = Modules
    BY DEF Pending, Modules, STARTUP_DELIVERY_MODULES
  <1>2. run.todo = DYNAMIC_DELIVERY_MODULES => Pending = {"file", "process"}
    BY DEF Pending, Modules, DYNAMIC_DELIVERY_MODULES
  <1>3. run.todo = <<>> => Pending = {}
    BY DEF Pending
  <1> QED  BY <1>1, <1>2, <1>3

Deliveries == UNION {[S -> {"ok", "refused"}] : S \in SUBSET Modules}

(* The answer for a module is added to those before.                          *)
LEMMA AnsweredType ==
  ASSUME NEW d \in Deliveries, Module \in Modules, NEW a \in {"ok", "refused"}
  PROVE  /\ Answered(d, a) \in Deliveries
         /\ DOMAIN Answered(d, a) = DOMAIN d \cup {Module}
         /\ Answered(d, a)[Module] = a
         /\ \A m \in DOMAIN d : m # Module => Answered(d, a)[m] = d[m]
  <1>1. PICK S \in SUBSET Modules : d \in [S -> {"ok", "refused"}]
    BY DEF Deliveries
  <1>2. Answered(d, a) \in [S \cup {Module} -> {"ok", "refused"}]
    BY <1>1 DEF Answered
  <1>3. S \cup {Module} \in SUBSET Modules
    BY <1>1
  <1> QED  BY <1>1, <1>2, <1>3 DEF Answered, Deliveries

(* Before the first answer there is none.                                     *)
LEMMA NoDeliveries == <<>> \in Deliveries /\ DOMAIN (<<>>) = {}
  <1>1. <<>> \in [{} -> {"ok", "refused"}]
    OBVIOUS
  <1> QED  BY <1>1 DEF Deliveries

-----------------------------------------------------------------------------
(* The device *)

Words == Actions \cup {"none"}

(* The last action of none is the old one, and of one that one.              *)
LEMMA LastOfFew ==
  ASSUME NEW old
  PROVE  /\ LastOf({}, old) = old
         /\ \A a \in Actions : LastOf({a}, old) = a
  <1>1. LastOf({}, old) = old
    BY DEF LastOf
  <1>2. ASSUME NEW a \in Actions PROVE LastOf({a}, old) = a
    <2> DEFINE P(i) == /\ ActionOrder[i] \in {a} /\ \A j \in i+1..3 : ActionOrder[j] \notin {a}
    <2>1. \E i \in 1..3 : P(i)
      <3>1. CASE a = "deny"
        <4>1. P(1)
          BY <3>1 DEF ActionOrder
        <4> QED  BY <4>1
      <3>2. CASE a = "allow"
        <4>1. P(2)
          BY <3>2 DEF ActionOrder
        <4> QED  BY <4>1
      <3>3. CASE a = "ask"
        <4>1. P(3)
          BY <3>3 DEF ActionOrder
        <4> QED  BY <4>1
      <3> QED  BY <3>1, <3>2, <3>3 DEF Actions
    <2>2. PICK i \in 1..3 : i = (CHOOSE k \in 1..3 : P(k)) /\ P(i)
      BY <2>1
    <2>3. LastOf({a}, old) = ActionOrder[i]
      BY <2>2 DEF LastOf
    <2> QED  BY <2>2, <2>3
  <1> QED  BY <1>1, <1>2

(* The last of several actions is an action.                                  *)
LEMMA LastOfType ==
  ASSUME NEW acts \in SUBSET Actions, NEW old \in Words
  PROVE  LastOf(acts, old) \in Words
  <1>1. CASE acts = {}
    BY <1>1 DEF LastOf
  <1>2. CASE acts # {}
    <2> DEFINE P(i) == /\ ActionOrder[i] \in acts /\ \A j \in i+1..3 : ActionOrder[j] \notin acts
    <2>0. ActionOrder[1] = "deny" /\ ActionOrder[2] = "allow" /\ ActionOrder[3] = "ask"
      BY DEF ActionOrder
    <2>1. \E i \in 1..3 : P(i)
      <3>1. CASE "ask" \in acts
        <4>1. P(3)
          BY <3>1, <2>0
        <4> QED  BY <4>1
      <3>2. CASE "ask" \notin acts /\ "allow" \in acts
        <4>1. P(2)
          BY <3>2, <2>0
        <4> QED  BY <4>1
      <3>3. CASE "ask" \notin acts /\ "allow" \notin acts
        <4>1. "deny" \in acts
          BY <1>2, <3>3 DEF Actions
        <4>2. P(1)
          BY <3>3, <4>1, <2>0
        <4> QED  BY <4>2
      <3> QED  BY <3>1, <3>2, <3>3
    <2>2. PICK i \in 1..3 : i = (CHOOSE k \in 1..3 : P(k)) /\ P(i)
      BY <2>1
    <2>3. LastOf(acts, old) = ActionOrder[i]
      BY <1>2, <2>2 DEF LastOf
    <2> QED  BY <2>2, <2>3 DEF Words
  <1> QED  BY <1>1, <1>2

(* What DEC_CMD_POLICY_ADD leaves alone, and that it stays in range.         *)
LEMMA PolicyAdd ==
  ASSUME dec \in DecType, run \in RunType, fds \subseteq [rule: FileRules, inode: Inodes],
         Module \in Modules, Configured(Module), Parsed
  PROVE  /\ DecPolicyAdd \in DecType
         /\ DecPolicyAdd.daemon = dec.daemon /\ DecPolicyAdd.subscribed = dec.subscribed
         /\ DecPolicyAdd.scope = dec.scope
         /\ \A m \in Modules : m # Module => DecPolicyAdd.defaults[m] = dec.defaults[m]
         /\ Module # "process" => DecPolicyAdd.cmds = dec.cmds
         /\ \A k \in FileKeys : DecPolicyAdd.files[k] =
                LastOf({f.rule.action : f \in {h \in fds :
                            <<h.inode, h.rule.tail, h.rule.event>> = k}}, dec.files[k])
         /\ fds = {} => DecPolicyAdd.files = dec.files
  <1> DEFINE Acts(k) == {f.rule.action : f \in {h \in fds :
                              <<h.inode, h.rule.tail, h.rule.event>> = k}}
             CmdActs(c) == {r.action : r \in {q \in run.group.process :
                              Module = "process" /\ q.cmd = c}}
             D == IF Default = "none" THEN dec.defaults[Module] ELSE Default
             Files == [k \in FileKeys |-> LastOf(Acts(k), dec.files[k])]
             Cmds == [c \in Commands |-> LastOf(CmdActs(c), dec.cmds[c])]
  <1>1. /\ dec.defaults \in [Modules -> Words] /\ dec.files \in [FileKeys -> Words]
        /\ dec.cmds \in [Commands -> Words]
    BY DEF DecType, Words
  <1>2. run.group.process \subseteq ProcessRules
    BY DEF RunType, Groups
  <1>3. D \in Words
    <2>1. Default \in Words
      BY DEF Default, Configured, Parsed, Words, Modules
    <2> QED  BY <2>1, <1>1
  <1>4. Files \in [FileKeys -> Words]
    <2>1. ASSUME NEW k \in FileKeys PROVE Acts(k) \in SUBSET Actions /\ dec.files[k] \in Words
      BY <1>1 DEF FileRules
    <2> QED  BY <2>1, LastOfType
  <1>5. Cmds \in [Commands -> Words]
    <2>1. ASSUME NEW c \in Commands PROVE CmdActs(c) \in SUBSET Actions /\ dec.cmds[c] \in Words
      BY <1>1, <1>2 DEF ProcessRules
    <2> QED  BY <2>1, LastOfType
  <1>6. DecPolicyAdd = [dec EXCEPT !.defaults = [dec.defaults EXCEPT ![Module] = D],
                                   !.files = Files, !.cmds = Cmds]
    BY DEF DecPolicyAdd
  <1>7. [dec.defaults EXCEPT ![Module] = D] \in [Modules -> Words]
    BY <1>1, <1>3
  <1>8. fds = {} => Files = dec.files
    <2>1. ASSUME fds = {}, NEW k \in FileKeys PROVE LastOf(Acts(k), dec.files[k]) = dec.files[k]
      <3>1. Acts(k) = {}
        BY <2>1
      <3> QED  BY <3>1, LastOfFew
    <2> QED  BY <2>1, <1>1
  <1>9. Module # "process" => Cmds = dec.cmds
    <2>1. ASSUME Module # "process", NEW c \in Commands
          PROVE  LastOf(CmdActs(c), dec.cmds[c]) = dec.cmds[c]
      <3>1. CmdActs(c) = {}
        BY <2>1
      <3> QED  BY <3>1, LastOfFew
    <2> QED  BY <2>1, <1>1
  <1>10. DecPolicyAdd \in DecType
    <2> HIDE DEF Files, Cmds, D
    <2> QED  BY <1>4, <1>5, <1>6, <1>7 DEF DecType, Words
  <1>11. /\ DecPolicyAdd.daemon = dec.daemon /\ DecPolicyAdd.subscribed = dec.subscribed
         /\ DecPolicyAdd.scope = dec.scope
         /\ DecPolicyAdd.defaults = [dec.defaults EXCEPT ![Module] = D]
         /\ DecPolicyAdd.files = Files /\ DecPolicyAdd.cmds = Cmds
    <2> HIDE DEF Files, Cmds, D
    <2> QED  BY <1>6 DEF DecType
  <1>12. \A m \in Modules : m # Module => DecPolicyAdd.defaults[m] = dec.defaults[m]
    <2> HIDE DEF Files, Cmds, D
    <2> QED  BY <1>11, <1>1
  <1> QED  BY <1>8, <1>9, <1>10, <1>11, <1>12

-----------------------------------------------------------------------------
(* Documents *)

(* The empty rule group is a rule group.                                      *)
LEMMA EmptyGroupType == EmptyGroup \in Groups
  BY DEF EmptyGroup, Groups, ActionWords

(* What a document that parses says.                                          *)
LEMMA ParseGives ==
  ASSUME NEW doc \in Seq(Groups), NEW phase, ParseOperationControlRuleGroups(doc, phase)
  PROVE  LET g == GroupOf(doc) IN
         /\ g \in Groups /\ g.scope = "self_session"
         /\ phase = "dynamic" => ~g.hasNetwork
         /\ g.hasNetwork => g.network \in Actions
         /\ g.hasFile => g.fileDefault \in Actions \cup {"none"}
         /\ g.hasProcess => g.processDefault \in Actions \cup {"none"}
  <1>1. CASE doc = <<>>
    BY <1>1, EmptyGroupType DEF GroupOf, EmptyGroup
  <1>2. CASE doc # <<>>
    <2>1. 1 \in DOMAIN doc /\ doc[1] \in Groups /\ GroupOf(doc) = doc[1]
      BY <1>2 DEF GroupOf
    <2>2. ParseOperationControlRuleGroupItem(doc[1], phase)
      BY <2>1 DEF ParseOperationControlRuleGroups
    <2> QED  BY <2>1, <2>2 DEF ParseOperationControlRuleGroupItem, ParseOperationControlScope,
               ParseNetworkOperationControl, ParseFileOperationControl,
               ParseProcessOperationControl, EnforcePhaseRules, Actions
  <1> QED  BY <1>1, <1>2

-----------------------------------------------------------------------------
(* Steps of the pipeline *)

(* The fields a delivery run is made of.                                      *)
LEMMA RunFields ==
  ASSUME run \in RunType
  PROVE  /\ run.group \in Groups /\ run.todo \in TodoType /\ run.delivered \in Deliveries
         /\ run.group.file \subseteq FileRules /\ run.group.process \subseteq ProcessRules
         /\ run.guarded \in Inodes \cup {Absent}
  BY DEF RunType, Groups, TodoType, Deliveries

(* The rule group alone decides which modules are configured.                 *)
LEMMA SameGroup ==
  ASSUME run'.group = run.group
  PROVE  \A m : Configured(m)' <=> Configured(m)
  BY DEF Configured

(* The path rules of a group are file rules.                                  *)
LEMMA PathRulesType ==
  ASSUME run \in RunType
  PROVE  PathRules \subseteq FileRules
  BY RunFields DEF PathRules

(* A module that is answered leaves the list and enters the account.         *)
LEMMA AnswerAccount ==
  ASSUME run \in RunType, run.todo # <<>>, Configured(Module), Account,
         NEW a \in {"ok", "refused"},
         run'.group = run.group, run'.todo = Tail(run.todo),
         run'.delivered = Answered(run.delivered, a)
  PROVE  /\ DOMAIN run'.delivered = {m \in Modules \ Pending : Configured(m)}'
         /\ DOMAIN run'.delivered = DOMAIN run.delivered \cup {Module}
         /\ Module \notin DOMAIN run.delivered
         /\ run'.delivered[Module] = a
         /\ \A m \in DOMAIN run.delivered : run'.delivered[m] = run.delivered[m]
  <1>1. /\ Module \in Modules /\ Module \in Pending
        /\ Pending' = Pending \ {Module}
    BY RunFields, TodoStep
  <1>2. /\ DOMAIN Answered(run.delivered, a) = DOMAIN run.delivered \cup {Module}
        /\ Answered(run.delivered, a)[Module] = a
        /\ \A m \in DOMAIN run.delivered :
               m # Module => Answered(run.delivered, a)[m] = run.delivered[m]
    BY <1>1, RunFields, AnsweredType
  <1>3. Module \notin DOMAIN run.delivered
    BY <1>1 DEF Account
  <1>4. DOMAIN run.delivered = {m \in Modules \ Pending : Configured(m)}
    BY DEF Account
  <1>5. {m \in Modules \ Pending : Configured(m)}' = {m \in Modules \ Pending' : Configured(m)}
    BY SameGroup DEF Modules
  <1>6. {m \in Modules \ Pending' : Configured(m)} = DOMAIN run.delivered \cup {Module}
    BY <1>1, <1>4
  <1> QED  BY <1>2, <1>3, <1>5, <1>6

(* A module that is not configured just leaves the list.                     *)
LEMMA SkipAccount ==
  ASSUME run \in RunType, run.todo # <<>>, ~Configured(Module), Account,
         run'.group = run.group, run'.todo = Tail(run.todo),
         run'.delivered = run.delivered
  PROVE  DOMAIN run'.delivered = {m \in Modules \ Pending : Configured(m)}'
  <1>1. /\ Module \in Modules /\ Module \in Pending
        /\ Pending' = Pending \ {Module}
    BY RunFields, TodoStep
  <1>2. {m \in Modules \ Pending : Configured(m)}' = {m \in Modules \ Pending' : Configured(m)}
    BY SameGroup DEF Modules
  <1>3. DOMAIN run.delivered = {m \in Modules \ Pending : Configured(m)}
    BY DEF Account
  <1> QED  BY <1>1, <1>2, <1>3

(* Neither the group nor the list moves.                                     *)
LEMMA SameAccount ==
  ASSUME Account, run'.group = run.group, run'.todo = run.todo,
         run'.delivered = run.delivered
  PROVE  DOMAIN run'.delivered = {m \in Modules \ Pending : Configured(m)}'
  <1>1. Pending' = Pending
    BY DEF Pending
  <1>2. {m \in Modules \ Pending : Configured(m)}' = {m \in Modules \ Pending' : Configured(m)}
    BY SameGroup DEF Modules
  <1> QED  BY <1>1, <1>2 DEF Account

Reasons == {"action_conflict", "open_failed", "protected_object"}

(* What a refused module changes.                                             *)
LEMMA RefuseFields ==
  ASSUME run \in RunType, run.todo # <<>>, NEW reasons \in SUBSET Reasons, RefuseModule(reasons)
  PROVE  /\ run' \in RunType
         /\ run'.pc = IF run.phase = "startup" THEN "aborted" ELSE "convert"
         /\ run'.phase = run.phase /\ run'.group = run.group /\ run'.guarded = run.guarded
         /\ run'.todo = Tail(run.todo) /\ run'.delivered = Answered(run.delivered, "refused")
         /\ run'.verdict = IF run.phase = "startup" THEN "failed" ELSE run.verdict
         /\ fds' = {} /\ dec' = dec
  <1>1. Module \in Modules /\ Tail(run.todo) \in TodoType
    BY RunFields, TodoStep
  <1>2. Answered(run.delivered, "refused") \in Deliveries
    BY <1>1, RunFields, AnsweredType
  <1> QED  BY <1>1, <1>2, ZenonT(40) DEF RefuseModule, RunType, TodoType, Deliveries, Reasons

(* A refused module keeps the invariant.                                      *)
LEMMA RefuseInv ==
  ASSUME Inv, run.pc \in {"convert", "open", "send"}, run.todo # <<>>, Configured(Module),
         NEW reasons \in SUBSET Reasons, RefuseModule(reasons),
         fs' = fs, requests' = requests, changes' = changes, faults' \in 0..MaxFaults,
         past' = past \/ past' = [past EXCEPT !.raced = FALSE]
  PROVE  Inv'
  <1> USE DEF Inv
  <1>1. /\ run' \in RunType
        /\ run'.pc = IF run.phase = "startup" THEN "aborted" ELSE "convert"
        /\ run'.phase = run.phase /\ run'.group = run.group /\ run'.guarded = run.guarded
        /\ run'.todo = Tail(run.todo) /\ run'.delivered = Answered(run.delivered, "refused")
        /\ run'.verdict = IF run.phase = "startup" THEN "failed" ELSE run.verdict
        /\ fds' = {} /\ dec' = dec
    BY RefuseFields DEF TypeOK
  <1>2. /\ past' \in PastType /\ past'.files = past.files /\ past'.cmds = past.cmds
        /\ past'.defaults = past.defaults /\ past'.socket = past.socket
        /\ past'.recreated = past.recreated
    BY DEF TypeOK, PastType
  <1>3. /\ DOMAIN run'.delivered = {m \in Modules \ Pending : Configured(m)}'
        /\ DOMAIN run'.delivered = DOMAIN run.delivered \cup {Module}
        /\ Module \notin DOMAIN run.delivered
        /\ run'.delivered[Module] = "refused"
        /\ \A m \in DOMAIN run.delivered : run'.delivered[m] = run.delivered[m]
    BY <1>1, AnswerAccount DEF TypeOK
  <1>4. TypeOK'
    BY <1>1, <1>2 DEF TypeOK
  <1>5. Parsed'
    BY <1>1 DEF Parsed
  <1>6. run.phase \in {"startup", "dynamic"}
    BY DEF TypeOK, RunType
  <1>7. Staged'
    BY <1>1, <1>6 DEF Staged
  <1>8. Account'
    BY <1>1, <1>3, <1>6 DEF Account
  <1>9. Untouched'
    BY <1>1, <1>2, <1>3 DEF Untouched, PartOf
  <1>10. Verdict'
    BY <1>1, <1>6 DEF Verdict
  <1>11. Bound'
    BY <1>1, <1>6 DEF Bound
  <1>12. SocketStaysProtected'
    BY <1>1, <1>2 DEF Guarded, SocketStaysProtected
  <1>13. Guarded'
    BY <1>1, <1>2, <1>6, <1>12 DEF Guarded
  <1> QED  BY <1>4, <1>5, <1>7, <1>8, <1>9, <1>10, <1>11, <1>13

(* Converting a module keeps the invariant.                                   *)
LEMMA ConvertInv ==
  ASSUME Inv, ConvertModuleTlv
  PROVE  Inv'
  <1> USE DEF Inv
  <1>0. /\ run.pc = "convert" /\ run.todo # <<>> /\ past' = [past EXCEPT !.raced = FALSE]
        /\ fs' = fs /\ requests' = requests /\ changes' = changes /\ faults' = faults
    BY DEF ConvertModuleTlv
  <1>1. run \in RunType /\ past \in PastType /\ faults \in 0..MaxFaults
    BY DEF TypeOK
  <1>2. /\ past' \in PastType /\ past'.files = past.files /\ past'.cmds = past.cmds
        /\ past'.defaults = past.defaults /\ past'.socket = past.socket
        /\ past'.recreated = past.recreated /\ past'.raced = FALSE
    BY <1>0, <1>1 DEF PastType
  <1>3. run.phase \in {"startup", "dynamic"}
    BY <1>1 DEF RunType
  <1>4. CASE Configured(Module) /\ RefuseModule({"action_conflict"})
    BY <1>0, <1>1, <1>4, RefuseInv DEF Reasons
  <1>5. CASE ~Configured(Module) /\ run' = [run EXCEPT !.todo = Tail(@)] /\ dec' = dec /\ fds' = fds
    <2>1. Tail(run.todo) \in TodoType
      BY <1>0, <1>1, RunFields, TodoStep
    <2>2. /\ run' \in RunType /\ run'.pc = run.pc
          /\ run'.phase = run.phase /\ run'.group = run.group /\ run'.guarded = run.guarded
          /\ run'.todo = Tail(run.todo) /\ run'.delivered = run.delivered
          /\ run'.verdict = run.verdict
      BY <1>1, <1>5, <2>1 DEF RunType, TodoType
    <2>3. DOMAIN run'.delivered = {m \in Modules \ Pending : Configured(m)}'
      BY <1>0, <1>1, <1>5, <2>2, SkipAccount
    <2>4. TypeOK'
      BY <1>0, <1>2, <1>5, <2>2 DEF TypeOK
    <2>5. Parsed'
      BY <2>2 DEF Parsed
    <2>6. Staged'
      BY <1>0, <1>5, <2>2 DEF Staged
    <2>7. Account'
      BY <2>2, <2>3 DEF Account
    <2>8. Untouched'
      BY <1>2, <1>5, <2>2 DEF Untouched, PartOf
    <2>9. Verdict'
      BY <1>0, <2>2 DEF Verdict
    <2>10. Bound'
      BY <1>0, <1>5, <2>2 DEF Bound
    <2>11. SocketStaysProtected'
      BY <1>0, <1>2, <1>5 DEF Guarded, SocketStaysProtected
    <2>12. Guarded'
      BY <1>2, <2>2, <2>11 DEF Guarded
    <2> QED  BY <2>4, <2>5, <2>6, <2>7, <2>8, <2>9, <2>10, <2>12
  <1>6. CASE /\ Configured(Module) /\ ConvertOperationControlToTlv(Module)
             /\ run' = [run EXCEPT !.pc = "open"] /\ dec' = dec /\ fds' = fds
    <2>2. /\ run' \in RunType /\ run'.pc = "open"
          /\ run'.phase = run.phase /\ run'.group = run.group /\ run'.guarded = run.guarded
          /\ run'.todo = run.todo /\ run'.delivered = run.delivered
          /\ run'.verdict = run.verdict
      BY <1>1, <1>6 DEF RunType
    <2>3. DOMAIN run'.delivered = {m \in Modules \ Pending : Configured(m)}'
      BY <2>2, SameAccount
    <2>4. TypeOK'
      BY <1>0, <1>2, <1>6, <2>2 DEF TypeOK
    <2>5. Parsed'
      BY <2>2 DEF Parsed
    <2>6. Module' = Module /\ Configured(Module)'
      BY <1>6, <2>2 DEF Module, Configured
    <2>7. Staged'
      BY <1>0, <1>6, <2>2, <2>6 DEF Staged
    <2>8. Account'
      BY <1>0, <2>2, <2>3 DEF Account
    <2>9. Untouched'
      BY <1>0, <1>2, <1>6, <2>2 DEF Untouched, PartOf
    <2>10. Verdict'
      BY <1>0, <2>2 DEF Verdict
    <2>11. Module = "file" => /\ ValidateFilePatternArray(run.group.file)
                              /\ ValidateOperationActionConflict(run.group.file)
      BY <1>6 DEF ConvertOperationControlToTlv, ConvertFileRuleGroupToTlv
    <2>12. ValidateOperationActionConflict(run.group.file)
               => ValidateOperationActionConflict(run.group.file)'
      BY <1>0, <2>2 DEF ValidateOperationActionConflict, ObjectIdentity
    <2>13. ValidateFilePatternArray(run.group.file) => ValidateFilePatternArray(run.group.file)'
      BY <2>2 DEF ValidateFilePatternArray, LegalPattern
    <2>14. fds' = {}
      BY <1>0, <1>6 DEF Bound
    <2>15. Bound'
      BY <2>2, <2>6, <2>11, <2>12, <2>13, <2>14 DEF Bound
    <2>16. SocketStaysProtected'
      BY <1>0, <1>2, <1>6 DEF Guarded, SocketStaysProtected
    <2>17. Guarded'
      BY <1>0, <1>2, <2>2, <2>16 DEF Guarded
    <2> QED  BY <2>4, <2>5, <2>7, <2>8, <2>9, <2>10, <2>15, <2>17
  <1> QED  BY <1>4, <1>5, <1>6 DEF ConvertModuleTlv

(* A counted fault stays within its bound.                                    *)
LEMMA FaultType ==
  ASSUME faults \in 0..MaxFaults
  PROVE  /\ Fault => faults' \in 0..MaxFaults
         /\ NoFault => faults' \in 0..MaxFaults
  <1>1. MaxFaults \in Nat
    BY OperationControlAssumption
  <1>2. Fault => faults' \in 0..MaxFaults
    BY <1>1 DEF Fault
  <1>3. NoFault => faults' \in 0..MaxFaults
    BY DEF NoFault
  <1> QED  BY <1>2, <1>3

(* Opening the files of the path rules keeps the invariant.                   *)
LEMMA OpenInv ==
  ASSUME Inv, OpenFileFds
  PROVE  Inv'
  <1> USE DEF Inv
  <1>0. /\ run.pc = "open" /\ run.todo # <<>> /\ Configured(Module) /\ past' = past
        /\ fs' = fs /\ requests' = requests /\ changes' = changes
    BY DEF OpenFileFds, Staged
  <1>1. run \in RunType /\ past \in PastType /\ faults' \in 0..MaxFaults
    BY FaultType DEF TypeOK, OpenFileFds
  <1>2. CASE RefuseModule({"open_failed"})
    BY <1>0, <1>1, <1>2, RefuseInv DEF Reasons
  <1>3. CASE /\ \A r \in PathRules : fs[r.path] # Absent
             /\ fds' = Opened /\ run' = [run EXCEPT !.pc = "send"] /\ dec' = dec
    <2>1. PathRules \subseteq FileRules
      BY <1>1, PathRulesType
    <2>2. /\ run' \in RunType /\ run'.pc = "send"
          /\ run'.phase = run.phase /\ run'.group = run.group /\ run'.guarded = run.guarded
          /\ run'.todo = run.todo /\ run'.delivered = run.delivered
          /\ run'.verdict = run.verdict
      BY <1>1, <1>3 DEF RunType
    <2>3. DOMAIN run'.delivered = {m \in Modules \ Pending : Configured(m)}'
      BY <2>2, SameAccount
    <2>4. \A f \in fds' : /\ f \in [rule: FileRules, inode: Inodes] /\ f.rule \in PathRules
                          /\ f.inode = fs[f.rule.path] /\ f.inode # Absent
      <3>1. ASSUME NEW r \in PathRules PROVE r.path \in Paths /\ fs[r.path] \in Inodes
        BY <1>3, <2>1 DEF FileRules, TypeOK
      <3>2. ASSUME NEW f \in fds'
            PROVE  \E r \in PathRules : f = [rule |-> r, inode |-> fs[r.path]]
        BY <1>3 DEF Opened
      <3> QED  BY <1>3, <2>1, <3>1, <3>2
    <2>5. TypeOK'
      BY <1>0, <1>1, <1>3, <2>2, <2>4 DEF TypeOK
    <2>6. Parsed'
      BY <2>2 DEF Parsed
    <2>7. Module' = Module /\ Configured(Module)'
      BY <1>0, <2>2 DEF Module, Configured
    <2>8. Staged'
      BY <1>0, <1>3, <2>2, <2>7 DEF Staged
    <2>9. Account'
      BY <1>0, <2>2, <2>3 DEF Account
    <2>10. Untouched'
      BY <1>0, <1>3, <2>2 DEF Untouched, PartOf
    <2>11. Verdict'
      BY <1>0, <2>2 DEF Verdict
    <2>12. \A f \in fds' : Module = "file" /\ f.rule \in run.group.file
      BY <2>4 DEF PathRules
    <2>13. ValidateOperationActionConflict(run.group.file)
               => ValidateOperationActionConflict(run.group.file)'
      BY <1>0, <2>2 DEF ValidateOperationActionConflict, ObjectIdentity
    <2>14. ValidateFilePatternArray(run.group.file) => ValidateFilePatternArray(run.group.file)'
      BY <2>2 DEF ValidateFilePatternArray, LegalPattern
    <2>15. Module = "file" =>
             /\ ValidateFilePatternArray(run.group.file)
             /\ ~past.raced => ValidateOperationActionConflict(run.group.file)
      BY <1>0 DEF Bound
    <2>16. Bound'
      BY <1>0, <2>2, <2>4, <2>7, <2>12, <2>13, <2>14, <2>15 DEF Bound
    <2>17. SocketStaysProtected'
      BY <1>0, <1>3 DEF Guarded, SocketStaysProtected
    <2>18. Guarded'
      BY <1>0, <2>2, <2>17 DEF Guarded
    <2> QED  BY <2>5, <2>6, <2>8, <2>9, <2>10, <2>11, <2>16, <2>18
  <1> QED  BY <1>2, <1>3 DEF OpenFileFds

(* Checking them and sending the module keeps the invariant.                  *)
LEMMA SendInv ==
  ASSUME Inv, CheckAndSendModule
  PROVE  Inv'
  <1> USE DEF Inv
  <1>0. /\ run.pc = "send" /\ run.todo # <<>> /\ Configured(Module) /\ past' = past
        /\ fs' = fs /\ requests' = requests /\ changes' = changes
    BY DEF CheckAndSendModule, Staged
  <1>1. run \in RunType /\ past \in PastType /\ dec \in DecType /\ faults' \in 0..MaxFaults
    BY FaultType DEF TypeOK, CheckAndSendModule
  <1>2. CASE RefuseModule({"protected_object"}) \/ RefuseModule({})
    BY <1>0, <1>1, <1>2, RefuseInv DEF Reasons
  <1>3. CASE /\ ~RefuseGuardedInode
             /\ dec' = DecPolicyAdd /\ fds' = {}
             /\ run' = [run EXCEPT !.pc = "convert", !.todo = Tail(@),
                                   !.delivered = Answered(@, "ok")]
    <2>1. Module \in Modules /\ Tail(run.todo) \in TodoType
      BY <1>0, <1>1, RunFields, TodoStep
    <2>2. Answered(run.delivered, "ok") \in Deliveries
      BY <1>1, <2>1, RunFields, AnsweredType
    <2>3. /\ run' \in RunType /\ run'.pc = "convert"
          /\ run'.phase = run.phase /\ run'.group = run.group /\ run'.guarded = run.guarded
          /\ run'.todo = Tail(run.todo) /\ run'.delivered = Answered(run.delivered, "ok")
          /\ run'.verdict = run.verdict
      BY <1>1, <1>3, <2>1, <2>2 DEF RunType, TodoType, Deliveries
    <2>4. /\ DOMAIN run'.delivered = {m \in Modules \ Pending : Configured(m)}'
          /\ DOMAIN run'.delivered = DOMAIN run.delivered \cup {Module}
          /\ Module \notin DOMAIN run.delivered
          /\ run'.delivered[Module] = "ok"
          /\ \A m \in DOMAIN run.delivered : run'.delivered[m] = run.delivered[m]
      BY <1>0, <1>1, <2>3, AnswerAccount
    <2>5. fds \subseteq [rule: FileRules, inode: Inodes]
      BY DEF TypeOK
    <2>6. /\ dec' \in DecType
          /\ dec'.daemon = dec.daemon /\ dec'.subscribed = dec.subscribed
          /\ dec'.scope = dec.scope
          /\ \A m \in Modules : m # Module => dec'.defaults[m] = dec.defaults[m]
          /\ Module # "process" => dec'.cmds = dec.cmds
          /\ \A k \in FileKeys : dec'.files[k] =
                LastOf({f.rule.action : f \in {h \in fds :
                            <<h.inode, h.rule.tail, h.rule.event>> = k}}, dec.files[k])
          /\ fds = {} => dec'.files = dec.files
      BY <1>0, <1>1, <1>3, <2>1, <2>5, PolicyAdd
    <2>7. Module # "file" => fds = {}
      BY <1>0 DEF Bound
    <2>8. TypeOK'
      BY <1>0, <1>1, <1>3, <2>3, <2>6 DEF TypeOK
    <2>9. Parsed'
      BY <2>3 DEF Parsed
    <2>10. Staged'
      BY <1>0, <2>3, <2>6 DEF Staged
    <2>11. Account'
      BY <1>0, <2>3, <2>4 DEF Account
    <2>12. Untouched'
      <3>1. SUFFICES ASSUME run.phase = "dynamic", NEW m \in Modules, m # Module, PartOf(m)
                     PROVE  PartOf(m)'
        BY <1>0, <2>3, <2>4 DEF Untouched
      <3>2. m = "file" => dec'.files = dec.files
        BY <2>6, <2>7, <3>1
      <3>3. m = "process" => dec'.cmds = dec.cmds
        BY <2>6, <3>1
      <3> QED  BY <1>0, <2>6, <3>1, <3>2, <3>3 DEF PartOf
    <2>13. Verdict'
      BY <1>0, <2>3 DEF Verdict
    <2>14. Bound'
      BY <1>3, <2>3 DEF Bound
    <2>15. SocketStaysProtected'
      <3>1. SUFFICES ASSUME past.socket # Absent, ~past.recreated, NEW e \in Events
                     PROVE  dec'.files[<<past.socket, "", e>>] = "deny"
        BY <1>0 DEF Guarded, SocketStaysProtected
      <3>2. run.guarded = past.socket
        <4>1. run.phase \in {"startup", "dynamic"}
          BY <1>1 DEF RunType
        <4> QED  BY <1>0, <3>1, <4>1 DEF Guarded
      <3>3. dec.files[<<past.socket, "", e>>] = "deny"
        BY <3>1 DEF Guarded, SocketStaysProtected
      <3>4. <<past.socket, "", e>> \in FileKeys
        BY <1>1, <3>1, OperationControlAssumption DEF PastType, FileKeys
      <3>5. {f.rule.action : f \in {h \in fds :
                 <<h.inode, h.rule.tail, h.rule.event>> = <<past.socket, "", e>>}} = {}
        BY <1>3, <3>1, <3>2 DEF RefuseGuardedInode
      <3> QED  BY <2>6, <3>3, <3>4, <3>5, LastOfFew
    <2>16. Guarded'
      BY <1>0, <2>3, <2>15 DEF Guarded
    <2> QED  BY <2>8, <2>9, <2>10, <2>11, <2>12, <2>13, <2>14, <2>16
  <1> QED  BY <1>2, <1>3 DEF CheckAndSendModule

-----------------------------------------------------------------------------
(* Start-up *)

(* The launch is given up before or after the modules.                       *)
LEMMA AbortInv ==
  ASSUME Inv, Abort, run.pc \in {"parse", "device", "daemon", "scope", "executer"},
         dec' = dec \/ dec' = [dec EXCEPT !.daemon = TRUE],
         fs' = fs, fds' = fds, requests' = requests, changes' = changes, past' = past,
         faults' \in 0..MaxFaults
  PROVE  Inv'
  <1> USE DEF Inv
  <1>1. run \in RunType /\ run.phase = "startup" /\ dec \in DecType
    BY DEF TypeOK, Staged
  <1>2. /\ run' \in RunType /\ run'.pc = "aborted" /\ run'.phase = run.phase
        /\ run'.group = run.group /\ run'.todo = run.todo /\ run'.delivered = run.delivered
    BY <1>1 DEF Abort, RunType
  <1>3. dec' \in DecType /\ dec'.files = dec.files
    BY <1>1 DEF DecType
  <1>4. DOMAIN run'.delivered = {m \in Modules \ Pending : Configured(m)}'
    BY <1>2, SameAccount
  <1>5. TypeOK'
    BY <1>2, <1>3 DEF TypeOK
  <1>6. Parsed'
    BY <1>2 DEF Parsed
  <1>7. Staged'
    BY <1>1, <1>2 DEF Staged
  <1>8. Account' /\ Untouched' /\ Verdict'
    BY <1>1, <1>2, <1>4 DEF Account, Untouched, Verdict
  <1>9. Bound'
    BY <1>2 DEF Bound
  <1>10. SocketStaysProtected'
    BY <1>3 DEF Guarded, SocketStaysProtected
  <1>11. Guarded'
    BY <1>1, <1>2, <1>10 DEF Guarded
  <1> QED  BY <1>5, <1>6, <1>7, <1>8, <1>9, <1>11

(* Parsing the profile keeps the invariant.                                   *)
LEMMA ParseProfileInv ==
  ASSUME Inv, NEW doc \in StartupDocs, ParseProfile(doc)
  PROVE  Inv'
  <1> USE DEF Inv
  <1>0. /\ run.pc = "parse" /\ fs' = fs /\ dec' = dec /\ fds' = fds /\ requests' = requests
        /\ changes' = changes /\ faults' = faults /\ past' = past
    BY DEF ParseProfile
  <1>1. /\ run \in RunType /\ run.phase = "startup" /\ faults \in 0..MaxFaults
        /\ run.todo = STARTUP_DELIVERY_MODULES
    BY <1>0 DEF TypeOK, Staged
  <1>2. CASE Abort
    BY <1>0, <1>1, <1>2, AbortInv
  <1>3. CASE /\ ParseOperationControlRuleGroups(doc, "startup")
             /\ run' = [run EXCEPT !.pc = "device", !.group = GroupOf(doc)]
    <2>1. doc \in Seq(Groups)
      BY OperationControlAssumption
    <2>2. LET g == GroupOf(doc) IN
          /\ g \in Groups /\ g.scope = "self_session"
          /\ g.hasNetwork => g.network \in Actions
          /\ g.hasFile => g.fileDefault \in Actions \cup {"none"}
          /\ g.hasProcess => g.processDefault \in Actions \cup {"none"}
      BY <1>3, <2>1, ParseGives
    <2>3. /\ run' \in RunType /\ run'.pc = "device" /\ run'.phase = run.phase
          /\ run'.group = GroupOf(doc) /\ run'.todo = run.todo
          /\ run'.delivered = run.delivered
      BY <1>1, <1>3, <2>2 DEF RunType
    <2>4. Pending = Modules /\ Pending' = Modules
      <3>1. Pending = Modules
        BY <1>1, TodoEnds
      <3>2. Pending' = Pending
        BY <2>3 DEF Pending
      <3> QED  BY <3>1, <3>2
    <2>5. DOMAIN run.delivered = {} /\ {m \in Modules \ Pending : Configured(m)}' = {}
      BY <2>4 DEF Account, Modules
    <2>6. TypeOK'
      BY <1>0, <2>3 DEF TypeOK
    <2>7. Parsed'
      BY <1>1, <2>2, <2>3 DEF Parsed
    <2>8. Staged'
      BY <1>1, <2>3 DEF Staged
    <2>9. Account' /\ Untouched' /\ Verdict'
      BY <1>1, <2>3, <2>5 DEF Account, Untouched, Verdict
    <2>10. Bound'
      BY <1>0, <2>3 DEF Bound
    <2>11. SocketStaysProtected'
      BY <1>0 DEF Guarded, SocketStaysProtected
    <2>12. Guarded'
      BY <1>0, <1>1, <2>3, <2>11 DEF Guarded
    <2> QED  BY <2>6, <2>7, <2>8, <2>9, <2>10, <2>12
  <1> QED  BY <1>2, <1>3 DEF ParseProfile

(* Start-up goes from one stage to the next with only the pc of the run.     *)
LEMMA StageFields ==
  ASSUME run \in RunType, NEW p \in {"daemon", "scope", "convert", "protect", "executer", "ready"},
         run' = [run EXCEPT !.pc = p], Account, Parsed
  PROVE  /\ run' \in RunType /\ run'.pc = p /\ run'.phase = run.phase
         /\ run'.group = run.group /\ run'.todo = run.todo /\ run'.guarded = run.guarded
         /\ run'.delivered = run.delivered /\ run'.verdict = run.verdict
         /\ DOMAIN run'.delivered = {m \in Modules \ Pending : Configured(m)}'
         /\ Parsed'
  <1>1. /\ run' \in RunType /\ run'.pc = p /\ run'.phase = run.phase
        /\ run'.group = run.group /\ run'.todo = run.todo /\ run'.guarded = run.guarded
        /\ run'.delivered = run.delivered /\ run'.verdict = run.verdict
    BY DEF RunType
  <1>2. DOMAIN run'.delivered = {m \in Modules \ Pending : Configured(m)}'
    BY <1>1, SameAccount
  <1>3. Parsed'
    BY <1>1 DEF Parsed
  <1> QED  BY <1>1, <1>2, <1>3

(* Opening the device keeps the invariant.                                    *)
LEMMA DeviceInv ==
  ASSUME Inv, OpenDecDeviceBeforeFork
  PROVE  Inv'
  <1> USE DEF Inv
  <1>0. /\ run.pc = "device" /\ fs' = fs /\ dec' = dec /\ fds' = fds /\ requests' = requests
        /\ changes' = changes /\ past' = past
    BY DEF OpenDecDeviceBeforeFork
  <1>1. /\ run \in RunType /\ run.phase = "startup" /\ run.todo = STARTUP_DELIVERY_MODULES
        /\ faults' \in 0..MaxFaults
    BY <1>0, FaultType DEF TypeOK, Staged, OpenDecDeviceBeforeFork
  <1>2. CASE Abort
    BY <1>0, <1>1, <1>2, AbortInv
  <1>3. CASE run' = [run EXCEPT !.pc = "daemon"]
    <2>1. /\ run' \in RunType /\ run'.pc = "daemon" /\ run'.phase = run.phase
          /\ run'.group = run.group /\ run'.todo = run.todo
          /\ run'.delivered = run.delivered
          /\ DOMAIN run'.delivered = {m \in Modules \ Pending : Configured(m)}'
          /\ Parsed'
      BY <1>1, <1>3, StageFields
    <2>2. TypeOK'
      BY <1>0, <1>1, <2>1 DEF TypeOK
    <2>3. Staged'
      BY <1>1, <2>1 DEF Staged
    <2>4. Account' /\ Untouched' /\ Verdict'
      BY <1>0, <1>1, <2>1 DEF Account, Untouched, Verdict
    <2>5. Bound'
      BY <1>0, <2>1 DEF Bound
    <2>6. SocketStaysProtected'
      BY <1>0 DEF Guarded, SocketStaysProtected
    <2>7. Guarded'
      BY <1>0, <1>1, <2>1, <2>6 DEF Guarded
    <2> QED  BY <2>1, <2>2, <2>3, <2>4, <2>5, <2>7
  <1> QED  BY <1>2, <1>3 DEF OpenDecDeviceBeforeFork

(* Announcing the daemon to the device keeps the invariant.                   *)
LEMMA DaemonInv ==
  ASSUME Inv, DaemonInit
  PROVE  Inv'
  <1> USE DEF Inv
  <1>0. /\ run.pc = "daemon" /\ fs' = fs /\ fds' = fds /\ requests' = requests
        /\ changes' = changes /\ past' = past
    BY DEF DaemonInit
  <1>1. /\ run \in RunType /\ run.phase = "startup" /\ run.todo = STARTUP_DELIVERY_MODULES
        /\ dec \in DecType /\ faults' \in 0..MaxFaults
    BY <1>0, FaultType DEF TypeOK, Staged, DaemonInit
  <1>2. CASE Abort /\ (dec' = dec \/ dec' = [dec EXCEPT !.daemon = TRUE])
    BY <1>0, <1>1, <1>2, AbortInv
  <1>3. CASE /\ dec' = [dec EXCEPT !.daemon = TRUE, !.subscribed = TRUE]
             /\ run' = [run EXCEPT !.pc = "scope"]
    <2>1. /\ run' \in RunType /\ run'.pc = "scope" /\ run'.phase = run.phase
          /\ run'.group = run.group /\ run'.todo = run.todo
          /\ run'.delivered = run.delivered
          /\ DOMAIN run'.delivered = {m \in Modules \ Pending : Configured(m)}'
          /\ Parsed'
      BY <1>1, <1>3, StageFields
    <2>2. dec' \in DecType /\ dec'.daemon /\ dec'.subscribed /\ dec'.files = dec.files
      BY <1>1, <1>3 DEF DecType
    <2>3. TypeOK'
      BY <1>0, <1>1, <2>1, <2>2 DEF TypeOK
    <2>4. Staged'
      BY <1>1, <2>1, <2>2 DEF Staged
    <2>5. Account' /\ Untouched' /\ Verdict'
      BY <1>0, <1>1, <2>1 DEF Account, Untouched, Verdict
    <2>6. Bound'
      BY <1>0, <2>1 DEF Bound
    <2>7. SocketStaysProtected'
      BY <1>0, <2>2 DEF Guarded, SocketStaysProtected
    <2>8. Guarded'
      BY <1>0, <1>1, <2>1, <2>7 DEF Guarded
    <2> QED  BY <2>1, <2>3, <2>4, <2>5, <2>6, <2>8
  <1> QED  BY <1>2, <1>3 DEF DaemonInit

(* Delivering the scope keeps the invariant.                                  *)
LEMMA ScopeInv ==
  ASSUME Inv, DeliverScopeConfigSet
  PROVE  Inv'
  <1> USE DEF Inv
  <1>0. /\ run.pc = "scope" /\ fs' = fs /\ fds' = fds /\ requests' = requests
        /\ changes' = changes /\ past' = past
    BY DEF DeliverScopeConfigSet
  <1>1. /\ run \in RunType /\ run.phase = "startup" /\ run.todo = STARTUP_DELIVERY_MODULES
        /\ dec \in DecType /\ faults' \in 0..MaxFaults /\ dec.daemon /\ dec.subscribed
    BY <1>0, FaultType DEF TypeOK, Staged, DeliverScopeConfigSet
  <1>2. CASE Abort /\ dec' = dec
    BY <1>0, <1>1, <1>2, AbortInv
  <1>3. CASE /\ dec' = [dec EXCEPT !.scope = run.group.scope]
             /\ run' = [run EXCEPT !.pc = "convert"]
    <2>1. /\ run' \in RunType /\ run'.pc = "convert" /\ run'.phase = run.phase
          /\ run'.group = run.group /\ run'.todo = run.todo
          /\ run'.delivered = run.delivered
          /\ DOMAIN run'.delivered = {m \in Modules \ Pending : Configured(m)}'
          /\ Parsed'
      BY <1>1, <1>3, StageFields
    <2>2. /\ dec' \in DecType /\ dec'.daemon /\ dec'.subscribed /\ dec'.files = dec.files
          /\ dec'.scope = "self_session"
      BY <1>1, <1>3 DEF DecType, Parsed
    <2>3. TypeOK'
      BY <1>0, <1>1, <2>1, <2>2 DEF TypeOK
    <2>4. Staged'
      BY <1>1, <2>1, <2>2 DEF Staged
    <2>5. Account' /\ Untouched' /\ Verdict'
      BY <1>0, <1>1, <2>1 DEF Account, Untouched, Verdict
    <2>6. Bound'
      BY <1>0, <2>1 DEF Bound
    <2>7. SocketStaysProtected'
      BY <1>0, <2>2 DEF Guarded, SocketStaysProtected
    <2>8. Guarded'
      BY <1>0, <1>1, <2>1, <2>7 DEF Guarded
    <2> QED  BY <2>1, <2>3, <2>4, <2>5, <2>6, <2>8
  <1> QED  BY <1>2, <1>3 DEF DeliverScopeConfigSet

(* Protecting the socket keeps the invariant.                                 *)
LEMMA ProtectInv ==
  ASSUME Inv, AddSocketProtectionPolicy
  PROVE  Inv'
  <1> USE DEF Inv
  <1>0. /\ run.pc = "protect" /\ run' = [run EXCEPT !.pc = "executer"]
        /\ fs' = fs /\ fds' = fds /\ requests' = requests /\ changes' = changes
    BY DEF AddSocketProtectionPolicy
  <1>1. /\ run \in RunType /\ run.phase = "startup" /\ run.todo = <<>>
        /\ dec \in DecType /\ past \in PastType /\ faults' \in 0..MaxFaults
        /\ dec.daemon /\ dec.subscribed /\ dec.scope = "self_session"
        /\ past.socket = Absent
    BY <1>0, FaultType DEF TypeOK, Staged, Guarded, AddSocketProtectionPolicy
  <1>2. /\ run' \in RunType /\ run'.pc = "executer" /\ run'.phase = run.phase
        /\ run'.group = run.group /\ run'.todo = run.todo
        /\ run'.delivered = run.delivered
        /\ DOMAIN run'.delivered = {m \in Modules \ Pending : Configured(m)}'
        /\ Parsed'
    BY <1>0, <1>1, StageFields
  <1>3. /\ dec' \in DecType /\ past' \in PastType /\ SocketStaysProtected'
        /\ dec'.daemon /\ dec'.subscribed /\ dec'.scope = "self_session"
    <2>1. CASE dec' = dec /\ past' = past
      BY <1>1, <2>1 DEF SocketStaysProtected
    <2>2. CASE /\ fs[SocketPath] # Absent
               /\ dec' = [dec EXCEPT !.files = DenySocket(fs[SocketPath])]
               /\ past' = [past EXCEPT !.socket = fs[SocketPath]]
      <3>1. fs[SocketPath] \in Inodes
        BY <2>2, OperationControlAssumption DEF TypeOK
      <3>2. \A e \in Events : <<fs[SocketPath], "", e>> \in FileKeys
        BY <3>1, OperationControlAssumption DEF FileKeys
      <3>3. dec.files \in [FileKeys -> Words]
        BY <1>1 DEF DecType, Words
      <3>4. /\ DenySocket(fs[SocketPath]) \in [FileKeys -> Words]
            /\ \A e \in Events : DenySocket(fs[SocketPath])[<<fs[SocketPath], "", e>>] = "deny"
        BY <3>2, <3>3 DEF DenySocket, Events, Words, Actions
      <3>5. /\ dec' \in DecType /\ dec'.files = DenySocket(fs[SocketPath])
            /\ dec'.daemon /\ dec'.subscribed /\ dec'.scope = "self_session"
        BY <1>1, <2>2, <3>4 DEF DecType, Words
      <3>6. past' \in PastType /\ past'.socket = fs[SocketPath]
        BY <1>1, <2>2, <3>1 DEF PastType
      <3>7. SocketStaysProtected'
        BY <1>0, <3>4, <3>5, <3>6 DEF SocketStaysProtected
      <3> QED  BY <3>5, <3>6, <3>7
    <2> QED  BY <2>1, <2>2 DEF AddSocketProtectionPolicy
  <1>4. TypeOK'
    BY <1>0, <1>1, <1>2, <1>3 DEF TypeOK
  <1>5. Staged'
    BY <1>1, <1>2, <1>3 DEF Staged
  <1>6. Account' /\ Untouched' /\ Verdict'
    BY <1>0, <1>1, <1>2 DEF Account, Untouched, Verdict
  <1>7. Bound'
    BY <1>0, <1>2 DEF Bound
  <1>8. Guarded'
    BY <1>1, <1>2, <1>3 DEF Guarded
  <1> QED  BY <1>2, <1>4, <1>5, <1>6, <1>7, <1>8

(* Announcing the executer keeps the invariant.                               *)
LEMMA ExecuterInv ==
  ASSUME Inv, DeliverExecuterInit
  PROVE  Inv'
  <1> USE DEF Inv
  <1>0. /\ run.pc = "executer" /\ fs' = fs /\ dec' = dec /\ fds' = fds /\ requests' = requests
        /\ changes' = changes /\ past' = past
    BY DEF DeliverExecuterInit
  <1>1. /\ run \in RunType /\ run.phase = "startup" /\ run.todo = <<>>
        /\ dec.daemon /\ dec.subscribed /\ dec.scope = "self_session" /\ faults' \in 0..MaxFaults
    BY <1>0, FaultType DEF TypeOK, Staged, DeliverExecuterInit
  <1>2. CASE Abort
    BY <1>0, <1>1, <1>2, AbortInv
  <1>3. CASE run' = [run EXCEPT !.pc = "ready"]
    <2>1. /\ run' \in RunType /\ run'.pc = "ready" /\ run'.phase = run.phase
          /\ run'.group = run.group /\ run'.todo = run.todo
          /\ run'.delivered = run.delivered
          /\ DOMAIN run'.delivered = {m \in Modules \ Pending : Configured(m)}'
          /\ Parsed'
      BY <1>1, <1>3, StageFields
    <2>2. TypeOK'
      BY <1>0, <1>1, <2>1 DEF TypeOK
    <2>3. Staged'
      BY <1>0, <1>1, <2>1 DEF Staged
    <2>4. Account' /\ Untouched' /\ Verdict'
      BY <1>0, <1>1, <2>1 DEF Account, Untouched, Verdict
    <2>5. Bound'
      BY <1>0, <2>1 DEF Bound
    <2>6. SocketStaysProtected'
      BY <1>0 DEF Guarded, SocketStaysProtected
    <2>7. Guarded'
      BY <1>0, <1>1, <2>1, <2>6 DEF Guarded
    <2> QED  BY <2>1, <2>2, <2>3, <2>4, <2>5, <2>7
  <1> QED  BY <1>2, <1>3 DEF DeliverExecuterInit

(* The end of the list of modules keeps the invariant.                        *)
LEMMA ModulesDoneInv ==
  ASSUME Inv, ModulesDone
  PROVE  Inv'
  <1> USE DEF Inv
  <1>0. /\ run.pc = "convert" /\ run.todo = <<>> /\ fs' = fs /\ dec' = dec /\ fds' = fds
        /\ requests' = requests /\ changes' = changes /\ faults' = faults /\ past' = past
    BY DEF ModulesDone
  <1>1. run \in RunType /\ run.phase \in {"startup", "dynamic"}
    BY DEF TypeOK, RunType
  <1>2. /\ run' \in RunType /\ run'.phase = run.phase
        /\ run'.group = run.group /\ run'.todo = run.todo /\ run'.guarded = run.guarded
        /\ run'.delivered = run.delivered
        /\ run.phase = "startup" => run'.pc = "protect"
        /\ run.phase = "dynamic" =>
               /\ run'.pc = "report"
               /\ run'.verdict = IF "refused" \in Range(run.delivered) THEN "partial" ELSE "ok"
    BY <1>1 DEF ModulesDone, RunType
  <1>3. DOMAIN run'.delivered = {m \in Modules \ Pending : Configured(m)}'
    BY <1>2, SameAccount
  <1>4. TypeOK'
    BY <1>0, <1>2 DEF TypeOK
  <1>5. Parsed'
    BY <1>2 DEF Parsed
  <1>6. Staged'
    BY <1>0, <1>1, <1>2 DEF Staged
  <1>7. Account'
    BY <1>0, <1>1, <1>2, <1>3 DEF Account
  <1>8. Untouched'
    BY <1>0, <1>1, <1>2 DEF Untouched, PartOf
  <1>9. Range(run.delivered)' = Range(run.delivered)
    BY <1>2
  <1>10. Verdict'
    BY <1>0, <1>1, <1>2, <1>9 DEF Verdict
  <1>11. Bound'
    BY <1>0, <1>1, <1>2 DEF Bound
  <1>12. SocketStaysProtected'
    BY <1>0 DEF Guarded, SocketStaysProtected
  <1>13. Guarded'
    BY <1>0, <1>1, <1>2, <1>12 DEF Guarded
  <1> QED  BY <1>4, <1>5, <1>6, <1>7, <1>8, <1>10, <1>11, <1>13

-----------------------------------------------------------------------------
(* Requests *)

(* A request for more policy keeps the invariant.                             *)
LEMMA RequestInv ==
  ASSUME Inv, NEW doc \in RequestDocs, HandleAddPolicy(doc)
  PROVE  Inv'
  <1> USE DEF Inv
  <1> DEFINE ok == ParseOperationControlPolicy(doc)
             g == IF ok THEN GroupOf(doc) ELSE EmptyGroup
  <1>0. /\ run.pc = "ready" /\ requests < MaxRequests /\ requests' = requests + 1
        /\ fs' = fs /\ dec' = dec /\ fds' = fds /\ changes' = changes /\ faults' = faults
        /\ past' = [past EXCEPT !.files = dec.files, !.cmds = dec.cmds, !.defaults = dec.defaults]
    BY DEF HandleAddPolicy
  <1>1. run \in RunType /\ past \in PastType /\ dec \in DecType /\ fs[SocketPath] \in Inodes \cup {Absent}
    BY OperationControlAssumption DEF TypeOK
  <1>2. /\ g \in Groups /\ g.scope = "self_session" /\ ~g.hasNetwork
        /\ g.hasFile => g.fileDefault \in Actions \cup {"none"}
        /\ g.hasProcess => g.processDefault \in Actions \cup {"none"}
        /\ ~ok => ~g.hasFile /\ ~g.hasProcess
    <2>1. CASE ok
      <3>1. doc \in Seq(Groups) /\ ParseOperationControlRuleGroups(doc, "dynamic")
        BY <2>1, OperationControlAssumption DEF ParseOperationControlPolicy
      <3> QED  BY <2>1, <3>1, ParseGives
    <2>2. CASE ~ok
      BY <2>2, EmptyGroupType DEF EmptyGroup
    <2> QED  BY <2>1, <2>2
  <1> HIDE DEF g
  <1>3. /\ run' = [pc |-> IF ok THEN "convert" ELSE "report", phase |-> "dynamic",
                   group |-> g, todo |-> DYNAMIC_DELIVERY_MODULES, guarded |-> fs[SocketPath],
                   delivered |-> <<>>, errors |-> {},
                   verdict |-> IF ok THEN "none" ELSE "invalid"]
    BY DEF HandleAddPolicy, ResolveGuardedInode, g
  <1> HIDE DEF ok
  <1>4. /\ run' \in RunType /\ run'.pc = (IF ok THEN "convert" ELSE "report")
        /\ run'.phase = "dynamic" /\ run'.group = g /\ run'.todo = DYNAMIC_DELIVERY_MODULES
        /\ run'.guarded = fs[SocketPath] /\ run'.delivered = <<>>
        /\ run'.verdict = IF ok THEN "none" ELSE "invalid"
    BY <1>1, <1>2, <1>3, NoDeliveries DEF RunType, Deliveries
  <1>5. /\ past' \in PastType /\ past'.files = dec.files /\ past'.cmds = dec.cmds
        /\ past'.defaults = dec.defaults /\ past'.socket = past.socket
        /\ past'.recreated = past.recreated
    BY <1>0, <1>1 DEF PastType, DecType
  <1>6. DOMAIN run'.delivered = {m \in Modules \ Pending : Configured(m)}'
    <2>1. Pending' = {"file", "process"}
      BY <1>4 DEF Pending, Modules, DYNAMIC_DELIVERY_MODULES
    <2>2. ~Configured("network")'
      BY <1>2, <1>4 DEF Configured
    <2>3. {m \in Modules \ Pending : Configured(m)}' = {}
      BY <2>1, <2>2 DEF Modules
    <2> QED  BY <1>4, <2>3, NoDeliveries
  <1>7. requests' \in 0..MaxRequests
    <2>1. MaxRequests \in Nat /\ requests \in 0..MaxRequests
      BY OperationControlAssumption DEF TypeOK
    <2> QED  BY <1>0, <2>1
  <1>8. TypeOK'
    BY <1>0, <1>4, <1>5, <1>7 DEF TypeOK
  <1>9. Parsed'
    BY <1>2, <1>4 DEF Parsed
  <1>10. Staged'
    BY <1>4 DEF Staged
  <1>11. Account'
    BY <1>4, <1>6 DEF Account
  <1>12. Untouched'
    BY <1>0, <1>5 DEF Untouched, PartOf
  <1>13. Verdict'
    BY <1>4, NoDeliveries DEF Verdict
  <1>14. Bound'
    BY <1>0, <1>4 DEF Bound
  <1>15. SocketStaysProtected'
    BY <1>0, <1>5 DEF Guarded, SocketStaysProtected
  <1>16. Guarded'
    BY <1>4, <1>5, <1>15 DEF Guarded, SocketStaysProtected
  <1> QED  BY <1>8, <1>9, <1>10, <1>11, <1>12, <1>13, <1>14, <1>16

(* The answer to it keeps the invariant.                                      *)
LEMMA AnswerInv ==
  ASSUME Inv, AnswerRequest
  PROVE  Inv'
  <1> USE DEF Inv
  <1>0. /\ run.pc = "report" /\ run' = [run EXCEPT !.pc = "ready"] /\ fs' = fs /\ dec' = dec
        /\ fds' = fds /\ requests' = requests /\ changes' = changes /\ faults' = faults
        /\ past' = past
    BY DEF AnswerRequest
  <1>1. run \in RunType /\ run.phase = "dynamic"
    BY <1>0 DEF TypeOK, Staged
  <1>2. /\ run' \in RunType /\ run'.pc = "ready" /\ run'.phase = run.phase
        /\ run'.group = run.group /\ run'.todo = run.todo /\ run'.guarded = run.guarded
        /\ run'.delivered = run.delivered
        /\ DOMAIN run'.delivered = {m \in Modules \ Pending : Configured(m)}'
        /\ Parsed'
    BY <1>0, <1>1, StageFields
  <1>3. TypeOK'
    BY <1>0, <1>2 DEF TypeOK
  <1>4. Staged'
    BY <1>1, <1>2 DEF Staged
  <1>5. Account' /\ Untouched' /\ Verdict'
    BY <1>1, <1>2 DEF Account, Untouched, Verdict
  <1>6. Bound'
    BY <1>0, <1>2 DEF Bound
  <1>7. SocketStaysProtected'
    BY <1>0 DEF Guarded, SocketStaysProtected
  <1>8. Guarded'
    BY <1>0, <1>1, <1>2, <1>7 DEF Guarded
  <1> QED  BY <1>2, <1>3, <1>4, <1>5, <1>6, <1>8

-----------------------------------------------------------------------------
(* The file system moves under the delivery *)

(* Changes of the file system keep the invariant.                             *)
LEMMA ChangeInv ==
  ASSUME Inv, NEW p \in Paths, NEW ino \in Inodes \cup {Absent},
         ProgramChanges(p, ino) \/ AppChanges(p, ino)
  PROVE  Inv'
  <1> USE DEF Inv
  <1>0. /\ changes < MaxChanges /\ changes' = changes + 1 /\ ino # fs[p]
        /\ fs' = [fs EXCEPT ![p] = ino] /\ dec' = dec /\ run' = run /\ fds' = fds
        /\ requests' = requests /\ faults' = faults
    BY DEF ProgramChanges, AppChanges, ChangePath
  <1>1. fs \in [Paths -> Inodes \cup {Absent}] /\ past \in PastType
    BY DEF TypeOK
  <1>2. /\ past' \in PastType /\ past'.files = past.files /\ past'.cmds = past.cmds
        /\ past'.defaults = past.defaults /\ past'.socket = past.socket
        /\ past'.raced = TRUE /\ (past.recreated => past'.recreated)
    BY <1>1 DEF ProgramChanges, AppChanges, PastType
  <1>3. changes' \in 0..MaxChanges
    <2>1. MaxChanges \in Nat /\ changes \in 0..MaxChanges
      BY OperationControlAssumption DEF TypeOK
    <2> QED  BY <1>0, <2>1
  <1>4. TypeOK'
    BY <1>0, <1>1, <1>2, <1>3 DEF TypeOK
  <1>5. Parsed' /\ Verdict'
    BY <1>0 DEF Parsed, Verdict
  <1>6. Staged'
    BY <1>0 DEF Staged, Configured, Module
  <1>7. Account'
    BY <1>0, SameAccount DEF Account
  <1>8. Untouched'
    BY <1>0, <1>2 DEF Untouched, PartOf
  <1>9. Bound'
    BY <1>0, <1>2 DEF Bound, Module, ValidateFilePatternArray, LegalPattern
  <1>10. past.socket # Absent /\ ~past'.recreated => p # SocketPath
    <2> SUFFICES ASSUME past.socket # Absent, ~past'.recreated, p = SocketPath PROVE FALSE
      OBVIOUS
    <2>1. CASE AppChanges(p, ino)
      BY <1>1, <2>1 DEF AppChanges, PastType
    <2>2. CASE ProgramChanges(p, ino)
      <3>1. ~past.recreated
        BY <1>2
      <3>2. fs[p] = past.socket /\ dec.files[<<past.socket, "", "delete">>] = "deny"
        BY <3>1 DEF Guarded, SocketStaysProtected, Events
      <3> QED  BY <2>2, <3>2 DEF ProgramChanges, MayDelete
    <2> QED  BY <2>1, <2>2
  <1>11. SocketStaysProtected'
    <2> SUFFICES ASSUME past.socket # Absent, ~past'.recreated
                 PROVE  /\ fs'[SocketPath] = past.socket
                        /\ \A e \in Events : dec'.files[<<past.socket, "", e>>] = "deny"
      BY <1>2 DEF SocketStaysProtected
    <2>1. ~past.recreated /\ p # SocketPath
      BY <1>2, <1>10
    <2>2. fs[SocketPath] = past.socket /\ \A e \in Events : dec.files[<<past.socket, "", e>>] = "deny"
      BY <2>1 DEF Guarded, SocketStaysProtected
    <2>3. fs'[SocketPath] = fs[SocketPath]
      BY <1>0, <1>1, <2>1, OperationControlAssumption
    <2> QED  BY <1>0, <2>2, <2>3
  <1>12. Guarded'
    BY <1>0, <1>2, <1>11 DEF Guarded
  <1> QED  BY <1>4, <1>5, <1>6, <1>7, <1>8, <1>9, <1>12

-----------------------------------------------------------------------------
(* The theorems *)

(* The invariant holds before the delivery.                                   *)
LEMMA InitInv == Init => Inv
  <1> SUFFICES ASSUME Init PROVE Inv
    OBVIOUS
  <1>1. /\ run.pc = "parse" /\ run.phase = "startup" /\ run.group = EmptyGroup
        /\ run.todo = STARTUP_DELIVERY_MODULES /\ run.delivered = <<>>
        /\ past.socket = Absent /\ fds = {}
    BY DEF Init
  <1>2. DOMAIN run.delivered = {} /\ run.delivered \in Deliveries
    BY <1>1, NoDeliveries
  <1>3. run \in RunType
    BY <1>2, EmptyGroupType DEF Init, RunType, Deliveries
  <1>4. dec \in DecType /\ past \in PastType
    BY DEF Init, DecType, PastType
  <1>5. TypeOK
    <2>1. MaxRequests \in Nat /\ MaxChanges \in Nat /\ MaxFaults \in Nat
      BY OperationControlAssumption
    <2>2. requests \in 0..MaxRequests /\ changes \in 0..MaxChanges /\ faults \in 0..MaxFaults
      BY <2>1 DEF Init
    <2>3. fs \in [Paths -> Inodes \cup {Absent}]
      BY DEF Init
    <2> QED  BY <1>1, <1>3, <1>4, <2>2, <2>3 DEF TypeOK
  <1>6. Parsed
    BY <1>1 DEF Parsed, EmptyGroup
  <1>7. Staged
    BY <1>1 DEF Staged
  <1>8. Account
    BY <1>1, <1>2, TodoEnds DEF Account
  <1>9. Untouched /\ Verdict /\ Bound
    BY <1>1 DEF Untouched, Verdict, Bound
  <1>10. Guarded
    BY <1>1 DEF Guarded, SocketStaysProtected
  <1> QED  BY <1>5, <1>6, <1>7, <1>8, <1>9, <1>10 DEF Inv

(* A step that changes nothing keeps the invariant.                           *)
LEMMA StutterInv ==
  ASSUME Inv, UNCHANGED vars
  PROVE  Inv'
  <1> USE DEF Inv, vars
  <1>1. TypeOK' /\ Parsed'
    BY DEF TypeOK, Parsed
  <1>2. Staged'
    BY DEF Staged, Configured, Module
  <1>3. Account'
    BY SameAccount DEF Account
  <1>4. Untouched' /\ Verdict'
    BY DEF Untouched, PartOf, Verdict
  <1>5. Bound'
    BY DEF Bound, Module, ValidateFilePatternArray, LegalPattern, ValidateOperationActionConflict,
           ObjectIdentity
  <1>6. Guarded'
    BY DEF Guarded, SocketStaysProtected
  <1> QED  BY <1>1, <1>2, <1>3, <1>4, <1>5, <1>6

(* The invariant always holds.                                                *)
LEMMA InvHolds == Spec => []Inv
  <1>1. ASSUME Inv, [Next]_vars PROVE Inv'
    BY <1>1, StutterInv, ParseProfileInv, DeviceInv, DaemonInv, ScopeInv, ConvertInv, OpenInv,
       SendInv, ModulesDoneInv, ProtectInv, ExecuterInv, RequestInv, AnswerInv, ChangeInv
       DEF Next, Deliver
  <1> QED  BY <1>1, InitInv, PTL DEF Spec

(* Every variable stays in its range, whatever documents arrive and however  *)
(* often the file system moves or a system call fails.                       *)
THEOREM TypeCorrect == Spec => []TypeOK
  BY InvHolds, PTL DEF Inv

(* AddSocketProtectionPolicy and RefuseGuardedInode together: once start-up  *)
(* has bound its rule, no later policy and no rename of the sandboxed        *)
(* program takes the socket's name or the denial of its inode away.          *)
THEOREM SocketIsProtected == Spec => []SocketStaysProtected
  BY InvHolds, PTL DEF Inv, Guarded

(* DeliverDaemonSidePolicies: the program runs only with the daemon          *)
(* registered and subscribed, the scope open and every configured module of  *)
(* its profile accepted by the device.                                       *)
THEOREM ProgramStartsConfined == Spec => []StartsUnderItsProfile
  <1>1. ASSUME Inv PROVE StartsUnderItsProfile
    <2> SUFFICES ASSUME run.pc \in {"protect", "executer"} \/ (run.pc = "ready" /\ run.phase = "startup")
                 PROVE  /\ dec.daemon /\ dec.subscribed /\ dec.scope = "self_session"
                        /\ \A m \in Modules : Configured(m) =>
                               m \in DOMAIN run.delivered /\ run.delivered[m] = "ok"
      BY DEF StartsUnderItsProfile
    <2>1. /\ run.phase = "startup" /\ run.todo = <<>>
          /\ dec.daemon /\ dec.subscribed /\ dec.scope = "self_session"
      BY <1>1 DEF Inv, Staged
    <2>2. Pending = {}
      BY <2>1, TodoEnds
    <2> QED  BY <1>1, <2>1, <2>2 DEF Inv, Account
  <1> QED  BY <1>1, InvHolds, PTL

(* AddOperationControlPolicies: the answer to a request accounts for every   *)
(* configured module, a refused module left the device alone, and success is *)
(* said exactly when nothing was refused.                                    *)
THEOREM AnswersAreTrue == Spec => []ReportIsTrue
  <1>1. ASSUME Inv PROVE ReportIsTrue
    <2> SUFFICES ASSUME run.pc = "report" PROVE ReportIsTrue
      BY DEF ReportIsTrue
    <2>1. run.phase = "dynamic" /\ (run.verdict # "invalid" => run.todo = <<>>)
      BY <1>1 DEF Inv, Staged
    <2>2. \A m \in Modules : (m \in DOMAIN run.delivered /\ run.delivered[m] = "ok") \/ PartOf(m)
      BY <1>1, <2>1 DEF Inv, Untouched
    <2>3. DOMAIN run.delivered = {m \in Modules \ Pending : Configured(m)}
      BY <1>1 DEF Inv, Account
    <2>4. CASE run.verdict = "invalid"
      <3>1. DOMAIN run.delivered = {}
        BY <1>1, <2>4 DEF Inv, Verdict
      <3>2. \A m \in Modules : PartOf(m)
        BY <2>2, <3>1
      <3>3. dec.files = past.files /\ dec.cmds = past.cmds
        BY <3>2 DEF PartOf, Modules
      <3>4. dec.defaults \in [Modules -> Words] /\ past.defaults \in [Modules -> Words]
        BY <1>1 DEF Inv, TypeOK, DecType, PastType, Words
      <3>5. dec.defaults = past.defaults
        BY <3>2, <3>4 DEF PartOf
      <3> QED  BY <2>4, <3>3, <3>5 DEF ReportIsTrue
    <2>5. CASE run.verdict # "invalid"
      <3>1. Pending = {}
        BY <2>1, <2>5, TodoEnds
      <3>2. DOMAIN run.delivered = {m \in Modules : Configured(m)}
        BY <2>3, <3>1
      <3>3. (run.verdict = "ok") = ("refused" \notin Range(run.delivered))
        BY <1>1, <2>5 DEF Inv, Verdict
      <3>4. \A m \in DOMAIN run.delivered : run.delivered[m] = "refused" => PartOf(m)
        BY <2>2, <3>2
      <3> QED  BY <2>5, <3>2, <3>3, <3>4 DEF ReportIsTrue, PartOf
    <2> QED  BY <2>4, <2>5
  <1> QED  BY <1>1, InvHolds, PTL

(* ObjectIdentity against the key of the device: as long as no name moved    *)
(* between the conflict check and the open, the file module that goes out    *)
(* puts every object under the action its rule names.                        *)
THEOREM WhatIsAskedIsEnforced == Spec => AskedIsEnforced
  <1> DEFINE Enforced ==
        (run.pc = "send" /\ Module = "file" /\ ~past.raced /\ "file" \in DOMAIN run'.delivered
            /\ run'.delivered["file"] = "ok")
        => \A f \in fds : dec'.files[<<f.inode, f.rule.tail, f.rule.event>>] = f.rule.action
  <1>1. ASSUME Inv, [Next]_vars PROVE Enforced
    <2> SUFFICES ASSUME run.pc = "send", Module = "file", ~past.raced,
                        "file" \in DOMAIN run'.delivered, run'.delivered["file"] = "ok",
                        NEW f \in fds
                 PROVE  dec'.files[<<f.inode, f.rule.tail, f.rule.event>>] = f.rule.action
      OBVIOUS
    <2>1. /\ run \in RunType /\ dec \in DecType /\ fds \subseteq [rule: FileRules, inode: Inodes]
          /\ run.todo # <<>> /\ Configured(Module) /\ Account /\ Parsed
      BY <1>1 DEF Inv, TypeOK, Staged
    <2>2. Module \in Modules /\ Module \in Pending
      BY <2>1, RunFields, TodoStep
    <2>3. "file" \notin DOMAIN run.delivered
      BY <2>1, <2>2 DEF Account
    <2>4. run' # run
      BY <2>3
    <2>5. CheckAndSendModule
      BY <1>1, <2>4 DEF Next, Deliver, vars, ParseProfile, OpenDecDeviceBeforeFork, DaemonInit,
           DeliverScopeConfigSet, ConvertModuleTlv, OpenFileFds, ModulesDone,
           AddSocketProtectionPolicy, DeliverExecuterInit, HandleAddPolicy, AnswerRequest,
           ProgramChanges, AppChanges, ChangePath
    <2>6. ASSUME NEW reasons \in SUBSET Reasons, RefuseModule(reasons) PROVE FALSE
      <3>1. run'.delivered = Answered(run.delivered, "refused")
        BY <2>1, <2>6, RefuseFields
      <3>2. run'.delivered["file"] = "refused"
        BY <2>1, <2>2, <3>1, RunFields, AnsweredType
      <3> QED  BY <3>2
    <2>7. dec' = DecPolicyAdd
      BY <2>5, <2>6 DEF CheckAndSendModule, Reasons
    <2> DEFINE Key(h) == <<h.inode, h.rule.tail, h.rule.event>>
               Acts(k) == {h.rule.action : h \in {h \in fds : <<h.inode, h.rule.tail, h.rule.event>> = k}}
    <2>8. /\ \A h \in fds : h.rule \in run.group.file /\ h.inode = fs[h.rule.path] /\ h.inode # Absent
          /\ ValidateFilePatternArray(run.group.file)
          /\ ValidateOperationActionConflict(run.group.file)
      BY <1>1 DEF Inv, Bound
    <2>9. Key(f) \in FileKeys
      <3>1. f.rule.tail # ILLEGAL
        BY <2>8 DEF ValidateFilePatternArray, LegalPattern
      <3> QED  BY <2>1, <3>1 DEF FileRules, FileKeys
    <2>10. ASSUME NEW h \in fds, Key(h) = Key(f) PROVE h.rule.action = f.rule.action
      <3>1. h.inode = f.inode /\ h.rule.tail = f.rule.tail /\ h.rule.event = f.rule.event
        BY <2>10
      <3>2. ObjectIdentity(h.rule) = ObjectIdentity(f.rule)
        BY <2>8, <3>1 DEF ObjectIdentity
      <3> QED  BY <2>8, <3>1, <3>2 DEF ValidateOperationActionConflict
    <2>11. Acts(Key(f)) = {f.rule.action}
      BY <2>10
    <2>12. dec'.files[Key(f)] = LastOf(Acts(Key(f)), dec.files[Key(f)])
      BY <2>1, <2>2, <2>7, <2>9, PolicyAdd
    <2>13. f.rule.action \in Actions
      BY <2>1 DEF FileRules
    <2>14. LastOf({f.rule.action}, dec.files[Key(f)]) = f.rule.action
      BY <2>13, LastOfFew
    <2>15. dec'.files[Key(f)] = f.rule.action
      <3> HIDE DEF Acts, Key
      <3> QED  BY <2>11, <2>12, <2>14
    <2> QED  BY <2>15
  <1>2. AskedIsEnforced <=> [][Enforced]_vars
    BY PTL DEF AskedIsEnforced
  <1> QED  BY <1>1, <1>2, InvHolds, PTL DEF Spec

-----------------------------------------------------------------------------
(* A nonempty set of numbers has a least one.                                *)
LEMMA LeastNat ==
  ASSUME NEW T, T \subseteq Nat, T # {}
  PROVE  \E x \in T : \A y \in T : x <= y
<1> DEFINE R == OpToRel(<, Nat)
<1>1. IsWellFoundedOn(R, Nat)
  BY NatLessThanWellFounded
<1>2. \A x, y \in Nat : y < x => <<y, x>> \in R
  BY DEF OpToRel
<1> HIDE DEF R
<1>3. PICK x \in T : \A y \in T : ~ (<<y, x>> \in R)
  BY <1>1, WFMin
<1>4. ASSUME NEW y \in T PROVE x <= y
  <2>1. x \in Nat /\ y \in Nat
    OBVIOUS
  <2>2. ~ (y < x)
    BY <1>2, <1>3, <2>1, Zenon
  <2> QED BY <2>1, <2>2
<1> QED BY <1>4

(* The prefixes of a flattened sequence.                                     *)
FlattenTo(seqs, n, g) ==
  g = [i \in 1..n |-> IF i = 1 THEN seqs[i] ELSE g[i - 1] \o seqs[i]]

(* FlattenSeq is where such a sequence of prefixes ends.                     *)
LEMMA FlattenExists ==
  ASSUME NEW seqs, NEW l \in Nat
  PROVE  \E g : FlattenTo(seqs, l, g)
<1> DEFINE T == {n \in Nat : ~ \E g : FlattenTo(seqs, n, g)}
<1> SUFFICES ASSUME T # {} PROVE FALSE
  OBVIOUS
<1>1. PICK x \in T : \A y \in T : x <= y
  BY LeastNat
<1>2. CASE x = 0
  <2> DEFINE g == [i \in 1..0 |-> seqs[i]]
  <2>1. FlattenTo(seqs, 0, g)
    BY DEF FlattenTo
  <2> QED
    BY <1>2, <2>1
<1>3. CASE x # 0
  <2>1. x - 1 \in Nat /\ ~ (x <= x - 1) /\ x \in Nat
    BY <1>3
  <2>2. PICK g : FlattenTo(seqs, x - 1, g)
    BY <1>1, <2>1
  <2> DEFINE f == [i \in 1..x |-> IF i # x THEN g[i] ELSE IF x = 1 THEN seqs[x]
                                  ELSE g[x - 1] \o seqs[x]]
  <2>3. \A i \in 1..x : f[i] = IF i = 1 THEN seqs[i] ELSE f[i - 1] \o seqs[i]
    <3> SUFFICES ASSUME NEW i \in 1..x
                 PROVE f[i] = IF i = 1 THEN seqs[i] ELSE f[i - 1] \o seqs[i]
      OBVIOUS
    <3>1. CASE i = x /\ x = 1
      BY <3>1
    <3>2. CASE i = x /\ x # 1
      <4>1. i - 1 \in 1..x /\ i - 1 # x /\ i # 1
        BY <2>1, <3>2, <1>3
      <4>2. f[i - 1] = g[x - 1]
        BY <4>1, <3>2
      <4>3. f[i] = g[x - 1] \o seqs[x]
        BY <3>2
      <4> QED
        BY <3>2, <4>1, <4>2, <4>3, Zenon
    <3>3. CASE i # x
      <4>1. i \in 1..(x - 1)
        BY <2>1, <3>3
      <4>2. f[i] = g[i]
        BY <3>3
      <4>3. g[i] = IF i = 1 THEN seqs[i] ELSE g[i - 1] \o seqs[i]
        BY <2>2, <4>1, Zenon DEF FlattenTo
      <4>4. CASE i = 1
        BY <4>2, <4>3, <4>4, Zenon
      <4>5. CASE i # 1
        <5>1. i - 1 \in 1..x /\ i - 1 # x
          BY <4>1, <4>5, <2>1
        <5>2. f[i - 1] = g[i - 1]
          BY <5>1
        <5> QED
          BY <4>2, <4>3, <4>5, <5>2, Zenon
      <4> QED
        BY <4>4, <4>5
    <3> QED
      BY <3>1, <3>2, <3>3
  <2>4. f = [i \in 1..x |-> f[i]]
    OBVIOUS
  <2> HIDE DEF f
  <2>5. FlattenTo(seqs, x, f)
    BY <2>3, <2>4, Zenon DEF FlattenTo
  <2> QED
    BY <2>5
<1> QED
  BY <1>2, <1>3

(* FlattenSeq grows by one part at a time.                                   *)
LEMMA FlattenGrows ==
  ASSUME NEW S, NEW seqs \in Seq(Seq(S))
  PROVE  \E g : /\ g[0] = <<>> /\ g[Len(seqs)] = FlattenSeq(seqs)
                /\ \A i \in 0..Len(seqs) : g[i] \in Seq(S)
                /\ \A i \in 1..Len(seqs) : g[i] = g[i - 1] \o seqs[i]
<1> DEFINE l == Len(seqs)
           h == CHOOSE q : FlattenTo(seqs, l, q)
           g == [i \in 0..l |-> IF i = 0 THEN <<>> ELSE h[i]]
<1>1. l \in Nat /\ DOMAIN seqs = 1..l /\ \A i \in 1..l : seqs[i] \in Seq(S)
  BY LenProperties
<1>2. FlattenTo(seqs, l, h)
  BY <1>1, FlattenExists, Zenon
<1>3. l # 0 => FlattenSeq(seqs) = h[l]
  <2> SUFFICES ASSUME l # 0 PROVE FlattenSeq(seqs) = h[l]
    OBVIOUS
  <2> QED
    BY Zenon DEF FlattenSeq, FlattenTo
<1>4. l = 0 => FlattenSeq(seqs) = <<>>
  <2> SUFFICES ASSUME l = 0 PROVE FlattenSeq(seqs) = <<>>
    OBVIOUS
  <2>1. seqs = <<>>
    BY EmptySeq
  <2> QED
    BY <2>1 DEF FlattenSeq
<1> HIDE DEF h, l
<1>5. g[0] = <<>> /\ g[l] = FlattenSeq(seqs)
  BY <1>1, <1>3, <1>4
<1>6. ASSUME NEW i \in 1..l PROVE g[i] = g[i - 1] \o seqs[i]
  <2>1. h[i] = IF i = 1 THEN seqs[i] ELSE h[i - 1] \o seqs[i]
    BY <1>2, Zenon DEF FlattenTo
  <2>2. g[i] = h[i]
    BY <1>1
  <2>3. CASE i = 1
    <3>1. g[i - 1] = <<>>
      BY <1>1, <2>3
    <3>2. seqs[i] \in Seq(S)
      BY <1>1
    <3>3. <<>> \o seqs[i] = seqs[i]
      BY <3>2, ConcatEmptySeq
    <3> QED
      BY <2>1, <2>2, <2>3, <3>1, <3>3, Zenon
  <2>4. CASE i # 1
    <3>1. g[i - 1] = h[i - 1]
      BY <1>1, <2>4
    <3> QED
      BY <2>1, <2>2, <2>4, <3>1, Zenon
  <2> QED
    BY <2>3, <2>4
<1>7. ASSUME NEW i \in 0..l PROVE g[i] \in Seq(S)
  <2> HIDE DEF g
  <2> DEFINE T == {n \in 0..l : g[n] \notin Seq(S)}
  <2> SUFFICES ASSUME T # {} PROVE FALSE
    OBVIOUS
  <2>1. PICK x \in T : \A y \in T : x <= y
    <3>1. T \subseteq Nat
      BY <1>1
    <3> QED
      BY <3>1, LeastNat
  <2>2. CASE x = 0
    <3>1. g[x] = <<>>
      BY <1>5, <2>2
    <3> QED
      BY <2>1, <3>1, EmptySeq
  <2>3. CASE x # 0
    <3>1. x - 1 \in 0..l /\ ~ (x <= x - 1) /\ x \in 1..l
      BY <1>1, <2>3
    <3>2. g[x - 1] \in Seq(S) /\ seqs[x] \in Seq(S)
      BY <1>1, <2>1, <3>1
    <3>3. g[x - 1] \o seqs[x] \in Seq(S)
      BY <3>2, ConcatProperties
    <3>4. g[x] = g[x - 1] \o seqs[x]
      BY <1>6, <3>1
    <3> QED
      BY <2>1, <3>3, <3>4
  <2> QED
    BY <2>2, <2>3
<1> QED
  BY <1>5, <1>6, <1>7, Zenon DEF l

(* A sequence, whatever it is of.                                            *)
IsList(x) == \E S : x \in Seq(S)

(* The length and the places of a list.                                      *)
LEMMA ListShape ==
  ASSUME NEW x, IsList(x)
  PROVE  Len(x) \in Nat /\ DOMAIN x = 1..Len(x)
<1>1. PICK S : x \in Seq(S)
  BY Zenon DEF IsList
<1> QED
  BY <1>1, LenProperties, Zenon

(* A sequence over a set is one over a larger set.                           *)
LEMMA SeqLarger ==
  ASSUME NEW A, NEW B, A \subseteq B, NEW s \in Seq(A)
  PROVE  s \in Seq(B)
OBVIOUS

(* Lists joined are a list.                                                  *)
LEMMA ListJoin ==
  ASSUME NEW a, NEW b, IsList(a), IsList(b)
  PROVE  /\ IsList(a \o b)
         /\ Len(a \o b) = Len(a) + Len(b)
         /\ \A i \in 1..Len(a) : (a \o b)[i] = a[i]
         /\ \A i \in 1..Len(b) : (a \o b)[Len(a) + i] = b[i]
<1>1. PICK A, B : a \in Seq(A) /\ b \in Seq(B)
  BY Zenon DEF IsList
<1>2. PICK S : a \in Seq(S) /\ b \in Seq(S)
  <2> DEFINE U == A \cup B
  <2>1. A \subseteq U /\ B \subseteq U
    OBVIOUS
  <2> HIDE DEF U
  <2> QED
    BY <1>1, <2>1, SeqLarger, Zenon
<1>3. a \o b \in Seq(S)
  BY <1>2, ConcatProperties, Zenon
<1>4. Len(a \o b) = Len(a) + Len(b)
  BY <1>2, ConcatProperties, Zenon
<1>5. \A i \in 1..Len(a) : (a \o b)[i] = a[i]
  BY ONLY <1>2
<1>6. \A i \in 1..Len(b) : (a \o b)[Len(a) + i] = b[i]
  BY ONLY <1>2
<1> QED
  BY <1>3, <1>4, <1>5, <1>6, Zenon DEF IsList

(* Joining is associative.                                                   *)
LEMMA ListAssociative ==
  ASSUME NEW a, NEW b, NEW c, IsList(a), IsList(b), IsList(c)
  PROVE  (a \o b) \o c = a \o (b \o c)
<1>1. PICK A, B, C : a \in Seq(A) /\ b \in Seq(B) /\ c \in Seq(C)
  BY Zenon DEF IsList
<1>2. PICK S : a \in Seq(S) /\ b \in Seq(S) /\ c \in Seq(S)
  <2> DEFINE U == A \cup (B \cup C)
  <2>1. A \subseteq U /\ B \subseteq U /\ C \subseteq U
    OBVIOUS
  <2> HIDE DEF U
  <2> QED
    BY <1>1, <2>1, SeqLarger, Zenon
<1> QED
  BY ONLY <1>2, ConcatAssociative

(* The empty list, and a list of one.                                        *)
LEMMA ListEmpty ==
  IsList(<<>>) /\ Len(<<>>) = 0 /\ \A x : IsList(x) => x \o <<>> = x /\ <<>> \o x = x
<1>1. IsList(<<>>) /\ Len(<<>>) = 0
  <2>1. <<>> \in Seq({})
    OBVIOUS
  <2> QED
    BY <2>1 DEF IsList
<1>2. ASSUME NEW x, IsList(x) PROVE x \o <<>> = x /\ <<>> \o x = x
  <2>1. PICK S : x \in Seq(S)
    BY <1>2, Zenon DEF IsList
  <2> QED
    BY <2>1, ConcatEmptySeq, Zenon
<1> QED
  BY <1>1, <1>2

(* A list of one.                                                            *)
LEMMA ListOne ==
  ASSUME NEW c
  PROVE  IsList(<<c>>) /\ Len(<<c>>) = 1 /\ <<c>>[1] = c
<1>1. <<c>> \in Seq({c})
  OBVIOUS
<1> QED
  BY <1>1 DEF IsList

(* The joins of the first lists, and the sums of the first numbers.          *)
Joins(g, seqs, l) ==
  /\ g[0] = <<>> /\ g[l] = FlattenSeq(seqs)
  /\ \A i \in 0..l : IsList(g[i])
  /\ \A i \in 1..l : g[i] = g[i - 1] \o seqs[i]

Sums(h, counts, l) ==
  /\ h[0] = 0 /\ h[l] = SumOf(counts)
  /\ \A i \in 0..l : h[i] \in Nat
  /\ \A i \in 1..l : h[i] = h[i - 1] + counts[i]

(* FlattenSeq grows by one list at a time.                                   *)
LEMMA ListsGrow ==
  ASSUME NEW l \in Nat, NEW seqs, seqs = [i \in 1..l |-> seqs[i]],
         \A i \in 1..l : IsList(seqs[i])
  PROVE  \E g : Joins(g, seqs, l)
<1> DEFINE Of(i) == CHOOSE S : seqs[i] \in Seq(S)
           U == UNION {Of(i) : i \in 1..l}
<1>1. \A i \in 1..l : seqs[i] \in Seq(Of(i))
  BY Zenon DEF IsList
<1>2. \A i \in 1..l : seqs[i] \in Seq(U)
  <2> SUFFICES ASSUME NEW i \in 1..l PROVE seqs[i] \in Seq(U)
    OBVIOUS
  <2>1. Of(i) \subseteq U
    BY Zenon
  <2> HIDE DEF U, Of
  <2> QED
    BY <1>1, <2>1, SeqLarger, Zenon
<1> HIDE DEF U
<1>3. seqs \in Seq(Seq(U)) /\ Len(seqs) = l
  <2> DEFINE P == Seq(U)
  <2> HIDE DEF P
  <2>1. \A i \in 1..l : seqs[i] \in P
    BY <1>2, Zenon DEF P
  <2>2. seqs \in [1..l -> P]
    BY ONLY <2>1, seqs = [i \in 1..l |-> seqs[i]]
  <2>3. seqs \in Seq(P) /\ Len(seqs) = l
    BY ONLY <2>2, l \in Nat, SMT
  <2> QED
    BY <2>3, Zenon DEF P
<1>5. PICK g : /\ g[0] = <<>> /\ g[Len(seqs)] = FlattenSeq(seqs)
               /\ \A i \in 0..Len(seqs) : g[i] \in Seq(U)
               /\ \A i \in 1..Len(seqs) : g[i] = g[i - 1] \o seqs[i]
  BY ONLY <1>3, FlattenGrows
<1>6. Joins(g, seqs, l)
  BY <1>3, <1>5, Zenon DEF IsList, Joins
<1> QED
  BY <1>6, Zenon

(* The sums as the function SumOf is made of.                                *)
SumTo(counts, n, h) == h = [i \in 0..n |-> IF i = 0 THEN 0 ELSE h[i - 1] + counts[i]]

(* There is such a function.                                                 *)
LEMMA SumExists ==
  ASSUME NEW counts, NEW n \in Nat
  PROVE  \E h : SumTo(counts, n, h)
<1> DEFINE T == {m \in Nat : ~ \E h : SumTo(counts, m, h)}
<1> SUFFICES ASSUME T # {} PROVE FALSE
  OBVIOUS
<1>1. PICK x \in T : \A y \in T : x <= y
  BY LeastNat
<1>2. CASE x = 0
  <2> DEFINE h == [i \in 0..0 |-> 0]
  <2>1. SumTo(counts, 0, h)
    BY DEF SumTo
  <2> QED
    BY <1>2, <2>1
<1>3. CASE x # 0
  <2>1. x - 1 \in Nat /\ ~ (x <= x - 1) /\ x \in Nat
    BY <1>3
  <2>2. PICK g : SumTo(counts, x - 1, g)
    BY <1>1, <2>1
  <2> DEFINE h == [i \in 0..x |-> IF i = x THEN g[x - 1] + counts[x] ELSE g[i]]
  <2>3. \A i \in 0..x : h[i] = IF i = 0 THEN 0 ELSE h[i - 1] + counts[i]
    <3> SUFFICES ASSUME NEW i \in 0..x PROVE h[i] = IF i = 0 THEN 0 ELSE h[i - 1] + counts[i]
      OBVIOUS
    <3>0. \A j \in 0..(x - 1) : g[j] = IF j = 0 THEN 0 ELSE g[j - 1] + counts[j]
      BY <2>2, Zenon DEF SumTo
    <3>1. CASE i = x
      <4>1. i # 0 /\ i - 1 \in 0..x /\ i - 1 # x
        BY <2>1, <3>1
      <4>2. h[i - 1] = g[x - 1] /\ h[i] = g[x - 1] + counts[x]
        BY <3>1, <4>1
      <4> QED
        BY <3>1, <4>1, <4>2, Zenon
    <3>2. CASE i # x
      <4>1. i \in 0..(x - 1) /\ h[i] = g[i]
        BY <2>1, <3>2
      <4>2. CASE i = 0
        BY <3>0, <4>1, <4>2, Zenon
      <4>3. CASE i # 0
        <5>1. i - 1 \in 0..x /\ i - 1 # x
          BY <2>1, <4>1, <4>3
        <5>2. h[i - 1] = g[i - 1]
          BY <5>1
        <5> QED
          BY <3>0, <4>1, <4>3, <5>2, Zenon
      <4> QED
        BY <4>2, <4>3
    <3> QED
      BY <3>1, <3>2
  <2>4. h = [i \in 0..x |-> h[i]]
    OBVIOUS
  <2> HIDE DEF h
  <2>5. SumTo(counts, x, h)
    BY <2>3, <2>4, Zenon DEF SumTo
  <2> QED
    BY <2>5
<1> QED
  BY <1>2, <1>3

(* SumOf grows by one number at a time.                                      *)
LEMMA SumGrows ==
  ASSUME NEW l \in Nat, NEW counts, Len(counts) = l, \A i \in 1..l : counts[i] \in Nat
  PROVE  \E h : Sums(h, counts, l)
<1> DEFINE h == CHOOSE q : SumTo(counts, l, q)
<1>1. SumTo(counts, l, h)
  BY SumExists, Zenon
<1>2. SumOf(counts) = h[l]
  BY Zenon DEF SumOf, SumTo
<1> HIDE DEF h
<1>3. \A i \in 0..l : h[i] = IF i = 0 THEN 0 ELSE h[i - 1] + counts[i]
  BY <1>1, Zenon DEF SumTo
<1>4. h[0] = 0
  BY <1>3
<1>5. \A i \in 1..l : h[i] = h[i - 1] + counts[i]
  <2>1. \A i \in 1..l : i \in 0..l /\ i # 0
    OBVIOUS
  <2> QED
    BY <1>3, <2>1, Zenon
<1>6. \A i \in 0..l : h[i] \in Nat
  <2> DEFINE T == {i \in 0..l : h[i] \notin Nat}
  <2> SUFFICES ASSUME T # {} PROVE FALSE
    OBVIOUS
  <2>1. PICK x \in T : \A y \in T : x <= y
    <3>1. T \subseteq Nat
      OBVIOUS
    <3> QED
      BY <3>1, LeastNat
  <2>2. x # 0
    BY <1>4, <2>1
  <2>3. x \in 1..l /\ x - 1 \in 0..l /\ ~ (x <= x - 1)
    BY <2>1, <2>2
  <2>4. h[x - 1] \in Nat /\ counts[x] \in Nat
    BY <2>1, <2>3
  <2>5. h[x] = h[x - 1] + counts[x]
    BY <1>5, <2>3, Zenon
  <2> QED
    BY <2>1, <2>4, <2>5
<1>7. Sums(h, counts, l)
  BY <1>2, <1>4, <1>5, <1>6, Zenon DEF Sums
<1> QED
  BY <1>7, Zenon

(* Reading n blocks takes the reader from one state to another.              *)
Gets(one, s, t, n) ==
  \E r : /\ r[0] = s /\ r[n] = t
         /\ \A i \in 1..n : r[i] = ReadNext(one, r[i - 1])

(* ReadMany is where n blocks take the reader.                               *)
LEMMA ManyGets ==
  ASSUME NEW one, NEW at, NEW n \in Nat, NEW t, Gets(one, [at |-> at, got |-> <<>>], t, n)
  PROVE  ReadMany(one, at, n) = t
<1> DEFINE start == [at |-> at, got |-> <<>>]
           To(g) == g = [i \in 0..n |-> IF i = 0 THEN start ELSE ReadNext(one, g[i - 1])]
           f == CHOOSE g : To(g)
<1>1. PICK r : /\ r[0] = start /\ r[n] = t
               /\ \A i \in 1..n : r[i] = ReadNext(one, r[i - 1])
  BY Zenon DEF Gets
<1>4. ReadMany(one, at, n) = f[n]
  BY Zenon DEF ReadMany
<1> HIDE DEF start
<1>2. \E g : To(g)
  <2> DEFINE g == [i \in 0..n |-> r[i]]
  <2>1. \A i \in 0..n : g[i] = IF i = 0 THEN start ELSE ReadNext(one, g[i - 1])
    <3> SUFFICES ASSUME NEW i \in 0..n
                 PROVE  g[i] = IF i = 0 THEN start ELSE ReadNext(one, g[i - 1])
      OBVIOUS
    <3>1. CASE i = 0
      BY <1>1, <3>1
    <3>2. CASE i # 0
      <4>1. i \in 1..n /\ i - 1 \in 0..n
        BY <3>2
      <4>2. g[i] = r[i] /\ g[i - 1] = r[i - 1]
        BY <4>1
      <4> QED
        BY <1>1, <3>2, <4>1, <4>2, Zenon
    <3> QED
      BY <3>1, <3>2
  <2>2. g = [i \in 0..n |-> g[i]]
    OBVIOUS
  <2> HIDE DEF g
  <2>3. To(g)
    BY <2>1, <2>2, Zenon
  <2> QED
    BY <2>3
<1>3. To(f)
  BY <1>2, Zenon
<1> HIDE DEF f
<1>5. \A i \in 0..n : f[i] = IF i = 0 THEN start ELSE ReadNext(one, f[i - 1])
  BY <1>3, Zenon
<1>6. f[n] = r[n]
  <2> DEFINE T == {i \in 0..n : f[i] # r[i]}
  <2> SUFFICES ASSUME T # {} PROVE FALSE
    OBVIOUS
  <2>1. PICK x \in T : \A y \in T : x <= y
    <3>1. T \subseteq Nat
      OBVIOUS
    <3> QED
      BY <3>1, LeastNat
  <2>2. x # 0
    BY <1>1, <1>5, <2>1
  <2>3. x \in 1..n /\ x - 1 \in 0..n /\ ~ (x <= x - 1)
    BY <2>1, <2>2
  <2>4. f[x - 1] = r[x - 1]
    BY <2>1, <2>3
  <2>5. f[x] = ReadNext(one, f[x - 1])
    BY <1>5, <2>2, <2>3, Zenon
  <2> QED
    BY <1>1, <2>1, <2>3, <2>4, <2>5, Zenon
<1> QED
  BY <1>1, <1>4, <1>6, Zenon

(* Reading nothing ...                                                       *)
LEMMA GetsNone ==
  ASSUME NEW one, NEW s PROVE Gets(one, s, s, 0)
<1> DEFINE r == [i \in 0..0 |-> s]
<1>1. r[0] = s /\ 1..0 = {}
  OBVIOUS
<1> HIDE DEF r
<1> QED
  BY <1>1, Zenon DEF Gets

(* ... and reading one block.                                                *)
LEMMA GetsOne ==
  ASSUME NEW one, NEW s, NEW t, t = ReadNext(one, s)
  PROVE  Gets(one, s, t, 1)
<1> DEFINE r == [i \in 0..1 |-> IF i = 0 THEN s ELSE t]
<1>1. r[0] = s /\ r[1] = t
  OBVIOUS
<1> HIDE DEF r
<1>2. \A i \in 1..1 : r[i] = ReadNext(one, r[i - 1])
  <2> SUFFICES ASSUME NEW i \in 1..1 PROVE r[i] = ReadNext(one, r[i - 1])
    OBVIOUS
  <2>1. i = 1 /\ i - 1 = 0
    OBVIOUS
  <2> QED
    BY <1>1, <2>1, Zenon
<1> QED
  BY <1>1, <1>2, Zenon DEF Gets

(* Reading n blocks and m more.                                              *)
LEMMA GetsJoin ==
  ASSUME NEW one, NEW s, NEW t, NEW u, NEW n \in Nat, NEW m \in Nat,
         Gets(one, s, t, n), Gets(one, t, u, m)
  PROVE  Gets(one, s, u, n + m)
<1>3. PICK p : /\ p[0] = s /\ p[n] = t
               /\ \A i \in 1..n : p[i] = ReadNext(one, p[i - 1])
  BY Zenon DEF Gets
<1>4. PICK q : /\ q[0] = t /\ q[m] = u
               /\ \A i \in 1..m : q[i] = ReadNext(one, q[i - 1])
  BY Zenon DEF Gets
<1> DEFINE r == [i \in 0..(n + m) |-> IF i <= n THEN p[i] ELSE q[i - n]]
<1>5. r[0] = s
  BY <1>3
<1>6. r[n + m] = u
  <2>1. CASE m = 0
    <3>1. n + m = n /\ n <= n /\ n \in 0..(n + m)
      BY <2>1
    <3>2. r[n + m] = p[n]
      BY <3>1
    <3> QED
      BY <1>3, <1>4, <2>1, <3>2
  <2>2. CASE m # 0
    <3>1. ~ (n + m <= n) /\ (n + m) - n = m /\ n + m \in 0..(n + m)
      BY <2>2
    <3> QED
      BY <1>4, <3>1
  <2> QED
    BY <2>1, <2>2
<1>7. ASSUME NEW i \in 1..(n + m) PROVE r[i] = ReadNext(one, r[i - 1])
  <2>1. CASE i <= n
    <3>1. i \in 1..n /\ i - 1 <= n /\ i - 1 \in 0..(n + m) /\ i \in 0..(n + m)
      BY <2>1
    <3>2. r[i] = p[i] /\ r[i - 1] = p[i - 1]
      BY <2>1, <3>1
    <3> QED
      BY <1>3, <3>1, <3>2, Zenon
  <2>2. CASE i > n
    <3>1. i - n \in 1..m /\ (i - 1) - n = (i - n) - 1 /\ i \in 0..(n + m)
          /\ i - 1 \in 0..(n + m) /\ ~ (i <= n)
      BY <2>2
    <3>2. r[i] = q[i - n]
      BY <3>1
    <3>3. r[i - 1] = q[(i - n) - 1]
      <4>1. CASE i - 1 <= n
        <5>1. i - 1 = n /\ (i - n) - 1 = 0
          BY <2>2, <4>1
        <5>2. r[i - 1] = p[n]
          BY <3>1, <4>1, <5>1
        <5> QED
          BY <1>3, <1>4, <5>1, <5>2, Zenon
      <4>2. CASE ~ (i - 1 <= n)
        BY <3>1, <4>2
      <4> QED
        BY <4>1, <4>2
    <3> QED
      BY <1>4, <3>1, <3>2, <3>3, Zenon
  <2> QED
    BY <2>1, <2>2
<1> HIDE DEF r
<1> QED
  BY <1>5, <1>6, <1>7, Zenon DEF Gets

(* A stream holds a text from a place on.                                    *)
HasAt(s, at, t) ==
  /\ at \in Nat \ {0} /\ (at + Len(t)) - 1 <= Len(s)
  /\ \A i \in 1..Len(t) : s[(at + i) - 1] = t[i]

(* It holds the parts of what it holds.                                      *)
LEMMA HasParts ==
  ASSUME NEW s, IsList(s), NEW at, NEW a, NEW b, IsList(a), IsList(b), HasAt(s, at, a \o b)
  PROVE  HasAt(s, at, a) /\ HasAt(s, at + Len(a), b)
<1>1. PICK n \in Nat, m \in Nat, l \in Nat : n = Len(a) /\ m = Len(b) /\ l = Len(s)
  BY ListShape, Zenon
<1>2. /\ Len(a \o b) = n + m
      /\ \A i \in 1..n : (a \o b)[i] = a[i]
      /\ \A i \in 1..m : (a \o b)[n + i] = b[i]
  BY <1>1, ListJoin
<1>3. /\ at \in Nat /\ at # 0 /\ (at + (n + m)) - 1 <= l
      /\ \A i \in 1..(n + m) : s[(at + i) - 1] = (a \o b)[i]
  BY <1>1, <1>2 DEF HasAt
<1>4. (at + n) - 1 <= l /\ at + n \in Nat \ {0} /\ ((at + n) + m) - 1 <= l
  BY <1>3
<1>5. \A i \in 1..n : s[(at + i) - 1] = a[i]
  <2>1. \A i \in 1..n : i \in 1..(n + m)
    OBVIOUS
  <2> QED
    BY <1>2, <1>3, <2>1, Zenon
<1>6. ASSUME NEW i \in 1..m PROVE s[((at + n) + i) - 1] = b[i]
  <2>1. n + i \in 1..(n + m) /\ ((at + n) + i) - 1 = (at + (n + i)) - 1
    BY <1>3
  <2> QED
    BY <1>2, <1>3, <2>1, Zenon
<1>7. HasAt(s, at, a)
  BY <1>1, <1>3, <1>4, <1>5 DEF HasAt
<1>8. HasAt(s, at + n, b)
  BY <1>1, <1>4, <1>6, Zenon DEF HasAt
<1> QED
  BY <1>1, <1>7, <1>8, Zenon

(* Wherever a stream holds the text, reading n blocks ends behind it and     *)
(* adds what the text means.                                                 *)
Parses(one, s, t, n, got) ==
  /\ IsList(t) /\ IsList(got) /\ n \in Nat
  /\ \A at, g : HasAt(s, at, t) /\ IsList(g) =>
       Gets(one, [at |-> at, got |-> g], [at |-> at + Len(t), got |-> g \o got], n)

(* Nothing means nothing.                                                    *)
LEMMA ParsesNone ==
  ASSUME NEW one, NEW s PROVE Parses(one, s, <<>>, 0, <<>>)
<1>1. ASSUME NEW at, NEW g, HasAt(s, at, <<>>), IsList(g)
      PROVE  Gets(one, [at |-> at, got |-> g], [at |-> at + Len(<<>>), got |-> g \o <<>>], 0)
  <2>1. at \in Nat
    BY <1>1 DEF HasAt
  <2>2. at + Len(<<>>) = at
    BY <2>1, ListEmpty
  <2>3. g \o <<>> = g
    BY <1>1, ListEmpty, Zenon
  <2> QED
    BY <2>2, <2>3, GetsNone, Zenon
<1>2. 0 \in Nat
  OBVIOUS
<1> QED
  BY <1>1, <1>2, ListEmpty, Zenon DEF Parses

(* One block, when the reader reads it wherever it is.                       *)
LEMMA ParsesOne ==
  ASSUME NEW one, NEW s, NEW t, NEW got, IsList(t), IsList(got),
         \A at : HasAt(s, at, t) => at \in DOMAIN one /\ one[at] = [at |-> at + Len(t), got |-> got]
  PROVE  Parses(one, s, t, 1, got)
<1>1. ASSUME NEW at, NEW g, HasAt(s, at, t), IsList(g)
      PROVE  Gets(one, [at |-> at, got |-> g], [at |-> at + Len(t), got |-> g \o got], 1)
  <2> DEFINE before == [at |-> at, got |-> g]
             next == [at |-> at + Len(t), got |-> got]
  <2>1. before.at = at /\ before.got = g /\ next.at = at + Len(t) /\ next.got = got
    OBVIOUS
  <2> HIDE DEF before, next
  <2>2. one[before.at] = next /\ before.at \in DOMAIN one
    BY <1>1, <2>1, Zenon DEF next
  <2>3. next.at # 0
    <3>1. at \in Nat \ {0} /\ Len(t) \in Nat
      BY <1>1, ListShape DEF HasAt
    <3> QED
      BY <2>1, <3>1
  <2>4. ReadNext(one, before) = [at |-> at + Len(t), got |-> g \o got]
    BY <2>1, <2>2, <2>3, Zenon DEF ReadNext
  <2> QED
    BY <2>4, GetsOne, Zenon DEF before
<1>2. 1 \in Nat
  OBVIOUS
<1> QED
  BY <1>1, <1>2, Zenon DEF Parses

(* One text after the other.                                                 *)
LEMMA ParsesJoin ==
  ASSUME NEW one, NEW s, IsList(s), NEW t, NEW u, NEW n, NEW m, NEW gt, NEW gu,
         Parses(one, s, t, n, gt), Parses(one, s, u, m, gu)
  PROVE  Parses(one, s, t \o u, n + m, gt \o gu)
<1>1. IsList(t) /\ IsList(u) /\ IsList(gt) /\ IsList(gu) /\ n \in Nat /\ m \in Nat
  BY Zenon DEF Parses
<1>2. IsList(t \o u) /\ IsList(gt \o gu) /\ Len(t \o u) = Len(t) + Len(u)
  BY <1>1, ListJoin, Zenon
<1>3. n + m \in Nat
  BY <1>1
<1>4. ASSUME NEW at, NEW g, HasAt(s, at, t \o u), IsList(g)
      PROVE  Gets(one, [at |-> at, got |-> g],
                  [at |-> at + Len(t \o u), got |-> g \o (gt \o gu)], n + m)
  <2>1. HasAt(s, at, t) /\ HasAt(s, at + Len(t), u)
    BY <1>1, <1>4, HasParts, Zenon
  <2>2. Gets(one, [at |-> at, got |-> g], [at |-> at + Len(t), got |-> g \o gt], n)
    BY <1>4, <2>1, Zenon DEF Parses
  <2>3. IsList(g \o gt)
    BY <1>1, <1>4, ListJoin, Zenon
  <2>4. Gets(one, [at |-> at + Len(t), got |-> g \o gt],
             [at |-> (at + Len(t)) + Len(u), got |-> (g \o gt) \o gu], m)
    BY <2>1, <2>3, Zenon DEF Parses
  <2>5. (at + Len(t)) + Len(u) = at + Len(t \o u)
    <3>1. at \in Nat /\ Len(t) \in Nat /\ Len(u) \in Nat
      BY <1>1, <1>4, ListShape DEF HasAt
    <3> QED
      BY <1>2, <3>1
  <2>6. (g \o gt) \o gu = g \o (gt \o gu)
    <3>1. IsList(g) /\ IsList(gt) /\ IsList(gu)
      BY <1>1, <1>4, Zenon
    <3> QED
      BY ONLY <3>1, ListAssociative, SMTT(30)
  <2> QED
    BY <1>1, <2>2, <2>4, <2>5, <2>6, GetsJoin, Zenon
<1> QED
  BY <1>2, <1>3, <1>4, Zenon DEF Parses

(* Texts read one after the other are read when they are joined.             *)
LEMMA ParsesAll ==
  ASSUME NEW one, NEW s, IsList(s), NEW l \in Nat,
         NEW texts, texts = [i \in 1..l |-> texts[i]],
         NEW gots, gots = [i \in 1..l |-> gots[i]],
         NEW counts, Len(counts) = l,
         \A i \in 1..l : Parses(one, s, texts[i], counts[i], gots[i])
  PROVE  Parses(one, s, FlattenSeq(texts), SumOf(counts), FlattenSeq(gots))
<1>1. \A i \in 1..l : IsList(texts[i]) /\ IsList(gots[i]) /\ counts[i] \in Nat
  BY Zenon DEF Parses
<1>2. PICK g : Joins(g, texts, l)
  <2>1. \A i \in 1..l : IsList(texts[i])
    BY <1>1, Zenon
  <2> QED
    BY ONLY <2>1, l \in Nat, texts = [i \in 1..l |-> texts[i]], ListsGrow
<1>3. PICK v : Joins(v, gots, l)
  <2>1. \A i \in 1..l : IsList(gots[i])
    BY <1>1, Zenon
  <2> QED
    BY ONLY <2>1, l \in Nat, gots = [i \in 1..l |-> gots[i]], ListsGrow
<1>4. PICK h : Sums(h, counts, l)
  <2>1. \A i \in 1..l : counts[i] \in Nat
    BY <1>1, Zenon
  <2> QED
    BY ONLY <2>1, l \in Nat, Len(counts) = l, SumGrows
<1>7. /\ g[0] = <<>> /\ g[l] = FlattenSeq(texts) /\ \A i \in 1..l : g[i] = g[i - 1] \o texts[i]
      /\ v[0] = <<>> /\ v[l] = FlattenSeq(gots) /\ \A i \in 1..l : v[i] = v[i - 1] \o gots[i]
      /\ h[0] = 0 /\ h[l] = SumOf(counts) /\ \A i \in 1..l : h[i] = h[i - 1] + counts[i]
  BY <1>2, <1>3, <1>4, Zenon DEF Joins, Sums
<1> DEFINE T == {i \in 0..l : ~Parses(one, s, g[i], h[i], v[i])}
<1>5. T = {}
  <2> SUFFICES ASSUME T # {} PROVE FALSE
    OBVIOUS
  <2>1. PICK x \in T : \A y \in T : x <= y
    <3>1. T \subseteq Nat
      OBVIOUS
    <3> QED
      BY <3>1, LeastNat
  <2>2. x # 0
    BY <1>7, <2>1, ParsesNone
  <2>3. x \in 1..l /\ x - 1 \in 0..l /\ ~ (x <= x - 1)
    BY <2>1, <2>2
  <2>4. Parses(one, s, g[x - 1], h[x - 1], v[x - 1])
    BY <2>1, <2>3
  <2>5. Parses(one, s, texts[x], counts[x], gots[x])
    BY <2>3
  <2>6. Parses(one, s, g[x - 1] \o texts[x], h[x - 1] + counts[x], v[x - 1] \o gots[x])
    BY <2>4, <2>5, ParsesJoin, Zenon
  <2> QED
    BY <1>7, <2>1, <2>3, <2>6, Zenon
<1>6. l \in 0..l
  OBVIOUS
<1> QED
  BY <1>5, <1>6, <1>7, Zenon

(* As many ones add up to their number.                                      *)
LEMMA SumOfOnes ==
  ASSUME NEW l \in Nat
  PROVE  SumOf([i \in 1..l |-> 1]) = l
<1> DEFINE ones == [i \in 1..l |-> 1]
<1>1. Len(ones) = l /\ \A i \in 1..l : ones[i] = 1 /\ ones[i] \in Nat
  OBVIOUS
<1> HIDE DEF ones
<1>2. PICK h : /\ h[0] = 0 /\ h[l] = SumOf(ones)
               /\ \A i \in 1..l : h[i] = h[i - 1] + ones[i]
  <2>1. \E h : Sums(h, ones, l)
    BY ONLY l \in Nat, <1>1, SumGrows
  <2> QED
    BY <2>1, Zenon DEF Sums
<1> DEFINE T == {i \in 0..l : h[i] # i}
<1>3. T = {}
  <2> SUFFICES ASSUME T # {} PROVE FALSE
    OBVIOUS
  <2>1. PICK x \in T : \A y \in T : x <= y
    <3>1. T \subseteq Nat
      OBVIOUS
    <3> QED
      BY <3>1, LeastNat
  <2>2. x # 0
    BY <1>2, <2>1
  <2>3. x \in 1..l /\ x - 1 \in 0..l /\ ~ (x <= x - 1)
    BY <2>1, <2>2
  <2>4. h[x - 1] = x - 1
    BY <2>1, <2>3
  <2>5. h[x] = h[x - 1] + ones[x] /\ ones[x] = 1
    BY <1>1, <1>2, <2>3, Zenon
  <2> QED
    BY <2>1, <2>3, <2>4, <2>5
<1>4. l \in 0..l
  OBVIOUS
<1> QED
  BY <1>2, <1>3, <1>4, Zenon DEF ones

(* One more at the end of a list.                                            *)
LEMMA ListAdd ==
  ASSUME NEW a, NEW c, NEW n, IsList(a), Len(a) = n
  PROVE  /\ Len(a \o <<c>>) = n + 1
         /\ \A j \in 1..n : (a \o <<c>>)[j] = a[j]
         /\ (a \o <<c>>)[n + 1] = c
<1>1. IsList(<<c>>) /\ Len(<<c>>) = 1 /\ <<c>>[1] = c
  BY ListOne
<1>2. PICK b : b = <<c>>
  OBVIOUS
<1>3. IsList(b) /\ Len(b) = 1 /\ b[1] = c
  BY <1>1, <1>2, Zenon
<1>7. 1 \in 1..1
  OBVIOUS
<1>4. Len(a \o b) = Len(a) + Len(b)
  BY ONLY IsList(a), <1>3, ListJoin
<1>5. \A i \in 1..Len(a) : (a \o b)[i] = a[i]
  BY ONLY IsList(a), <1>3, ListJoin
<1>6. (a \o b)[Len(a) + 1] = b[1]
  <2>1. PICK k \in Nat, m \in Nat : k = Len(a) /\ m = Len(b) /\ m = 1
    BY <1>3, ListShape, Zenon
  <2>2. \A i \in 1..m : (a \o b)[k + i] = b[i]
    BY <1>3, <2>1, ListJoin
  <2> QED
    BY <1>7, <2>1, <2>2, Zenon
<1> QED
  BY <1>2, <1>3, <1>4, <1>5, <1>6, <1>7, Zenon

(* Lists of one, joined.                                                     *)
LEMMA FlattenOnes ==
  ASSUME NEW l \in Nat, NEW v
  PROVE  FlattenSeq([i \in 1..l |-> <<v[i]>>]) = [i \in 1..l |-> v[i]]
<1> DEFINE ones == [i \in 1..l |-> <<v[i]>>]
<1>1. \A i \in 1..l : ones[i] = <<v[i]>>
  OBVIOUS
<1>2. ones = [i \in 1..l |-> ones[i]]
  OBVIOUS
<1> HIDE DEF ones
<1>3. \A i \in 1..l : IsList(ones[i]) /\ Len(ones[i]) = 1 /\ ones[i][1] = v[i]
  BY <1>1, ListOne, Zenon
<1>4. PICK g : /\ g[0] = <<>> /\ g[l] = FlattenSeq(ones)
               /\ \A i \in 0..l : IsList(g[i])
               /\ \A i \in 1..l : g[i] = g[i - 1] \o ones[i]
  <2>1. \A i \in 1..l : IsList(ones[i])
    BY <1>3, Zenon
  <2>2. \E g : Joins(g, ones, l)
    BY ONLY <1>2, <2>1, l \in Nat, ListsGrow
  <2> QED
    BY <2>2, Zenon DEF Joins
<1> DEFINE Right(i) == Len(g[i]) = i /\ \A j \in 1..i : g[i][j] = v[j]
           T == {i \in 0..l : ~Right(i)}
<1>5. T = {}
  <2> SUFFICES ASSUME T # {} PROVE FALSE
    OBVIOUS
  <2>1. PICK x \in T : \A y \in T : x <= y
    <3>1. T \subseteq Nat
      OBVIOUS
    <3> QED
      BY <3>1, LeastNat
  <2>2. x # 0
    <3>1. Right(0)
      <4>1. 1..0 = {}
        OBVIOUS
      <4> QED
        BY <1>4, <4>1, ListEmpty, Zenon
    <3> QED
      BY <2>1, <3>1
  <2>3. x \in 1..l /\ x - 1 \in 0..l /\ ~ (x <= x - 1)
    BY <2>1, <2>2
  <2>4. Right(x - 1)
    BY <2>1, <2>3
  <2>5. /\ Len(g[x]) = (x - 1) + 1 /\ \A j \in 1..(x - 1) : g[x][j] = g[x - 1][j]
        /\ g[x][(x - 1) + 1] = v[x]
    <3>1. IsList(g[x - 1]) /\ g[x] = g[x - 1] \o <<v[x]>> /\ Len(g[x - 1]) = x - 1
      BY <1>1, <1>4, <2>3, <2>4, Zenon
    <3>2. PICK a, n : a = g[x - 1] /\ n = x - 1
      BY Zenon
    <3>3. /\ Len(a \o <<v[x]>>) = n + 1 /\ \A j \in 1..n : (a \o <<v[x]>>)[j] = a[j]
          /\ (a \o <<v[x]>>)[n + 1] = v[x]
      <4>1. IsList(a) /\ Len(a) = n
        BY <3>1, <3>2, Zenon
      <4> QED
        BY ONLY <4>1, ListAdd
    <3> QED
      BY <3>1, <3>2, <3>3, Zenon
  <2>6. Len(g[x]) = x /\ g[x][x] = v[x]
    <3>1. (x - 1) + 1 = x
      BY <2>3
    <3> QED
      BY <2>5, <3>1, Zenon
  <2>7. ASSUME NEW j \in 1..x PROVE g[x][j] = v[j]
    <3>1. CASE j = x
      BY <2>6, <3>1, Zenon
    <3>2. CASE j # x
      <4>1. j \in 1..(x - 1)
        BY <2>3, <3>2
      <4> QED
        BY <2>4, <2>5, <4>1, Zenon
    <3> QED
      BY <3>1, <3>2
  <2> QED
    BY <2>1, <2>6, <2>7, Zenon
<1>6. l \in 0..l
  OBVIOUS
<1>7. Right(l) /\ IsList(g[l])
  BY <1>4, <1>5, <1>6, Zenon
<1>8. g[l] = [i \in 1..l |-> v[i]]
  <2>1. PICK S : g[l] \in Seq(S)
    BY <1>7, Zenon DEF IsList
  <2>2. g[l] = [i \in 1..l |-> g[l][i]]
    BY ONLY <2>1, <1>7
  <2> QED
    BY ONLY <1>7, <2>2
<1> QED
  BY <1>4, <1>8, Zenon DEF ones

(* The part of a stream where it holds a text.                               *)
LEMMA SubSeqHeld ==
  ASSUME NEW s, IsList(s), NEW at, NEW b, IsList(b), HasAt(s, at, b)
  PROVE  SubSeq(s, at, (at + Len(b)) - 1) = b
<1>1. PICK n \in Nat, l \in Nat : n = Len(b) /\ l = Len(s)
  BY ListShape, Zenon
<1>2. PICK S, B : s \in Seq(S) /\ b \in Seq(B)
  BY Zenon DEF IsList
<1>3. /\ at \in Nat /\ at # 0 /\ (at + n) - 1 <= l
      /\ \A i \in 1..n : s[(at + i) - 1] = b[i]
  BY <1>1 DEF HasAt
<1>4. b = [i \in 1..n |-> b[i]]
  BY ONLY <1>1, <1>2
<1>5. SubSeq(s, at, (at + n) - 1) = [i \in 1..n |-> s[(at + i) - 1]]
  BY ONLY <1>1, <1>2, <1>3
<1>6. [i \in 1..n |-> s[(at + i) - 1]] = [i \in 1..n |-> b[i]]
  BY ONLY <1>3
<1> QED
  BY <1>1, <1>4, <1>5, <1>6, Zenon

(* When a text written in two parts is well, and what it is.                 *)
LEMMA ThenOut ==
  ASSUME NEW a, NEW b
  PROVE  /\ Then(a, b).ok <=> a.ok /\ b.ok
         /\ Then(a, b).ok => Then(a, b).out = a.out \o b.out
<1>1. CASE a.ok /\ b.ok
  <2>1. Then(a, b) = Written(a.out \o b.out)
    BY <1>1, Zenon DEF Then
  <2>2. \A out : Written(out).ok = TRUE /\ Written(out).out = out
    BY DEF Written
  <2> QED
    BY <1>1, <2>1, <2>2, Zenon
<1>2. CASE ~ (a.ok /\ b.ok)
  <2>1. Then(a, b) = Refused
    BY <1>2, Zenon DEF Then
  <2>2. Refused.ok = FALSE
    BY DEF Refused
  <2> QED
    BY <1>2, <2>1, <2>2, Zenon
<1> QED
  BY <1>1, <1>2

(* The same of a text written in many parts.                                 *)
LEMMA InOrderOut ==
  ASSUME NEW l \in Nat, NEW parts, Len(parts) = l
  PROVE  /\ InOrder(parts).ok <=> \A i \in 1..l : parts[i].ok
         /\ InOrder(parts).ok => InOrder(parts).out = FlattenSeq([i \in 1..l |-> parts[i].out])
<1>1. CASE \A i \in 1..l : parts[i].ok
  <2>1. InOrder(parts) = Written(FlattenSeq([i \in 1..l |-> parts[i].out]))
    BY <1>1, Zenon DEF InOrder
  <2>2. \A out : Written(out).ok = TRUE /\ Written(out).out = out
    BY DEF Written
  <2> QED
    BY <1>1, <2>1, <2>2, Zenon
<1>2. CASE ~ \A i \in 1..l : parts[i].ok
  <2>1. InOrder(parts) = Refused
    BY <1>2, Zenon DEF InOrder
  <2>2. Refused.ok = FALSE
    BY DEF Refused
  <2> QED
    BY <1>2, <2>1, <2>2, Zenon
<1> QED
  BY <1>1, <1>2

(* A list of two, taken apart.                                               *)
LEMMA OfTwo ==
  ASSUME NEW S, NEW x \in Seq(S), Len(x) = 2
  PROVE  x = <<x[1]>> \o <<x[2]>>
  OBVIOUS

(* Lists of two ...                                                          *)
LEMMA ListTwo ==
  ASSUME NEW x, NEW y
  PROVE  /\ <<x, y>> = <<x>> \o <<y>>
         /\ IsList(<<x, y>>) /\ Len(<<x, y>>) = 2 /\ <<x, y>>[1] = x /\ <<x, y>>[2] = y
<1>1. <<x, y>> \in Seq({x, y})
  OBVIOUS
<1>2. PICK p : p = <<x, y>>
  OBVIOUS
<1>3. p \in Seq({x, y}) /\ Len(p) = 2 /\ p[1] = x /\ p[2] = y
  BY <1>1, <1>2
<1>4. p = <<p[1]>> \o <<p[2]>>
  BY ONLY <1>3, OfTwo
<1> QED
  BY <1>2, <1>3, <1>4, Zenon DEF IsList

(* ... and of three.                                                         *)
LEMMA ListThree ==
  ASSUME NEW x, NEW y, NEW z
  PROVE  /\ IsList(<<x, y, z>>) /\ Len(<<x, y, z>>) = 3
         /\ <<x, y, z>>[1] = x /\ <<x, y, z>>[2] = y /\ <<x, y, z>>[3] = z
<1>1. <<x, y, z>> \in Seq({x, y, z})
  OBVIOUS
<1> QED
  BY <1>1 DEF IsList

(* Where a stream holds three values.                                        *)
LEMMA HasThree ==
  ASSUME NEW s, NEW at, NEW t, IsList(s), Len(t) = 3, HasAt(s, at, t)
  PROVE  /\ at \in 1..Len(s) /\ at + 1 \in 1..Len(s) /\ at + 2 \in 1..Len(s)
         /\ s[at] = t[1] /\ s[at + 1] = t[2] /\ s[at + 2] = t[3]
<1>1. PICK l \in Nat : l = Len(s)
  BY ListShape, Zenon
<1>2. at \in Nat /\ at # 0 /\ (at + 3) - 1 <= l /\ \A i \in 1..3 : s[(at + i) - 1] = t[i]
  BY <1>1 DEF HasAt
<1>3. (at + 1) - 1 = at /\ (at + 2) - 1 = at + 1 /\ (at + 3) - 1 = at + 2
  BY <1>2
<1>4. 1 \in 1..3 /\ 2 \in 1..3 /\ 3 \in 1..3
  OBVIOUS
<1>5. s[at] = t[1] /\ s[at + 1] = t[2] /\ s[at + 2] = t[3]
  BY <1>2, <1>3, <1>4, Zenon
<1>6. at \in 1..l /\ at + 1 \in 1..l /\ at + 2 \in 1..l
  BY <1>2
<1> QED
  BY <1>1, <1>5, <1>6, Zenon

(* What a block means to the kernel.                                         *)
Wire(rule) == <<<<rule.cmp, rule.item, ItemOf(rule).value>>>>

(* A block is read as what it means.                                         *)
LEMMA BlockParses ==
  ASSUME NEW s, IsList(s), NEW rule, AppendFilterRuleBlock(rule).ok
  PROVE  Parses(Blocks(s), s, AppendFilterRuleBlock(rule).out, 1, Wire(rule))
<1> DEFINE x == TlvU32("cmp_type", rule.cmp)
           y == TlvU32("item_type", rule.item)
           z == ItemOf(rule)
           t == <<x, y, z>>
<1>1. AppendFilterRuleBlock(rule).out = t
  <2>1. CASE IsCmpTypeAllowed(rule.cmp, rule.item)
    <3>1. AppendFilterRuleBlock(rule) = Written(t)
      BY <2>1, Zenon DEF AppendFilterRuleBlock
    <3>2. Written(t).out = t
      BY DEF Written
    <3> QED
      BY <3>1, <3>2, Zenon
  <2>2. CASE ~IsCmpTypeAllowed(rule.cmp, rule.item)
    <3>1. AppendFilterRuleBlock(rule) = Refused
      BY <2>2, Zenon DEF AppendFilterRuleBlock
    <3>2. Refused.ok = FALSE
      BY DEF Refused
    <3> QED
      BY <3>1, <3>2, Zenon
  <2> QED
    BY <2>1, <2>2
<1>2. x.tag = "cmp_type" /\ x.value = rule.cmp /\ y.tag = "item_type" /\ y.value = rule.item
  BY DEF TlvU32
<1>3. z.tag = "item"
  <2>1. CASE rule.item = "fd"
    <3>1. z = TlvBytes("item", <<rule.fd>>, 4)
      BY <2>1, Zenon DEF ItemOf
    <3> QED
      BY <3>1 DEF TlvBytes
  <2>2. CASE rule.item # "fd"
    <3>1. z = TlvBytes("item", rule.text, Len(rule.text) + 1)
      BY <2>2, Zenon DEF ItemOf
    <3> QED
      BY <3>1 DEF TlvBytes
  <2> QED
    BY <2>1, <2>2
<1>4. IsList(t) /\ Len(t) = 3 /\ t[1] = x /\ t[2] = y /\ t[3] = z
  BY ListThree, Zenon
<1>5. Wire(rule) = <<<<x.value, y.value, z.value>>>>
  BY <1>2, Zenon DEF Wire
<1> HIDE DEF x, y, z, t
<1>6. IsList(Wire(rule))
  BY ListOne, Zenon DEF Wire
<1>7. ASSUME NEW at, HasAt(s, at, t)
      PROVE  at \in DOMAIN Blocks(s) /\ Blocks(s)[at] = [at |-> at + Len(t), got |-> Wire(rule)]
  <2>1. /\ at \in 1..Len(s) /\ at + 1 \in 1..Len(s) /\ at + 2 \in 1..Len(s)
        /\ s[at] = x /\ s[at + 1] = y /\ s[at + 2] = z
    BY <1>4, <1>7, HasThree, Zenon
  <2>2. ReadBlock(s, at) = [at |-> at + 3, got |-> <<<<x.value, y.value, z.value>>>>]
    BY <1>2, <1>3, <2>1, Zenon DEF ReadBlock, Tagged
  <2>3. at \in DOMAIN Blocks(s) /\ Blocks(s)[at] = ReadBlock(s, at)
    BY <2>1, Zenon DEF Blocks
  <2> QED
    BY <1>4, <1>5, <2>2, <2>3, Zenon
<1> QED
  BY <1>1, <1>4, <1>6, <1>7, ParsesOne, Zenon

(* The blocks a rule becomes are read as what the rule means.                *)
LEMMA RuleParses ==
  ASSUME NEW s, IsList(s), NEW rule, AppendFilterRuleEntities(rule).ok
  PROVE  Parses(Blocks(s), s, AppendFilterRuleEntities(rule).out,
                GetFilterRuleWireEntityCnt(rule), WireRules(rule))
<1>1. CASE rule.item # "path"
  <2>1. AppendFilterRuleEntities(rule) = AppendFilterRuleBlock(rule)
    BY <1>1, Zenon DEF AppendFilterRuleEntities
  <2>2. GetFilterRuleWireEntityCnt(rule) = 1
    BY <1>1, Zenon DEF GetFilterRuleWireEntityCnt
  <2>3. ItemOf(rule).value = IF rule.item = "fd" THEN <<rule.fd>> ELSE rule.text
    <3>1. CASE rule.item = "fd"
      <4>1. ItemOf(rule) = TlvBytes("item", <<rule.fd>>, 4)
        BY <3>1, Zenon DEF ItemOf
      <4>2. TlvBytes("item", <<rule.fd>>, 4).value = <<rule.fd>>
        BY DEF TlvBytes
      <4> QED
        BY <3>1, <4>1, <4>2, Zenon
    <3>2. CASE rule.item # "fd"
      <4>1. ItemOf(rule) = TlvBytes("item", rule.text, Len(rule.text) + 1)
        BY <3>2, Zenon DEF ItemOf
      <4>2. TlvBytes("item", rule.text, Len(rule.text) + 1).value = rule.text
        BY DEF TlvBytes
      <4> QED
        BY <3>2, <4>1, <4>2, Zenon
    <3> QED
      BY <3>1, <3>2
  <2>4. WireRules(rule) = Wire(rule)
    BY <1>1, <2>3, Zenon DEF WireRules, Wire
  <2> QED
    BY <2>1, <2>2, <2>4, BlockParses, Zenon
<1>2. CASE rule.item = "path"
  <2> DEFINE fd == AppendFilterRuleBlock(FdRule(rule))
             text == IF rule.cmp \in {"eq", "prefix"} THEN AppendFilterRuleBlock(rule)
                     ELSE IF rule.cmp = "suffix" THEN AppendFilterRuleBlock(SuffixRule(rule))
                     ELSE Refused
             name == IF rule.cmp = "suffix" THEN rule.suffix ELSE rule.text
  <2>1. AppendFilterRuleEntities(rule) = Then(fd, text)
    BY <1>2, Zenon DEF AppendFilterRuleEntities
  <2>2. fd.ok /\ text.ok /\ AppendFilterRuleEntities(rule).out = fd.out \o text.out
    <3> HIDE DEF fd, text
    <3> QED
      BY <2>1, ThenOut, Zenon
  <2>3. GetFilterRuleWireEntityCnt(rule) = 1 + 1
    <3>1. GetFilterRuleWireEntityCnt(rule) = 2
      BY <1>2, Zenon DEF GetFilterRuleWireEntityCnt
    <3> QED
      BY <3>1
  <2>4. Parses(Blocks(s), s, fd.out, 1, <<<<"eq", "fd", <<rule.fd>>>>>>)
    <3>1. FdRule(rule).cmp = "eq" /\ FdRule(rule).item = "fd" /\ FdRule(rule).fd = rule.fd
      BY DEF FdRule
    <3>2. ItemOf(FdRule(rule)) = TlvBytes("item", <<rule.fd>>, 4)
      BY <3>1, Zenon DEF ItemOf
    <3>3. TlvBytes("item", <<rule.fd>>, 4).value = <<rule.fd>>
      BY DEF TlvBytes
    <3>4. Wire(FdRule(rule)) = <<<<"eq", "fd", <<rule.fd>>>>>>
      BY <3>1, <3>2, <3>3, Zenon DEF Wire
    <3> QED
      BY <2>2, <3>4, BlockParses, Zenon
  <2>5. Parses(Blocks(s), s, text.out, 1, <<<<rule.cmp, "path", name>>>>)
    <3>0. "path" # "fd" /\ "eq" # "suffix" /\ "prefix" # "suffix"
      OBVIOUS
    <3>1. CASE rule.cmp \in {"eq", "prefix"}
      <4>1. text = AppendFilterRuleBlock(rule)
        BY <3>1, Zenon
      <4>2. ItemOf(rule) = TlvBytes("item", rule.text, Len(rule.text) + 1)
        BY <1>2, <3>0, Zenon DEF ItemOf
      <4>3. TlvBytes("item", rule.text, Len(rule.text) + 1).value = rule.text
        BY DEF TlvBytes
      <4>4. name = rule.text
        BY <3>0, <3>1, Zenon
      <4>5. Wire(rule) = <<<<rule.cmp, "path", name>>>>
        BY <1>2, <4>2, <4>3, <4>4, Zenon DEF Wire
      <4> QED
        BY <2>2, <4>1, <4>5, BlockParses, Zenon
    <3>2. CASE rule.cmp = "suffix"
      <4>1. text = AppendFilterRuleBlock(SuffixRule(rule))
        BY <3>0, <3>2, Zenon
      <4>2. /\ SuffixRule(rule).cmp = "suffix" /\ SuffixRule(rule).item = "path"
            /\ SuffixRule(rule).text = rule.suffix
        BY DEF SuffixRule
      <4>3. ItemOf(SuffixRule(rule)) = TlvBytes("item", rule.suffix, Len(rule.suffix) + 1)
        BY <3>0, <4>2, Zenon DEF ItemOf
      <4>4. TlvBytes("item", rule.suffix, Len(rule.suffix) + 1).value = rule.suffix
        BY DEF TlvBytes
      <4>5. Wire(SuffixRule(rule)) = <<<<rule.cmp, "path", name>>>>
        BY <3>2, <4>2, <4>3, <4>4, Zenon DEF Wire
      <4> QED
        BY <2>2, <4>1, <4>5, BlockParses, Zenon
    <3>3. CASE rule.cmp \notin {"eq", "prefix"} /\ rule.cmp # "suffix"
      <4>1. text = Refused
        BY <3>3, Zenon
      <4>2. Refused.ok = FALSE
        BY DEF Refused
      <4> QED
        BY <2>2, <4>1, <4>2, Zenon
    <3> QED
      BY <3>1, <3>2, <3>3
  <2>6. WireRules(rule) = <<<<"eq", "fd", <<rule.fd>>>>>> \o <<<<rule.cmp, "path", name>>>>
    <3>1. WireRules(rule) = <<<<"eq", "fd", <<rule.fd>>>>, <<rule.cmp, "path", name>>>>
      BY <1>2, Zenon DEF WireRules
    <3> HIDE DEF name
    <3>2. PICK x, y : x = <<"eq", "fd", <<rule.fd>>>> /\ y = <<rule.cmp, "path", name>>
      BY Zenon
    <3>3. <<x, y>> = <<x>> \o <<y>>
      BY ONLY ListTwo, Zenon
    <3> QED
      BY <3>1, <3>2, <3>3, Zenon
  <2> HIDE DEF fd, text, name
  <2>7. Parses(Blocks(s), s, fd.out \o text.out, 1 + 1,
               <<<<"eq", "fd", <<rule.fd>>>>>> \o <<<<rule.cmp, "path", name>>>>)
    BY <2>4, <2>5, ParsesJoin, Zenon
  <2> QED
    BY <2>2, <2>3, <2>6, <2>7, Zenon
<1> QED
  BY <1>1, <1>2

(* Parts written one after the other are read one after the other.           *)
EachParses(one, s, l, parts, counts, gots) ==
  /\ Len(parts) = l /\ Len(counts) = l /\ gots = [i \in 1..l |-> gots[i]]
  /\ \A i \in 1..l : parts[i].ok => Parses(one, s, parts[i].out, counts[i], gots[i])

(* So the text of all of them is read as all they mean.                      *)
LEMMA PartsParse ==
  ASSUME NEW one, NEW s, IsList(s), NEW l \in Nat, NEW parts, NEW counts, NEW gots,
         EachParses(one, s, l, parts, counts, gots), InOrder(parts).ok
  PROVE  Parses(one, s, InOrder(parts).out, SumOf(counts), FlattenSeq(gots))
<1> DEFINE texts == [i \in 1..l |-> parts[i].out]
<1>0. /\ Len(parts) = l /\ Len(counts) = l /\ gots = [i \in 1..l |-> gots[i]]
      /\ \A i \in 1..l : parts[i].ok => Parses(one, s, parts[i].out, counts[i], gots[i])
  BY Zenon DEF EachParses
<1>1. InOrder(parts).out = FlattenSeq(texts) /\ \A i \in 1..l : parts[i].ok
  <2> HIDE DEF texts
  <2>1. InOrder(parts).out = FlattenSeq([i \in 1..l |-> parts[i].out])
    BY <1>0, InOrderOut, Zenon
  <2>2. \A i \in 1..l : parts[i].ok
    BY <1>0, InOrderOut, Zenon
  <2> QED
    BY <2>1, <2>2, Zenon DEF texts
<1>2. texts = [i \in 1..l |-> texts[i]] /\ \A i \in 1..l : texts[i] = parts[i].out
  OBVIOUS
<1> HIDE DEF texts
<1>3. \A i \in 1..l : Parses(one, s, texts[i], counts[i], gots[i])
  BY <1>0, <1>1, <1>2, Zenon
<1>4. Parses(one, s, FlattenSeq(texts), SumOf(counts), FlattenSeq(gots))
  BY ONLY IsList(s), l \in Nat, <1>0, <1>2, <1>3, ParsesAll, SMTT(30)
<1> QED
  BY <1>1, <1>4, Zenon

(* The filter rules of an entity ...                                         *)
Counted(entity) == SumOf([j \in 1..Len(entity) |-> GetFilterRuleWireEntityCnt(entity[j])])
Meant(entity) == FlattenSeq([j \in 1..Len(entity) |-> WireRules(entity[j])])

(* The blocks of an entity are read as what its rules mean.                  *)
LEMMA EntityParses ==
  ASSUME NEW s, IsList(s), NEW entity, Len(entity) \in Nat, AppendEntityRules(entity).ok
  PROVE  Parses(Blocks(s), s, AppendEntityRules(entity).out, Counted(entity), Meant(entity))
<1>1. PICK l \in Nat : l = Len(entity)
  OBVIOUS
<1> DEFINE parts == [i \in 1..l |-> AppendFilterRuleEntities(entity[i])]
           counts == [j \in 1..l |-> GetFilterRuleWireEntityCnt(entity[j])]
           gots == [j \in 1..l |-> WireRules(entity[j])]
<1>2. Len(parts) = l /\ \A i \in 1..l : parts[i] = AppendFilterRuleEntities(entity[i])
  OBVIOUS
<1>3. Len(counts) = l /\ \A i \in 1..l : counts[i] = GetFilterRuleWireEntityCnt(entity[i])
  OBVIOUS
<1>4. gots = [i \in 1..l |-> gots[i]] /\ \A i \in 1..l : gots[i] = WireRules(entity[i])
  OBVIOUS
<1>5. AppendEntityRules(entity) = InOrder(parts)
  BY <1>1, Zenon DEF AppendEntityRules
<1>6. Counted(entity) = SumOf(counts) /\ Meant(entity) = FlattenSeq(gots)
  BY <1>1, Zenon DEF Counted, Meant
<1> HIDE DEF parts, counts, gots
<1>7. \A i \in 1..l : parts[i].ok => Parses(Blocks(s), s, parts[i].out, counts[i], gots[i])
  <2> SUFFICES ASSUME NEW i \in 1..l, parts[i].ok
               PROVE  Parses(Blocks(s), s, parts[i].out, counts[i], gots[i])
    OBVIOUS
  <2> QED
    BY <1>2, <1>3, <1>4, RuleParses, Zenon
<1>8. InOrder(parts).ok
  BY <1>5, Zenon
<1>9. EachParses(Blocks(s), s, l, parts, counts, gots)
  BY <1>2, <1>3, <1>4, <1>7, Zenon DEF EachParses
<1>10. Parses(Blocks(s), s, InOrder(parts).out, SumOf(counts), FlattenSeq(gots))
  BY <1>8, <1>9, PartsParse, Zenon
<1> QED
  BY <1>5, <1>6, <1>10, Zenon

(* ... and the entities of a section.                                        *)
Entities(entities) == InOrder([i \in 1..Len(entities) |-> AppendEntityRules(entities[i])])

(* The blocks of a section are as many as it counts.                         *)
LEMMA EntitiesParse ==
  ASSUME NEW s, IsList(s), NEW entities, IsSection(entities), Entities(entities).ok
  PROVE  Parses(Blocks(s), s, Entities(entities).out,
                CountSectionWireEntities(entities), WireSection(entities))
<1>1. PICK l \in Nat : l = Len(entities)
  BY DEF IsSection
<1> DEFINE parts == [i \in 1..l |-> AppendEntityRules(entities[i])]
           counts == [i \in 1..l |-> Counted(entities[i])]
           gots == [i \in 1..l |-> Meant(entities[i])]
<1>2. Len(parts) = l /\ \A i \in 1..l : parts[i] = AppendEntityRules(entities[i])
  OBVIOUS
<1>3. Len(counts) = l /\ \A i \in 1..l : counts[i] = Counted(entities[i])
  OBVIOUS
<1>4. gots = [i \in 1..l |-> gots[i]] /\ \A i \in 1..l : gots[i] = Meant(entities[i])
  OBVIOUS
<1>5. Entities(entities) = InOrder(parts)
  BY <1>1, Zenon DEF Entities
<1>6. CountSectionWireEntities(entities) = SumOf(counts) /\ WireSection(entities) = FlattenSeq(gots)
  BY <1>1, Zenon DEF CountSectionWireEntities, WireSection, Counted, Meant
<1> HIDE DEF parts, counts, gots
<1>7. \A i \in 1..l : parts[i].ok => Parses(Blocks(s), s, parts[i].out, counts[i], gots[i])
  <2> SUFFICES ASSUME NEW i \in 1..l, parts[i].ok
               PROVE  Parses(Blocks(s), s, parts[i].out, counts[i], gots[i])
    OBVIOUS
  <2>1. Len(entities[i]) \in Nat
    BY <1>1, Zenon DEF IsSection
  <2> QED
    BY <1>2, <1>3, <1>4, <2>1, EntityParses, Zenon
<1>8. InOrder(parts).ok
  BY <1>5, Zenon
<1>9. EachParses(Blocks(s), s, l, parts, counts, gots)
  BY <1>2, <1>3, <1>4, <1>7, Zenon DEF EachParses
<1>10. Parses(Blocks(s), s, InOrder(parts).out, SumOf(counts), FlattenSeq(gots))
  BY <1>8, <1>9, PartsParse, Zenon
<1> QED
  BY <1>5, <1>6, <1>10, Zenon

(* Where a stream holds one value and a text behind it.                      *)
OneThen(s, at, u, t) ==
  /\ at \in 1..Len(s) /\ s[at] = u /\ at \in Nat \ {0}
  /\ HasAt(s, at + 1, t) /\ Len(<<u>> \o t) = 1 + Len(t)

(* A value and a text, taken apart.                                          *)
LEMMA HasOne ==
  ASSUME NEW s, IsList(s), NEW at, NEW u, NEW t, IsList(t), HasAt(s, at, <<u>> \o t)
  PROVE  OneThen(s, at, u, t)
<1>1. PICK v : v = <<u>>
  BY Zenon
<1>2. IsList(v) /\ Len(v) = 1 /\ v[1] = u
  BY <1>1, ListOne, Zenon
<1>3. HasAt(s, at, v) /\ HasAt(s, at + 1, t)
  <2>1. HasAt(s, at, v \o t)
    BY <1>1, Zenon
  <2> QED
    BY <1>2, <2>1, HasParts, Zenon
<1>4. Len(v \o t) = 1 + Len(t)
  <2>1. Len(v \o t) = Len(v) + Len(t)
    BY <1>2, ListJoin, Zenon
  <2> QED
    BY <1>2, <2>1, Zenon
<1>5. PICK l \in Nat : l = Len(s)
  BY ListShape, Zenon
<1>6. at \in Nat /\ at # 0 /\ (at + 1) - 1 <= l /\ \A i \in 1..1 : s[(at + i) - 1] = v[i]
  BY <1>2, <1>3, <1>5, Zenon DEF HasAt
<1>7. at \in 1..l /\ (at + 1) - 1 = at /\ 1 \in 1..1 /\ at \in Nat \ {0}
  BY <1>6
<1>8. s[at] = v[1]
  BY <1>6, <1>7, Zenon
<1> QED
  BY <1>1, <1>2, <1>3, <1>4, <1>5, <1>7, <1>8, Zenon DEF OneThen

(* A text that is read from any list before it is what the reader gets.      *)
ReadsAll(one, at, n, t, got) == ReadMany(one, at, n) = [at |-> at + Len(t), got |-> got]

(* ReadMany reads what Parses says.                                          *)
LEMMA ManyParses ==
  ASSUME NEW one, NEW s, NEW at, NEW t, NEW n, NEW got, Parses(one, s, t, n, got), HasAt(s, at, t)
  PROVE  ReadsAll(one, at, n, t, got)
<1>1. IsList(<<>>) /\ IsList(got) /\ n \in Nat
  BY ListEmpty, Zenon DEF Parses
<1>2. Gets(one, [at |-> at, got |-> <<>>], [at |-> at + Len(t), got |-> <<>> \o got], n)
  BY <1>1, Zenon DEF Parses
<1>3. <<>> \o got = got
  BY <1>1, ListEmpty, Zenon
<1> QED
  BY <1>1, <1>2, <1>3, ManyGets, Zenon DEF ReadsAll

(* The text of a section.                                                    *)
LEMMA SectionText ==
  ASSUME NEW tag, NEW entities, IsSection(entities), AppendRuleEntitySection(tag, entities).ok
  PROVE  /\ IsList(AppendRuleEntitySection(tag, entities).out)
         /\ IsList(Entities(entities).out) /\ Entities(entities).ok
         /\ AppendRuleEntitySection(tag, entities).out =
              <<TlvU32(tag, CountSectionWireEntities(entities))>> \o Entities(entities).out
<1> DEFINE head == <<TlvU32(tag, CountSectionWireEntities(entities))>>
<1>1. AppendRuleEntitySection(tag, entities) = Then(Written(head), Entities(entities))
  BY Zenon DEF AppendRuleEntitySection, Entities
<1>2. IsList(head)
  BY ListOne, Zenon
<1> HIDE DEF head
<1>3. Written(head).out = head
  BY DEF Written
<1>4. Entities(entities).ok /\ AppendRuleEntitySection(tag, entities).out = head \o Entities(entities).out
  <2>1. Then(Written(head), Entities(entities)).ok
    BY <1>1, Zenon
  <2>2. Entities(entities).ok
    BY <2>1, ThenOut, Zenon
  <2>3. Then(Written(head), Entities(entities)).out = Written(head).out \o Entities(entities).out
    BY <2>1, ThenOut, Zenon
  <2> QED
    BY <1>1, <1>3, <2>2, <2>3, Zenon
<1>5. IsList(Entities(entities).out)
  <2>1. Parses(Blocks(<<>>), <<>>, Entities(entities).out,
               CountSectionWireEntities(entities), WireSection(entities))
    BY <1>4, ListEmpty, EntitiesParse, Zenon
  <2> QED
    BY <2>1, Zenon DEF Parses
<1>6. IsList(head \o Entities(entities).out)
  BY <1>2, <1>5, ListJoin, Zenon
<1> QED
  BY <1>4, <1>5, <1>6, Zenon DEF head

(* A section that is read, and where it ends.                                *)
SectionAt(s, at, tag, t, entities) ==
  at \in Nat \ {0} /\ ReadSection(s, at, tag) = [at |-> at + Len(t), got |-> WireSection(entities)]

(* ReadSection reads the section that is there.                              *)
LEMMA SectionReads ==
  ASSUME NEW s, IsList(s), NEW at, NEW tag, NEW entities, IsSection(entities),
         AppendRuleEntitySection(tag, entities).ok,
         HasAt(s, at, AppendRuleEntitySection(tag, entities).out)
  PROVE  SectionAt(s, at, tag, AppendRuleEntitySection(tag, entities).out, entities)
<1> DEFINE u == TlvU32(tag, CountSectionWireEntities(entities))
           t == Entities(entities).out
           w == AppendRuleEntitySection(tag, entities).out
<1>1. IsList(t) /\ Entities(entities).ok /\ w = <<u>> \o t
  BY SectionText, Zenon
<1>2. u.tag = tag /\ u.value = CountSectionWireEntities(entities)
  BY DEF TlvU32
<1>3. Parses(Blocks(s), s, t, CountSectionWireEntities(entities), WireSection(entities))
  BY <1>1, EntitiesParse, Zenon
<1> HIDE DEF u, t
<1> HIDE DEF w
<1>4. /\ at \in 1..Len(s) /\ s[at] = u /\ at \in Nat \ {0}
      /\ HasAt(s, at + 1, t) /\ Len(w) = 1 + Len(t)
  <2>1. HasAt(s, at, <<u>> \o t)
    BY <1>1, Zenon DEF w
  <2>2. OneThen(s, at, u, t)
    BY <1>1, <2>1, HasOne, Zenon
  <2> QED
    BY <1>1, <2>2, Zenon DEF OneThen
<1>5. ReadMany(Blocks(s), at + 1, CountSectionWireEntities(entities))
        = [at |-> (at + 1) + Len(t), got |-> WireSection(entities)]
  <2>1. ReadsAll(Blocks(s), at + 1, CountSectionWireEntities(entities), t, WireSection(entities))
    BY <1>3, <1>4, ManyParses, Zenon
  <2> QED
    BY <2>1, Zenon DEF ReadsAll
<1>6. (at + 1) + Len(t) = at + Len(w)
  <2>1. Len(t) \in Nat
    BY <1>1, ListShape, Zenon
  <2> QED
    BY <1>4, <2>1
<1>7. Tagged(s, at, tag)
  BY <1>2, <1>4, Zenon DEF Tagged
<1>8. ReadSection(s, at, tag) = [at |-> at + Len(w), got |-> WireSection(entities)]
  BY <1>2, <1>4, <1>5, <1>6, <1>7, Zenon DEF ReadSection
<1> QED
  BY <1>4, <1>8, Zenon DEF w, SectionAt

(* The text of a rule.                                                       *)
Subjects(rule) == AppendRuleEntitySection("subject_cnt", rule.subjects)
Objects(rule) == AppendRuleEntitySection("object_cnt", rule.objects)
RuleTail(rule) == Subjects(rule).out \o Objects(rule).out
RuleHead(rule) == <<TlvU32("action", rule.action), TlvU32("event", rule.event)>>

(* A rule is its head, its subjects and its objects.                         *)
LEMMA RuleText ==
  ASSUME NEW rule, IsSection(rule.subjects), IsSection(rule.objects), AppendRuleBlock(rule).ok
  PROVE  /\ Subjects(rule).ok /\ Objects(rule).ok
         /\ IsList(Subjects(rule).out) /\ IsList(Objects(rule).out) /\ IsList(RuleTail(rule))
         /\ IsList(AppendRuleBlock(rule).out)
         /\ AppendRuleBlock(rule).out = RuleHead(rule) \o RuleTail(rule)
<1> DEFINE both == Then(Subjects(rule), Objects(rule))
<1>1. AppendRuleBlock(rule) = Then(Written(RuleHead(rule)), both)
  BY Zenon DEF AppendRuleBlock, RuleHead, Subjects, Objects
<1>2. Written(RuleHead(rule)).out = RuleHead(rule)
  BY DEF Written
<1> HIDE DEF both
<1>3. both.ok
  <2>1. Then(Written(RuleHead(rule)), both).ok
    BY <1>1, Zenon
  <2> QED
    BY <2>1, ThenOut, Zenon
<1>4. AppendRuleBlock(rule).out = RuleHead(rule) \o both.out
  <2>1. Then(Written(RuleHead(rule)), both).ok
    BY <1>1, Zenon
  <2>2. Then(Written(RuleHead(rule)), both).out = Written(RuleHead(rule)).out \o both.out
    BY <2>1, ThenOut, Zenon
  <2> QED
    BY <1>1, <1>2, <2>2, Zenon
<1>5. Then(Subjects(rule), Objects(rule)).ok
  BY <1>3, Zenon DEF both
<1>6. Subjects(rule).ok /\ Objects(rule).ok
  BY <1>5, ThenOut, Zenon
<1>7. both.out = RuleTail(rule)
  <2>1. Then(Subjects(rule), Objects(rule)).out = Subjects(rule).out \o Objects(rule).out
    BY <1>5, ThenOut, Zenon
  <2> QED
    BY <2>1, Zenon DEF both, RuleTail
<1>8. IsList(Subjects(rule).out)
  BY <1>6, SectionText, Zenon DEF Subjects
<1>9. IsList(Objects(rule).out)
  BY <1>6, SectionText, Zenon DEF Objects
<1>10. IsList(RuleTail(rule))
  BY <1>8, <1>9, ListJoin, Zenon DEF RuleTail
<1>11. IsList(RuleHead(rule))
  BY ListTwo, Zenon DEF RuleHead
<1>12. IsList(RuleHead(rule) \o RuleTail(rule))
  BY <1>10, <1>11, ListJoin, Zenon
<1> QED
  BY <1>4, <1>6, <1>7, <1>8, <1>9, <1>10, <1>12, Zenon

(* Where a stream holds two values and a text behind them.                   *)
TwoThen(s, at, u, v, t) ==
  /\ at \in Nat \ {0} /\ at \in 1..Len(s) /\ at + 1 \in 1..Len(s)
  /\ s[at] = u /\ s[at + 1] = v /\ HasAt(s, at + 2, t) /\ Len(<<u, v>> \o t) = 2 + Len(t)

(* Two values and a text, taken apart.                                       *)
LEMMA HasTwo ==
  ASSUME NEW s, IsList(s), NEW at, NEW u, NEW v, NEW t, IsList(t), HasAt(s, at, <<u, v>> \o t)
  PROVE  TwoThen(s, at, u, v, t)
<1>1. PICK w : w = <<u, v>>
  BY Zenon
<1>2. IsList(w) /\ Len(w) = 2 /\ w[1] = u /\ w[2] = v
  <2>1. IsList(<<u, v>>) /\ Len(<<u, v>>) = 2 /\ <<u, v>>[1] = u /\ <<u, v>>[2] = v
    BY ListTwo, Zenon
  <2> QED
    BY <1>1, <2>1, Zenon
<1>3. HasAt(s, at, w) /\ HasAt(s, at + 2, t)
  <2>1. HasAt(s, at, w \o t)
    BY <1>1, Zenon
  <2> QED
    BY <1>2, <2>1, HasParts, Zenon
<1>4. Len(w \o t) = 2 + Len(t)
  <2>1. Len(w \o t) = Len(w) + Len(t)
    BY <1>2, ListJoin, Zenon
  <2> QED
    BY <1>2, <2>1, Zenon
<1>5. PICK l \in Nat : l = Len(s)
  BY ListShape, Zenon
<1>6. at \in Nat /\ at # 0 /\ (at + 2) - 1 <= l /\ \A i \in 1..2 : s[(at + i) - 1] = w[i]
  BY <1>2, <1>3, <1>5, Zenon DEF HasAt
<1>7. /\ at \in 1..l /\ at + 1 \in 1..l /\ (at + 1) - 1 = at /\ (at + 2) - 1 = at + 1
      /\ 1 \in 1..2 /\ 2 \in 1..2 /\ at \in Nat \ {0}
  BY <1>6
<1>8. s[at] = w[1] /\ s[at + 1] = w[2]
  BY <1>6, <1>7, Zenon
<1> QED
  BY <1>1, <1>2, <1>3, <1>4, <1>5, <1>7, <1>8, Zenon DEF TwoThen

(* A section, read where it is.                                              *)
LEMMA SectionsRead ==
  ASSUME NEW s, IsList(s), NEW at, NEW tag, NEW entities, IsSection(entities), NEW w,
         w = AppendRuleEntitySection(tag, entities), w.ok, HasAt(s, at, w.out)
  PROVE  SectionAt(s, at, tag, w.out, entities)
  BY SectionReads, Zenon

(* A rule, read where it is.                                                 *)
LEMMA RuleReads ==
  ASSUME NEW s, IsList(s), NEW at, NEW rule, IsSection(rule.subjects), IsSection(rule.objects),
         AppendRuleBlock(rule).ok, HasAt(s, at, AppendRuleBlock(rule).out)
  PROVE  /\ at \in 1..Len(s)
         /\ ReadRule(s, at) = [at |-> at + Len(AppendRuleBlock(rule).out), got |-> <<WireRule(rule)>>]
<1> DEFINE u == TlvU32("action", rule.action)
           v == TlvU32("event", rule.event)
           w == AppendRuleBlock(rule).out
           a == Subjects(rule)
           b == Objects(rule)
           t == RuleTail(rule)
<1>1. /\ a.ok /\ b.ok /\ IsList(a.out) /\ IsList(b.out) /\ IsList(t)
      /\ w = RuleHead(rule) \o t
  BY RuleText, Zenon
<1>2. t = a.out \o b.out
  BY Zenon DEF RuleTail
<1>3. RuleHead(rule) = <<u, v>>
  BY Zenon DEF RuleHead
<1>4. u.tag = "action" /\ u.value = rule.action /\ v.tag = "event" /\ v.value = rule.event
  BY DEF TlvU32
<1>5. a = AppendRuleEntitySection("subject_cnt", rule.subjects)
      /\ b = AppendRuleEntitySection("object_cnt", rule.objects)
  BY Zenon DEF Subjects, Objects
<1>6. HasAt(s, at, <<u, v>> \o t)
  BY <1>1, <1>3, Zenon
<1> HIDE DEF u, v, w, a, b, t
<1>7. TwoThen(s, at, u, v, t)
  BY <1>1, <1>6, HasTwo, Zenon
<1>8. /\ at \in Nat \ {0} /\ at \in 1..Len(s) /\ at + 1 \in 1..Len(s)
      /\ s[at] = u /\ s[at + 1] = v /\ HasAt(s, at + 2, t) /\ Len(w) = 2 + Len(t)
  BY <1>1, <1>3, <1>7, Zenon DEF TwoThen
<1>9. PICK x, y : x = a.out /\ y = b.out
  BY Zenon
<1>10. PICK p : p = at + 2
  BY Zenon
<1>11. HasAt(s, p, x) /\ HasAt(s, p + Len(x), y)
  <2>1. HasAt(s, p, x \o y) /\ IsList(x) /\ IsList(y)
    BY <1>1, <1>2, <1>8, <1>9, <1>10, Zenon
  <2> QED
    BY <2>1, HasParts, Zenon
<1>12. SectionAt(s, p, "subject_cnt", x, rule.subjects)
  <2>1. a.ok /\ HasAt(s, p, a.out)
    BY <1>1, <1>9, <1>11, Zenon
  <2>2. SectionAt(s, p, "subject_cnt", a.out, rule.subjects)
    BY <1>5, <2>1, SectionsRead, Zenon
  <2> QED
    BY <1>9, <2>2, Zenon
<1>13. SectionAt(s, p + Len(x), "object_cnt", y, rule.objects)
  <2>1. b.ok /\ HasAt(s, p + Len(x), b.out)
    BY <1>1, <1>9, <1>11, Zenon
  <2>2. SectionAt(s, p + Len(x), "object_cnt", b.out, rule.objects)
    BY <1>5, <2>1, SectionsRead, Zenon
  <2> QED
    BY <1>9, <2>2, Zenon
<1> DEFINE subjects == ReadSection(s, at + 2, "subject_cnt")
           objects == ReadSection(s, subjects.at, "object_cnt")
<1>14. subjects.at = p + Len(x) /\ subjects.got = WireSection(rule.subjects)
  <2>1. subjects = [at |-> p + Len(x), got |-> WireSection(rule.subjects)]
    BY <1>10, <1>12, Zenon DEF SectionAt
  <2> HIDE DEF subjects
  <2> QED
    BY <2>1
<1> HIDE DEF subjects
<1>15. objects.at = (p + Len(x)) + Len(y) /\ objects.got = WireSection(rule.objects)
  <2>1. objects = [at |-> (p + Len(x)) + Len(y), got |-> WireSection(rule.objects)]
    BY <1>13, <1>14, Zenon DEF SectionAt
  <2> HIDE DEF objects
  <2> QED
    BY <2>1
<1> HIDE DEF objects
<1>16. (p + Len(x)) + Len(y) = at + Len(w) /\ (p + Len(x)) + Len(y) # 0
  <2>1. Len(t) = Len(x) + Len(y)
    BY <1>1, <1>2, <1>9, ListJoin, Zenon
  <2>2. Len(x) \in Nat /\ Len(y) \in Nat
    BY <1>1, <1>9, ListShape, Zenon
  <2> QED
    BY <1>8, <1>10, <2>1, <2>2
<1>17. ReadRule(s, at) = [at |-> objects.at,
            got |-> <<[action |-> s[at].value, event |-> s[at + 1].value,
                       subjects |-> subjects.got, objects |-> objects.got]>>]
  <2>1. Tagged(s, at, "action") /\ Tagged(s, at + 1, "event") /\ objects.at # 0
    BY <1>4, <1>8, <1>15, <1>16, Zenon DEF Tagged
  <2>2. ReadRule(s, at) = [at |-> objects.at,
            got |-> <<[action |-> s[at].value, event |-> s[at + 1].value,
                       subjects |-> subjects.got, objects |-> objects.got]>>]
    BY <2>1, Zenon DEF ReadRule, subjects, objects
  <2> QED
    BY <2>2
<1>18. WireRule(rule) = [action |-> s[at].value, event |-> s[at + 1].value,
                         subjects |-> subjects.got, objects |-> objects.got]
  BY <1>4, <1>8, <1>14, <1>15, Zenon DEF WireRule
<1> QED
  BY <1>8, <1>15, <1>16, <1>17, <1>18, Zenon DEF w

(* A rule is read as what it means.                                          *)
LEMMA RuleBlockParses ==
  ASSUME NEW s, IsList(s), NEW rule, IsSection(rule.subjects), IsSection(rule.objects),
         AppendRuleBlock(rule).ok
  PROVE  Parses(RuleBlocks(s), s, AppendRuleBlock(rule).out, 1, <<WireRule(rule)>>)
<1> DEFINE t == AppendRuleBlock(rule).out
           got == <<WireRule(rule)>>
<1>1. IsList(t) /\ IsList(got)
  BY RuleText, ListOne, Zenon
<1>2. ASSUME NEW at, HasAt(s, at, t)
      PROVE  at \in DOMAIN RuleBlocks(s) /\ RuleBlocks(s)[at] = [at |-> at + Len(t), got |-> got]
  <2>1. at \in 1..Len(s) /\ ReadRule(s, at) = [at |-> at + Len(t), got |-> got]
    BY <1>2, RuleReads, Zenon
  <2>2. at \in DOMAIN RuleBlocks(s) /\ RuleBlocks(s)[at] = ReadRule(s, at)
    BY <2>1, Zenon DEF RuleBlocks
  <2> QED
    BY <2>1, <2>2, Zenon
<1> HIDE DEF t, got
<1>3. Parses(RuleBlocks(s), s, t, 1, got)
  BY <1>1, <1>2, ParsesOne, Zenon
<1> QED
  BY <1>3, Zenon DEF t, got

(* The rules of a policy.                                                    *)
Rules(policy) == InOrder([i \in 1..Len(policy.rules) |-> AppendRuleBlock(policy.rules[i])])
RulesMeant(policy) == [i \in 1..Len(policy.rules) |-> WireRule(policy.rules[i])]
HasSections(policy) ==
  /\ Len(policy.rules) \in Nat
  /\ \A j \in 1..Len(policy.rules) :
       IsSection(policy.rules[j].subjects) /\ IsSection(policy.rules[j].objects)

(* The blocks of the rules are as many as the policy counts.                 *)
LEMMA RulesParse ==
  ASSUME NEW s, IsList(s), NEW policy, HasSections(policy), Rules(policy).ok
  PROVE  Parses(RuleBlocks(s), s, Rules(policy).out, Len(policy.rules), RulesMeant(policy))
<1>1. PICK l \in Nat : l = Len(policy.rules)
  BY DEF HasSections
<1> DEFINE parts == [i \in 1..l |-> AppendRuleBlock(policy.rules[i])]
           counts == [i \in 1..l |-> 1]
           means == [i \in 1..l |-> WireRule(policy.rules[i])]
           gots == [i \in 1..l |-> <<means[i]>>]
<1>2. Len(parts) = l /\ \A i \in 1..l : parts[i] = AppendRuleBlock(policy.rules[i])
  OBVIOUS
<1>3. Len(counts) = l /\ \A i \in 1..l : counts[i] = 1
  OBVIOUS
<1>4. means = [i \in 1..l |-> means[i]] /\ \A i \in 1..l : means[i] = WireRule(policy.rules[i])
  OBVIOUS
<1> HIDE DEF means
<1>5. gots = [i \in 1..l |-> gots[i]] /\ \A i \in 1..l : gots[i] = <<means[i]>>
  OBVIOUS
<1>6. Rules(policy) = InOrder(parts)
  BY <1>1, Zenon DEF Rules
<1>7. SumOf(counts) = l
  BY SumOfOnes, Zenon
<1>8. FlattenSeq(gots) = RulesMeant(policy)
  <2>1. FlattenSeq(gots) = [i \in 1..l |-> means[i]]
    BY FlattenOnes, Zenon
  <2>2. RulesMeant(policy) = means
    BY <1>1, Zenon DEF RulesMeant, means
  <2> QED
    BY <1>4, <2>1, <2>2, Zenon
<1> HIDE DEF parts, counts, gots
<1>9. \A i \in 1..l : parts[i].ok => Parses(RuleBlocks(s), s, parts[i].out, counts[i], gots[i])
  <2> SUFFICES ASSUME NEW i \in 1..l, parts[i].ok
               PROVE  Parses(RuleBlocks(s), s, parts[i].out, counts[i], gots[i])
    OBVIOUS
  <2>1. IsSection(policy.rules[i].subjects) /\ IsSection(policy.rules[i].objects)
    BY <1>1, Zenon DEF HasSections
  <2>2. AppendRuleBlock(policy.rules[i]).ok
    BY <1>2, Zenon
  <2>3. Parses(RuleBlocks(s), s, AppendRuleBlock(policy.rules[i]).out, 1,
               <<WireRule(policy.rules[i])>>)
    BY <2>1, <2>2, RuleBlockParses, Zenon
  <2> QED
    BY <1>2, <1>3, <1>4, <1>5, <2>3, Zenon
<1>10. EachParses(RuleBlocks(s), s, l, parts, counts, gots)
  BY <1>2, <1>3, <1>5, <1>9, Zenon DEF EachParses
<1>11. Parses(RuleBlocks(s), s, InOrder(parts).out, SumOf(counts), FlattenSeq(gots))
  <2>1. InOrder(parts).ok
    BY <1>6, Zenon
  <2> QED
    BY <1>10, <2>1, PartsParse, Zenon
<1> QED
  BY <1>1, <1>6, <1>7, <1>8, <1>11, Zenon

(* A list of four.                                                           *)
LEMMA ListFour ==
  ASSUME NEW x, NEW y, NEW z, NEW w
  PROVE  /\ IsList(<<x, y, z, w>>) /\ Len(<<x, y, z, w>>) = 4
         /\ <<x, y, z, w>>[1] = x /\ <<x, y, z, w>>[2] = y
         /\ <<x, y, z, w>>[3] = z /\ <<x, y, z, w>>[4] = w
<1>1. <<x, y, z, w>> \in Seq({x, y, z, w})
  OBVIOUS
<1> QED
  BY <1>1 DEF IsList

(* What a policy begins with.                                                *)
LEMMA HeadOf ==
  ASSUME NEW policy
  PROVE  /\ IsList(PolicyHead(policy)) /\ Len(PolicyHead(policy)) = 4
         /\ PolicyHead(policy)[1].tag = "operation_type"
         /\ PolicyHead(policy)[1].value = policy.operation
         /\ PolicyHead(policy)[2].tag = "default_action"
         /\ PolicyHead(policy)[2].value = policy.default
         /\ PolicyHead(policy)[3].tag = "ask_timeout_action"
         /\ PolicyHead(policy)[3].value = policy.timeout
         /\ PolicyHead(policy)[4].tag = "rules_cnt"
         /\ PolicyHead(policy)[4].value = Len(policy.rules)
<1> DEFINE x == TlvU32("operation_type", policy.operation)
           y == TlvU32("default_action", policy.default)
           z == TlvU32("ask_timeout_action", policy.timeout)
           w == TlvU32("rules_cnt", Len(policy.rules))
<1>1. /\ x.tag = "operation_type" /\ x.value = policy.operation
      /\ y.tag = "default_action" /\ y.value = policy.default
      /\ z.tag = "ask_timeout_action" /\ z.value = policy.timeout
      /\ w.tag = "rules_cnt" /\ w.value = Len(policy.rules)
  BY DEF TlvU32
<1>2. PolicyHead(policy) = <<x, y, z, w>>
  BY Zenon DEF PolicyHead
<1> HIDE DEF x, y, z, w
<1>3. /\ IsList(PolicyHead(policy)) /\ Len(PolicyHead(policy)) = 4
      /\ PolicyHead(policy)[1] = x /\ PolicyHead(policy)[2] = y
      /\ PolicyHead(policy)[3] = z /\ PolicyHead(policy)[4] = w
  <2>1. /\ IsList(<<x, y, z, w>>) /\ Len(<<x, y, z, w>>) = 4
        /\ <<x, y, z, w>>[1] = x /\ <<x, y, z, w>>[2] = y
        /\ <<x, y, z, w>>[3] = z /\ <<x, y, z, w>>[4] = w
    BY ONLY ListFour
  <2> QED
    BY <1>2, <2>1, Zenon
<1> QED
  BY <1>1, <1>3, Zenon

(* The text of a policy.                                                     *)
PolicyBlock(policy) == Then(Written(PolicyHead(policy)), Rules(policy))
PolicySize(policy) == TlvU32("operation_size", Bytes(PolicyBlock(policy).out))

(* A policy is its size, its head and its rules.                             *)
LEMMA PolicyText ==
  ASSUME NEW policy, HasSections(policy), SerializePolicy(policy).ok
  PROVE  /\ Rules(policy).ok /\ IsList(Rules(policy).out)
         /\ PolicyBlock(policy).out = PolicyHead(policy) \o Rules(policy).out
         /\ IsList(PolicyBlock(policy).out)
         /\ Len(PolicyBlock(policy).out) = 4 + Len(Rules(policy).out)
         /\ SerializePolicy(policy).out = <<PolicySize(policy)>> \o PolicyBlock(policy).out
         /\ IsList(SerializePolicy(policy).out)
<1> DEFINE size == <<PolicySize(policy)>>
           block == PolicyBlock(policy)
<1>1. SerializePolicy(policy) = Then(Written(size), block)
  BY Zenon DEF SerializePolicy, PolicyBlock, PolicySize, Rules
<1>2. Written(size).out = size /\ Written(PolicyHead(policy)).out = PolicyHead(policy)
  BY DEF Written
<1>3. IsList(size)
  BY ListOne, Zenon
<1> HIDE DEF size, block
<1>4. Then(Written(size), block).ok
  BY <1>1, Zenon
<1>5. block.ok
  BY <1>4, ThenOut, Zenon
<1>6. SerializePolicy(policy).out = size \o block.out
  <2>1. Then(Written(size), block).out = Written(size).out \o block.out
    BY <1>4, ThenOut, Zenon
  <2> QED
    BY <1>1, <1>2, <2>1, Zenon
<1>7. Then(Written(PolicyHead(policy)), Rules(policy)).ok
  BY <1>5, Zenon DEF block, PolicyBlock
<1>8. Rules(policy).ok
  BY <1>7, ThenOut, Zenon
<1>9. block.out = PolicyHead(policy) \o Rules(policy).out
  <2>1. Then(Written(PolicyHead(policy)), Rules(policy)).out
          = Written(PolicyHead(policy)).out \o Rules(policy).out
    BY <1>7, ThenOut, Zenon
  <2> QED
    BY <1>2, <2>1, Zenon DEF block, PolicyBlock
<1>10. IsList(Rules(policy).out)
  <2>1. Parses(RuleBlocks(<<>>), <<>>, Rules(policy).out, Len(policy.rules), RulesMeant(policy))
    BY <1>8, ListEmpty, RulesParse, Zenon
  <2> QED
    BY <2>1, Zenon DEF Parses
<1>11. IsList(block.out) /\ Len(block.out) = 4 + Len(Rules(policy).out)
  <2>1. IsList(PolicyHead(policy)) /\ Len(PolicyHead(policy)) = 4
    BY HeadOf, Zenon
  <2>2. PICK x, y : x = PolicyHead(policy) /\ y = Rules(policy).out
    BY Zenon
  <2>3. IsList(x \o y) /\ Len(x \o y) = Len(x) + Len(y)
    <3>1. IsList(x) /\ IsList(y)
      BY <1>10, <2>1, <2>2, Zenon
    <3> QED BY ONLY <3>1, ListJoin, Zenon
  <2> QED
    BY <1>9, <2>1, <2>2, <2>3, Zenon
<1>12. IsList(size \o block.out)
  BY <1>3, <1>11, ListJoin, Zenon
<1> QED
  BY <1>6, <1>8, <1>9, <1>10, <1>11, <1>12, Zenon DEF size, block

(* Where a stream holds four values and a text behind them.                  *)
FourThen(s, at, h, t) ==
  /\ at \in 1..Len(s) /\ at + 1 \in 1..Len(s) /\ at + 2 \in 1..Len(s) /\ at + 3 \in 1..Len(s)
  /\ s[at] = h[1] /\ s[at + 1] = h[2] /\ s[at + 2] = h[3] /\ s[at + 3] = h[4]
  /\ HasAt(s, at + 4, t)

(* Four values and a text, taken apart.                                      *)
LEMMA HasFour ==
  ASSUME NEW s, IsList(s), NEW at, NEW h, IsList(h), Len(h) = 4, NEW t, IsList(t), HasAt(s, at, h \o t)
  PROVE  FourThen(s, at, h, t)
<1>3. HasAt(s, at, h) /\ HasAt(s, at + 4, t)
  BY HasParts, Zenon
<1>5. PICK l \in Nat : l = Len(s)
  BY ListShape, Zenon
<1>6. at \in Nat /\ at # 0 /\ (at + 4) - 1 <= l /\ \A i \in 1..4 : s[(at + i) - 1] = h[i]
  BY <1>3, <1>5, Zenon DEF HasAt
<1>7. /\ at \in 1..l /\ at + 1 \in 1..l /\ at + 2 \in 1..l /\ at + 3 \in 1..l
      /\ (at + 1) - 1 = at /\ (at + 2) - 1 = at + 1 /\ (at + 3) - 1 = at + 2 /\ (at + 4) - 1 = at + 3
      /\ 1 \in 1..4 /\ 2 \in 1..4 /\ 3 \in 1..4 /\ 4 \in 1..4
  BY <1>6
<1>8. s[at] = h[1] /\ s[at + 1] = h[2] /\ s[at + 2] = h[3] /\ s[at + 3] = h[4]
  BY <1>6, <1>7, Zenon
<1> QED
  BY <1>3, <1>5, <1>7, <1>8, Zenon DEF FourThen

(* A policy, read where it is: the size tells where its content ends.        *)
LEMMA PolicyReads ==
  ASSUME NEW s, IsList(s), NEW at, NEW policy, HasSections(policy),
         SerializePolicy(policy).ok, HasAt(s, at, SerializePolicy(policy).out)
  PROVE  /\ at \in 1..Len(s)
         /\ ReadPolicy(s, at) = [at |-> at + Len(SerializePolicy(policy).out),
                                 got |-> <<WirePolicy(policy)>>]
<1> DEFINE u == PolicySize(policy)
           b == PolicyBlock(policy).out
           h == PolicyHead(policy)
           t == Rules(policy).out
           w == SerializePolicy(policy).out
<1>1. /\ Rules(policy).ok /\ IsList(t) /\ b = h \o t /\ IsList(b) /\ Len(b) = 4 + Len(t)
      /\ w = <<u>> \o b
  BY PolicyText, Zenon
<1>2. u.tag = "operation_size" /\ u.value = Bytes(b)
  BY DEF PolicySize, TlvU32
<1>3. /\ IsList(h) /\ Len(h) = 4
      /\ h[1].tag = "operation_type" /\ h[1].value = policy.operation
      /\ h[2].tag = "default_action" /\ h[2].value = policy.default
      /\ h[3].tag = "ask_timeout_action" /\ h[3].value = policy.timeout
      /\ h[4].tag = "rules_cnt" /\ h[4].value = Len(policy.rules)
  BY HeadOf, Zenon
<1>4. Parses(RuleBlocks(s), s, t, Len(policy.rules), RulesMeant(policy))
  BY <1>1, RulesParse, Zenon
<1> HIDE DEF u, b, h, t
<1>5. HasAt(s, at, <<u>> \o b)
  BY <1>1, Zenon
<1> HIDE DEF w
<1>6. OneThen(s, at, u, b)
  BY <1>1, <1>5, HasOne, Zenon
<1>7. /\ at \in 1..Len(s) /\ s[at] = u /\ at \in Nat \ {0}
      /\ HasAt(s, at + 1, b) /\ Len(w) = 1 + Len(b)
  BY <1>1, <1>6, Zenon DEF OneThen
<1>8. PICK p \in Nat, n \in Nat : p = at + 1 /\ n = Len(t)
  <2>1. at + 1 \in Nat /\ Len(t) \in Nat
    BY <1>1, <1>7, ListShape
  <2> QED
    BY <2>1
<1>9. FourThen(s, p, h, t)
  <2>1. HasAt(s, p, h \o t)
    BY <1>1, <1>7, <1>8, Zenon
  <2> QED
    BY <1>1, <1>3, <2>1, HasFour, Zenon
<1>10. /\ p \in 1..Len(s) /\ p + 1 \in 1..Len(s) /\ p + 2 \in 1..Len(s) /\ p + 3 \in 1..Len(s)
       /\ s[p] = h[1] /\ s[p + 1] = h[2] /\ s[p + 2] = h[3] /\ s[p + 3] = h[4]
       /\ HasAt(s, p + 4, t)
  BY <1>9, Zenon DEF FourThen
<1>11. /\ at + 1 = p /\ at + 2 = p + 1 /\ at + 3 = p + 2 /\ at + 4 = p + 3 /\ at + 5 = p + 4
       /\ (p + 4) + n = at + Len(w) /\ ((p + 4) + n) - 1 = (p + Len(b)) - 1 /\ (p + 4) + n # 0
  <2>1. PICK lw, lb : lw = Len(w) /\ lb = Len(b)
    BY Zenon
  <2>2. lb = 4 + n /\ lw = 1 + lb /\ p = at + 1 /\ n \in Nat /\ at \in Nat
    BY <1>1, <1>7, <1>8, <2>1
  <2>3. /\ at + 1 = p /\ at + 2 = p + 1 /\ at + 3 = p + 2 /\ at + 4 = p + 3 /\ at + 5 = p + 4
        /\ (p + 4) + n = at + lw /\ ((p + 4) + n) - 1 = (p + lb) - 1 /\ (p + 4) + n # 0
    BY ONLY <2>2
  <2> QED
    BY <2>1, <2>3, Zenon
<1> DEFINE rules == ReadMany(RuleBlocks(s), at + 5, s[at + 4].value)
<1>12. rules = [at |-> (p + 4) + n, got |-> RulesMeant(policy)]
  <2>1. ReadsAll(RuleBlocks(s), p + 4, Len(policy.rules), t, RulesMeant(policy))
    BY <1>4, <1>10, ManyParses, Zenon
  <2>2. ReadMany(RuleBlocks(s), p + 4, Len(policy.rules)) = [at |-> (p + 4) + n, got |-> RulesMeant(policy)]
    BY <1>8, <2>1, Zenon DEF ReadsAll
  <2>3. s[at + 4].value = Len(policy.rules)
    BY <1>3, <1>10, <1>11, Zenon
  <2> QED
    BY <1>11, <2>2, <2>3, Zenon
<1> HIDE DEF rules
<1>13. rules.at = (p + 4) + n /\ rules.got = RulesMeant(policy)
  BY <1>12
<1>14. Bytes(SubSeq(s, at + 1, rules.at - 1)) = s[at].value
  <2>1. SubSeq(s, p, (p + Len(b)) - 1) = b
    BY <1>1, <1>7, <1>8, SubSeqHeld, Zenon
  <2>2. SubSeq(s, at + 1, rules.at - 1) = b
    BY <1>11, <1>13, <2>1, Zenon
  <2> QED
    BY <1>2, <1>7, <2>2, Zenon
<1>15. /\ Tagged(s, at, "operation_size") /\ Tagged(s, at + 1, "operation_type")
       /\ Tagged(s, at + 2, "default_action") /\ Tagged(s, at + 3, "ask_timeout_action")
       /\ Tagged(s, at + 4, "rules_cnt")
  BY <1>2, <1>3, <1>7, <1>10, <1>11, ZenonT(40) DEF Tagged
<1>16. WirePolicy(policy) = [operation |-> s[at + 1].value, default |-> s[at + 2].value,
                             timeout |-> s[at + 3].value, rules |-> rules.got]
  BY <1>3, <1>10, <1>11, <1>13, ZenonT(40) DEF WirePolicy, RulesMeant
<1>17. ReadPolicy(s, at) = [at |-> rules.at, got |-> <<WirePolicy(policy)>>]
  <2>1. rules.at # 0
    BY <1>11, <1>13, Zenon
  <2>2. ReadPolicy(s, at) =
          [at |-> rules.at,
           got |-> <<[operation |-> s[at + 1].value, default |-> s[at + 2].value,
                      timeout |-> s[at + 3].value, rules |-> rules.got]>>]
    BY <1>14, <1>15, <2>1, Zenon DEF ReadPolicy, rules
  <2> QED
    BY <1>16, <2>2, Zenon
<1>18. rules.at = at + Len(w)
  BY <1>11, <1>13, Zenon
<1>19. ReadPolicy(s, at) = [at |-> at + Len(w), got |-> <<WirePolicy(policy)>>]
  BY <1>17, <1>18, Zenon
<1> QED
  BY <1>7, <1>19, Zenon DEF w

(* The policies of a profile.                                                *)
PolicyBlocks(s) == [at \in 1..Len(s) |-> ReadPolicy(s, at)]
AllPolicies(policies) == InOrder([i \in 1..Len(policies) |-> SerializePolicy(policies[i])])
PoliciesMeant(policies) == [i \in 1..Len(policies) |-> WirePolicy(policies[i])]

(* A policy is read as what it means, ...                                    *)
LEMMA PolicyParses ==
  ASSUME NEW s, IsList(s), NEW policy, HasSections(policy), SerializePolicy(policy).ok
  PROVE  Parses(PolicyBlocks(s), s, SerializePolicy(policy).out, 1, <<WirePolicy(policy)>>)
<1> DEFINE t == SerializePolicy(policy).out
           got == <<WirePolicy(policy)>>
<1>1. IsList(t) /\ IsList(got)
  BY PolicyText, ListOne, Zenon
<1>2. ASSUME NEW at, HasAt(s, at, t)
      PROVE  at \in DOMAIN PolicyBlocks(s) /\ PolicyBlocks(s)[at] = [at |-> at + Len(t), got |-> got]
  <2>1. at \in 1..Len(s) /\ ReadPolicy(s, at) = [at |-> at + Len(t), got |-> got]
    BY <1>2, PolicyReads, Zenon
  <2>2. at \in DOMAIN PolicyBlocks(s) /\ PolicyBlocks(s)[at] = ReadPolicy(s, at)
    BY <2>1, Zenon DEF PolicyBlocks
  <2> QED
    BY <2>1, <2>2, Zenon
<1> HIDE DEF t, got
<1>3. Parses(PolicyBlocks(s), s, t, 1, got)
  BY <1>1, <1>2, ParsesOne, Zenon
<1> QED
  BY <1>3, Zenon DEF t, got

(* ... and the policies are as many as the stream counts.                    *)
LEMMA PoliciesParse ==
  ASSUME NEW s, IsList(s), NEW policies, IsProfile(policies), AllPolicies(policies).ok
  PROVE  Parses(PolicyBlocks(s), s, AllPolicies(policies).out, Len(policies), PoliciesMeant(policies))
<1>1. PICK l \in Nat : l = Len(policies)
  BY DEF IsProfile
<1> DEFINE parts == [i \in 1..l |-> SerializePolicy(policies[i])]
           counts == [i \in 1..l |-> 1]
           means == [i \in 1..l |-> WirePolicy(policies[i])]
           gots == [i \in 1..l |-> <<means[i]>>]
<1>2. Len(parts) = l /\ \A i \in 1..l : parts[i] = SerializePolicy(policies[i])
  OBVIOUS
<1>3. Len(counts) = l /\ \A i \in 1..l : counts[i] = 1
  OBVIOUS
<1>4. means = [i \in 1..l |-> means[i]] /\ \A i \in 1..l : means[i] = WirePolicy(policies[i])
  OBVIOUS
<1> HIDE DEF means
<1>5. gots = [i \in 1..l |-> gots[i]] /\ \A i \in 1..l : gots[i] = <<means[i]>>
  OBVIOUS
<1>6. AllPolicies(policies) = InOrder(parts)
  BY <1>1, Zenon DEF AllPolicies
<1>7. SumOf(counts) = l
  BY SumOfOnes, Zenon
<1>8. FlattenSeq(gots) = PoliciesMeant(policies)
  <2>1. FlattenSeq(gots) = [i \in 1..l |-> means[i]]
    BY FlattenOnes, Zenon
  <2>2. PoliciesMeant(policies) = means
    BY <1>1, Zenon DEF PoliciesMeant, means
  <2> QED
    BY <1>4, <2>1, <2>2, Zenon
<1> HIDE DEF parts, counts, gots
<1>9. \A i \in 1..l : parts[i].ok => Parses(PolicyBlocks(s), s, parts[i].out, counts[i], gots[i])
  <2> SUFFICES ASSUME NEW i \in 1..l, parts[i].ok
               PROVE  Parses(PolicyBlocks(s), s, parts[i].out, counts[i], gots[i])
    OBVIOUS
  <2>1. HasSections(policies[i])
    BY <1>1, Zenon DEF IsProfile, HasSections
  <2>2. SerializePolicy(policies[i]).ok
    BY <1>2, Zenon
  <2>3. Parses(PolicyBlocks(s), s, SerializePolicy(policies[i]).out, 1, <<WirePolicy(policies[i])>>)
    BY <2>1, <2>2, PolicyParses, Zenon
  <2> QED
    BY <1>2, <1>3, <1>4, <1>5, <2>3, Zenon
<1>10. EachParses(PolicyBlocks(s), s, l, parts, counts, gots)
  BY <1>2, <1>3, <1>5, <1>9, Zenon DEF EachParses
<1>11. Parses(PolicyBlocks(s), s, InOrder(parts).out, SumOf(counts), FlattenSeq(gots))
  <2>1. InOrder(parts).ok
    BY <1>6, Zenon
  <2> QED
    BY <1>10, <2>1, PartsParse, Zenon
<1> QED
  BY <1>1, <1>6, <1>7, <1>8, <1>11, Zenon

(* A block is written exactly when its comparison is one its item allows.    *)
LEMMA BlockOk ==
  ASSUME NEW rule
  PROVE  AppendFilterRuleBlock(rule).ok <=> IsCmpTypeAllowed(rule.cmp, rule.item)
<1>1. CASE IsCmpTypeAllowed(rule.cmp, rule.item)
  <2>1. \E out : AppendFilterRuleBlock(rule) = Written(out)
    BY <1>1, Zenon DEF AppendFilterRuleBlock
  <2>2. \A out : Written(out).ok = TRUE
    BY DEF Written
  <2> QED
    BY <1>1, <2>1, <2>2, Zenon
<1>2. CASE ~IsCmpTypeAllowed(rule.cmp, rule.item)
  <2>1. AppendFilterRuleBlock(rule) = Refused
    BY <1>2, Zenon DEF AppendFilterRuleBlock
  <2>2. Refused.ok = FALSE
    BY DEF Refused
  <2> QED
    BY <1>2, <2>1, <2>2, Zenon
<1> QED
  BY <1>1, <1>2

(* So are the blocks of a rule ...                                           *)
LEMMA RuleOk ==
  ASSUME NEW rule
  PROVE  AppendFilterRuleEntities(rule).ok <=> IsCmpTypeAllowed(rule.cmp, rule.item)
<1>0. "path" # "fd" /\ "eq" # "suffix" /\ "prefix" # "suffix" /\ "cmd" # "path"
  OBVIOUS
<1>1. CASE rule.item # "path"
  <2>1. AppendFilterRuleEntities(rule) = AppendFilterRuleBlock(rule)
    BY <1>1, Zenon DEF AppendFilterRuleEntities
  <2> QED
    BY <2>1, BlockOk, Zenon
<1>2. CASE rule.item = "path"
  <2> DEFINE fd == AppendFilterRuleBlock(FdRule(rule))
             text == IF rule.cmp \in {"eq", "prefix"} THEN AppendFilterRuleBlock(rule)
                     ELSE IF rule.cmp = "suffix" THEN AppendFilterRuleBlock(SuffixRule(rule))
                     ELSE Refused
  <2>1. AppendFilterRuleEntities(rule) = Then(fd, text)
    BY <1>2, Zenon DEF AppendFilterRuleEntities
  <2>2. fd.ok
    <3>1. FdRule(rule).cmp = "eq" /\ FdRule(rule).item = "fd"
      BY DEF FdRule
    <3>2. IsCmpTypeAllowed("eq", "fd")
      BY <1>0, Zenon DEF IsCmpTypeAllowed
    <3> QED
      BY <3>1, <3>2, BlockOk, Zenon
  <2>3. text.ok <=> IsCmpTypeAllowed(rule.cmp, rule.item)
    <3>1. CASE rule.cmp \in {"eq", "prefix"}
      <4>1. text = AppendFilterRuleBlock(rule)
        BY <3>1, Zenon
      <4> QED
        BY <4>1, BlockOk, Zenon
    <3>2. CASE rule.cmp = "suffix"
      <4>1. text = AppendFilterRuleBlock(SuffixRule(rule))
        BY <1>0, <3>2, Zenon
      <4>2. SuffixRule(rule).cmp = "suffix" /\ SuffixRule(rule).item = "path"
        BY DEF SuffixRule
      <4>3. IsCmpTypeAllowed(rule.cmp, rule.item) <=>
              IsCmpTypeAllowed(SuffixRule(rule).cmp, SuffixRule(rule).item)
        BY <1>2, <3>2, <4>2, Zenon
      <4> QED
        BY <4>1, <4>3, BlockOk, Zenon
    <3>3. CASE rule.cmp \notin {"eq", "prefix"} /\ rule.cmp # "suffix"
      <4>1. text = Refused
        BY <3>3, Zenon
      <4>2. Refused.ok = FALSE
        BY DEF Refused
      <4>3. ~IsCmpTypeAllowed(rule.cmp, rule.item)
        BY <1>2, <3>3, Zenon DEF IsCmpTypeAllowed
      <4> QED
        BY <4>1, <4>2, <4>3, Zenon
    <3> QED
      BY <3>1, <3>2, <3>3
  <2> HIDE DEF fd, text
  <2> QED
    BY <2>1, <2>2, <2>3, ThenOut, Zenon
<1> QED
  BY <1>1, <1>2

(* ... the rules of an entity, ...                                           *)
LEMMA EntityOk ==
  ASSUME NEW entity, Len(entity) \in Nat
  PROVE  AppendEntityRules(entity).ok <=>
           \A j \in 1..Len(entity) : IsCmpTypeAllowed(entity[j].cmp, entity[j].item)
<1>1. PICK l \in Nat : l = Len(entity)
  OBVIOUS
<1> DEFINE parts == [i \in 1..l |-> AppendFilterRuleEntities(entity[i])]
<1>2. Len(parts) = l /\ \A i \in 1..l : parts[i] = AppendFilterRuleEntities(entity[i])
  OBVIOUS
<1>3. AppendEntityRules(entity) = InOrder(parts)
  BY <1>1, Zenon DEF AppendEntityRules
<1> HIDE DEF parts
<1>4. InOrder(parts).ok <=> \A i \in 1..l : parts[i].ok
  BY <1>2, InOrderOut, Zenon
<1>5. \A i \in 1..l : parts[i].ok <=> IsCmpTypeAllowed(entity[i].cmp, entity[i].item)
  BY <1>2, RuleOk, Zenon
<1> QED
  BY <1>1, <1>3, <1>4, <1>5, Zenon

(* ... a section, ...                                                        *)
LEMMA SectionOk ==
  ASSUME NEW tag, NEW entities, IsSection(entities)
  PROVE  AppendRuleEntitySection(tag, entities).ok <=> AllComparable(entities)
<1>1. PICK l \in Nat : l = Len(entities)
  BY DEF IsSection
<1> DEFINE parts == [i \in 1..l |-> AppendEntityRules(entities[i])]
           head == <<TlvU32(tag, CountSectionWireEntities(entities))>>
<1>2. Len(parts) = l /\ \A i \in 1..l : parts[i] = AppendEntityRules(entities[i])
  OBVIOUS
<1>3. AppendRuleEntitySection(tag, entities) = Then(Written(head), InOrder(parts))
  BY <1>1, Zenon DEF AppendRuleEntitySection
<1> HIDE DEF parts, head
<1>4. Written(head).ok = TRUE
  BY DEF Written
<1>5. Then(Written(head), InOrder(parts)).ok <=> Written(head).ok /\ InOrder(parts).ok
  BY ThenOut, Zenon
<1>6. InOrder(parts).ok <=> \A i \in 1..l : parts[i].ok
  BY <1>2, InOrderOut, Zenon
<1>7. \A i \in 1..l : parts[i].ok <=>
        \A j \in 1..Len(entities[i]) : IsCmpTypeAllowed(entities[i][j].cmp, entities[i][j].item)
  <2> SUFFICES ASSUME NEW i \in 1..l
               PROVE  parts[i].ok <=> \A j \in 1..Len(entities[i]) :
                        IsCmpTypeAllowed(entities[i][j].cmp, entities[i][j].item)
    OBVIOUS
  <2>1. Len(entities[i]) \in Nat
    BY <1>1, Zenon DEF IsSection
  <2>2. PICK e : e = entities[i]
    BY Zenon
  <2>3. AppendEntityRules(e).ok <=> \A j \in 1..Len(e) : IsCmpTypeAllowed(e[j].cmp, e[j].item)
    BY <2>1, <2>2, EntityOk, Zenon
  <2> QED
    BY <1>2, <2>2, <2>3, Zenon
<1> QED
  BY <1>1, <1>3, <1>4, <1>5, <1>6, <1>7, Zenon DEF AllComparable

(* ... a policy, ...                                                         *)
Comparable(policy) ==
  \A j \in 1..Len(policy.rules) :
    AllComparable(policy.rules[j].subjects) /\ AllComparable(policy.rules[j].objects)

(* A policy is written exactly when all of it may be compared.               *)
LEMMA PolicyOk ==
  ASSUME NEW policy, HasSections(policy)
  PROVE  SerializePolicy(policy).ok <=> Comparable(policy)
<1>1. PICK l \in Nat : l = Len(policy.rules)
  BY DEF HasSections
<1> DEFINE parts == [i \in 1..l |-> AppendRuleBlock(policy.rules[i])]
           size == <<PolicySize(policy)>>
<1>2. Len(parts) = l /\ \A i \in 1..l : parts[i] = AppendRuleBlock(policy.rules[i])
  OBVIOUS
<1>3. SerializePolicy(policy) = Then(Written(size), Then(Written(PolicyHead(policy)), InOrder(parts)))
  BY <1>1, Zenon DEF SerializePolicy, PolicySize, PolicyBlock, Rules
<1> HIDE DEF parts, size
<1>4. \A out : Written(out).ok = TRUE
  BY DEF Written
<1>5. SerializePolicy(policy).ok <=> InOrder(parts).ok
  <2>1. PICK block : block = Then(Written(PolicyHead(policy)), InOrder(parts))
    BY Zenon
  <2>2. block.ok <=> Written(PolicyHead(policy)).ok /\ InOrder(parts).ok
    BY <2>1, ThenOut, Zenon
  <2>3. Then(Written(size), block).ok <=> Written(size).ok /\ block.ok
    BY ThenOut, Zenon
  <2> QED
    BY <1>3, <1>4, <2>1, <2>2, <2>3, Zenon
<1>6. InOrder(parts).ok <=> \A i \in 1..l : parts[i].ok
  BY <1>2, InOrderOut, Zenon
<1>7. \A i \in 1..l : parts[i].ok <=>
        AllComparable(policy.rules[i].subjects) /\ AllComparable(policy.rules[i].objects)
  <2> SUFFICES ASSUME NEW i \in 1..l
               PROVE  parts[i].ok <=> AllComparable(policy.rules[i].subjects)
                                        /\ AllComparable(policy.rules[i].objects)
    OBVIOUS
  <2>1. PICK r : r = policy.rules[i]
    BY Zenon
  <2>2. IsSection(r.subjects) /\ IsSection(r.objects)
    BY <1>1, <2>1, Zenon DEF HasSections
  <2> DEFINE a == AppendRuleEntitySection("subject_cnt", r.subjects)
             b == AppendRuleEntitySection("object_cnt", r.objects)
             head == <<TlvU32("action", r.action), TlvU32("event", r.event)>>
  <2>3. AppendRuleBlock(r) = Then(Written(head), Then(a, b))
    BY Zenon DEF AppendRuleBlock
  <2>4. (a.ok <=> AllComparable(r.subjects)) /\ (b.ok <=> AllComparable(r.objects))
    BY <2>2, SectionOk, Zenon
  <2> HIDE DEF a, b, head
  <2>5. AppendRuleBlock(r).ok <=> a.ok /\ b.ok
    BY <1>4, <2>3, ThenOut, Zenon
  <2> QED
    BY <1>2, <2>1, <2>4, <2>5, Zenon
<1> QED
  BY <1>1, <1>5, <1>6, <1>7, Zenon DEF Comparable

(* ... and a profile.                                                        *)
LEMMA ProfileOk ==
  ASSUME NEW policies, IsProfile(policies)
  PROVE  /\ Serialize(policies).ok <=> AllPolicies(policies).ok
         /\ Serialize(policies).ok <=> \A i \in 1..Len(policies) : Comparable(policies[i])
<1>1. PICK l \in Nat : l = Len(policies)
  BY DEF IsProfile
<1> DEFINE parts == [i \in 1..l |-> SerializePolicy(policies[i])]
           head == AppendScopeBlock \o <<TlvU32("policy_cnt", Len(policies))>>
<1>2. Len(parts) = l /\ \A i \in 1..l : parts[i] = SerializePolicy(policies[i])
  OBVIOUS
<1>3. Serialize(policies) = Then(Written(head), InOrder(parts))
      /\ AllPolicies(policies) = InOrder(parts)
  BY <1>1, Zenon DEF Serialize, AllPolicies
<1> HIDE DEF parts, head
<1>4. Written(head).ok = TRUE
  BY DEF Written
<1>5. Serialize(policies).ok <=> InOrder(parts).ok
  BY <1>3, <1>4, ThenOut, Zenon
<1>6. InOrder(parts).ok <=> \A i \in 1..l : parts[i].ok
  BY <1>2, InOrderOut, Zenon
<1>7. \A i \in 1..l : parts[i].ok <=> Comparable(policies[i])
  <2> SUFFICES ASSUME NEW i \in 1..l PROVE parts[i].ok <=> Comparable(policies[i])
    OBVIOUS
  <2>1. HasSections(policies[i])
    BY <1>1, Zenon DEF IsProfile, HasSections
  <2> QED
    BY <1>2, <2>1, PolicyOk, Zenon
<1> QED
  BY <1>1, <1>3, <1>5, <1>6, <1>7, Zenon

(* The stream of a profile is read as what the profile means.                *)
LEMMA ProfileReads ==
  ASSUME NEW policies, IsProfile(policies), Serialize(policies).ok
  PROVE  ReadPolicies(Serialize(policies).out) =
           [at |-> Len(Serialize(policies).out) + 1, got |-> PoliciesMeant(policies)]
<1> DEFINE scope == TlvBytes("scope", "body", 24)
           cnt == TlvU32("policy_cnt", Len(policies))
           t == AllPolicies(policies).out
           s == Serialize(policies).out
<1>1. AllPolicies(policies).ok
  BY ProfileOk, Zenon
<1>2. cnt.value = Len(policies)
  BY DEF TlvU32
<1>3. AppendScopeBlock = <<scope>>
  BY Zenon DEF AppendScopeBlock
<1> HIDE DEF scope
<1>4. <<scope>> \o <<cnt>> = <<scope, cnt>>
  <2>1. PICK x, y : x = scope /\ y = cnt
    BY Zenon
  <2>2. <<x, y>> = <<x>> \o <<y>>
    BY ListTwo, Zenon
  <2> QED
    BY <2>1, <2>2, Zenon
<1>5. s = <<scope, cnt>> \o t
  <2>1. Serialize(policies) = Then(Written(<<scope, cnt>>), AllPolicies(policies))
    BY <1>3, <1>4, Zenon DEF Serialize, AllPolicies
  <2>2. Written(<<scope, cnt>>).out = <<scope, cnt>>
    BY DEF Written
  <2> HIDE DEF cnt
  <2>3. Then(Written(<<scope, cnt>>), AllPolicies(policies)).ok
    BY <2>1, Zenon
  <2>4. Then(Written(<<scope, cnt>>), AllPolicies(policies)).out
          = Written(<<scope, cnt>>).out \o AllPolicies(policies).out
    BY <2>3, ThenOut, Zenon
  <2> QED
    BY <2>1, <2>2, <2>4, Zenon
<1> HIDE DEF cnt, t, s
<1>6. IsList(t)
  <2>1. Parses(PolicyBlocks(<<>>), <<>>, AllPolicies(policies).out, Len(policies), PoliciesMeant(policies))
    BY <1>1, ListEmpty, PoliciesParse, Zenon
  <2> QED
    BY <2>1, Zenon DEF Parses, t
<1>7. IsList(s) /\ Len(s) = 2 + Len(t)
  <2>1. PICK h : h = <<scope, cnt>>
    BY Zenon
  <2>2. IsList(h) /\ Len(h) = 2
    BY <2>1, ListTwo, Zenon
  <2>3. IsList(h \o t) /\ Len(h \o t) = Len(h) + Len(t)
    BY <1>6, <2>2, ListJoin, ZenonT(40)
  <2> QED
    BY <1>5, <2>1, <2>2, <2>3, Zenon
<1>8. PICK n \in Nat : n = Len(t)
  BY <1>6, ListShape, Zenon
<1>9. HasAt(s, 1, <<scope, cnt>> \o t)
  <2>1. 1 \in Nat \ {0} /\ (1 + (2 + n)) - 1 = 2 + n /\ 2 + n <= 2 + n
    BY <1>8
  <2>2. ASSUME NEW i \in 1..(2 + n) PROVE (1 + i) - 1 = i
    BY <1>8
  <2> QED
    BY <1>5, <1>7, <1>8, <2>1, <2>2, Zenon DEF HasAt
<1>10. TwoThen(s, 1, scope, cnt, t)
  BY <1>6, <1>7, <1>9, HasTwo, Zenon
<1>11. s[2] = cnt /\ HasAt(s, 3, t)
  <2>1. 1 + 1 = 2 /\ 1 + 2 = 3
    OBVIOUS
  <2> QED
    BY <1>10, <2>1, Zenon DEF TwoThen
<1>12. ReadsAll(PolicyBlocks(s), 3, Len(policies), t, PoliciesMeant(policies))
  <2>1. Parses(PolicyBlocks(s), s, t, Len(policies), PoliciesMeant(policies))
    BY <1>1, <1>7, PoliciesParse, Zenon DEF t
  <2> QED
    BY <1>11, <2>1, ManyParses, Zenon
<1>13. 3 + Len(t) = Len(s) + 1
  <2>1. PICK k : k = Len(s)
    BY Zenon
  <2>2. k = 2 + n
    BY <1>7, <1>8, <2>1, Zenon
  <2>3. 3 + n = k + 1
    BY ONLY <2>2, n \in Nat
  <2> QED
    BY <1>8, <2>1, <2>3, Zenon
<1>14. ReadPolicies(s) = [at |-> Len(s) + 1, got |-> PoliciesMeant(policies)]
  BY <1>2, <1>11, <1>12, <1>13, Zenon DEF ReadPolicies, PolicyBlocks, ReadsAll
<1> QED
  BY <1>14, Zenon DEF s

(* The kernel reads from the stream the rules of the profile, and a profile   *)
(* with a comparison its item does not allow is refused as a whole.          *)
THEOREM StreamIsReadBack == AnyInput => []StreamReadsBack
<1> DEFINE I == input.kind = "profile" => input.policies \in ControlProfiles
<1>1. NoInput => I
  BY DEF NoInput
<1>2. I /\ [TakeInput]_input => I'
  <2> SUFFICES ASSUME I, [TakeInput]_input PROVE I'
    OBVIOUS
  <2>1. CASE TakeInput
    <3>1. CASE Json
      BY <3>1 DEF Json
    <3>2. CASE Pattern
      BY <3>2 DEF Pattern
    <3>3. CASE SysCall
      BY <3>3 DEF SysCall
    <3>4. CASE Profile
      BY <3>4 DEF Profile
    <3>5. CASE Share
      BY <3>5 DEF Share
    <3> QED
      BY <2>1, <3>1, <3>2, <3>3, <3>4, <3>5 DEF TakeInput
  <2>2. CASE UNCHANGED input
    BY <2>2
  <2> QED
    BY <2>1, <2>2
<1>3. I => StreamReadsBack
  <2> SUFFICES ASSUME I, input.kind = "profile" PROVE StreamReadsBack
    BY DEF StreamReadsBack
  <2>1. PICK policies \in ControlProfiles : policies = input.policies
    OBVIOUS
  <2>2. IsProfile(policies)
    BY <2>1, InputAssumption, Zenon
  <2>3. Serialize(policies).ok <=> \A i \in 1..Len(policies) : Comparable(policies[i])
    BY <2>2, ProfileOk, Zenon
  <2>4. Serialize(policies).ok => ReadPolicies(Serialize(policies).out) =
          [at |-> Len(Serialize(policies).out) + 1, got |-> PoliciesMeant(policies)]
    BY <2>2, ProfileReads, Zenon
  <2> QED
    BY <2>1, <2>3, <2>4, Zenon DEF StreamReadsBack, Comparable, PoliciesMeant
<1> QED
  BY <1>1, <1>2, <1>3, PTL DEF AnyInput
-----------------------------------------------------------------------------
(* A pattern and its segments.  The segments of p are cut at its slashes: the *)
(* k-th begins at b[k], and b[k + 1] - 1 is where the slash behind it is, or  *)
(* the place behind the end.                                                  *)
Part(p, t, from, to) ==
  /\ from \in Nat /\ to = from + Len(t) + 1
  /\ \A m \in 1..Len(t) : t[m] = p[from + m - 1] /\ t[m] # "/"

CutTo(C, p, l, s, b) ==
  /\ s \in Seq(Seq(C)) /\ Len(s) # 0
  /\ b[1] = 1 /\ b[Len(s) + 1] = l + 2
  /\ \A k \in 1..Len(s) : Part(p, s[k], b[k], b[k + 1])
  /\ \A k \in 2..Len(s) : p[b[k] - 1] = "/"

IsCut(C, p, s, b) == p \in Seq(C) /\ CutTo(C, p, Len(p), s, b)

(* A part of a sequence, and what is in it.                                   *)
LEMMA PartIs ==
  ASSUME NEW C, NEW p \in Seq(C), NEW lo \in Nat, lo # 0, NEW hi \in Nat, hi <= Len(p),
         lo <= hi + 1
  PROVE  /\ SubSeq(p, lo, hi) \in Seq(C)
         /\ Len(SubSeq(p, lo, hi)) = hi - lo + 1 /\ hi - lo + 1 \in Nat
         /\ \A k \in 1..hi - lo + 1 : SubSeq(p, lo, hi)[k] = p[lo + k - 1]
OBVIOUS

(* A slash opens a new segment.                                               *)
LEMMA CutAtSlash ==
  ASSUME NEW C, NEW p \in Seq(C), NEW n \in 1..Len(p), NEW s, NEW b,
         CutTo(C, p, n - 1, s, b), p[n] = "/"
  PROVE  \E t : CutTo(C, p, n, Append(s, <<>>), t)
<1> DEFINE N == Len(s)
           t == [k \in 1..N + 2 |-> IF k = N + 2 THEN n + 2 ELSE b[k]]
           a == Append(s, <<>>)
<1>1. /\ s \in Seq(Seq(C)) /\ N \in Nat /\ N # 0 /\ n \in Nat
      /\ b[1] = 1 /\ b[N + 1] = n - 1 + 2
      /\ \A k \in 1..N : Part(p, s[k], b[k], b[k + 1])
      /\ \A k \in 2..N : p[b[k] - 1] = "/"
  BY DEF CutTo
<1>2. <<>> \in Seq(C) /\ Len(<<>>) = 0
  OBVIOUS
<1>3. a \in Seq(Seq(C)) /\ Len(a) = N + 1 /\ a[N + 1] = <<>> /\ \A k \in 1..N : a[k] = s[k]
  <2> DEFINE P == Seq(C)
  <2>1. s \in Seq(P) /\ <<>> \in P
    BY <1>1, <1>2
  <2> HIDE DEF P
  <2>2. a \in Seq(P) /\ Len(a) = N + 1 /\ a[N + 1] = <<>> /\ \A k \in 1..N : a[k] = s[k]
    BY <2>1
  <2> QED BY <2>2 DEF P
<1>4. t[N + 2] = n + 2 /\ \A k \in 1..N + 1 : t[k] = b[k]
  BY <1>1
<1> HIDE DEF a, t, N
<1>5. ASSUME NEW k \in 1..N + 1 PROVE Part(p, a[k], t[k], t[k + 1])
  <2>1. CASE k \in 1..N
    <3>1. k + 1 \in 1..N + 1
      BY <1>1, <2>1
    <3>2. a[k] = s[k] /\ t[k] = b[k] /\ t[k + 1] = b[k + 1]
      BY <1>3, <1>4, <2>1, <3>1
    <3> QED BY <1>1, <2>1, <3>2
  <2>2. CASE k = N + 1
    <3>1. t[k] = n + 1 /\ t[k + 1] = n + 2 /\ a[k] = <<>>
      BY <1>1, <1>3, <1>4, <2>2
    <3> QED BY <1>1, <1>2, <3>1 DEF Part
  <2> QED BY <1>1, <2>1, <2>2
<1>6. ASSUME NEW k \in 2..N + 1 PROVE p[t[k] - 1] = "/"
  <2>1. CASE k \in 2..N
    <3>1. k \in 1..N + 1
      BY ONLY <1>1, <2>1
    <3> QED BY <1>1, <1>4, <2>1, <3>1, Zenon
  <2>2. CASE k = N + 1
    <3>1. t[k] = b[N + 1]
      BY <1>4, <2>2
    <3>2. b[N + 1] - 1 = n
      BY ONLY <1>1
    <3> QED BY <3>1, <3>2
  <2> QED BY <1>1, <2>1, <2>2
<1>7. Len(a) # 0 /\ t[1] = 1 /\ t[Len(a) + 1] = n + 2
  <2>1. 1 \in 1..N + 1 /\ N + 1 # 0 /\ N + 1 + 1 = N + 2
    BY ONLY <1>1
  <2> QED BY <1>1, <1>3, <1>4, <2>1, Zenon
<1>8. CutTo(C, p, n, a, t)
  BY <1>3, <1>5, <1>6, <1>7, Zenon DEF CutTo
<1> QED BY <1>8 DEF a

(* Any other character makes the last segment longer.                         *)
LEMMA CutAtOther ==
  ASSUME NEW C, NEW p \in Seq(C), NEW n \in 1..Len(p), NEW s, NEW b,
         CutTo(C, p, n - 1, s, b), p[n] # "/"
  PROVE  \E t : CutTo(C, p, n, Append(Front(s), Append(Last(s), p[n])), t)
<1> DEFINE N == Len(s)
           w == Append(s[N], p[n])
           t == [k \in 1..N + 1 |-> IF k = N + 1 THEN n + 2 ELSE b[k]]
           a == Append(SubSeq(s, 1, N - 1), w)
<1>1. /\ s \in Seq(Seq(C)) /\ N \in Nat /\ N # 0 /\ n \in Nat /\ N \in 1..N
      /\ b[1] = 1 /\ b[N + 1] = n - 1 + 2
      /\ \A k \in 1..N : Part(p, s[k], b[k], b[k + 1])
      /\ \A k \in 2..N : p[b[k] - 1] = "/"
  BY DEF CutTo
<1>0. N \in Nat /\ N = Len(s) /\ N # 0
  BY <1>1
<1>2. p[n] \in C /\ s[N] \in Seq(C)
  <2> DEFINE P == Seq(C)
  <2>1. s \in Seq(P)
    BY <1>1
  <2> HIDE DEF P
  <2>2. s[N] \in P
    BY <1>1, <2>1
  <2> QED BY <2>2 DEF P
<1>3. /\ w \in Seq(C) /\ Len(w) = Len(s[N]) + 1 /\ Len(s[N]) \in Nat
      /\ w[Len(s[N]) + 1] = p[n] /\ \A m \in 1..Len(s[N]) : w[m] = s[N][m]
  BY <1>2
<1> HIDE DEF w
<1>4. a \in Seq(Seq(C)) /\ Len(a) = N /\ a[N] = w /\ \A k \in 1..N - 1 : a[k] = s[k]
  <2> DEFINE P == Seq(C)
             f == SubSeq(s, 1, N - 1)
  <2>1. s \in Seq(P) /\ w \in P
    BY <1>1, <1>3
  <2> HIDE DEF P
  <2>2. f \in Seq(P) /\ Len(f) = N - 1 /\ \A k \in 1..N - 1 : f[k] = s[k]
    <3>1. N - 1 \in Nat /\ N - 1 <= Len(s) /\ 1 <= N - 1 + 1 /\ (N - 1) - 1 + 1 = N - 1
          /\ 1 \in Nat /\ 1 # 0 /\ \A k \in 1..N - 1 : 1 + k - 1 = k
      BY ONLY <1>0
    <3>2. /\ f \in Seq(P) /\ Len(f) = (N - 1) - 1 + 1
          /\ \A k \in 1..(N - 1) - 1 + 1 : f[k] = s[1 + k - 1]
      BY ONLY <2>1, <3>1, PartIs
    <3> QED BY <3>1, <3>2, Zenon
  <2> HIDE DEF f, N
  <2>3. Append(f, w) \in Seq(P) /\ Len(Append(f, w)) = N - 1 + 1 /\ Append(f, w)[N - 1 + 1] = w
        /\ \A k \in 1..N - 1 : Append(f, w)[k] = f[k]
    BY <1>1, <2>1, <2>2
  <2>4. N - 1 + 1 = N
    BY <1>1
  <2> QED BY <2>2, <2>3, <2>4, Zenon DEF P, f
<1>5. t[N + 1] = n + 2 /\ \A k \in 1..N : t[k] = b[k]
  BY <1>1
<1> HIDE DEF a, t, N
<1>6. ASSUME NEW k \in 1..N PROVE Part(p, a[k], t[k], t[k + 1])
  <2>1. CASE k \in 1..N - 1
    <3>1. k + 1 \in 1..N
      BY ONLY <1>0, <2>1
    <3>2. a[k] = s[k] /\ t[k] = b[k] /\ t[k + 1] = b[k + 1]
      BY <1>4, <1>5, <2>1, <3>1
    <3> QED BY <1>1, <3>2
  <2>2. CASE k = N
    <3>1. t[k] = b[N] /\ t[k + 1] = n + 2 /\ a[k] = w
      BY <1>1, <1>4, <1>5, <2>2
    <3>2. Part(p, s[N], b[N], n + 1)
      <4>1. b[N + 1] = n + 1
        BY <1>1
      <4> QED BY <1>1, <4>1
    <3>3. b[N] \in Nat /\ n + 1 = b[N] + Len(s[N]) + 1
      BY <3>2 DEF Part
    <3>4. n + 2 = b[N] + Len(w) + 1
      BY ONLY n \in Nat, <1>3, <3>3
    <3>5. ASSUME NEW m \in 1..Len(w) PROVE w[m] = p[b[N] + m - 1] /\ w[m] # "/"
      <4>1. CASE m \in 1..Len(s[N])
        BY <1>3, <3>2, <4>1 DEF Part
      <4>2. CASE m = Len(s[N]) + 1
        <5>1. b[N] + m - 1 = n
          <6>1. PICK u \in Nat, l \in Nat : u = b[N] /\ l = Len(s[N])
            BY <1>3, <3>3
          <6>2. n + 1 = u + l + 1 /\ m = l + 1
            BY <3>3, <4>2, <6>1
          <6>3. u + m - 1 = n
            BY ONLY <6>2, n \in Nat, u \in Nat, l \in Nat
          <6> QED BY <6>1, <6>3
        <5> QED BY <1>3, <4>2, <5>1
      <4> QED BY <1>3, <4>1, <4>2
    <3> QED BY <3>1, <3>3, <3>4, <3>5, Zenon DEF Part
  <2> QED BY <1>1, <2>1, <2>2
<1>7. ASSUME NEW k \in 2..N PROVE p[t[k] - 1] = "/"
  <2>1. k \in 1..N
    BY ONLY <1>1, <1>7
  <2> QED BY <1>1, <1>5, <1>7, <2>1, Zenon
<1>8. Len(a) # 0 /\ t[1] = 1 /\ t[Len(a) + 1] = n + 2
  <2>1. 1 \in 1..N
    BY ONLY <1>1
  <2> QED BY <1>1, <1>4, <1>5, <2>1, Zenon
<1>9. CutTo(C, p, n, a, t)
  BY <1>4, <1>6, <1>7, <1>8, Zenon DEF CutTo
<1> QED BY <1>9 DEF a, w, N, Front, Last

(* Segments as the function it is made of.                                    *)
SegmentsTo(p, n, f) ==
  f = [i \in 0..n |-> IF i = 0 THEN <<<<>>>> ELSE Extended(f[i - 1], p[i])]

(* There is such a function.                                                  *)
LEMMA SegmentsExist ==
  ASSUME NEW p, NEW n \in Nat
  PROVE  \E f : SegmentsTo(p, n, f)
<1> DEFINE T == {m \in Nat : ~ \E f : SegmentsTo(p, m, f)}
<1> SUFFICES ASSUME T # {} PROVE FALSE
  OBVIOUS
<1>1. PICK x \in T : \A y \in T : x <= y
  BY LeastNat
<1>2. CASE x = 0
  <2> DEFINE f == [i \in 0..0 |-> <<<<>>>>]
  <2>1. SegmentsTo(p, 0, f)
    BY DEF SegmentsTo
  <2> QED BY <1>2, <2>1
<1>3. CASE x # 0
  <2>1. x - 1 \in Nat /\ ~ (x <= x - 1) /\ x \in Nat
    BY <1>3
  <2>2. PICK g : SegmentsTo(p, x - 1, g)
    BY <1>1, <2>1
  <2> DEFINE f == [i \in 0..x |-> IF i = x THEN Extended(g[x - 1], p[x]) ELSE g[i]]
  <2>3. \A i \in 0..x : f[i] = IF i = 0 THEN <<<<>>>> ELSE Extended(f[i - 1], p[i])
    <3> SUFFICES ASSUME NEW i \in 0..x
                 PROVE  f[i] = IF i = 0 THEN <<<<>>>> ELSE Extended(f[i - 1], p[i])
      OBVIOUS
    <3>1. \A j \in 0..(x - 1) : g[j] = IF j = 0 THEN <<<<>>>> ELSE Extended(g[j - 1], p[j])
      BY <2>2, Zenon DEF SegmentsTo
    <3>2. CASE i = x
      <4>1. i # 0 /\ i - 1 \in 0..x /\ i - 1 # x
        BY <2>1, <3>2
      <4>2. f[i - 1] = g[x - 1] /\ f[i] = Extended(g[x - 1], p[x])
        BY <3>2, <4>1
      <4> QED BY <3>2, <4>1, <4>2, Zenon
    <3>3. CASE i # x
      <4>1. i \in 0..(x - 1) /\ f[i] = g[i]
        BY <2>1, <3>3
      <4>2. CASE i = 0
        BY <3>1, <4>1, <4>2, Zenon
      <4>3. CASE i # 0
        <5>1. i - 1 \in 0..x /\ i - 1 # x
          BY <2>1, <4>1, <4>3
        <5>2. f[i - 1] = g[i - 1]
          BY <5>1
        <5> QED BY <3>1, <4>1, <4>3, <5>2, Zenon
      <4> QED BY <4>2, <4>3
    <3> QED BY <3>2, <3>3
  <2>4. f = [i \in 0..x |-> f[i]]
    OBVIOUS
  <2> HIDE DEF f
  <2>5. SegmentsTo(p, x, f)
    BY <2>3, <2>4, Zenon DEF SegmentsTo
  <2> QED BY <2>5
<1> QED BY <1>2, <1>3

(* The segments of a pattern are a cut of it.                                 *)
LEMMA SegmentsCut ==
  ASSUME NEW C, NEW p \in Seq(C)
  PROVE  \E b : IsCut(C, p, Segments(p), b)
<1> DEFINE f == CHOOSE q : SegmentsTo(p, Len(p), q)
<1>1. Len(p) \in Nat
  OBVIOUS
<1>2. SegmentsTo(p, Len(p), f)
  BY <1>1, SegmentsExist, Zenon
<1>3. Segments(p) = f[Len(p)]
  BY Zenon DEF Segments, SegmentsTo
<1> HIDE DEF f
<1>4. \A i \in 0..Len(p) : f[i] = IF i = 0 THEN <<<<>>>> ELSE Extended(f[i - 1], p[i])
  BY <1>2, Zenon DEF SegmentsTo
<1> DEFINE T == {i \in 0..Len(p) : ~ \E b : CutTo(C, p, i, f[i], b)}
<1>5. T = {}
  <2> SUFFICES ASSUME T # {} PROVE FALSE
    OBVIOUS
  <2>1. PICK x \in T : \A y \in T : x <= y
    <3>1. T \subseteq Nat
      BY <1>1
    <3> QED BY <3>1, LeastNat
  <2>2. CASE x = 0
    <3> DEFINE b == [k \in 1..2 |-> k]
               one == <<<<>>>>
    <3>1. f[0] = one
      BY <1>1, <1>4
    <3>2. one \in Seq(Seq(C)) /\ Len(one) = 1 /\ one[1] = <<>> /\ Len(<<>>) = 0
      OBVIOUS
    <3>3. b[1] = 1 /\ b[2] = 2
      OBVIOUS
    <3> HIDE DEF one, b
    <3>4. Part(p, one[1], b[1], b[1 + 1])
      BY <3>2, <3>3 DEF Part
    <3>5. \A k \in 1..1 : k = 1
      OBVIOUS
    <3>6. \A k \in 1..1 : Part(p, one[k], b[k], b[k + 1])
      BY <3>4, <3>5, Zenon
    <3>7. CutTo(C, p, 0, one, b)
      BY <3>2, <3>3, <3>6 DEF CutTo
    <3> QED BY <2>1, <2>2, <3>1, <3>7
  <2>3. CASE x # 0
    <3>1. x - 1 \in 0..Len(p) /\ ~ (x <= x - 1) /\ x \in 1..Len(p)
      BY <1>1, <2>1, <2>3
    <3>2. PICK b : CutTo(C, p, x - 1, f[x - 1], b)
      BY <2>1, <3>1
    <3>3. f[x] = Extended(f[x - 1], p[x])
      BY <1>4, <2>1, <2>3, Zenon
    <3>4. CASE p[x] = "/"
      <4>1. f[x] = Append(f[x - 1], <<>>)
        BY <3>3, <3>4, Zenon DEF Extended
      <4>2. \E t : CutTo(C, p, x, Append(f[x - 1], <<>>), t)
        BY <3>1, <3>2, <3>4, CutAtSlash, Zenon
      <4> QED BY <2>1, <4>1, <4>2, Zenon
    <3>5. CASE p[x] # "/"
      <4>1. f[x] = Append(Front(f[x - 1]), Append(Last(f[x - 1]), p[x]))
        BY <3>3, <3>5, Zenon DEF Extended
      <4>2. \E t : CutTo(C, p, x, Append(Front(f[x - 1]), Append(Last(f[x - 1]), p[x])), t)
        BY <3>1, <3>2, <3>5, CutAtOther, Zenon
      <4> QED BY <2>1, <4>1, <4>2, Zenon
    <3> QED BY <3>4, <3>5
  <2> QED BY <2>2, <2>3
<1>6. Len(p) \in 0..Len(p)
  BY <1>1
<1>7. \E b : CutTo(C, p, Len(p), f[Len(p)], b)
  BY <1>5, <1>6, Zenon
<1> QED BY <1>3, <1>7, Zenon DEF IsCut

(* A cut, in full.                                                            *)
CutIs(C, p, s, b) ==
  /\ p \in Seq(C) /\ Len(p) \in Nat /\ s \in Seq(Seq(C)) /\ Len(s) \in Nat /\ Len(s) # 0
  /\ b[1] = 1 /\ b[Len(s) + 1] = Len(p) + 2
  /\ \A k \in 1..Len(s) :
       /\ s[k] \in Seq(C) /\ Len(s[k]) \in Nat /\ b[k] \in Nat
       /\ b[k + 1] = b[k] + Len(s[k]) + 1
       /\ \A m \in 1..Len(s[k]) : s[k][m] = p[b[k] + m - 1] /\ s[k][m] # "/"
  /\ \A k \in 2..Len(s) : p[b[k] - 1] = "/"

(* What a cut says of a segment and of where it is.                           *)
LEMMA CutFacts ==
  ASSUME NEW C, NEW p, NEW s, NEW b, IsCut(C, p, s, b)
  PROVE  CutIs(C, p, s, b)
<1>1. p \in Seq(C) /\ CutTo(C, p, Len(p), s, b)
  BY Zenon DEF IsCut
<1>2. Len(p) \in Nat
  BY ONLY <1>1
<1>3. /\ s \in Seq(Seq(C)) /\ Len(s) # 0
      /\ b[1] = 1 /\ b[Len(s) + 1] = Len(p) + 2
      /\ \A k \in 1..Len(s) : Part(p, s[k], b[k], b[k + 1])
      /\ \A k \in 2..Len(s) : p[b[k] - 1] = "/"
  BY <1>1, Zenon DEF CutTo
<1>4. Len(s) \in Nat /\ \A k \in 1..Len(s) : s[k] \in Seq(C)
  <2> DEFINE P == Seq(C)
  <2>1. s \in Seq(P)
    BY <1>3
  <2> HIDE DEF P
  <2>2. Len(s) \in Nat /\ \A k \in 1..Len(s) : s[k] \in P
    BY ONLY <2>1
  <2> QED BY <2>2 DEF P
<1>5. \A k \in 1..Len(s) : Len(s[k]) \in Nat
  BY <1>4, LenProperties, Zenon
<1>6. \A k \in 1..Len(s) :
        /\ b[k] \in Nat /\ b[k + 1] = b[k] + Len(s[k]) + 1
        /\ \A m \in 1..Len(s[k]) : s[k][m] = p[b[k] + m - 1] /\ s[k][m] # "/"
  BY <1>3, Zenon DEF Part
<1> QED BY <1>1, <1>2, <1>3, <1>4, <1>5, <1>6, Zenon DEF CutIs

(* Segments begin one behind the other.                                       *)
LEMMA CutOrder ==
  ASSUME NEW C, NEW p, NEW s, NEW b, IsCut(C, p, s, b)
  PROVE  \A j \in 1..Len(s) + 1 : \A k \in j..Len(s) + 1 :
           b[j] \in Nat /\ b[j] # 0 /\ b[j] <= b[k] /\ b[k] <= Len(p) + 2
<1>1. /\ Len(p) \in Nat /\ Len(s) \in Nat /\ Len(s) # 0
      /\ b[1] = 1 /\ b[Len(s) + 1] = Len(p) + 2
      /\ \A k \in 1..Len(s) : Len(s[k]) \in Nat /\ b[k] \in Nat /\ b[k + 1] = b[k] + Len(s[k]) + 1
  <2>1. CutIs(C, p, s, b)
    BY CutFacts, Zenon
  <2> QED BY <2>1, Zenon DEF CutIs
<1>2. PICK N \in Nat : N = Len(s) /\ N # 0
  BY <1>1
<1>3. \A k \in 1..N + 1 : b[k] \in Nat
  BY <1>1, <1>2
<1>4. \A k \in 1..N : b[k] <= b[k + 1]
  <2> SUFFICES ASSUME NEW k \in 1..N PROVE b[k] <= b[k + 1]
    OBVIOUS
  <2>1. Len(s[k]) \in Nat /\ b[k] \in Nat /\ b[k + 1] = b[k] + Len(s[k]) + 1
    BY <1>1, <1>2
  <2> QED BY ONLY <2>1
<1>5. ASSUME NEW j \in 1..N + 1, NEW k \in j..N + 1 PROVE b[j] <= b[k]
  <2> DEFINE T == {i \in j..N + 1 : ~ (b[j] <= b[i])}
  <2> SUFFICES ASSUME T # {} PROVE FALSE
    OBVIOUS
  <2>1. T \subseteq Nat
    BY ONLY N \in Nat, j \in 1..N + 1
  <2>2. PICK x \in T : \A y \in T : x <= y
    BY <2>1, LeastNat
  <2>3. x # j /\ x \in j..N + 1 /\ ~ (b[j] <= b[x])
    BY <1>3, <2>2
  <2>4. x - 1 \in j..N + 1 /\ x - 1 \in 1..N /\ ~ (x <= x - 1) /\ x - 1 + 1 = x
        /\ x \in 1..N + 1 /\ x - 1 \in 1..N + 1
    BY ONLY <1>2, <1>5, <2>3
  <2>5. b[j] <= b[x - 1]
    BY <2>2, <2>4, Zenon
  <2>6. b[x - 1] <= b[x]
    BY <1>4, <2>4, Zenon
  <2>7. b[j] \in Nat /\ b[x - 1] \in Nat /\ b[x] \in Nat
    BY <1>3, <2>4, Zenon
  <2> QED BY ONLY <2>3, <2>5, <2>6, <2>7
<1> SUFFICES ASSUME NEW j \in 1..N + 1, NEW k \in j..N + 1
             PROVE  b[j] \in Nat /\ b[j] # 0 /\ b[j] <= b[k] /\ b[k] <= Len(p) + 2
  BY <1>2, Zenon
<1>6. 1 \in 1..N + 1 /\ j \in 1..N + 1 /\ k \in 1..N + 1 /\ N + 1 \in k..N + 1
  BY ONLY <1>2
<1>7. b[1] <= b[j] /\ b[j] <= b[k] /\ b[k] <= b[N + 1] /\ b[j] \in Nat
  BY <1>3, <1>5, <1>6, Zenon
<1>8. b[1] = 1 /\ b[N + 1] = Len(p) + 2
  BY <1>1, <1>2
<1>9. b[j] # 0
  BY ONLY <1>7, <1>8
<1> QED BY <1>7, <1>8, <1>9, Zenon

(* Every place is in a segment, or is the slash behind it.                    *)
LEMMA CutBlock ==
  ASSUME NEW C, NEW p, NEW s, NEW b, IsCut(C, p, s, b), NEW j \in 1..Len(p)
  PROVE  \E k \in 1..Len(s) : b[k] <= j /\ j < b[k + 1]
<1>1. Len(p) \in Nat /\ Len(s) \in Nat /\ b[1] = 1 /\ b[Len(s) + 1] = Len(p) + 2
  <2>1. CutIs(C, p, s, b)
    BY CutFacts, Zenon
  <2> QED BY <2>1, Zenon DEF CutIs
<1>2. PICK N \in Nat : N = Len(s)
  BY <1>1
<1> DEFINE T == {k \in 1..N + 1 : j < b[k]}
<1>3. T \subseteq Nat /\ N + 1 \in T
  <2>1. b[N + 1] = Len(p) + 2
    BY <1>1, <1>2
  <2>2. j < b[N + 1] /\ N + 1 \in 1..N + 1 /\ 1..N + 1 \subseteq Nat
    BY ONLY <1>1, <1>2, <2>1, j \in 1..Len(p)
  <2> QED BY <2>2
<1>4. PICK x \in T : \A y \in T : x <= y
  BY <1>3, LeastNat, Zenon
<1>5. x # 1
  <2>1. ~ (j < b[1])
    BY ONLY <1>1, j \in 1..Len(p)
  <2> QED BY <1>4, <2>1
<1>6. x - 1 \in 1..N /\ x - 1 \in 1..N + 1 /\ x - 1 + 1 = x /\ ~ (x <= x - 1) /\ x \in 1..N + 1
      /\ x \in (x - 1)..N + 1
  BY <1>2, <1>4, <1>5
<1>7. ~ (j < b[x - 1]) /\ j < b[x]
  BY <1>4, <1>6, Zenon
<1>8. b[x - 1] \in Nat
  BY <1>2, <1>6, CutOrder, Zenon
<1>9. b[x - 1] <= j
  BY ONLY <1>1, <1>7, <1>8, j \in 1..Len(p)
<1> QED BY <1>2, <1>6, <1>7, <1>9, Zenon

(* A slash is right before a segment, any other character is in one.          *)
LEMMA CutAt ==
  ASSUME NEW C, NEW p, NEW s, NEW b, IsCut(C, p, s, b), NEW j \in 1..Len(p)
  PROVE  /\ p[j] = "/" => \E k \in 2..Len(s) : j = b[k] - 1
         /\ p[j] # "/" =>
              \E k \in 1..Len(s) : \E m \in 1..Len(s[k]) : j = b[k] + m - 1 /\ s[k][m] = p[j]
<1>1. /\ Len(p) \in Nat /\ Len(s) \in Nat /\ b[Len(s) + 1] = Len(p) + 2
      /\ \A k \in 1..Len(s) :
              /\ Len(s[k]) \in Nat /\ b[k] \in Nat
              /\ b[k + 1] = b[k] + Len(s[k]) + 1
              /\ \A m \in 1..Len(s[k]) : s[k][m] = p[b[k] + m - 1] /\ s[k][m] # "/"
      /\ \A k \in 2..Len(s) : p[b[k] - 1] = "/"
  <2>1. CutIs(C, p, s, b)
    BY CutFacts, Zenon
  <2> QED BY <2>1, Zenon DEF CutIs
<1>2. PICK k \in 1..Len(s) : b[k] <= j /\ j < b[k + 1]
  BY CutBlock, Zenon
<1>3. /\ Len(s[k]) \in Nat /\ b[k] \in Nat
      /\ b[k + 1] = b[k] + Len(s[k]) + 1
      /\ \A m \in 1..Len(s[k]) : s[k][m] = p[b[k] + m - 1] /\ s[k][m] # "/"
  BY <1>1, <1>2, Zenon
<1>4. CASE j < b[k] + Len(s[k])
  <2> DEFINE m == j - b[k] + 1
  <2>1. m \in 1..Len(s[k]) /\ b[k] + m - 1 = j
    <3>1. Len(s[k]) \in Nat /\ b[k] \in Nat /\ b[k] <= j /\ j < b[k] + Len(s[k]) /\ j \in Nat
      BY <1>1, <1>2, <1>3, <1>4
    <3>2. \A u, v, q \in Nat : u <= q /\ q < u + v => q - u + 1 \in 1..v /\ u + (q - u + 1) - 1 = q
      OBVIOUS
    <3> QED BY <3>1, <3>2, Zenon
  <2> HIDE DEF m
  <2>2. s[k][m] = p[j] /\ p[j] # "/"
    BY <1>3, <2>1, Zenon
  <2> QED BY <1>2, <2>1, <2>2, Zenon
<1>5. CASE ~ (j < b[k] + Len(s[k]))
  <2>1. j = b[k + 1] - 1
    <3>1. Len(s[k]) \in Nat /\ b[k] \in Nat /\ j < b[k + 1] /\ ~ (j < b[k] + Len(s[k])) /\ j \in Nat
          /\ b[k + 1] = b[k] + Len(s[k]) + 1
      BY <1>1, <1>2, <1>3, <1>5
    <3> QED BY ONLY <3>1
  <2>2. k # Len(s)
    <3> SUFFICES ASSUME k = Len(s) PROVE FALSE
      OBVIOUS
    <3>1. b[k + 1] = Len(p) + 2
      BY <1>1
    <3> QED BY ONLY <1>1, <2>1, <3>1, j \in 1..Len(p)
  <2>3. k + 1 \in 2..Len(s)
    BY ONLY <1>1, <1>2, <2>2
  <2>4. p[j] = "/"
    BY <1>1, <2>1, <2>3, Zenon
  <2> QED BY <2>1, <2>3, <2>4, Zenon
<1> QED BY <1>4, <1>5

(* The least of a set of numbers.                                             *)
LEMMA MinIs ==
  ASSUME NEW S, S \subseteq Nat, NEW x \in S, \A y \in S : x <= y
  PROVE  Min(S) = x
<1>1. \A y \in S : (\A z \in S : y <= z) => y = x
  OBVIOUS
<1> QED BY <1>1, Zenon DEF Min

(* Sequences of a length and of the same elements are equal.                  *)
LEMMA SameParts ==
  ASSUME NEW C, NEW t \in Seq(C), NEW u \in Seq(C), Len(t) = Len(u),
         \A i \in 1..Len(t) : t[i] = u[i]
  PROVE  t = u
OBVIOUS

(* Nothing is in an empty sequence.                                           *)
LEMMA EmptyIs ==
  ASSUME NEW C, NEW t \in Seq(C)
  PROVE  t = <<>> <=> Len(t) = 0
OBVIOUS

(* The characters in a part of a pattern.                                     *)
LEMMA PartHolds ==
  ASSUME NEW C, NEW p \in Seq(C), NEW lo \in Nat, lo # 0, NEW hi \in Nat, hi <= Len(p),
         lo <= hi + 1, NEW c
  PROVE  c \in ToSet(SubSeq(p, lo, hi)) <=> \E j \in lo..hi : p[j] = c
<1> DEFINE q == SubSeq(p, lo, hi)
           n == hi - lo + 1
<1>1. q \in Seq(C) /\ Len(q) = n /\ n \in Nat /\ \A i \in 1..n : q[i] = p[lo + i - 1]
  BY PartIs
<1>2. DOMAIN q = 1..n
  BY <1>1
<1>3. ASSUME NEW i \in 1..n PROVE lo + i - 1 \in lo..hi
  OBVIOUS
<1>4. ASSUME NEW j \in lo..hi PROVE j - lo + 1 \in 1..n /\ lo + (j - lo + 1) - 1 = j
  OBVIOUS
<1> HIDE DEF q, n
<1>5. ASSUME c \in ToSet(q) PROVE \E j \in lo..hi : p[j] = c
  <2>1. PICK i \in 1..n : q[i] = c
    BY <1>2, <1>5, Zenon DEF ToSet
  <2> QED BY <1>1, <1>3, <2>1, Zenon
<1>6. ASSUME NEW j \in lo..hi, p[j] = c PROVE c \in ToSet(q)
  <2>1. q[j - lo + 1] = c /\ j - lo + 1 \in 1..n
    BY <1>1, <1>4, <1>6, Zenon
  <2> QED BY <1>2, <2>1, Zenon DEF ToSet
<1> QED BY <1>5, <1>6, Zenon DEF q

(* The characters of a segment.                                               *)
LEMMA ToSetHolds ==
  ASSUME NEW C, NEW t \in Seq(C), NEW c
  PROVE  c \in ToSet(t) <=> \E m \in 1..Len(t) : t[m] = c
<1>1. DOMAIN t = 1..Len(t)
  OBVIOUS
<1> QED BY <1>1, Zenon DEF ToSet

(* The part from segment x to segment y, with or without the slash before and *)
(* the one behind.                                                            *)
Covers(C, p, s, b, x, y, lo, hi) ==
  /\ IsCut(C, p, s, b)
  /\ x \in 1..Len(s) + 1 /\ y \in Nat /\ x <= y + 1 /\ y <= Len(s)
  /\ lo \in {b[x] - 1, b[x]} /\ hi \in {b[y + 1] - 2, b[y + 1] - 1}
  /\ lo \in Nat /\ hi \in Nat /\ lo # 0 /\ lo <= hi + 1 /\ hi <= Len(p)

(* The numbers of a covered part.                                             *)
LEMMA CoverFacts ==
  ASSUME NEW C, NEW p, NEW s, NEW b, NEW x, NEW y, NEW lo, NEW hi,
         Covers(C, p, s, b, x, y, lo, hi)
  PROVE  /\ b[x] \in Nat /\ b[y + 1] \in Nat /\ b[x] <= b[y + 1]
         /\ x \in Nat /\ x # 0 /\ y \in Nat /\ lo \in Nat /\ hi \in Nat
         /\ b[x] - 1 <= lo /\ lo <= b[x] /\ b[y + 1] - 2 <= hi /\ hi <= b[y + 1] - 1
         /\ \A k \in 1..Len(s) : k < x => b[k + 1] <= b[x]
         /\ \A k \in 1..Len(s) : y < k => b[y + 1] <= b[k]
         /\ \A k \in 1..Len(s) : x <= k => b[x] <= b[k]
         /\ \A k \in 1..Len(s) : k <= y => b[k + 1] <= b[y + 1]
<1>1. /\ IsCut(C, p, s, b)
      /\ x \in 1..Len(s) + 1 /\ y \in Nat /\ x <= y + 1 /\ y <= Len(s)
      /\ lo \in {b[x] - 1, b[x]} /\ hi \in {b[y + 1] - 2, b[y + 1] - 1}
      /\ lo \in Nat /\ hi \in Nat
  BY Zenon DEF Covers
<1>2. Len(s) \in Nat
  <2>1. CutIs(C, p, s, b)
    BY <1>1, CutFacts, Zenon
  <2> QED BY <2>1, Zenon DEF CutIs
<1>3. PICK N \in Nat : N = Len(s)
  BY <1>2
<1>4. \A j \in 1..N + 1 : \A k \in j..N + 1 : b[j] \in Nat /\ b[j] <= b[k]
  BY <1>1, <1>3, CutOrder, Zenon
<1>5. x \in Nat /\ x # 0 /\ x \in 1..N + 1 /\ y + 1 \in 1..N + 1 /\ y + 1 \in x..N + 1
      /\ y + 1 \in (y + 1)..N + 1
  BY ONLY <1>1, <1>3
<1>6. b[x] \in Nat /\ b[y + 1] \in Nat /\ b[x] <= b[y + 1]
  BY <1>4, <1>5, Zenon
<1>7. b[x] - 1 <= lo /\ lo <= b[x] /\ b[y + 1] - 2 <= hi /\ hi <= b[y + 1] - 1
  <2>1. \A u \in Nat : \A l \in {u - 1, u} : u - 1 <= l /\ l <= u
    OBVIOUS
  <2>2. \A u \in Nat : \A l \in {u - 2, u - 1} : u - 2 <= l /\ l <= u - 1
    OBVIOUS
  <2> QED BY <1>1, <1>6, <2>1, <2>2, Zenon
<1>8. ASSUME NEW k \in 1..N PROVE
        /\ k < x => k + 1 \in 1..N + 1 /\ x \in (k + 1)..N + 1
        /\ y < k => k \in (y + 1)..N + 1
        /\ x <= k => k \in x..N + 1
        /\ k <= y => k + 1 \in 1..N + 1 /\ y + 1 \in (k + 1)..N + 1
  BY ONLY <1>1, <1>3, <1>5, k \in 1..N
<1> QED BY <1>1, <1>3, <1>4, <1>5, <1>6, <1>7, <1>8, Zenon

(* A character other than the slash is in a part when a segment has it.       *)
LEMMA CharsIn ==
  ASSUME NEW C, NEW p, NEW s, NEW b, NEW x, NEW y, NEW lo, NEW hi,
         Covers(C, p, s, b, x, y, lo, hi), NEW c, c # "/"
  PROVE  c \in ToSet(SubSeq(p, lo, hi)) <=> \E k \in x..y : c \in ToSet(s[k])
<1>1. /\ IsCut(C, p, s, b) /\ lo \in Nat /\ lo # 0 /\ hi \in Nat /\ hi <= Len(p)
      /\ lo <= hi + 1 /\ y <= Len(s) /\ y \in Nat
  BY Zenon DEF Covers
<1>2. /\ p \in Seq(C) /\ Len(p) \in Nat /\ Len(s) \in Nat
      /\ \A k \in 1..Len(s) :
           /\ s[k] \in Seq(C) /\ Len(s[k]) \in Nat /\ b[k] \in Nat
           /\ b[k + 1] = b[k] + Len(s[k]) + 1
           /\ \A m \in 1..Len(s[k]) : s[k][m] = p[b[k] + m - 1]
  <2>1. CutIs(C, p, s, b)
    BY <1>1, CutFacts, Zenon
  <2> QED BY <2>1, Zenon DEF CutIs
<1>3. c \in ToSet(SubSeq(p, lo, hi)) <=> \E j \in lo..hi : p[j] = c
  BY <1>1, <1>2, PartHolds
<1>4. /\ b[x] \in Nat /\ b[y + 1] \in Nat /\ x \in Nat /\ x # 0
      /\ b[x] - 1 <= lo /\ lo <= b[x] /\ b[y + 1] - 2 <= hi /\ hi <= b[y + 1] - 1
      /\ \A k \in 1..Len(s) : k < x => b[k + 1] <= b[x]
      /\ \A k \in 1..Len(s) : y < k => b[y + 1] <= b[k]
      /\ \A k \in 1..Len(s) : x <= k => b[x] <= b[k]
      /\ \A k \in 1..Len(s) : k <= y => b[k + 1] <= b[y + 1]
  BY CoverFacts
<1>5. ASSUME NEW j \in lo..hi, p[j] = c PROVE \E k \in x..y : c \in ToSet(s[k])
  <2>1. j \in 1..Len(p)
    BY ONLY <1>1, <1>2, j \in lo..hi
  <2>2. PICK k \in 1..Len(s) : \E m \in 1..Len(s[k]) : j = b[k] + m - 1 /\ s[k][m] = p[j]
    <3>1. p[j] # "/"
      BY <1>5
    <3> QED BY <1>1, <2>1, <3>1, CutAt
  <2>3. PICK m \in 1..Len(s[k]) : j = b[k] + m - 1 /\ s[k][m] = p[j]
    BY <2>2, Zenon
  <2>4. /\ Len(s[k]) \in Nat /\ b[k] \in Nat /\ b[k + 1] = b[k] + Len(s[k]) + 1
        /\ s[k] \in Seq(C)
    BY <1>2, Zenon
  <2>5. k \in x..y
    <3>1. k < x => b[k + 1] <= b[x]
      BY <1>4, Zenon
    <3>2. y < k => b[y + 1] <= b[k]
      BY <1>4, Zenon
    <3>3. /\ b[x] \in Nat /\ b[y + 1] \in Nat /\ x \in Nat /\ y \in Nat /\ k \in Nat
          /\ b[x] - 1 <= lo /\ hi <= b[y + 1] - 1 /\ lo \in Nat /\ hi \in Nat
          /\ lo <= j /\ j <= hi /\ m \in Nat /\ 1 <= m /\ m <= Len(s[k]) /\ j \in Nat
      BY <1>1, <1>2, <1>4, <2>3, <2>4
    <3>4. b[k + 1] \in Nat
      BY ONLY <2>4
    <3>5. /\ j = b[k] + m - 1 /\ Len(s[k]) \in Nat /\ b[k] \in Nat
          /\ b[k + 1] = b[k] + Len(s[k]) + 1
      BY <2>3, <2>4, Zenon
    <3>7. ~ (k < x)
      <4> SUFFICES ASSUME k < x PROVE FALSE
        OBVIOUS
      <4>1. b[k + 1] <= b[x]
        BY <3>1, Zenon
      <4>2. b[x] - 1 <= j
        BY ONLY <3>3
      <4>3. j <= b[k + 1] - 2
        <5>1. \A t, l, i \in Nat : i <= l => t + i - 1 <= (t + l + 1) - 2
          OBVIOUS
        <5>2. b[k] + m - 1 <= (b[k] + Len(s[k]) + 1) - 2
          BY <3>3, <3>5, <5>1, Zenon
        <5> QED BY <3>5, <5>2, Zenon
      <4> QED BY ONLY <3>3, <3>4, <4>1, <4>2, <4>3
    <3>8. ~ (y < k)
      <4> SUFFICES ASSUME y < k PROVE FALSE
        OBVIOUS
      <4>1. b[y + 1] <= b[k]
        BY <3>2, Zenon
      <4>2. PICK t \in Nat, v \in Nat : t = b[k] /\ v = b[y + 1]
        BY <3>3, <3>5
      <4>3. /\ v <= t /\ hi <= v - 1 /\ j <= hi /\ j = t + m - 1 /\ 1 <= m
            /\ m \in Nat /\ hi \in Nat /\ j \in Nat
        BY <3>3, <3>5, <4>1, <4>2, Zenon
      <4> QED BY ONLY <4>3, t \in Nat, v \in Nat
    <3> QED BY ONLY <3>3, <3>7, <3>8
  <2>6. c \in ToSet(s[k])
    BY <1>5, <2>3, <2>4, ToSetHolds, Zenon
  <2> QED BY <2>5, <2>6, Zenon
<1>6. ASSUME NEW k \in x..y, c \in ToSet(s[k]) PROVE \E j \in lo..hi : p[j] = c
  <2>1. k \in 1..Len(s) /\ x <= k /\ k <= y
    <3>1. x \in Nat /\ x # 0 /\ y \in Nat /\ y <= Len(s) /\ Len(s) \in Nat
      BY <1>1, <1>2, <1>4
    <3> QED BY ONLY <3>1, k \in x..y
  <2>2. /\ Len(s[k]) \in Nat /\ b[k] \in Nat /\ b[k + 1] = b[k] + Len(s[k]) + 1
        /\ s[k] \in Seq(C) /\ \A m \in 1..Len(s[k]) : s[k][m] = p[b[k] + m - 1]
    BY <1>2, <2>1, Zenon
  <2>3. PICK m \in 1..Len(s[k]) : s[k][m] = c
    BY <1>6, <2>2, ToSetHolds, Zenon
  <2>4. b[x] <= b[k] /\ b[k + 1] <= b[y + 1]
    BY <1>4, <2>1, Zenon
  <2>5. b[k] + m - 1 \in lo..hi
    <3>1. /\ b[x] \in Nat /\ b[y + 1] \in Nat
          /\ lo <= b[x] /\ b[y + 1] - 2 <= hi /\ lo \in Nat /\ hi \in Nat
          /\ m \in Nat /\ 1 <= m /\ m <= Len(s[k])
      BY <1>1, <1>4, <2>2, <2>3
    <3>2. \A u, v, l, f, t, h, r, i \in Nat :
            /\ f = t + l + 1 /\ u <= t /\ f <= v /\ h <= u /\ v - 2 <= r /\ 1 <= i /\ i <= l
            => t + i - 1 \in h..r
      OBVIOUS
    <3>3. b[k + 1] \in Nat
      BY ONLY <2>2
    <3> QED BY <2>2, <2>4, <3>1, <3>2, <3>3, Zenon
  <2> QED BY <2>2, <2>3, <2>5, Zenon
<1> QED BY <1>3, <1>5, <1>6, Zenon

(* A component that begins with a segment is the segment.                     *)
SegmentsFound(p, s, b, x, y, lo, hi) ==
  \A k \in 1..Len(s) : x <= k /\ k <= y /\ b[k] <= hi /\ lo <= b[k] =>
    ComponentAt(SubSeq(p, lo, hi), (b[k] - lo) + 1) = s[k]

(* The component that begins where a segment does is the segment.             *)
LEMMA ComponentIs ==
  ASSUME NEW C, NEW p, NEW s, NEW b, NEW x, NEW y, NEW lo, NEW hi,
         Covers(C, p, s, b, x, y, lo, hi)
  PROVE  SegmentsFound(p, s, b, x, y, lo, hi)
<1> SUFFICES ASSUME NEW k \in 1..Len(s), x <= k, k <= y, b[k] <= hi, lo <= b[k]
             PROVE  ComponentAt(SubSeq(p, lo, hi), (b[k] - lo) + 1) = s[k]
  BY DEF SegmentsFound
<1>1. /\ IsCut(C, p, s, b) /\ lo \in Nat /\ lo # 0 /\ hi \in Nat /\ hi <= Len(p)
      /\ lo <= hi + 1 /\ y <= Len(s) /\ y \in Nat
  BY Zenon DEF Covers
<1>2. /\ p \in Seq(C) /\ Len(p) \in Nat /\ Len(s) \in Nat /\ b[Len(s) + 1] = Len(p) + 2
      /\ \A i \in 2..Len(s) : p[b[i] - 1] = "/"
      /\ \A i \in 1..Len(s) :
           /\ s[i] \in Seq(C) /\ Len(s[i]) \in Nat /\ b[i] \in Nat
           /\ b[i + 1] = b[i] + Len(s[i]) + 1
           /\ \A m \in 1..Len(s[i]) : s[i][m] = p[b[i] + m - 1] /\ s[i][m] # "/"
  <2>1. CutIs(C, p, s, b)
    BY <1>1, CutFacts, Zenon
  <2> QED BY <2>1, Zenon DEF CutIs
<1>3. /\ b[y + 1] \in Nat /\ b[y + 1] - 2 <= hi
      /\ \A i \in 1..Len(s) : i <= y => b[i + 1] <= b[y + 1]
  BY CoverFacts
<1>4. PICK l \in Nat, t \in Nat : l = Len(s[k]) /\ t = b[k]
  BY <1>2
<1>5. /\ b[k + 1] = t + l + 1 /\ s[k] \in Seq(C) /\ t <= hi /\ lo <= t
      /\ \A m \in 1..l : s[k][m] = p[t + m - 1] /\ s[k][m] # "/"
  BY <1>2, <1>4, Zenon
<1>6. t + l + 1 <= b[y + 1]
  BY <1>3, <1>5, Zenon
<1>18. /\ lo \in Nat /\ lo # 0 /\ hi \in Nat /\ t \in Nat /\ l \in Nat
       /\ lo <= t /\ t <= hi /\ t + l <= hi + 1
  <2>1. PICK v \in Nat : v = b[y + 1]
    BY <1>3
  <2>2. v - 2 <= hi /\ t + l + 1 <= v
    BY <1>3, <1>6, <2>1, Zenon
  <2>3. t + l <= hi + 1
    BY ONLY <1>1, <2>2, t \in Nat, l \in Nat, v \in Nat
  <2> QED BY <1>1, <1>5, <2>3
<1> DEFINE q == SubSeq(p, lo, hi)
           n == (hi - lo) + 1
           i == (t - lo) + 1
           e == i + l
<1>7. q \in Seq(C) /\ Len(q) = n /\ n \in Nat /\ \A m \in 1..n : q[m] = p[lo + m - 1]
  BY <1>1, <1>2, PartIs
<1>8. i \in Nat /\ i # 0 /\ e \in Nat /\ e <= n + 1 /\ i <= e
  BY ONLY <1>18
<1>9. lo + e - 1 = t + l
  BY ONLY <1>18
<1>10. \A m \in 1..l : i + m - 1 \in 1..n /\ lo + (i + m - 1) - 1 = t + m - 1
  BY ONLY <1>18
<1> HIDE DEF q, n, i, e
<1>11. \A m \in 1..l : q[i + m - 1] = s[k][m] /\ q[i + m - 1] # "/"
  <2> TAKE m \in 1..l
  <2>1. PICK j \in 1..n : j = i + m - 1 /\ lo + j - 1 = t + m - 1
    BY <1>10
  <2>2. q[j] = p[lo + j - 1] /\ s[k][m] = p[t + m - 1] /\ s[k][m] # "/"
    BY <1>5, <1>7, Zenon
  <2> QED BY <2>1, <2>2
<1> DEFINE A == {j \in i..Len(q) : q[j] = "/"}
           S == A \cup {Len(q) + 1}
<1>12. ASSUME NEW j \in A PROVE e <= j
  <2>1. j \in i..n /\ q[j] = "/" /\ j \in Nat
    BY <1>7, <1>8
  <2> SUFFICES ASSUME j < e PROVE FALSE
    BY <1>8, <2>1
  <2>2. (j - i) + 1 \in 1..l /\ i + ((j - i) + 1) - 1 = j
    BY <1>4, <1>8, <2>1 DEF e
  <2> QED BY <1>11, <2>1, <2>2, Zenon
<1>13. S \subseteq Nat /\ \A j \in S : e <= j
  <2>1. A \subseteq Nat /\ n + 1 \in Nat /\ e <= n + 1
    BY <1>7, <1>8
  <2> HIDE DEF A
  <2> QED BY <1>7, <1>12, <2>1
<1>14. e \in S
  <2>1. CASE e = n + 1
    BY <1>7, <2>1
  <2>2. CASE e # n + 1
    <3>1. e \in i..n /\ e \in 1..n
      BY <1>7, <1>8, <2>2
    <3>2. q[e] = p[t + l]
      BY <1>7, <1>9, <3>1, Zenon
    <3>3. k # Len(s)
      <4> SUFFICES ASSUME k = Len(s) PROVE FALSE
        OBVIOUS
      <4>1. t + l + 1 = Len(p) + 2
        BY <1>2, <1>5
      <4>2. lo + e - 1 <= hi
        BY ONLY <1>1, <1>8, <3>1 DEF n
      <4>3. PICK N \in Nat : N = Len(p)
        BY <1>2, Zenon
      <4>4. t + l <= hi /\ hi <= N /\ t + l + 1 = N + 2 /\ hi \in Nat
        BY <1>1, <1>9, <4>1, <4>2, <4>3
      <4> QED BY ONLY <4>4, t \in Nat, l \in Nat, N \in Nat
    <3>4. k + 1 \in 2..Len(s)
      BY ONLY <1>2, <3>3, k \in 1..Len(s)
    <3>5. b[k + 1] - 1 = t + l
      BY ONLY <1>4, <1>5
    <3>6. q[e] = "/"
      BY <1>2, <3>2, <3>4, <3>5, Zenon
    <3> QED BY <1>7, <3>1, <3>6
  <2> QED BY <2>1, <2>2
<1>15. Min(S) = e
  <2> HIDE DEF S
  <2> QED BY <1>13, <1>14, MinIs, Zenon
<1>16. ComponentAt(q, i) = SubSeq(q, i, e - 1)
  BY <1>15, Zenon DEF ComponentAt
<1>17. SubSeq(q, i, e - 1) = s[k]
  <2>1. /\ e - 1 \in Nat /\ e - 1 <= Len(q) /\ i <= (e - 1) + 1 /\ ((e - 1) - i) + 1 = l
    BY <1>4, <1>7, <1>8 DEF e
  <2>2. /\ SubSeq(q, i, e - 1) \in Seq(C) /\ Len(SubSeq(q, i, e - 1)) = l
        /\ \A m \in 1..l : SubSeq(q, i, e - 1)[m] = q[i + m - 1]
    <3>1. /\ SubSeq(q, i, e - 1) \in Seq(C)
          /\ Len(SubSeq(q, i, e - 1)) = ((e - 1) - i) + 1
          /\ \A m \in 1..((e - 1) - i) + 1 : SubSeq(q, i, e - 1)[m] = q[i + m - 1]
      <4>1. q \in Seq(C) /\ i \in Nat /\ i # 0 /\ e - 1 \in Nat /\ e - 1 <= Len(q) /\ i <= (e - 1) + 1
        BY <1>7, <1>8, <2>1
      <4> QED BY ONLY <4>1, PartIs
    <3> QED BY <2>1, <3>1, Zenon
  <2>3. \A m \in 1..l : SubSeq(q, i, e - 1)[m] = s[k][m]
    BY <1>11, <2>2, Zenon
  <2> QED BY <1>4, <1>5, <2>2, <2>3, SameParts
<1> QED BY <1>4, <1>16, <1>17, Zenon DEF q, i

(* A part that begins with the slash before its first segment.                *)
Opens(C, p, s, b, x, y, lo, hi) ==
  Covers(C, p, s, b, x, y, lo, hi) /\ x # 1 /\ lo = b[x] - 1 /\ lo <= hi

(* A slash that is not the last of a part is before one of its segments.      *)
SlashesOpen(p, s, b, x, y, lo, hi) ==
  \A j \in Nat : lo <= j /\ j < hi /\ p[j] = "/" =>
    \E k \in 2..Len(s) : x <= k /\ k <= y /\ j = b[k] - 1

(* A slash of a part that begins with the slash of segment x, and is not the  *)
(* last of it, is before one of its segments.                                 *)
LEMMA SlashIn ==
  ASSUME NEW C, NEW p, NEW s, NEW b, NEW x, NEW y, NEW lo, NEW hi,
         Opens(C, p, s, b, x, y, lo, hi)
  PROVE  SlashesOpen(p, s, b, x, y, lo, hi)
<1> SUFFICES ASSUME NEW j \in Nat, lo <= j, j < hi, p[j] = "/"
             PROVE  \E k \in 2..Len(s) : x <= k /\ k <= y /\ j = b[k] - 1
  BY DEF SlashesOpen
<1>0. Covers(C, p, s, b, x, y, lo, hi) /\ lo = b[x] - 1
  BY Zenon DEF Opens
<1>1. /\ IsCut(C, p, s, b) /\ lo \in Nat /\ lo # 0 /\ hi \in Nat /\ hi <= Len(p)
      /\ y \in Nat
  BY <1>0, Zenon DEF Covers
<1>2. /\ Len(p) \in Nat /\ Len(s) \in Nat
      /\ \A i \in 1..Len(s) : Len(s[i]) \in Nat /\ b[i] \in Nat /\ b[i + 1] = b[i] + Len(s[i]) + 1
  <2>1. CutIs(C, p, s, b)
    BY <1>1, CutFacts, Zenon
  <2> QED BY <2>1, Zenon DEF CutIs
<1>3. /\ b[y + 1] \in Nat /\ hi <= b[y + 1] - 1 /\ b[x] \in Nat /\ x \in Nat
      /\ \A i \in 1..Len(s) : i < x => b[i + 1] <= b[x]
      /\ \A i \in 1..Len(s) : y < i => b[y + 1] <= b[i]
  BY <1>0, CoverFacts
<1>4. j \in 1..Len(p)
  BY ONLY <1>1, <1>2, lo <= j, j < hi, j \in Nat
<1>5. PICK k \in 2..Len(s) : j = b[k] - 1
  BY <1>1, <1>4, CutAt
<1>6. k \in 1..Len(s)
  BY ONLY <1>2, k \in 2..Len(s)
<1>7. PICK t \in Nat, l \in Nat, u \in Nat, v \in Nat :
        t = b[k] /\ l = Len(s[k]) /\ u = b[x] /\ v = b[y + 1]
  BY <1>2, <1>3, <1>6
<1>8. b[k + 1] = t + l + 1 /\ j = t - 1 /\ lo = u - 1 /\ hi <= v - 1
  BY <1>0, <1>2, <1>3, <1>5, <1>6, <1>7
<1>9. ~ (k < x)
  <2> SUFFICES ASSUME k < x PROVE FALSE
    OBVIOUS
  <2>1. t + l + 1 <= u
    BY <1>3, <1>6, <1>7, <1>8
  <2> QED BY ONLY <1>8, <2>1, t \in Nat, l \in Nat, u \in Nat, lo <= j
<1>10. ~ (y < k)
  <2> SUFFICES ASSUME y < k PROVE FALSE
    OBVIOUS
  <2>1. v <= t
    BY <1>3, <1>6, <1>7
  <2> QED BY ONLY <1>1, <1>8, <2>1, t \in Nat, v \in Nat, j < hi
<1>11. x <= k /\ k <= y
  BY ONLY <1>1, <1>2, <1>3, <1>9, <1>10, k \in 2..Len(s)
<1> QED BY <1>5, <1>11

(* What the parser takes for special in a path.                               *)
Special == {<<>>, <<".">>, <<".", ".">>}

(* A part that begins with the slash of a segment, and ends with the slash    *)
(* behind one or with a segment that is not empty, passes the check of its    *)
(* components when no segment in it is special.                               *)
LEMMA NoneSpecial ==
  ASSUME NEW C, NEW p, NEW s, NEW b, NEW x, NEW y, NEW lo, NEW hi,
         Opens(C, p, s, b, x, y, lo, hi),
         hi = b[y + 1] - 1 \/ (x <= y /\ s[y] # <<>>)
  PROVE  CheckNoSpecialComponents(SubSeq(p, lo, hi)) <=>
           \A k \in x..y : s[k] \notin Special
<1>0. Covers(C, p, s, b, x, y, lo, hi) /\ x # 1 /\ lo = b[x] - 1 /\ lo <= hi
  BY Zenon DEF Opens
<1>10. \A j \in Nat : lo <= j /\ j < hi /\ p[j] = "/" =>
         \E k \in 2..Len(s) : x <= k /\ k <= y /\ j = b[k] - 1
  <2>1. SlashesOpen(p, s, b, x, y, lo, hi)
    BY SlashIn, Zenon
  <2> QED BY <2>1, Zenon DEF SlashesOpen
<1>11. \A k \in 1..Len(s) : x <= k /\ k <= y /\ b[k] <= hi /\ lo <= b[k] =>
         ComponentAt(SubSeq(p, lo, hi), (b[k] - lo) + 1) = s[k]
  <2>1. SegmentsFound(p, s, b, x, y, lo, hi)
    BY <1>0, ComponentIs, Zenon
  <2> QED BY <2>1, Zenon DEF SegmentsFound
<1>1. /\ IsCut(C, p, s, b) /\ lo \in Nat /\ lo # 0 /\ hi \in Nat /\ hi <= Len(p)
      /\ lo <= hi + 1 /\ y \in Nat /\ y <= Len(s) /\ x \in 1..Len(s) + 1
  BY <1>0, Zenon DEF Covers
<1>2. /\ p \in Seq(C) /\ Len(p) \in Nat /\ Len(s) \in Nat /\ b[Len(s) + 1] = Len(p) + 2
      /\ \A i \in 2..Len(s) : p[b[i] - 1] = "/"
      /\ \A i \in 1..Len(s) :
           /\ s[i] \in Seq(C) /\ Len(s[i]) \in Nat /\ b[i] \in Nat
           /\ b[i + 1] = b[i] + Len(s[i]) + 1
           /\ \A m \in 1..Len(s[i]) : s[i][m] = p[b[i] + m - 1] /\ s[i][m] # "/"
  <2>1. CutIs(C, p, s, b)
    BY <1>1, CutFacts, Zenon
  <2> QED BY <2>1, Zenon DEF CutIs
<1>3. /\ b[x] \in Nat /\ b[y + 1] \in Nat /\ x \in Nat /\ b[y + 1] - 2 <= hi /\ hi <= b[y + 1] - 1
      /\ \A i \in 1..Len(s) : x <= i => b[x] <= b[i]
      /\ \A i \in 1..Len(s) : i <= y => b[i + 1] <= b[y + 1]
  BY <1>0, CoverFacts
<1> DEFINE q == SubSeq(p, lo, hi)
           n == (hi - lo) + 1
<1>4. q \in Seq(C) /\ Len(q) = n /\ n \in Nat /\ \A m \in 1..n : q[m] = p[lo + m - 1]
  <2>1. p \in Seq(C) /\ lo \in Nat /\ lo # 0 /\ hi \in Nat /\ hi <= Len(p) /\ lo <= hi + 1
    BY <1>1, <1>2
  <2> QED BY ONLY <2>1, PartIs
<1>9. n = (hi - lo) + 1
  OBVIOUS
<1>5. \A m \in Nat : lo <= m /\ m <= hi =>
        /\ (m - lo) + 1 \in 1..n /\ lo + ((m - lo) + 1) - 1 = m
        /\ lo < m => m - lo \in 1..n - 1 /\ (m - lo) + 1 # 1 /\ ((m - lo) + 1) - 1 = m - lo
                     /\ lo + (m - lo) - 1 = m - 1 /\ m - lo \in 1..n
  BY ONLY <1>1
<1>6. \A m \in Nat : lo <= m /\ m <= hi => q[(m - lo) + 1] = p[m] /\ (m - lo) + 1 \in 1..Len(q)
  <2> SUFFICES ASSUME NEW m \in Nat, lo <= m, m <= hi
               PROVE  q[(m - lo) + 1] = p[m] /\ (m - lo) + 1 \in 1..Len(q)
    OBVIOUS
  <2>1. (m - lo) + 1 \in 1..n /\ lo + ((m - lo) + 1) - 1 = m
    BY <1>5, Zenon
  <2> HIDE DEF q, n
  <2>2. q[(m - lo) + 1] = p[lo + ((m - lo) + 1) - 1]
    BY <1>4, <2>1, Zenon
  <2> QED BY <1>4, <2>1, <2>2, Zenon
<1> HIDE DEF q, n
<1>7. ASSUME CheckNoSpecialComponents(q), NEW k \in x..y PROVE s[k] \notin Special
  <2>1. k \in 1..Len(s) /\ k \in 2..Len(s) /\ x <= k /\ k <= y
    BY ONLY <1>0, <1>1, <1>2, <1>3, k \in x..y
  <2>2. PICK t \in Nat, l \in Nat, u \in Nat, v \in Nat :
          t = b[k] /\ l = Len(s[k]) /\ u = b[x] /\ v = b[y + 1]
    BY <1>2, <1>3, <2>1
  <2>3. /\ s[k] \in Seq(C) /\ b[k + 1] = t + l + 1 /\ u <= t /\ t + l + 1 <= v /\ lo = u - 1
        /\ v - 2 <= hi /\ hi <= v - 1 /\ p[t - 1] = "/"
    <3>1. b[k + 1] = t + l + 1 /\ s[k] \in Seq(C)
      BY <1>2, <2>1, <2>2, Zenon
    <3>2. u <= t /\ t + l + 1 <= v
      BY <1>3, <2>1, <2>2, <3>1, Zenon
    <3>3. p[t - 1] = "/" /\ lo = u - 1 /\ v - 2 <= hi /\ hi <= v - 1
      BY <1>0, <1>2, <1>3, <2>1, <2>2, Zenon
    <3> QED BY <3>1, <3>2, <3>3
  <2>4. l # 0
    <3> SUFFICES ASSUME l = 0 PROVE FALSE
      OBVIOUS
    <3>1. s[k] = <<>>
      BY <2>2, <2>3, EmptyIs
    <3>2. t <= hi
      <4>1. CASE hi = b[y + 1] - 1
        <5>1. hi = v - 1
          BY <2>2, <4>1
        <5> QED BY ONLY <2>3, <5>1, t \in Nat, v \in Nat, l \in Nat
      <4>2. CASE s[y] # <<>>
        <5>1. k # y /\ y \in 1..Len(s)
          <6>1. k # y
            BY <3>1, <4>2
          <6> QED BY <1>1, <1>2, <2>1, <6>1
        <5>2. k + 1 <= y /\ k + 1 \in 1..Len(s) /\ Len(s[k + 1]) \in Nat
          <6>1. k + 1 <= y /\ k + 1 \in 1..Len(s)
            BY ONLY <1>1, <1>2, <2>1, <5>1
          <6> QED BY <1>2, <6>1, Zenon
        <5>3. /\ b[k + 1 + 1] = b[k + 1] + Len(s[k + 1]) + 1 /\ b[k + 1 + 1] <= b[y + 1]
          BY <1>2, <1>3, <5>2, Zenon
        <5>4. (t + l + 1) + Len(s[k + 1]) + 1 <= v
          BY <2>2, <2>3, <5>3
        <5>5. PICK r \in Nat : r = Len(s[k + 1])
          BY <5>2
        <5>6. (t + l + 1) + r + 1 <= v /\ v - 2 <= hi /\ hi \in Nat
          BY <1>1, <2>3, <5>4, <5>5
        <5> QED BY ONLY <5>6, t \in Nat, v \in Nat, l \in Nat, r \in Nat
      <4> QED BY <4>1, <4>2
    <3>3. k + 1 \in 2..Len(s)
      <4> SUFFICES ASSUME k = Len(s) PROVE FALSE
        BY <1>2, <2>1
      <4>1. t + l + 1 = Len(p) + 2
        BY <1>2, <2>3
      <4> QED BY ONLY <1>1, <1>2, <3>2, <4>1, l = 0, t \in Nat
    <3>4. p[t] = "/"
      <4>1. b[k + 1] - 1 = t
        BY <2>3
      <4> QED BY <1>2, <3>3, <4>1, Zenon
    <3>5. lo <= t /\ lo < t /\ t - 1 \in Nat /\ lo <= t - 1 /\ t - 1 <= hi /\ ((t - 1) - lo) + 1 = t - lo
      BY ONLY <1>1, <2>3, <3>2, t \in Nat, u \in Nat
    <3>6. q[t - lo] = "/" /\ q[(t - lo) + 1] = "/"
      BY <1>6, <2>3, <3>2, <3>4, <3>5, Zenon
    <3>7. t - lo \in 1..Len(q) - 1
      BY <1>4, <1>5, <3>2, <3>5, Zenon
    <3> QED BY <1>7, <3>6, <3>7, Zenon DEF CheckNoSpecialComponents
  <2>5. lo <= t /\ lo < t /\ t <= hi /\ t - 1 \in Nat /\ lo <= t - 1 /\ t - 1 <= hi
        /\ ((t - 1) - lo) + 1 = t - lo /\ ((t - lo) + 1) - 1 = t - lo
    BY ONLY <1>1, <2>3, <2>4, t \in Nat, u \in Nat, v \in Nat, l \in Nat
  <2>6. ComponentAt(q, (t - lo) + 1) = s[k]
    BY <1>11, <2>1, <2>2, <2>5, Zenon DEF q
  <2>7. (t - lo) + 1 \in 1..Len(q) /\ q[((t - lo) + 1) - 1] = "/"
    <3>1. (t - lo) + 1 \in 1..Len(q)
      BY <1>6, <2>5, Zenon
    <3>2. q[t - lo] = p[t - 1]
      BY <1>6, <2>5, Zenon
    <3> QED BY <2>3, <2>5, <3>1, <3>2, Zenon
  <2>8. s[k] \notin {<<".">>, <<".", ".">>}
    BY <1>7, <2>6, <2>7, Zenon DEF CheckNoSpecialComponents
  <2>9. s[k] # <<>>
    BY <2>2, <2>3, <2>4, EmptyIs
  <2> QED BY <2>8, <2>9, Zenon DEF Special
<1>8. ASSUME \A k \in x..y : s[k] \notin Special PROVE CheckNoSpecialComponents(q)
  <2>1. ASSUME NEW i \in 1..Len(q) - 1, q[i] = "/", q[i + 1] = "/" PROVE FALSE
    <3> DEFINE j == lo + i - 1
    <3>1. j \in Nat /\ lo <= j /\ j < hi /\ lo + (i + 1) - 1 = j + 1 /\ i \in 1..n /\ i + 1 \in 1..n
      <4>1. i \in 1..n - 1
        BY <1>4
      <4> QED BY ONLY <1>1, <1>4, <1>9, <4>1
    <3>2. q[i] = p[j] /\ q[i + 1] = p[j + 1]
      BY <1>4, <3>1, Zenon
    <3> HIDE DEF j
    <3>3. p[j] = "/" /\ p[j + 1] = "/"
      BY <2>1, <3>2
    <3>4. PICK k \in 2..Len(s) : x <= k /\ k <= y /\ j = b[k] - 1
      BY <1>10, <3>1, <3>3, Zenon
    <3>5. k \in 1..Len(s) /\ k \in x..y
      BY ONLY <1>1, <1>2, <1>3, <3>4
    <3>6. s[k] # <<>> /\ s[k] \in Seq(C) /\ b[k] \in Nat /\ Len(s[k]) \in Nat
      <4>1. s[k] # <<>>
        BY <1>8, <3>5, Zenon DEF Special
      <4> QED BY <1>2, <3>5, <4>1, Zenon
    <3>7. 1 \in 1..Len(s[k])
      <4>1. Len(s[k]) # 0
        BY <3>6, EmptyIs
      <4> QED BY ONLY <3>6, <4>1
    <3>8. s[k][1] = p[b[k] + 1 - 1] /\ s[k][1] # "/"
      BY <1>2, <3>5, <3>7, Zenon
    <3>9. b[k] + 1 - 1 = j + 1
      BY ONLY <3>1, <3>4, <3>6
    <3> QED BY <3>3, <3>8, <3>9
  <2>2. ASSUME NEW i \in 1..Len(q), i = 1 \/ q[i - 1] = "/"
        PROVE  ComponentAt(q, i) \notin {<<".">>, <<".", ".">>}
    <3>1. CASE i = 1
      <4>1. q[1] = "/" /\ 1 \in 1..Len(q)
        <5>1. p[b[x] - 1] = "/"
          <6>1. x \in 2..Len(s)
            <7> SUFFICES ASSUME x = Len(s) + 1 PROVE FALSE
              BY <1>0, <1>1, <1>2
            <7>1. b[x] = Len(p) + 2
              BY <1>2
            <7> QED BY ONLY <1>0, <1>1, <1>2, <7>1
          <6> QED BY <1>2, <6>1, Zenon
        <5>2. (lo - lo) + 1 = 1 /\ lo <= lo /\ lo \in Nat /\ lo <= hi
          BY <1>0, <1>1
        <5>3. q[1] = p[lo] /\ 1 \in 1..Len(q)
          BY <1>6, <5>2, Zenon
        <5> QED BY <1>0, <5>1, <5>3
      <4> DEFINE A == {j \in 1..Len(q) : q[j] = "/"}
                 S == A \cup {Len(q) + 1}
      <4>2. S \subseteq Nat /\ 1 \in S /\ \A j \in S : 1 <= j
        BY <1>4, <4>1
      <4> HIDE DEF S
      <4>3. Min(S) = 1
        BY <4>2, MinIs, Zenon
      <4>4. ComponentAt(q, 1) = SubSeq(q, 1, 1 - 1)
        BY <4>3, Zenon DEF ComponentAt, S
      <4>5. SubSeq(q, 1, 1 - 1) = <<>>
        BY <1>4
      <4>6. <<>> \notin {<<".">>, <<".", ".">>}
        OBVIOUS
      <4> QED BY <3>1, <4>4, <4>5, <4>6
    <3>2. CASE i # 1
      <4> DEFINE j == lo + (i - 1) - 1
      <4>1. j \in Nat /\ lo <= j /\ j < hi /\ i - 1 \in 1..n
        <5>1. i \in 1..n
          BY <1>4
        <5> QED BY ONLY <1>1, <1>9, <3>2, <5>1
      <4>2. q[i - 1] = p[j]
        BY <1>4, <4>1, Zenon
      <4>3. i = ((j + 1) - lo) + 1
        BY ONLY <1>1, i \in 1..Len(q)
      <4> HIDE DEF j
      <4>4. p[j] = "/"
        BY <2>2, <3>2, <4>2
      <4>5. PICK k \in 2..Len(s) : x <= k /\ k <= y /\ j = b[k] - 1
        BY <1>10, <4>1, <4>4, Zenon
      <4>6. k \in 1..Len(s) /\ k \in x..y
        BY ONLY <1>1, <1>2, <1>3, <4>5
      <4>7. b[k] \in Nat
        BY <1>2, <4>6, Zenon
      <4>8. b[k] = j + 1 /\ b[k] <= hi /\ lo <= b[k]
          <5>1. /\ j = b[k] - 1 /\ j < hi /\ lo <= j
                /\ j \in Nat /\ lo \in Nat /\ hi \in Nat
            BY <1>1, <4>1, <4>5, Zenon
          <5> QED BY ONLY <4>7, <5>1
      <4>9. ComponentAt(q, (b[k] - lo) + 1) = s[k]
        <5>1. ComponentAt(SubSeq(p, lo, hi), (b[k] - lo) + 1) = s[k]
          BY <1>11, <4>5, <4>6, <4>8, Zenon
        <5> QED BY <5>1 DEF q
      <4>10. s[k] \notin Special
        BY <1>8, <4>6, Zenon
      <4> QED BY <4>3, <4>8, <4>9, <4>10, Zenon DEF Special
    <3> QED BY <3>1, <3>2
  <2> QED BY <2>1, <2>2, Zenon DEF CheckNoSpecialComponents
<1> QED BY <1>7, <1>8, Zenon DEF q

(* What a segment with the slash before it is, and where.                     *)
Slashed(p, s, b, k) ==
  /\ <<"/">> \o s[k] = SubSeq(p, b[k] - 1, b[k + 1] - 2)
  /\ b[k] - 1 \in Nat /\ b[k] - 1 # 0 /\ b[k + 1] - 2 \in Nat /\ b[k + 1] - 2 <= Len(p)
  /\ b[k] - 1 <= b[k + 1] - 2

(* Every segment but the first is part of the pattern with the slash before.  *)
LEMMA SlashAndSegment ==
  ASSUME NEW C, NEW p, NEW s, NEW b, IsCut(C, p, s, b), NEW k \in 2..Len(s)
  PROVE  Slashed(p, s, b, k)
<1>1. /\ p \in Seq(C) /\ Len(p) \in Nat /\ Len(s) \in Nat
      /\ \A i \in 2..Len(s) : p[b[i] - 1] = "/"
      /\ b[1] = 1
      /\ \A i \in 1..Len(s) :
           /\ s[i] \in Seq(C) /\ Len(s[i]) \in Nat /\ b[i] \in Nat
           /\ b[i + 1] = b[i] + Len(s[i]) + 1
           /\ \A m \in 1..Len(s[i]) : s[i][m] = p[b[i] + m - 1]
  <2>1. CutIs(C, p, s, b)
    BY CutFacts, Zenon
  <2> QED BY <2>1, Zenon DEF CutIs
<1>2. PICK t \in Nat, l \in Nat, N \in Nat, L \in Nat :
        t = b[k] /\ l = Len(s[k]) /\ N = Len(s) /\ L = Len(p)
  <2>1. k \in 1..Len(s)
    BY <1>1
  <2>2. b[k] \in Nat /\ Len(s[k]) \in Nat
    BY <1>1, <2>1, Zenon
  <2> QED BY <1>1, <2>2, Zenon
<1>3. k \in 1..N /\ k \in 2..N /\ k + 1 \in 1..N + 1 /\ N + 1 \in (k + 1)..N + 1
      /\ 2 \in 1..N + 1 /\ k \in 2..N + 1 /\ 1 \in 1..N /\ 1 + 1 = 2
      /\ k + 1 \in (k + 1)..N + 1
  BY ONLY <1>2, k \in 2..Len(s)
<1>4. \A i \in 1..N + 1 : \A j \in i..N + 1 : b[i] \in Nat /\ b[i] <= b[j] /\ b[j] <= L + 2
  BY <1>2, CutOrder, Zenon
<1>5. /\ s[k] \in Seq(C) /\ b[k + 1] = t + l + 1 /\ p[t - 1] = "/"
      /\ \A m \in 1..l : s[k][m] = p[t + m - 1]
  BY <1>1, <1>2, <1>3, Zenon
<1>6. t + l + 1 <= L + 2
  BY <1>3, <1>4, <1>5, Zenon
<1>7. 2 <= t
  <2>1. b[2] = 1 + Len(s[1]) + 1 /\ Len(s[1]) \in Nat
    BY <1>1, <1>2, <1>3, Zenon
  <2>2. b[2] <= t
    BY <1>2, <1>3, <1>4, Zenon
  <2> QED BY ONLY <2>1, <2>2, t \in Nat
<1>8. /\ t - 1 \in Nat /\ t - 1 # 0 /\ b[k + 1] - 2 = t + l - 1 /\ t + l - 1 \in Nat
      /\ t + l - 1 <= L /\ t - 1 <= t + l - 1 /\ t - 1 <= (t + l - 1) + 1
      /\ ((t + l - 1) - (t - 1)) + 1 = l + 1
  BY ONLY <1>5, <1>6, <1>7, t \in Nat, l \in Nat, L \in Nat
<1> DEFINE q == SubSeq(p, t - 1, t + l - 1)
           a == <<"/">> \o s[k]
<1>9. q \in Seq(C) /\ Len(q) = l + 1 /\ \A m \in 1..l + 1 : q[m] = p[(t - 1) + m - 1]
  <2>1. /\ q \in Seq(C) /\ Len(q) = ((t + l - 1) - (t - 1)) + 1
        /\ \A m \in 1..((t + l - 1) - (t - 1)) + 1 : q[m] = p[(t - 1) + m - 1]
    <3>1. /\ p \in Seq(C) /\ t - 1 \in Nat /\ t - 1 # 0 /\ t + l - 1 \in Nat
          /\ t + l - 1 <= Len(p) /\ t - 1 <= (t + l - 1) + 1
      BY <1>1, <1>2, <1>8, Zenon
    <3> QED BY ONLY <3>1, PartIs
  <2> HIDE DEF q
  <2> QED BY <1>8, <2>1, Zenon
<1>10. PICK D : "/" \in D /\ s[k] \in Seq(D) /\ q \in Seq(D)
  <2> DEFINE D == C \cup {"/"}
  <2>1. C \subseteq D /\ "/" \in D
    OBVIOUS
  <2> HIDE DEF D, q
  <2> QED BY <1>5, <1>9, <2>1, SeqLarger
<1> HIDE DEF q
<1>11. /\ a \in Seq(D) /\ Len(a) = l + 1 /\ a[1] = "/"
       /\ \A m \in 1..l : a[m + 1] = s[k][m]
  <2>1. <<"/">> \in Seq(D) /\ Len(<<"/">>) = 1 /\ <<"/">>[1] = "/"
    BY <1>10
  <2>2. IsList(<<"/">>) /\ IsList(s[k])
    BY <1>10, <2>1 DEF IsList
  <2>3. /\ Len(a) = 1 + l /\ a[1] = "/"
        /\ \A i \in 1..l : a[1 + i] = s[k][i]
    <3>1. /\ Len(a) = Len(<<"/">>) + Len(s[k])
          /\ \A i \in 1..Len(<<"/">>) : a[i] = <<"/">>[i]
          /\ \A i \in 1..Len(s[k]) : a[Len(<<"/">>) + i] = s[k][i]
      BY ONLY <2>2, ListJoin
    <3>2. 1 \in 1..1
      OBVIOUS
    <3> HIDE DEF a
    <3> QED BY <1>2, <2>1, <3>1, <3>2, Zenon
  <2>4. a \in Seq(D)
    BY ONLY <1>10, <2>1, ConcatProperties
  <2> HIDE DEF a
  <2>5. 1 + l = l + 1 /\ \A i \in 1..l : 1 + i = i + 1
    OBVIOUS
  <2> QED BY <2>3, <2>4, <2>5, Zenon
<1> HIDE DEF a
<1>12. ASSUME NEW i \in 1..l + 1 PROVE a[i] = q[i]
  <2>1. q[i] = p[(t - 1) + i - 1]
    BY <1>9, Zenon
  <2>2. CASE i = 1
    <3>1. (t - 1) + i - 1 = t - 1
      BY ONLY <1>8, <2>2
    <3> QED BY <1>5, <1>11, <2>1, <2>2, <3>1, Zenon
  <2>3. CASE i # 1
    <3>1. i - 1 \in 1..l /\ (i - 1) + 1 = i /\ t + (i - 1) - 1 = (t - 1) + i - 1
      BY ONLY <2>3, i \in 1..l + 1, l \in Nat, t \in Nat
    <3>2. a[(i - 1) + 1] = s[k][i - 1] /\ s[k][i - 1] = p[t + (i - 1) - 1]
      BY <1>5, <1>11, <3>1, Zenon
    <3> QED BY <2>1, <3>1, <3>2
  <2> QED BY <2>2, <2>3
<1>13. a = q
  BY ONLY <1>9, <1>10, <1>11, <1>12, SameParts
<1> QED BY <1>2, <1>8, <1>13, Zenon DEF a, q, Slashed

(* Segments written behind slashes are the part of the pattern they are.      *)
LEMMA PathIs ==
  ASSUME NEW C, NEW p, NEW s, NEW b, IsCut(C, p, s, b),
         NEW x \in 2..Len(s) + 1, NEW y \in Nat, x <= y + 1, y <= Len(s)
  PROVE  Path(SubSeq(s, x, y)) = SubSeq(p, b[x] - 1, b[y + 1] - 2)
<1>1. p \in Seq(C) /\ Len(p) \in Nat /\ s \in Seq(Seq(C)) /\ Len(s) \in Nat
  <2>1. CutIs(C, p, s, b)
    BY CutFacts, Zenon
  <2> QED BY <2>1, Zenon DEF CutIs
<1>2. PICK N \in Nat, L \in Nat, M \in Nat : N = Len(s) /\ L = Len(p) /\ M = (y - x) + 1
  <2>1. (y - x) + 1 \in Nat
    BY ONLY <1>1, x \in 2..Len(s) + 1, y \in Nat, x <= y + 1
  <2> QED BY <1>1, <2>1, Zenon
<1>3. \A i \in 2..N : /\ <<"/">> \o s[i] = SubSeq(p, b[i] - 1, b[i + 1] - 2)
                      /\ b[i] - 1 \in Nat /\ b[i] - 1 # 0 /\ b[i + 1] - 2 \in Nat
                      /\ b[i + 1] - 2 <= L /\ b[i] - 1 <= b[i + 1] - 2
  <2> SUFFICES ASSUME NEW i \in 2..N
               PROVE  /\ <<"/">> \o s[i] = SubSeq(p, b[i] - 1, b[i + 1] - 2)
                      /\ b[i] - 1 \in Nat /\ b[i] - 1 # 0 /\ b[i + 1] - 2 \in Nat
                      /\ b[i + 1] - 2 <= L /\ b[i] - 1 <= b[i + 1] - 2
    OBVIOUS
  <2>1. i \in 2..Len(s)
    BY <1>2
  <2>2. Slashed(p, s, b, i)
    BY <2>1, SlashAndSegment, Zenon
  <2> QED BY <1>2, <2>2, Zenon DEF Slashed
<1>4. x \in Nat /\ x # 0 /\ x \in 2..N + 1 /\ y <= N /\ (x <= y + 1)
  BY ONLY <1>2, x \in 2..Len(s) + 1, y <= Len(s), x <= y + 1
<1>5. \A i \in 1..M : x + i - 1 \in 2..N /\ (x + i - 1) + 1 = x + i /\ x + (i - 1) = x + i - 1
  BY ONLY <1>2, <1>4, y \in Nat
<1> DEFINE u == SubSeq(s, x, y)
           seqs == [k \in 1..M |-> <<"/">> \o u[k]]
           lo == b[x] - 1
<1>6. Len(u) = M /\ \A k \in 1..M : u[k] = s[x + k - 1]
  <2> DEFINE P == Seq(C)
  <2>1. s \in Seq(P)
    BY <1>1
  <2> HIDE DEF P
  <2>2. y <= Len(s) /\ x <= y + 1 /\ x # 0 /\ x \in Nat
    BY <1>2, <1>4
  <2>3. Len(u) = (y - x) + 1 /\ \A k \in 1..(y - x) + 1 : u[k] = s[x + k - 1]
    BY <2>1, <2>2, PartIs
  <2> QED BY <1>2, <2>3, Zenon
<1> HIDE DEF u
<1>7. Path(u) = FlattenSeq(seqs)
  BY <1>6, Zenon DEF Path
<1>8. \A k \in 1..M : seqs[k] = SubSeq(p, b[x + k - 1] - 1, b[x + k] - 2)
  <2> SUFFICES ASSUME NEW k \in 1..M
               PROVE  seqs[k] = SubSeq(p, b[x + k - 1] - 1, b[x + k] - 2)
    OBVIOUS
  <2>1. seqs[k] = <<"/">> \o s[x + k - 1]
    BY <1>6
  <2> QED BY <1>3, <1>5, <2>1, Zenon
<1>9. seqs = [k \in 1..M |-> seqs[k]]
  OBVIOUS
<1> HIDE DEF seqs
<1>10. \A k \in 1..M : IsList(seqs[k])
  <2> SUFFICES ASSUME NEW k \in 1..M PROVE IsList(seqs[k])
    OBVIOUS
  <2> DEFINE i == x + k - 1
  <2>1. i \in 2..N /\ i + 1 = x + k
    BY <1>5, Zenon
  <2> HIDE DEF i
  <2>2. /\ b[i] - 1 \in Nat /\ b[i] - 1 # 0 /\ b[i + 1] - 2 \in Nat
        /\ b[i + 1] - 2 <= Len(p) /\ b[i] - 1 <= b[i + 1] - 2
    BY <1>2, <1>3, <2>1, Zenon
  <2>3. b[i] - 1 <= (b[i + 1] - 2) + 1
    BY ONLY <2>2
  <2>4. SubSeq(p, b[i] - 1, b[i + 1] - 2) \in Seq(C)
    BY <1>1, <2>2, <2>3, PartIs, Zenon
  <2>5. seqs[k] = SubSeq(p, b[i] - 1, b[i + 1] - 2)
    BY <1>8, <2>1, Zenon DEF i
  <2> QED BY <2>4, <2>5, Zenon DEF IsList
<1>11. PICK g : Joins(g, seqs, M)
  BY <1>9, <1>10, ListsGrow, Zenon
<1>12. g[0] = <<>> /\ g[M] = FlattenSeq(seqs) /\ \A i \in 1..M : g[i] = g[i - 1] \o seqs[i]
  BY <1>11, Zenon DEF Joins
<1>13. \A i \in 1..N + 1 : \A j \in i..N + 1 : b[i] \in Nat /\ b[i] <= b[j] /\ b[j] <= L + 2
  BY <1>2, CutOrder, Zenon
<1>14. lo \in Nat /\ lo # 0 /\ lo <= L + 1 /\ b[x] \in Nat
  <2>1. x \in 1..N + 1 /\ x \in x..N + 1 /\ 1 \in 1..N + 1 /\ 2 \in 1..N + 1 /\ x \in 2..N + 1
    BY ONLY <1>4, N \in Nat
  <2>2. b[x] \in Nat /\ b[x] <= L + 2 /\ b[2] <= b[x]
    BY <1>13, <2>1, Zenon
  <2>3. b[2] = 1 + Len(s[1]) + 1 /\ Len(s[1]) \in Nat
    <3>1. b[1] = 1 /\ Len(s) # 0 /\ \A i \in 1..Len(s) : Len(s[i]) \in Nat /\ b[i + 1] = b[i] + Len(s[i]) + 1
      <4>1. CutIs(C, p, s, b)
        BY CutFacts, Zenon
      <4> QED BY <4>1, Zenon DEF CutIs
    <3>2. 1 \in 1..Len(s) /\ 1 + 1 = 2
      BY ONLY <1>1, <3>1
    <3> QED BY <3>1, <3>2, Zenon
  <2> QED BY ONLY <2>2, <2>3, L \in Nat
<1> HIDE DEF lo
<1> DEFINE T == {i \in 0..M : g[i] # SubSeq(p, lo, b[x + i] - 2)}
<1>15. T = {}
  <2> SUFFICES ASSUME T # {} PROVE FALSE
    OBVIOUS
  <2>1. T \subseteq Nat
    OBVIOUS
  <2>2. PICK i \in T : \A j \in T : i <= j
    BY <2>1, LeastNat, Zenon
  <2>3. i \in 0..M /\ g[i] # SubSeq(p, lo, b[x + i] - 2)
    BY <2>2
  <2> HIDE DEF T
  <2>4. CASE i = 0
    <3>1. b[x + i] - 2 < lo /\ lo \in Int /\ b[x + i] - 2 \in Int
      <4>1. x + i = x
        BY ONLY <1>4, <2>4
      <4> QED BY <1>14, <4>1 DEF lo
    <3>2. SubSeq(p, lo, b[x + i] - 2) = <<>>
      BY <3>1, SubSeqEmpty, Zenon
    <3> QED BY <1>12, <2>3, <2>4, <3>2
  <2>5. CASE i # 0
    <3>1. i \in 1..M /\ i - 1 \in 0..M /\ ~ (i <= i - 1)
      BY ONLY <2>3, <2>5, M \in Nat
    <3>2. g[i - 1] = SubSeq(p, lo, b[x + (i - 1)] - 2)
      BY <2>2, <3>1, Zenon DEF T
    <3> DEFINE k == x + (i - 1)
    <3>3. k \in 2..N /\ k + 1 = x + i /\ x + i - 1 = k /\ k \in x..N + 1 /\ x \in 1..N + 1
      BY ONLY <1>2, <1>4, <3>1, y \in Nat
    <3> HIDE DEF k
    <3>4. g[i] = SubSeq(p, lo, b[k] - 2) \o SubSeq(p, b[k] - 1, b[k + 1] - 2)
      <4>1. g[i] = g[i - 1] \o seqs[i] /\ seqs[i] = SubSeq(p, b[x + i - 1] - 1, b[x + i] - 2)
        BY <1>8, <1>12, <3>1, Zenon
      <4> QED BY <3>2, <3>3, <4>1, Zenon DEF k
    <3>5. /\ b[k] - 1 \in Nat /\ b[k] - 1 # 0 /\ b[k + 1] - 2 \in Nat
          /\ b[k + 1] - 2 <= L /\ b[k] - 1 <= b[k + 1] - 2
      BY <1>3, <3>3, Zenon
    <3>6. b[x] <= b[k] /\ b[k] \in Nat /\ b[k + 1] \in Nat
      <4>1. k \in 1..N + 1 /\ N + 1 \in k..N + 1 /\ k + 1 \in 1..N + 1 /\ N + 1 \in (k + 1)..N + 1
        BY ONLY <3>3, N \in Nat
      <4> QED BY <1>13, <3>3, <4>1, Zenon
    <3>7. PICK t \in Nat, e \in Nat : t = b[k] /\ e = b[k + 1]
      BY <3>6
    <3>8. /\ lo \in 1..L + 1 /\ t - 2 \in (lo - 1)..L /\ e - 2 \in (t - 2)..L /\ (t - 2) + 1 = t - 1
      <4>1. t - 1 \in Nat /\ t - 1 # 0 /\ e - 2 <= L /\ t - 1 <= e - 2 /\ lo <= t - 1
        <5>1. lo <= t - 1
          <6>1. b[x] <= t /\ lo = b[x] - 1
            BY <3>6, <3>7 DEF lo
          <6> QED BY ONLY <1>14, <6>1, t \in Nat
        <5> QED BY <3>5, <3>7, <5>1, Zenon
      <4> QED BY ONLY <1>14, <4>1, t \in Nat, e \in Nat, L \in Nat
    <3>9. SubSeq(p, lo, t - 2) \o SubSeq(p, (t - 2) + 1, e - 2) = SubSeq(p, lo, e - 2)
      BY ONLY <1>1, <1>2, <3>8, ConcatAdjacentSubSeq
    <3>10. g[i] = SubSeq(p, lo, b[x + i] - 2)
      BY <3>3, <3>4, <3>7, <3>8, <3>9, Zenon
    <3> QED BY <2>3, <3>10
  <2> QED BY <2>4, <2>5
<1>16. M \in 0..M /\ x + M = y + 1
  BY ONLY <1>2, <1>4, y \in Nat
<1>17. g[M] = SubSeq(p, lo, b[y + 1] - 2)
  BY <1>15, <1>16, Zenon
<1> QED BY <1>7, <1>12, <1>17, Zenon DEF u, lo

(* What plain says.                                                           *)
LEMMA PlainIs ==
  ASSUME NEW t
  PROVE  Plain(t) <=> t \notin Special /\ "*" \notin ToSet(t) /\ "?" \notin ToSet(t)
<1>1. {"*", "?"} \cap ToSet(t) = {} <=> "*" \notin ToSet(t) /\ "?" \notin ToSet(t)
  OBVIOUS
<1> QED BY <1>1, Zenon DEF Plain, Special

(* All but the first.                                                         *)
LEMMA TailHolds ==
  ASSUME NEW C, NEW t \in Seq(C), t # <<>>
  PROVE  /\ Tail(t) \in Seq(C) /\ Len(t) \in Nat /\ Len(t) # 0 /\ Len(Tail(t)) = Len(t) - 1
         /\ \A m \in 1..Len(t) - 1 : Tail(t)[m] = t[m + 1]
OBVIOUS

(* A segment that a star leads has no other.                                  *)
LEMMA StarIs ==
  ASSUME NEW C, NEW t \in Seq(C), t # <<>>
  PROVE  StarSegment(t) <=> /\ t[1] = "*"
                            /\ \A m \in 2..Len(t) : t[m] # "*" /\ t[m] # "?"
<1>1. /\ Tail(t) \in Seq(C) /\ Len(t) \in Nat /\ Len(t) # 0 /\ Len(Tail(t)) = Len(t) - 1
      /\ \A m \in 1..Len(t) - 1 : Tail(t)[m] = t[m + 1]
  BY TailHolds
<1>2. {"*", "?"} \cap ToSet(Tail(t)) = {} <=> "*" \notin ToSet(Tail(t)) /\ "?" \notin ToSet(Tail(t))
  OBVIOUS
<1>3. \A c : c \in ToSet(Tail(t)) <=> \E m \in 1..Len(t) - 1 : t[m + 1] = c
  <2> SUFFICES ASSUME NEW c PROVE c \in ToSet(Tail(t)) <=> \E m \in 1..Len(t) - 1 : t[m + 1] = c
    OBVIOUS
  <2>1. c \in ToSet(Tail(t)) <=> \E m \in 1..Len(Tail(t)) : Tail(t)[m] = c
    BY <1>1, ToSetHolds, Zenon
  <2> QED BY <1>1, <2>1, Zenon
<1>4. \A c : (\E m \in 1..Len(t) - 1 : t[m + 1] = c) <=> \E m \in 2..Len(t) : t[m] = c
  <2> SUFFICES ASSUME NEW c PROVE (\E m \in 1..Len(t) - 1 : t[m + 1] = c) <=> \E m \in 2..Len(t) : t[m] = c
    OBVIOUS
  <2>1. ASSUME NEW m \in 1..Len(t) - 1 PROVE m + 1 \in 2..Len(t)
    BY <1>1
  <2>2. ASSUME NEW m \in 2..Len(t) PROVE m - 1 \in 1..Len(t) - 1 /\ (m - 1) + 1 = m
    BY <1>1
  <2> QED BY <2>1, <2>2, Zenon
<1> QED BY <1>2, <1>3, <1>4, Zenon DEF StarSegment

(* The suffix behind a star.                                                  *)
LEMMA StarTail ==
  ASSUME NEW C, NEW t \in Seq(C), t # <<>>, NEW f, f = <<"/">> \o t
  PROVE  Len(f) = Len(t) + 1 /\ f[2] = t[1] /\ SubSeq(f, 3, Len(f)) = Tail(t)
<1>1. /\ Tail(t) \in Seq(C) /\ Len(t) \in Nat /\ Len(t) # 0 /\ Len(Tail(t)) = Len(t) - 1
      /\ \A m \in 1..Len(t) - 1 : Tail(t)[m] = t[m + 1]
  BY TailHolds
<1>2. PICK D : "/" \in D /\ t \in Seq(D) /\ Tail(t) \in Seq(D)
  <2> DEFINE D == C \cup {"/"}
  <2>1. C \subseteq D /\ "/" \in D
    OBVIOUS
  <2> HIDE DEF D
  <2> QED BY <1>1, <2>1, SeqLarger
<1>3. f \in Seq(D) /\ Len(f) = Len(t) + 1 /\ \A m \in 1..Len(t) : f[m + 1] = t[m]
  <2>1. <<"/">> \in Seq(D) /\ Len(<<"/">>) = 1
    BY <1>2
  <2> DEFINE h == <<"/">>
  <2> HIDE DEF h
  <2>2. h \in Seq(D) /\ Len(h) = 1 /\ f = h \o t
    BY <2>1 DEF h
  <2>3. f \in Seq(D)
    BY ONLY <1>2, <2>2, ConcatProperties
  <2>4. Len(f) = Len(t) + 1
    <3>1. IsList(h) /\ IsList(t)
      BY <1>2, <2>2 DEF IsList
    <3>2. Len(h \o t) = Len(h) + Len(t)
      BY <3>1, ListJoin, Zenon
    <3> QED BY ONLY <1>1, <2>2, <3>2
  <2>5. \A m \in 1..Len(t) : (h \o t)[Len(h) + m] = t[m]
    <3>1. IsList(h) /\ IsList(t)
      BY <1>2, <2>2 DEF IsList
    <3> QED BY ONLY <3>1, ListJoin
  <2>6. \A m \in 1..Len(t) : 1 + m = m + 1
    BY <1>1
  <2> QED BY <2>2, <2>3, <2>4, <2>5, <2>6, Zenon
<1>4. f[2] = t[1]
  <2>1. 1 \in 1..Len(t) /\ 1 + 1 = 2
    BY ONLY <1>1
  <2> QED BY <1>3, <2>1, Zenon
<1> DEFINE e == SubSeq(f, 3, Len(f))
<1>5. PICK l \in Nat : l = Len(t)
  BY <1>1
<1>6. e \in Seq(D) /\ Len(e) = l - 1 /\ \A m \in 1..l - 1 : e[m] = f[3 + m - 1]
  <2>1. /\ 3 \in Nat /\ 3 # 0 /\ Len(f) \in Nat /\ Len(f) <= Len(f) /\ 3 <= Len(f) + 1
        /\ (Len(f) - 3) + 1 = l - 1
    BY ONLY <1>1, <1>3, <1>5
  <2>2. e \in Seq(D) /\ Len(e) = (Len(f) - 3) + 1 /\ \A m \in 1..(Len(f) - 3) + 1 : e[m] = f[3 + m - 1]
    BY ONLY <1>3, <2>1, PartIs
  <2> QED BY <2>1, <2>2, Zenon
<1> HIDE DEF e
<1>7. ASSUME NEW m \in 1..l - 1 PROVE e[m] = Tail(t)[m]
  <2>1. 3 + m - 1 = (m + 1) + 1 /\ m + 1 \in 1..l
    OBVIOUS
  <2> QED BY <1>1, <1>3, <1>5, <1>6, <2>1, Zenon
<1>8. e = Tail(t)
  BY ONLY <1>1, <1>2, <1>5, <1>6, <1>7, SameParts
<1> QED BY <1>3, <1>4, <1>8, Zenon DEF e

(* A pattern with a place where its segments are legal.                       *)
Legal(C, p, s, b, i) ==
  /\ IsCut(C, p, s, b) /\ i \in 2..Len(s)
  /\ LegalPatternAt(s, i)

(* What its segments are, and where they begin.                               *)
LEMMA LegalFacts ==
  ASSUME NEW C, NEW p, NEW s, NEW b, NEW i, Legal(C, p, s, b, i)
  PROVE  /\ IsCut(C, p, s, b) /\ i \in 2..Len(s)
         /\ Len(s[1]) = 0 /\ b[2] = 2 /\ p[1] = "/" /\ Len(p) # 0
         /\ s[i] = <<"*", "*">> /\ Len(s[i]) = 2 /\ s[i][1] = "*" /\ s[i][2] = "*"
         /\ b[i + 1] = b[i] + 3 /\ b[i] \in Nat /\ 2 <= b[i]
         /\ \A k \in 2..i - 1 : Plain(s[k])
         /\ \/ \A k \in i + 1..Len(s) : Plain(s[k])
            \/ Len(s) = i + 1 /\ StarSegment(s[i + 1])
         /\ \A k \in 2..Len(s) : Len(s[k]) # 0
<1>1. /\ IsCut(C, p, s, b) /\ i \in 2..Len(s)
      /\ s[1] = <<>> /\ s[i] = <<"*", "*">>
      /\ \A k \in 2..i - 1 : Plain(s[k])
      /\ \/ \A k \in i + 1..Len(s) : Plain(s[k])
         \/ Len(s) = i + 1 /\ StarSegment(s[i + 1])
  BY Zenon DEF Legal, LegalPatternAt
<1>2. /\ p \in Seq(C) /\ Len(p) \in Nat /\ Len(s) \in Nat /\ b[1] = 1
      /\ \A k \in 2..Len(s) : p[b[k] - 1] = "/"
      /\ \A k \in 1..Len(s) :
           /\ s[k] \in Seq(C) /\ Len(s[k]) \in Nat /\ b[k] \in Nat
           /\ b[k + 1] = b[k] + Len(s[k]) + 1
  <2>1. CutIs(C, p, s, b)
    BY <1>1, CutFacts, Zenon
  <2> QED BY <2>1, Zenon DEF CutIs
<1>3. /\ i \in Nat /\ i \in 1..Len(s) /\ 1 \in 1..Len(s) /\ 2 \in 2..Len(s) /\ 2 <= i /\ 1 + 1 = 2
      /\ 2 \in 1..Len(s) + 1 /\ i \in 2..Len(s) + 1
  BY ONLY <1>1, <1>2
<1>4. Len(s[1]) = 0 /\ Len(s[i]) = 2 /\ s[i][1] = "*" /\ s[i][2] = "*"
  BY ONLY <1>1
<1>5. b[2] = 2
  <2>1. b[1 + 1] = b[1] + Len(s[1]) + 1
    BY <1>2, <1>3, Zenon
  <2> QED BY ONLY <1>2, <1>3, <1>4, <2>1
<1>6. p[1] = "/"
  <2>1. b[2] - 1 = 1
    BY ONLY <1>5
  <2> QED BY <1>2, <1>3, <2>1, Zenon
<1>7. b[i] \in Nat /\ 2 <= b[i] /\ b[i + 1] = b[i] + 3
  <2>1. b[2] <= b[i]
    BY <1>1, <1>3, CutOrder, Zenon
  <2>2. b[i] \in Nat /\ b[i + 1] = b[i] + Len(s[i]) + 1
    BY <1>2, <1>3, Zenon
  <2> QED BY ONLY <1>4, <1>5, <2>1, <2>2
<1>8. ASSUME NEW k \in 2..Len(s) PROVE Len(s[k]) # 0
  <2>1. k \in 1..Len(s) /\ (k = i \/ k \in 2..i - 1 \/ (k \in i + 1..Len(s)))
    BY ONLY <1>2, <1>3, k \in 2..Len(s)
  <2>2. s[k] \in Seq(C)
    BY <1>2, <2>1, Zenon
  <2>3. s[k] # <<>>
    <3>1. CASE k = i
      BY <1>4, <3>1
    <3>2. CASE Plain(s[k])
      BY <3>2 DEF Plain
    <3>3. CASE Len(s) = i + 1 /\ StarSegment(s[i + 1]) /\ k \in i + 1..Len(s)
      <4>1. k = i + 1
        BY ONLY <1>3, <3>3
      <4> QED BY <3>3, <4>1, Zenon DEF StarSegment
    <3> QED BY <1>1, <2>1, <3>1, <3>2, <3>3, Zenon
  <2> QED BY <2>2, <2>3, EmptyIs
<1>9. Len(p) # 0
  <2>1. b[Len(s) + 1] = Len(p) + 2 /\ b[i + 1] <= b[Len(s) + 1]
    <3>1. i + 1 \in 1..Len(s) + 1 /\ Len(s) + 1 \in (i + 1)..Len(s) + 1
      BY ONLY <1>2, <1>3
    <3>2. b[i + 1] <= b[Len(s) + 1]
      BY <1>1, <3>1, CutOrder, Zenon
    <3>3. b[Len(s) + 1] = Len(p) + 2
      <4>1. CutIs(C, p, s, b)
        BY <1>1, CutFacts, Zenon
      <4> QED BY <4>1, Zenon DEF CutIs
    <3> QED BY <3>2, <3>3
  <2> QED BY ONLY <1>2, <1>7, <2>1
<1> QED BY <1>1, <1>4, <1>5, <1>6, <1>7, <1>8, <1>9, Zenon

(* The stars of the globstar are the only ones that could be one.             *)
LEMMA LegalStars ==
  ASSUME NEW C, NEW p, NEW s, NEW b, NEW i, Legal(C, p, s, b, i)
  PROVE  /\ b[i] \in GlobStars(p) /\ GlobStars(p) \subseteq {b[i], b[i] + 1}
         /\ Min(GlobStars(p)) = b[i] /\ b[i] + 1 <= Len(p)
<1>1. /\ IsCut(C, p, s, b) /\ i \in 2..Len(s)
      /\ Len(s[1]) = 0 /\ Len(s[i]) = 2 /\ s[i][1] = "*" /\ s[i][2] = "*"
      /\ b[i + 1] = b[i] + 3 /\ b[i] \in Nat /\ 2 <= b[i]
      /\ \A k \in 2..i - 1 : Plain(s[k])
      /\ \/ \A k \in i + 1..Len(s) : Plain(s[k])
         \/ Len(s) = i + 1 /\ StarSegment(s[i + 1])
      /\ \A k \in 2..Len(s) : Len(s[k]) # 0
  BY LegalFacts
<1>2. /\ p \in Seq(C) /\ Len(p) \in Nat /\ Len(s) \in Nat /\ b[Len(s) + 1] = Len(p) + 2
      /\ \A k \in 1..Len(s) :
           /\ s[k] \in Seq(C) /\ Len(s[k]) \in Nat /\ b[k] \in Nat
           /\ b[k + 1] = b[k] + Len(s[k]) + 1
           /\ \A m \in 1..Len(s[k]) : s[k][m] = p[b[k] + m - 1] /\ s[k][m] # "/"
  <2>1. CutIs(C, p, s, b)
    BY <1>1, CutFacts, Zenon
  <2> QED BY <2>1, Zenon DEF CutIs
<1>3. i \in Nat /\ i \in 1..Len(s) /\ 2 <= i
  BY ONLY <1>1, <1>2
<1>4. b[i] + 1 <= Len(p)
  <2>1. i + 1 \in 1..Len(s) + 1 /\ Len(s) + 1 \in (i + 1)..Len(s) + 1
    BY ONLY <1>2, <1>3
  <2>2. b[i + 1] <= b[Len(s) + 1]
    BY <1>1, <2>1, CutOrder, Zenon
  <2> QED BY ONLY <1>1, <1>2, <2>2
<1>5. p[b[i]] = "*" /\ p[b[i] + 1] = "*"
  <2>1. 1 \in 1..2 /\ 2 \in 1..2 /\ b[i] + 1 - 1 = b[i] /\ b[i] + 2 - 1 = b[i] + 1
    BY ONLY <1>1
  <2>2. s[i][1] = p[b[i] + 1 - 1] /\ s[i][2] = p[b[i] + 2 - 1]
    BY <1>1, <1>2, <1>3, <2>1, Zenon
  <2> QED BY <1>1, <2>1, <2>2, Zenon
<1>6. b[i] \in 1..Len(p) - 1
  <2>1. b[i] \in Nat /\ 2 <= b[i] /\ Len(p) \in Nat
    BY <1>1, <1>2, Zenon
  <2> QED BY ONLY <1>4, <2>1
<1>7. b[i] \in GlobStars(p)
  BY <1>5, <1>6 DEF GlobStars
<1>8. ASSUME NEW j \in GlobStars(p) PROVE j = b[i] \/ j = b[i] + 1
  <2>1. j \in 1..Len(p) - 1 /\ p[j] = "*" /\ p[j + 1] = "*"
    BY Zenon DEF GlobStars
  <2>2. j \in 1..Len(p) /\ p[j] # "/"
    BY <1>2, <2>1
  <2>3. PICK k \in 1..Len(s) : \E m \in 1..Len(s[k]) : j = b[k] + m - 1 /\ s[k][m] = p[j]
    <3>1. IsCut(C, p, s, b)
      BY <1>1
    <3>2. PICK x \in 1..Len(p) : x = j
      BY <2>2
    <3>3. p[x] # "/"
      BY <2>2, <3>2
    <3>4. \E k \in 1..Len(s) : \E m \in 1..Len(s[k]) : x = b[k] + m - 1 /\ s[k][m] = p[x]
      BY ONLY <3>1, <3>3, x \in 1..Len(p), CutAt
    <3> QED BY <3>2, <3>4, Zenon
  <2>4. PICK m \in 1..Len(s[k]) : j = b[k] + m - 1 /\ s[k][m] = p[j]
    BY <2>3, Zenon
  <2>5. /\ s[k] \in Seq(C) /\ Len(s[k]) \in Nat /\ b[k] \in Nat
        /\ b[k + 1] = b[k] + Len(s[k]) + 1
        /\ \A n \in 1..Len(s[k]) : s[k][n] = p[b[k] + n - 1]
    BY <1>2, Zenon
  <2>6. s[k][m] = "*" /\ "*" \in ToSet(s[k])
    <3>1. s[k][m] = "*"
      BY <2>1, <2>4
    <3> QED BY <2>5, <3>1, ToSetHolds, Zenon
  <2>7. ~ Plain(s[k])
    BY <2>6, PlainIs, Zenon
  <2>8. k # 1
    <3> SUFFICES ASSUME k = 1 PROVE FALSE
      OBVIOUS
    <3>1. m \in 1..0
      BY <1>1
    <3> QED BY <3>1
  <2>9. k = i \/ k \in 2..i - 1 \/ (k \in i + 1..Len(s))
    BY ONLY <1>2, <1>3, <2>8, k \in 1..Len(s)
  <2>10. CASE k = i
    <3>1. m \in 1..2
      BY <1>1, <2>10
    <3>2. j = b[i] + m - 1
      BY <2>4, <2>10
    <3> QED BY ONLY <1>1, <3>1, <3>2
  <2>11. CASE k \in 2..i - 1
    BY <1>1, <2>7, <2>11
  <2>12. CASE k \in i + 1..Len(s)
    <3>1. Len(s) = i + 1 /\ StarSegment(s[i + 1])
      BY <1>1, <2>7, <2>12
    <3>2. k = i + 1 /\ k = Len(s)
      BY ONLY <1>2, <1>3, <2>12, <3>1
    <3>3. s[k] # <<>> /\ StarSegment(s[k])
      BY <3>1, <3>2, Zenon DEF StarSegment
    <3>4. \A n \in 2..Len(s[k]) : s[k][n] # "*" /\ s[k][n] # "?"
      BY <2>5, <3>3, StarIs, Zenon
    <3>5. m = 1
      <4> SUFFICES ASSUME m # 1 PROVE FALSE
        OBVIOUS
      <4>1. m \in 2..Len(s[k])
        BY <2>5
      <4> QED BY <2>6, <3>4, <4>1, Zenon
    <3>6. j = b[k] /\ j + 1 = b[k] + 2 - 1
      BY ONLY <2>4, <2>5, <3>5
    <3>7. 2 \in 1..Len(s[k])
      <4>1. b[k] + Len(s[k]) + 1 = Len(p) + 2
        BY <1>2, <2>5, <3>2
      <4>2. j + 1 <= Len(p)
        BY ONLY <1>2, <2>1
      <4>3. PICK r \in Nat, l \in Nat, N \in Nat : r = b[k] /\ l = Len(s[k]) /\ N = Len(p)
        BY <1>2, <2>5
      <4>4. r + l + 1 = N + 2 /\ j + 1 <= N /\ j = r
        BY <3>6, <4>1, <4>2, <4>3
      <4>5. 2 \in 1..l
        BY ONLY <4>4, r \in Nat, l \in Nat, N \in Nat
      <4> QED BY <4>3, <4>5
    <3>8. s[k][2] = p[j + 1]
      BY <2>5, <3>6, <3>7, Zenon
    <3>9. 2 \in 2..Len(s[k])
      BY ONLY <2>5, <3>7
    <3> QED BY <2>1, <3>4, <3>8, <3>9, Zenon
  <2> QED BY <2>9, <2>10, <2>11, <2>12
<1>9. GlobStars(p) \subseteq Nat /\ \A j \in GlobStars(p) : b[i] <= j
  <2>1. b[i] <= b[i] /\ b[i] <= b[i] + 1 /\ b[i] + 1 \in Nat
    BY ONLY <1>1
  <2>2. ASSUME NEW j \in GlobStars(p) PROVE j \in Nat /\ b[i] <= j
    BY <1>1, <1>8, <2>1
  <2> QED BY <2>2
<1>10. Min(GlobStars(p)) = b[i]
  BY <1>7, <1>9, MinIs, Zenon
<1> QED BY <1>4, <1>7, <1>8, <1>10

(* Where a part opens with the slash of a segment.                            *)
LEMMA OpensFrom ==
  ASSUME NEW C, NEW p, NEW s, NEW b, IsCut(C, p, s, b), NEW x \in 2..Len(s), NEW y \in Nat,
         x <= y + 1, y <= Len(s), NEW hi \in Nat, hi \in {b[y + 1] - 2, b[y + 1] - 1},
         hi <= Len(p), b[x] - 1 <= hi
  PROVE  /\ Opens(C, p, s, b, x, y, b[x] - 1, hi) /\ Covers(C, p, s, b, x, y, b[x] - 1, hi)
         /\ b[x] - 1 \in Nat /\ b[x] - 1 # 0
<1>1. Len(s) \in Nat /\ Len(p) \in Nat /\ b[1] = 1
      /\ \A k \in 1..Len(s) : Len(s[k]) \in Nat /\ b[k] \in Nat /\ b[k + 1] = b[k] + Len(s[k]) + 1
  <2>1. CutIs(C, p, s, b)
    BY CutFacts, Zenon
  <2> QED BY <2>1, Zenon DEF CutIs
<1>2. b[x] \in Nat /\ 2 <= b[x]
  <2>1. 1 \in 1..Len(s) /\ 2 \in 1..Len(s) + 1 /\ x \in 2..Len(s) + 1 /\ 1 + 1 = 2
        /\ x \in 1..Len(s)
    BY ONLY <1>1, x \in 2..Len(s)
  <2>2. b[2] <= b[x] /\ b[2] \in Nat
    BY <2>1, CutOrder, Zenon
  <2>3. b[2] = 1 + Len(s[1]) + 1 /\ Len(s[1]) \in Nat /\ b[x] \in Nat
    BY <1>1, <2>1, Zenon
  <2> QED BY ONLY <2>2, <2>3
<1> DEFINE lo == b[x] - 1
<1>3. lo \in Nat /\ lo # 0 /\ lo <= hi /\ lo <= hi + 1 /\ lo \in {lo, b[x]}
  BY ONLY <1>2, hi \in Nat, b[x] - 1 <= hi
<1>4. x \in 1..Len(s) + 1 /\ x # 1
  BY ONLY <1>1, x \in 2..Len(s)
<1>5. Covers(C, p, s, b, x, y, lo, hi)
  <2>1. lo \in {b[x] - 1, b[x]}
    OBVIOUS
  <2> HIDE DEF lo
  <2> QED BY <1>3, <1>4, <2>1, Zenon DEF Covers
<1>6. Opens(C, p, s, b, x, y, lo, hi)
  <2>1. lo = b[x] - 1
    OBVIOUS
  <2> HIDE DEF lo
  <2> QED BY <1>3, <1>4, <1>5, <2>1, Zenon DEF Opens
<1> QED BY <1>3, <1>5, <1>6, Zenon DEF lo

(* A prefix passes its checks, and is the one that is meant.                  *)
PrefixIsMeant(p, s, b, i) ==
  /\ CheckPatternPrefix(SubSeq(p, 1, b[i] - 1))
  /\ Path(SubSeq(s, 2, i - 1)) \o <<"/">> = SubSeq(p, 1, b[i] - 1)

(* The prefix of a legal pattern.                                             *)
LEMMA LegalPrefix ==
  ASSUME NEW C, NEW p, NEW s, NEW b, NEW i, Legal(C, p, s, b, i)
  PROVE  PrefixIsMeant(p, s, b, i)
<1>1. /\ IsCut(C, p, s, b) /\ i \in 2..Len(s)
      /\ b[2] = 2 /\ b[i] \in Nat /\ 2 <= b[i] /\ \A k \in 2..i - 1 : Plain(s[k])
  BY LegalFacts
<1>2. /\ p \in Seq(C) /\ Len(p) \in Nat /\ Len(s) \in Nat /\ p[b[i] - 1] = "/"
  <2>1. CutIs(C, p, s, b)
    BY <1>1, CutFacts, Zenon
  <2>2. /\ p \in Seq(C) /\ Len(p) \in Nat /\ Len(s) \in Nat
        /\ \A k \in 2..Len(s) : p[b[k] - 1] = "/"
    BY <2>1, Zenon DEF CutIs
  <2> QED BY <1>1, <2>2, Zenon
<1>3. b[i] + 1 <= Len(p)
  BY LegalStars
<1>4. /\ i - 1 \in Nat /\ 2 <= (i - 1) + 1 /\ i - 1 <= Len(s) /\ 2 \in 2..Len(s) /\ (i - 1) + 1 = i
      /\ b[i] - 1 \in Nat /\ b[i] - 1 <= Len(p) /\ 1 <= b[i] - 1 /\ b[i] - 1 # 0
      /\ 2 \in 2..Len(s) + 1
  BY ONLY <1>1, <1>2, <1>3
<1> DEFINE hi == b[i] - 1
<1>5. /\ Opens(C, p, s, b, 2, i - 1, 1, hi) /\ Covers(C, p, s, b, 2, i - 1, 1, hi)
  <2>1. hi \in {b[(i - 1) + 1] - 2, b[(i - 1) + 1] - 1} /\ hi \in Nat /\ hi <= Len(p)
    BY <1>4
  <2>2. b[2] - 1 = 1 /\ 1 <= hi
    BY <1>1, <1>4
  <2> HIDE DEF hi
  <2>3. b[2] - 1 <= hi
    BY <2>2
  <2>4. /\ Opens(C, p, s, b, 2, i - 1, b[2] - 1, hi) /\ Covers(C, p, s, b, 2, i - 1, b[2] - 1, hi)
    BY <1>1, <1>4, <2>1, <2>3, OpensFrom, Zenon
  <2> QED BY <2>2, <2>4
<1>6. "*" \notin ToSet(SubSeq(p, 1, hi))
  <2> HIDE DEF hi
  <2>1. \A k \in 2..i - 1 : "*" \notin ToSet(s[k])
    BY <1>1, PlainIs, Zenon
  <2>2. "*" # "/"
    OBVIOUS
  <2>3. "*" \in ToSet(SubSeq(p, 1, hi)) <=> \E k \in 2..i - 1 : "*" \in ToSet(s[k])
    BY ONLY <1>5, <2>2, CharsIn
  <2> QED BY <2>1, <2>3, Zenon
<1>7. CheckNoSpecialComponents(SubSeq(p, 1, hi))
  <2>1. hi = b[(i - 1) + 1] - 1
    BY <1>4
  <2> HIDE DEF hi
  <2>2. CheckNoSpecialComponents(SubSeq(p, 1, hi)) <=> \A k \in 2..i - 1 : s[k] \notin Special
    BY ONLY <1>5, <2>1, NoneSpecial
  <2> QED BY <1>1, <2>2, PlainIs, Zenon
<1>8. Path(SubSeq(s, 2, i - 1)) = SubSeq(p, 1, b[i] - 2)
  <2>1. Path(SubSeq(s, 2, i - 1)) = SubSeq(p, b[2] - 1, b[(i - 1) + 1] - 2)
    <3>1. PICK x \in 2..Len(s) + 1, y \in Nat : x = 2 /\ y = i - 1
      BY <1>4
    <3>2. x <= y + 1 /\ y <= Len(s)
      BY <1>4, <3>1
    <3>3. Path(SubSeq(s, x, y)) = SubSeq(p, b[x] - 1, b[y + 1] - 2)
      BY <1>1, <3>2, PathIs
    <3> QED BY <3>1, <3>3
  <2>2. b[2] - 1 = 1
    BY <1>1
  <2> QED BY <1>4, <2>1, <2>2, Zenon
<1>9. SubSeq(p, 1, hi) = SubSeq(p, 1, b[i] - 2) \o <<"/">>
  <2>1. 1 \in 1..Len(p) /\ hi \in 1..Len(p) /\ hi - 1 = b[i] - 2
    BY <1>1, <1>2, <1>4
  <2>2. p[hi] = "/"
    BY <1>2
  <2> HIDE DEF hi
  <2>3. SubSeq(p, 1, hi) = SubSeq(p, 1, hi - 1) \o <<p[hi]>>
    BY <1>2, <2>1, SubSeqRecursiveSecond, Zenon
  <2> QED BY <2>1, <2>2, <2>3, Zenon
<1> QED BY <1>6, <1>7, <1>8, <1>9, Zenon DEF CheckPatternPrefix, PrefixIsMeant

(* What the whole of a legal pattern has to be.                               *)
LEMMA LegalWhole ==
  ASSUME NEW C, NEW p, NEW s, NEW b, NEW i, Legal(C, p, s, b, i)
  PROVE  CheckPatternAbsolute(p) /\ CheckNoTrailingSlash(p) /\ CheckNoUnsupportedMetaChars(p)
<1>1. /\ IsCut(C, p, s, b) /\ i \in 2..Len(s)
      /\ Len(s[1]) = 0 /\ p[1] = "/" /\ Len(p) # 0 /\ s[i] = <<"*", "*">>
      /\ \A k \in 2..i - 1 : Plain(s[k])
      /\ \/ \A k \in i + 1..Len(s) : Plain(s[k])
         \/ Len(s) = i + 1 /\ StarSegment(s[i + 1])
      /\ \A k \in 2..Len(s) : Len(s[k]) # 0
  BY LegalFacts
<1>2. /\ p \in Seq(C) /\ Len(p) \in Nat /\ Len(s) \in Nat /\ b[1] = 1 /\ b[Len(s) + 1] = Len(p) + 2
      /\ \A k \in 1..Len(s) :
           /\ s[k] \in Seq(C) /\ Len(s[k]) \in Nat /\ b[k] \in Nat
           /\ b[k + 1] = b[k] + Len(s[k]) + 1
           /\ \A m \in 1..Len(s[k]) : s[k][m] = p[b[k] + m - 1] /\ s[k][m] # "/"
  <2>1. CutIs(C, p, s, b)
    BY <1>1, CutFacts, Zenon
  <2> QED BY <2>1, Zenon DEF CutIs
<1>3. i \in Nat /\ 2 <= i /\ Len(s) \in 2..Len(s) /\ Len(s) \in 1..Len(s) /\ 1 \in 1..Len(s) + 1
  BY ONLY <1>1, <1>2
<1>4. p # <<>>
  BY <1>1, <1>2, EmptyIs
<1>5. Last(p) # "/"
  <2> DEFINE N == Len(s)
  <2>1. /\ Len(s[N]) \in Nat /\ Len(s[N]) # 0 /\ b[N] \in Nat /\ b[N] + Len(s[N]) + 1 = Len(p) + 2
        /\ \A m \in 1..Len(s[N]) : s[N][m] = p[b[N] + m - 1] /\ s[N][m] # "/"
    BY <1>1, <1>2, <1>3
  <2> HIDE DEF N
  <2>2. Len(s[N]) \in 1..Len(s[N]) /\ b[N] + Len(s[N]) - 1 = Len(p)
    <3>1. PICK l \in Nat, t \in Nat, L \in Nat : l = Len(s[N]) /\ t = b[N] /\ L = Len(p)
      BY <1>2, <2>1
    <3>2. l # 0 /\ t + l + 1 = L + 2
      BY <2>1, <3>1
    <3>3. l \in 1..l /\ t + l - 1 = L
      BY ONLY <3>2, l \in Nat, t \in Nat, L \in Nat
    <3> QED BY <3>1, <3>3
  <2>3. p[Len(p)] # "/"
    BY <2>1, <2>2, Zenon
  <2> QED BY <2>3 DEF Last
<1>6. "?" \notin ToSet(p)
  <2>1. ASSUME NEW k \in 1..Len(s) PROVE "?" \notin ToSet(s[k])
    <3>1. s[k] \in Seq(C) /\ Len(s[k]) \in Nat
      BY <1>2, Zenon
    <3>2. k = 1 \/ k = i \/ k \in 2..i - 1 \/ (k \in i + 1..Len(s))
      BY ONLY <1>2, <1>3, k \in 1..Len(s)
    <3>3. CASE k = 1
      <4>1. DOMAIN s[k] = {}
        BY <1>1, <3>1, <3>3
      <4> QED BY <4>1 DEF ToSet
    <3>4. CASE k = i
      <4>1. ToSet(<<"*", "*">>) = {"*"}
        BY DEF ToSet
      <4> QED BY <1>1, <3>4, <4>1
    <3>5. CASE Plain(s[k])
      BY <3>5, PlainIs, Zenon
    <3>6. CASE k \in i + 1..Len(s) /\ Len(s) = i + 1 /\ StarSegment(s[i + 1])
      <4>1. k = i + 1
        BY ONLY <1>3, <3>6
      <4>2. s[k] # <<>> /\ StarSegment(s[k])
        BY <3>6, <4>1, Zenon DEF StarSegment
      <4>3. s[k][1] = "*" /\ \A m \in 2..Len(s[k]) : s[k][m] # "?"
        BY <3>1, <4>2, StarIs, Zenon
      <4> SUFFICES ASSUME "?" \in ToSet(s[k]) PROVE FALSE
        OBVIOUS
      <4>4. PICK m \in 1..Len(s[k]) : s[k][m] = "?"
        BY <3>1, ToSetHolds, Zenon
      <4>5. m # 1
        BY <4>3, <4>4
      <4>6. m \in 2..Len(s[k])
        BY ONLY <3>1, <4>5, m \in 1..Len(s[k])
      <4> QED BY <4>3, <4>4, <4>6, Zenon
    <3> QED BY <1>1, <3>2, <3>3, <3>4, <3>5, <3>6, Zenon
  <2> SUFFICES ASSUME "?" \in ToSet(p) PROVE FALSE
    OBVIOUS
  <2>2. PICK j \in 1..Len(p) : p[j] = "?"
    <3>1. p \in Seq(C)
      BY <1>2
    <3>2. \E j \in 1..Len(p) : p[j] = "?"
      BY <3>1, ToSetHolds, Zenon
    <3> QED BY <3>2, Zenon
  <2>3. p[j] # "/"
    BY <2>2
  <2>4. PICK k \in 1..Len(s) : \E m \in 1..Len(s[k]) : j = b[k] + m - 1 /\ s[k][m] = p[j]
    <3>1. IsCut(C, p, s, b)
      BY <1>1
    <3> QED BY ONLY <2>3, <3>1, j \in 1..Len(p), CutAt
  <2>5. "?" \in ToSet(s[k])
    BY <1>2, <2>2, <2>4, ToSetHolds, Zenon
  <2> QED BY <2>1, <2>5, Zenon
<1> QED BY <1>1, <1>4, <1>5, <1>6, Zenon
     DEF CheckPatternAbsolute, CheckNoTrailingSlash, CheckNoUnsupportedMetaChars

(* A suffix passes its checks, and the part of it that is kept is the meant.  *)
SuffixIsMeant(p, s, b, i, f) ==
  /\ b[i] + 2 <= Len(p) => p[b[i] + 2] = "/"
  /\ CheckPatternSuffix(f)
  /\ (IF StarLed(f) THEN SubSeq(f, 3, Len(f)) ELSE f) =
       (IF i < Len(s) /\ StarSegment(s[i + 1]) THEN Tail(s[i + 1])
        ELSE Path(SubSeq(s, i + 1, Len(s))))

(* The suffix of a legal pattern.                                             *)
LEMMA LegalSuffix ==
  ASSUME NEW C, NEW p, NEW s, NEW b, NEW i, Legal(C, p, s, b, i),
         NEW f, f = SubSeq(p, b[i] + 2, Len(p))
  PROVE  SuffixIsMeant(p, s, b, i, f)
<1>1. /\ IsCut(C, p, s, b) /\ i \in 2..Len(s)
      /\ b[i + 1] = b[i] + 3 /\ b[i] \in Nat /\ 2 <= b[i]
      /\ \/ \A k \in i + 1..Len(s) : Plain(s[k])
         \/ Len(s) = i + 1 /\ StarSegment(s[i + 1])
      /\ \A k \in 2..Len(s) : Len(s[k]) # 0
  BY LegalFacts
<1>2. IsCut(C, p, s, b)
  BY <1>1
<1>3. /\ p \in Seq(C) /\ Len(p) \in Nat /\ Len(s) \in Nat /\ b[Len(s) + 1] = Len(p) + 2
      /\ \A k \in 2..Len(s) : p[b[k] - 1] = "/"
  <2>1. CutIs(C, p, s, b)
    BY <1>2, CutFacts, Zenon
  <2> QED BY <2>1, Zenon DEF CutIs
<1>4. \A k \in 1..Len(s) :
           /\ s[k] \in Seq(C) /\ Len(s[k]) \in Nat /\ b[k] \in Nat
           /\ b[k + 1] = b[k] + Len(s[k]) + 1
           /\ \A m \in 1..Len(s[k]) : s[k][m] = p[b[k] + m - 1] /\ s[k][m] # "/"
  <2>1. CutIs(C, p, s, b)
    BY <1>2, CutFacts, Zenon
  <2> QED BY <2>1, Zenon DEF CutIs
<1>5. PICK N \in Nat, L \in Nat : N = Len(s) /\ L = Len(p)
  BY <1>3
<1>6. i \in Nat /\ 2 <= i /\ i <= N /\ b[i + 1] - 1 = b[i] + 2 /\ (L + 2) - 2 = L
  BY ONLY <1>1, <1>3, <1>5
<1>7. f = Path(SubSeq(s, i + 1, N))
  <2>1. PICK x \in 2..Len(s) + 1, y \in Nat : x = i + 1 /\ y = N
    BY <1>5, <1>6
  <2>2. x <= y + 1 /\ y <= Len(s)
    BY <1>5, <1>6, <2>1
  <2>3. Path(SubSeq(s, x, y)) = SubSeq(p, b[x] - 1, b[y + 1] - 2)
    BY <1>2, <2>2, PathIs
  <2>4. b[x] - 1 = b[i] + 2 /\ b[y + 1] - 2 = L
    BY <1>3, <1>5, <1>6, <2>1
  <2> QED BY <1>5, <2>1, <2>3, <2>4
<1>8. CASE i = N
  <2>1. L = b[i] + 1
    <3>1. b[i + 1] = L + 2
      BY <1>3, <1>5, <1>8
    <3> QED BY ONLY <1>1, <1>5, <3>1
  <2>2. f = <<>>
    <3>1. Len(p) < b[i] + 2 /\ b[i] + 2 \in Int /\ Len(p) \in Int
      BY ONLY <1>1, <1>5, <2>1
    <3> QED BY <3>1, SubSeqEmpty, Zenon
  <2>3. ~ StarLed(f) /\ "*" \notin ToSet(f)
    <3>1. Len(f) = 0
      BY ONLY <2>2
    <3>2. ToSet(f) = {}
      BY ONLY <2>2 DEF ToSet
    <3>3. ~ (Len(f) >= 2)
      BY ONLY <3>1
    <3> QED BY <3>2, <3>3, Zenon DEF StarLed
  <2>4. CheckNoSpecialComponents(f)
    <3>1. 1..Len(f) - 1 = {} /\ 1..Len(f) = {}
      BY ONLY <2>2
    <3> QED BY <3>1, Zenon DEF CheckNoSpecialComponents
  <2>5. ~ (b[i] + 2 <= Len(p)) /\ ~ (i < Len(s))
    BY ONLY <1>1, <1>5, <1>6, <1>8, <2>1
  <2> QED BY <1>5, <1>7, <2>3, <2>4, <2>5, Zenon DEF CheckPatternSuffix, SuffixIsMeant
<1>9. CASE i # N
  <2>1. /\ i + 1 \in 1..Len(s) /\ i + 1 \in 2..Len(s) /\ i < Len(s)
        /\ N \in 1..Len(s) /\ N \in 2..Len(s) /\ i + 1 <= N
        /\ i + 2 \in 1..Len(s) + 1 /\ Len(s) + 1 \in (i + 2)..Len(s) + 1 /\ (i + 1) + 1 = i + 2
    BY ONLY <1>5, <1>6, <1>9
  <2>2. p[b[i] + 2] = "/"
    BY <1>3, <1>6, <2>1, Zenon
  <2>3. PICK t : t = s[i + 1]
    OBVIOUS
  <2>4. /\ t \in Seq(C) /\ Len(t) \in Nat /\ Len(t) # 0 /\ t # <<>> /\ b[i + 2] = b[i + 1] + Len(t) + 1
        /\ \A m \in 1..Len(t) : t[m] = p[b[i + 1] + m - 1] /\ t[m] # "/"
    <3>1. /\ t \in Seq(C) /\ Len(t) \in Nat /\ Len(t) # 0 /\ b[i + 2] = b[i + 1] + Len(t) + 1
          /\ \A m \in 1..Len(t) : t[m] = p[b[i + 1] + m - 1] /\ t[m] # "/"
      BY <1>1, <1>4, <2>1, <2>3, Zenon
    <3> QED BY <3>1, EmptyIs
  <2>5. b[i] + 3 <= L
    <3>1. b[i + 2] <= b[Len(s) + 1]
      BY <1>2, <2>1, CutOrder, Zenon
    <3>2. b[i] + 3 + Len(t) + 1 <= L + 2
      BY <1>1, <1>3, <1>5, <2>4, <3>1
    <3> QED BY ONLY <1>1, <2>4, <3>2, L \in Nat
  <2>6. /\ f \in Seq(C) /\ Len(f) \in Nat /\ 2 <= Len(f) /\ f[2] = t[1]
    <3>1. /\ b[i] + 2 \in Nat /\ b[i] + 2 # 0 /\ Len(p) \in Nat /\ Len(p) <= Len(p)
          /\ b[i] + 2 <= Len(p) + 1
      BY ONLY <1>1, <1>3, <1>5, <2>5
    <3>2. /\ f \in Seq(C) /\ Len(f) = (Len(p) - (b[i] + 2)) + 1
          /\ \A m \in 1..(Len(p) - (b[i] + 2)) + 1 : f[m] = p[(b[i] + 2) + m - 1]
      <4>1. f = SubSeq(p, b[i] + 2, Len(p))
        OBVIOUS
      <4>2. PICK lo \in Nat, hi \in Nat : lo = b[i] + 2 /\ hi = Len(p)
        BY <3>1
      <4>3. lo # 0 /\ hi <= Len(p) /\ lo <= hi + 1 /\ p \in Seq(C)
        BY <1>3, <3>1, <4>2
      <4>4. /\ SubSeq(p, lo, hi) \in Seq(C) /\ Len(SubSeq(p, lo, hi)) = (hi - lo) + 1
            /\ \A m \in 1..(hi - lo) + 1 : SubSeq(p, lo, hi)[m] = p[lo + m - 1]
        BY ONLY <4>3, lo \in Nat, hi \in Nat, PartIs
      <4> QED BY <4>1, <4>2, <4>4, Zenon
    <3>3. 2 \in 1..(Len(p) - (b[i] + 2)) + 1 /\ (b[i] + 2) + 2 - 1 = b[i + 1] + 1 - 1
          /\ Len(f) \in Nat /\ 2 <= Len(f)
      BY ONLY <1>1, <1>5, <2>5, <3>2
    <3>4. 1 \in 1..Len(t)
      BY ONLY <2>4
    <3> QED BY <2>4, <3>2, <3>3, <3>4, Zenon
  <2>7. CASE Len(s) = i + 1 /\ StarSegment(t)
    <3>1. t[1] = "*" /\ \A m \in 2..Len(t) : t[m] # "*" /\ t[m] # "?"
      BY <2>4, <2>7, StarIs, Zenon
    <3>2. StarLed(f)
      BY <2>6, <3>1 DEF StarLed
    <3>3. SubSeq(f, 3, Len(f)) = Tail(t)
      <4>1. f = <<"/">> \o t
        <5>1. <<"/">> \o s[i + 1] = SubSeq(p, b[i + 1] - 1, b[(i + 1) + 1] - 2)
          <6>1. PICK k \in 2..Len(s) : k = i + 1
            BY <2>1
          <6>2. <<"/">> \o s[k] = SubSeq(p, b[k] - 1, b[k + 1] - 2)
            <7>1. Slashed(p, s, b, k)
              BY <1>2, SlashAndSegment, Zenon
            <7> QED BY <7>1, Zenon DEF Slashed
          <6> QED BY <6>1, <6>2
        <5>2. b[(i + 1) + 1] - 2 = L
          BY <1>3, <1>5, <2>7
        <5> QED BY <1>5, <1>6, <2>3, <5>1, <5>2
      <4> QED BY <2>4, <4>1, StarTail, Zenon
    <3>4. {"/", "*"} \cap ToSet(Tail(t)) = {}
      <4>1. /\ Tail(t) \in Seq(C) /\ Len(Tail(t)) = Len(t) - 1
            /\ \A m \in 1..Len(t) - 1 : Tail(t)[m] = t[m + 1]
        BY ONLY <2>4, TailHolds
      <4>2. ASSUME NEW c, c \in ToSet(Tail(t)) PROVE c # "/" /\ c # "*"
        <5>1. PICK m \in 1..Len(t) - 1 : t[m + 1] = c
          <6>1. \E m \in 1..Len(Tail(t)) : Tail(t)[m] = c
            BY <4>1, <4>2, ToSetHolds, Zenon
          <6> QED BY <4>1, <6>1, Zenon
        <5>2. m + 1 \in 2..Len(t) /\ m + 1 \in 1..Len(t)
          BY ONLY <2>4, m \in 1..Len(t) - 1
        <5> QED BY <2>4, <3>1, <5>1, <5>2, Zenon
      <4> QED BY <4>2
    <3> QED BY <2>1, <2>2, <2>3, <2>7, <3>2, <3>3, <3>4, Zenon DEF CheckPatternSuffix, SuffixIsMeant
  <2>8. CASE \A k \in i + 1..Len(s) : Plain(s[k])
    <3>1. i + 1 \in i + 1..Len(s) /\ N \in i + 1..Len(s)
      BY ONLY <1>5, <1>6, <2>1
    <3>2. Plain(t) /\ "*" \notin ToSet(t)
      BY <2>3, <2>8, <3>1, PlainIs, Zenon
    <3>3. t[1] # "*"
      <4>1. 1 \in 1..Len(t)
        BY ONLY <2>4
      <4> QED BY <2>4, <3>2, <4>1, ToSetHolds, Zenon
    <3>4. ~ StarLed(f) /\ ~ StarSegment(t)
      BY <2>6, <3>3 DEF StarLed, StarSegment
    <3>5. PICK x \in 2..Len(s), y \in Nat, hi \in Nat : x = i + 1 /\ y = N /\ hi = L
      BY <2>1
    <3>6. x <= y + 1 /\ y <= Len(s) /\ hi \in {b[y + 1] - 2, b[y + 1] - 1} /\ hi <= Len(p)
          /\ b[x] - 1 <= hi
      <4>1. x <= y + 1 /\ y <= Len(s) /\ hi <= Len(p)
        BY ONLY <1>5, <2>1, <3>5
      <4>2. b[y + 1] - 2 = hi
        BY <1>3, <1>5, <3>5
      <4>3. b[x] - 1 <= hi
        BY <1>1, <1>6, <2>5, <3>5
      <4> QED BY <4>1, <4>2, <4>3
    <3>7. Opens(C, p, s, b, x, y, b[x] - 1, hi) /\ Covers(C, p, s, b, x, y, b[x] - 1, hi)
      BY <1>2, <3>6, OpensFrom
    <3>8. f = SubSeq(p, b[x] - 1, hi)
      BY <1>5, <1>6, <3>5
    <3>9. \A k \in x..y : s[k] \notin Special /\ "*" \notin ToSet(s[k])
      BY <1>5, <2>8, <3>5, PlainIs, Zenon
    <3>10. "*" \notin ToSet(f)
      <4>1. "*" # "/"
        OBVIOUS
      <4>2. "*" \in ToSet(SubSeq(p, b[x] - 1, hi)) <=> \E k \in x..y : "*" \in ToSet(s[k])
        BY ONLY <3>7, <4>1, CharsIn
      <4> QED BY <3>8, <3>9, <4>2, Zenon
    <3>11. CheckNoSpecialComponents(f)
      <4>1. x <= y /\ s[y] # <<>>
        <5>1. s[y] # <<>>
          BY <1>5, <3>1, <3>5, <2>8, Zenon DEF Plain
        <5> QED BY <2>1, <3>5, <5>1
      <4>2. CheckNoSpecialComponents(SubSeq(p, b[x] - 1, hi)) <=> \A k \in x..y : s[k] \notin Special
        BY ONLY <3>7, <4>1, NoneSpecial
      <4> QED BY <3>8, <3>9, <4>2, Zenon
    <3> QED BY <1>5, <1>7, <2>2, <2>3, <3>4, <3>10, <3>11, Zenon DEF CheckPatternSuffix, SuffixIsMeant
  <2> QED BY <1>1, <2>3, <2>7, <2>8
<1> QED BY <1>8, <1>9

(* A legal pattern is accepted, and understood.                               *)
LEMMA LegalAccepted ==
  ASSUME NEW C, NEW p, NEW s, NEW b, NEW i, Legal(C, p, s, b, i)
  PROVE  ParseFilePattern(p) = Meaning(s, i)
<1>1. /\ b[i] \in GlobStars(p) /\ GlobStars(p) \subseteq {b[i], b[i] + 1}
      /\ Min(GlobStars(p)) = b[i] /\ b[i] + 1 <= Len(p)
  BY LegalStars
<1>2. /\ IsCut(C, p, s, b) /\ i \in 2..Len(s) /\ b[i] \in Nat /\ 2 <= b[i]
  BY LegalFacts
<1>3. p[b[i] - 1] = "/"
  <2>1. CutIs(C, p, s, b)
    BY <1>2, CutFacts, Zenon
  <2>2. /\ p \in Seq(C) /\ Len(p) \in Nat /\ Len(s) \in Nat
        /\ \A k \in 2..Len(s) : p[b[k] - 1] = "/"
    BY <2>1, Zenon DEF CutIs
  <2> QED BY <1>2, <2>2, Zenon
<1>4. FindSingleGlobStar(p)
  <2>1. GlobStars(p) # {}
    BY <1>1
  <2>2. \A j \in GlobStars(p) : j < b[i] + 2
    BY <1>1, <1>2
  <2> QED BY <1>1, <2>1, <2>2, Zenon DEF FindSingleGlobStar
<1>11. PICK e, f : e = SubSeq(p, 1, b[i] - 1) /\ f = SubSeq(p, b[i] + 2, Len(p))
  OBVIOUS
<1>12. PICK r : r = IF StarLed(f) THEN SubSeq(f, 3, Len(f)) ELSE f
  OBVIOUS
<1>5. /\ b[i] + 2 <= Len(p) => p[b[i] + 2] = "/"
      /\ CheckPatternSuffix(f)
      /\ r = IF i < Len(s) /\ StarSegment(s[i + 1]) THEN Tail(s[i + 1])
             ELSE Path(SubSeq(s, i + 1, Len(s)))
  <2>1. SuffixIsMeant(p, s, b, i, f)
    BY <1>11, LegalSuffix, Zenon
  <2> QED BY <1>12, <2>1, Zenon DEF SuffixIsMeant
<1>6. CheckPatternPrefix(e) /\ Path(SubSeq(s, 2, i - 1)) \o <<"/">> = e
  <2>1. PrefixIsMeant(p, s, b, i)
    BY LegalPrefix, Zenon
  <2> QED BY <1>11, <2>1, Zenon DEF PrefixIsMeant
<1>7. CheckPatternAbsolute(p) /\ CheckNoTrailingSlash(p) /\ CheckNoUnsupportedMetaChars(p)
  BY LegalWhole, Zenon
<1>8. CheckGlobStarBoundaries(p, b[i])
  <2>1. b[i] > 1
    BY ONLY <1>2
  <2> QED BY <1>3, <1>5, <2>1, Zenon DEF CheckGlobStarBoundaries
<1>9. ParseFilePattern(p) = [ok |-> TRUE, prefix |-> e, suffix |-> r]
  BY <1>1, <1>4, <1>5, <1>6, <1>7, <1>8, <1>11, <1>12, Zenon DEF ParseFilePattern
<1>10. Meaning(s, i) = [ok |-> TRUE, prefix |-> e, suffix |-> r]
  BY <1>5, <1>6, Zenon DEF Meaning
<1> QED BY <1>9, <1>10, Zenon

(* What the parser asks of a pattern.                                         *)
Accepts(p) ==
  /\ CheckPatternAbsolute(p)
  /\ FindSingleGlobStar(p)
  /\ CheckGlobStarBoundaries(p, Min(GlobStars(p)))
  /\ CheckNoTrailingSlash(p)
  /\ CheckPatternSuffix(SubSeq(p, Min(GlobStars(p)) + 2, Len(p)))
  /\ CheckNoUnsupportedMetaChars(p)
  /\ CheckPatternPrefix(SubSeq(p, 1, Min(GlobStars(p)) - 1))

(* A segment that is the first two stars of a pattern.                        *)
IsGlobStar(p, s, b, i) == b[i] = Min(GlobStars(p)) /\ s[i] = <<"*", "*">>

(* A segment begins at the globstar of an accepted pattern, and is two stars. *)
LEMMA AcceptedStar ==
  ASSUME NEW C, NEW p, NEW s, NEW b, IsCut(C, p, s, b), Accepts(p)
  PROVE  \E i \in 2..Len(s) : IsGlobStar(p, s, b, i)
<1>1. /\ p \in Seq(C) /\ Len(p) \in Nat /\ Len(s) \in Nat /\ b[Len(s) + 1] = Len(p) + 2
      /\ \A k \in 2..Len(s) : p[b[k] - 1] = "/"
  <2>1. CutIs(C, p, s, b)
    BY CutFacts, Zenon
  <2> QED BY <2>1, Zenon DEF CutIs
<1>2. \A k \in 1..Len(s) :
           /\ s[k] \in Seq(C) /\ Len(s[k]) \in Nat /\ b[k] \in Nat
           /\ b[k + 1] = b[k] + Len(s[k]) + 1
           /\ \A m \in 1..Len(s[k]) : s[k][m] = p[b[k] + m - 1] /\ s[k][m] # "/"
  <2>1. CutIs(C, p, s, b)
    BY CutFacts, Zenon
  <2> QED BY <2>1, Zenon DEF CutIs
<1>3. PICK g \in GlobStars(p) : \A j \in GlobStars(p) : g <= j
  <2>1. GlobStars(p) # {}
    BY Zenon DEF Accepts, FindSingleGlobStar
  <2>2. GlobStars(p) \subseteq Nat
    BY DEF GlobStars
  <2> QED BY <2>1, <2>2, LeastNat, Zenon
<1>4. Min(GlobStars(p)) = g
  <2>1. GlobStars(p) \subseteq Nat
    BY DEF GlobStars
  <2> QED BY <1>3, <2>1, MinIs, Zenon
<1>5. g \in 1..Len(p) - 1 /\ p[g] = "*" /\ p[g + 1] = "*"
  BY Zenon DEF GlobStars
<1>6. /\ g > 1 /\ p[g - 1] = "/" /\ (g + 2 <= Len(p) => p[g + 2] = "/")
  BY <1>4, Zenon DEF Accepts, CheckGlobStarBoundaries
<1>7. g \in Nat /\ g - 1 \in 1..Len(p) /\ g + 1 <= Len(p)
  BY ONLY <1>1, <1>5, <1>6
<1>8. PICK i \in 2..Len(s) : g - 1 = b[i] - 1
  BY <1>6, <1>7, CutAt
<1>9. i \in 1..Len(s) /\ i + 1 \in 1..Len(s) + 1 /\ Len(s) + 1 \in (i + 1)..Len(s) + 1
  BY ONLY <1>1, <1>8
<1>10a. PICK t : t = s[i]
  OBVIOUS
<1>10b. Len(t) \in Nat
  BY <1>2, <1>9, <1>10a, Zenon
<1>10c. PICK l \in Nat : l = Len(t)
  BY <1>10b, Zenon
<1>10d. PICK L \in Nat : L = Len(p)
  BY <1>1, Zenon
<1>10. t = s[i] /\ l = Len(t) /\ L = Len(p)
  BY <1>10a, <1>10c, <1>10d
<1>11. /\ t \in Seq(C) /\ b[i] \in Nat /\ b[i + 1] = b[i] + l + 1
       /\ \A m \in 1..l : t[m] = p[b[i] + m - 1] /\ t[m] # "/"
  BY <1>2, <1>9, <1>10, Zenon
<1>12. b[i] = g
  BY ONLY <1>7, <1>8, <1>11
<1>13. g + l + 1 <= L + 2
  <2>1. b[i + 1] <= b[Len(s) + 1]
    BY <1>9, CutOrder, Zenon
  <2> QED BY <1>1, <1>10, <1>11, <1>12, <2>1
<1>14. g + l <= L => p[g + l] = "/"
  <2> SUFFICES ASSUME g + l <= L PROVE p[g + l] = "/"
    OBVIOUS
  <2>1. i # Len(s)
    <3> SUFFICES ASSUME i = Len(s) PROVE FALSE
      OBVIOUS
    <3>1. g + l + 1 = L + 2
      BY <1>1, <1>10, <1>11, <1>12
    <3> QED BY ONLY <3>1, g + l <= L, <1>7, l \in Nat, L \in Nat
  <2>2. i + 1 \in 2..Len(s)
    BY ONLY <1>1, <1>8, <2>1
  <2>3. b[i + 1] - 1 = g + l
    BY ONLY <1>7, <1>11, <1>12, l \in Nat
  <2> QED BY <1>1, <2>2, <2>3, Zenon
<1>15. l = 2
  <2>1. l # 0
    <3> SUFFICES ASSUME l = 0 PROVE FALSE
      OBVIOUS
    <3>1. g + l = g /\ g + l <= L
      BY <1>7, <1>10
    <3> QED BY <1>5, <1>14, <3>1
  <2>2. l # 1
    <3> SUFFICES ASSUME l = 1 PROVE FALSE
      OBVIOUS
    <3>1. g + l = g + 1 /\ g + l <= L
      BY <1>7, <1>10
    <3> QED BY <1>5, <1>14, <3>1
  <2>3. ~ (3 <= l)
    <3> SUFFICES ASSUME 3 <= l PROVE FALSE
      OBVIOUS
    <3>1. 3 \in 1..l /\ b[i] + 3 - 1 = g + 2 /\ g + 2 <= L
      BY ONLY <1>7, <1>12, <1>13, 3 <= l, l \in Nat, L \in Nat
    <3>2. t[3] = p[g + 2] /\ t[3] # "/"
      BY <1>11, <3>1, Zenon
    <3> QED BY <1>6, <1>10, <3>1, <3>2
  <2> QED BY ONLY <2>1, <2>2, <2>3, l \in Nat
<1>16. t[1] = "*" /\ t[2] = "*"
  <2>1. 1 \in 1..l /\ 2 \in 1..l /\ b[i] + 1 - 1 = g /\ b[i] + 2 - 1 = g + 1
    BY ONLY <1>7, <1>12, <1>15
  <2>2. t[1] = p[b[i] + 1 - 1] /\ t[2] = p[b[i] + 2 - 1]
    BY <1>11, <2>1, Zenon
  <2> QED BY <1>5, <2>1, <2>2, Zenon
<1>17. t = <<"*", "*">>
  <2>1. PICK u : u = <<"*", "*">>
    OBVIOUS
  <2>2. Len(u) = 2 /\ u[1] = "*" /\ u[2] = "*"
    BY ONLY <2>1
  <2>3. "*" \in C
    <3>1. 1 \in 1..Len(t)
      BY <1>10, <1>15
    <3>2. t[1] \in C
      BY ONLY <1>11, <3>1
    <3> QED BY <1>16, <3>2
  <2>4. u \in Seq(C)
    BY ONLY <2>1, <2>3
  <2>5. Len(t) = 2 /\ \A m \in 1..2 : m = 1 \/ m = 2
    BY <1>10, <1>15
  <2>6. \A m \in 1..2 : t[m] = u[m]
    BY <1>16, <2>2, <2>5, Zenon
  <2>7. t = u
    <3>1. t \in Seq(C) /\ Len(t) = Len(u)
      BY <1>11, <2>2, <2>5
    <3>2. \A m \in 1..Len(t) : t[m] = u[m]
      BY <2>5, <2>6, Zenon
    <3> QED BY ONLY <2>4, <3>1, <3>2, SameParts, Zenon
  <2> QED BY <2>1, <2>7
<1> QED BY <1>4, <1>10, <1>12, <1>17, Zenon DEF IsGlobStar

(* The segments of an accepted pattern before its globstar.                   *)
LEMMA AcceptedPrefix ==
  ASSUME NEW C, NEW p, NEW s, NEW b, IsCut(C, p, s, b), Accepts(p),
         NEW i \in 2..Len(s), b[i] = Min(GlobStars(p)), s[i] = <<"*", "*">>
  PROVE  /\ s[1] = <<>> /\ \A k \in 1..Len(s) : "?" \notin ToSet(s[k])
         /\ \A k \in 2..i - 1 : Plain(s[k])
<1>1. /\ p \in Seq(C) /\ Len(p) \in Nat /\ Len(s) \in Nat /\ b[Len(s) + 1] = Len(p) + 2
      /\ b[1] = 1
  <2>1. CutIs(C, p, s, b)
    BY CutFacts, Zenon
  <2> QED BY <2>1, Zenon DEF CutIs
<1>2. \A k \in 1..Len(s) :
           /\ s[k] \in Seq(C) /\ Len(s[k]) \in Nat /\ b[k] \in Nat
           /\ b[k + 1] = b[k] + Len(s[k]) + 1
           /\ \A m \in 1..Len(s[k]) : s[k][m] = p[b[k] + m - 1] /\ s[k][m] # "/"
  <2>1. CutIs(C, p, s, b)
    BY CutFacts, Zenon
  <2> QED BY <2>1, Zenon DEF CutIs
<1>3. /\ p # <<>> /\ p[1] = "/" /\ "?" \notin ToSet(p)
      /\ "*" \notin ToSet(SubSeq(p, 1, b[i] - 1))
      /\ CheckNoSpecialComponents(SubSeq(p, 1, b[i] - 1))
  BY Zenon DEF Accepts, CheckPatternAbsolute, CheckNoUnsupportedMetaChars, CheckPatternPrefix
<1>4. /\ i \in 1..Len(s) /\ 1 \in 1..Len(s) /\ 1 + 1 = 2 /\ i \in Nat /\ 2 <= i
      /\ i + 1 \in 1..Len(s) + 1 /\ Len(s) + 1 \in (i + 1)..Len(s) + 1
      /\ 2 \in 1..Len(s) + 1 /\ i \in 2..Len(s) + 1
  BY ONLY <1>1, i \in 2..Len(s)
<1>5. b[2] = 2 /\ Len(s[1]) = 0
  <2>1. 1 \in 1..Len(p)
    <3>1. Len(p) # 0
      BY <1>1, <1>3, EmptyIs
    <3> QED BY ONLY <1>1, <3>1
  <2>2. PICK k \in 2..Len(s) : 1 = b[k] - 1
    <3>1. PICK j \in 1..Len(p) : j = 1
      BY <2>1
    <3>2. IsCut(C, p, s, b) /\ p[j] = "/"
      BY <1>3, <3>1
    <3>3. \E k \in 2..Len(s) : j = b[k] - 1
      BY ONLY <3>2, CutAt, j \in 1..Len(p)
    <3> QED BY <3>1, <3>3
  <2>3. k \in 2..Len(s) + 1 /\ k \in 1..Len(s)
    BY ONLY <1>1, <2>2
  <2>4. b[2] <= b[k]
    BY <1>4, <2>3, CutOrder, Zenon
  <2>5. b[2] = 1 + Len(s[1]) + 1 /\ Len(s[1]) \in Nat /\ b[k] \in Nat
    BY <1>1, <1>2, <1>4, <2>3, Zenon
  <2> QED BY ONLY <2>2, <2>4, <2>5
<1>6. s[1] = <<>>
  BY <1>2, <1>4, <1>5, EmptyIs
<1>7. ASSUME NEW k \in 1..Len(s) PROVE "?" \notin ToSet(s[k])
  <2> SUFFICES ASSUME "?" \in ToSet(s[k]) PROVE FALSE
    OBVIOUS
  <2>1. /\ s[k] \in Seq(C) /\ Len(s[k]) \in Nat /\ b[k] \in Nat
        /\ b[k + 1] = b[k] + Len(s[k]) + 1
        /\ \A m \in 1..Len(s[k]) : s[k][m] = p[b[k] + m - 1]
    BY <1>2, Zenon
  <2>2. PICK m \in 1..Len(s[k]) : s[k][m] = "?"
    <3>1. \E m \in 1..Len(s[k]) : s[k][m] = "?"
      BY <2>1, ToSetHolds, Zenon
    <3> QED BY <3>1, Zenon
  <2>3. k + 1 \in 1..Len(s) + 1 /\ Len(s) + 1 \in (k + 1)..Len(s) + 1
        /\ 1 \in 1..Len(s) + 1 /\ k \in 1..Len(s) + 1
    BY ONLY <1>1, k \in 1..Len(s)
  <2>4. b[k + 1] <= Len(p) + 2 /\ 1 <= b[k]
    <3>1. b[k + 1] <= b[Len(s) + 1] /\ b[1] <= b[k]
      BY <2>3, CutOrder, Zenon
    <3> QED BY <1>1, <3>1
  <2>5. b[k] + m - 1 \in 1..Len(p)
    <3>1. PICK t \in Nat, l \in Nat, L \in Nat : t = b[k] /\ l = Len(s[k]) /\ L = Len(p)
      BY <1>1, <2>1
    <3>2. t + l + 1 <= L + 2 /\ 1 <= t /\ m \in 1..l
      BY <2>1, <2>4, <3>1
    <3>3. t + m - 1 \in 1..L
      BY ONLY <3>2, t \in Nat, l \in Nat, L \in Nat
    <3> QED BY <3>1, <3>3
  <2>6. p[b[k] + m - 1] = "?"
    BY <2>1, <2>2, Zenon
  <2>7. "?" \in ToSet(p)
    BY <1>1, <2>5, <2>6, ToSetHolds, Zenon
  <2> QED BY <1>3, <2>7
<1>8. ASSUME NEW k \in 2..i - 1 PROVE Plain(s[k])
  <2>1. PICK x \in 2..Len(s), y \in Nat, hi \in Nat : x = 2 /\ y = i - 1 /\ hi = b[i] - 1 /\ 1 <= hi
    <3>1. b[2] <= b[i] /\ b[i] \in Nat
      BY <1>2, <1>4, CutOrder, Zenon
    <3>2. b[i] - 1 \in Nat /\ 1 <= b[i] - 1 /\ i - 1 \in Nat /\ 2 \in 2..Len(s)
      BY ONLY <1>1, <1>4, <1>5, <3>1
    <3> QED BY <3>2
  <2>2. y + 1 = i /\ x <= y + 1 /\ y <= Len(s) /\ b[x] - 1 = 1
    BY <1>4, <1>5, <2>1
  <2>3. hi <= Len(p)
    <3>1. b[i + 1] <= b[Len(s) + 1] /\ b[i + 1] = b[i] + Len(s[i]) + 1 /\ Len(s[i]) \in Nat /\ b[i] \in Nat
      BY <1>2, <1>4, CutOrder, Zenon
    <3> QED BY ONLY <1>1, <2>1, <3>1
  <2>4. hi = b[y + 1] - 1 /\ hi \in {b[y + 1] - 2, b[y + 1] - 1} /\ b[x] - 1 <= hi
    BY <2>1, <2>2
  <2>5. Opens(C, p, s, b, x, y, b[x] - 1, hi) /\ Covers(C, p, s, b, x, y, b[x] - 1, hi)
    BY <2>2, <2>3, <2>4, OpensFrom
  <2>6. "*" # "/"
    OBVIOUS
  <2>7. "*" \in ToSet(SubSeq(p, b[x] - 1, hi)) <=> \E n \in x..y : "*" \in ToSet(s[n])
    BY ONLY <2>5, <2>6, CharsIn
  <2>8. CheckNoSpecialComponents(SubSeq(p, b[x] - 1, hi)) <=> \A n \in x..y : s[n] \notin Special
    BY ONLY <2>4, <2>5, NoneSpecial
  <2>9. SubSeq(p, b[x] - 1, hi) = SubSeq(p, 1, b[i] - 1)
    BY <2>1, <2>2
  <2>10. s[k] \notin Special /\ "*" \notin ToSet(s[k])
    <3>1. k \in x..y
      BY <2>1
    <3> QED BY <1>3, <2>7, <2>8, <2>9, <3>1, Zenon
  <2>11. k \in 1..Len(s)
    BY ONLY <1>1, <1>4, k \in 2..i - 1
  <2> QED BY <1>7, <2>10, <2>11, PlainIs, Zenon
<1> QED BY <1>6, <1>7, <1>8

(* What comes behind the globstar in a legal pattern.                         *)
LegalTail(s, i) ==
  \/ \A k \in i + 1..Len(s) : Plain(s[k])
  \/ Len(s) = i + 1 /\ StarSegment(s[i + 1])

(* The segments of an accepted pattern behind its globstar.                   *)
LEMMA AcceptedTail ==
  ASSUME NEW C, NEW p, NEW s, NEW b, IsCut(C, p, s, b), Accepts(p),
         NEW i \in 2..Len(s), b[i] = Min(GlobStars(p)), s[i] = <<"*", "*">>,
         \A k \in 1..Len(s) : "?" \notin ToSet(s[k])
  PROVE  LegalTail(s, i)
<1>1. IsCut(C, p, s, b)
  OBVIOUS
<1>2. /\ p \in Seq(C) /\ Len(p) \in Nat /\ Len(s) \in Nat /\ b[Len(s) + 1] = Len(p) + 2
      /\ \A k \in 2..Len(s) : p[b[k] - 1] = "/"
  <2>1. CutIs(C, p, s, b)
    BY <1>1, CutFacts, Zenon
  <2> QED BY <2>1, Zenon DEF CutIs
<1>3. \A k \in 1..Len(s) :
           /\ s[k] \in Seq(C) /\ Len(s[k]) \in Nat /\ b[k] \in Nat
           /\ b[k + 1] = b[k] + Len(s[k]) + 1
           /\ \A m \in 1..Len(s[k]) : s[k][m] = p[b[k] + m - 1] /\ s[k][m] # "/"
  <2>1. CutIs(C, p, s, b)
    BY <1>1, CutFacts, Zenon
  <2> QED BY <2>1, Zenon DEF CutIs
<1>4. PICK f : f = SubSeq(p, b[i] + 2, Len(p))
  OBVIOUS
<1>5. CheckPatternSuffix(f) /\ CheckNoTrailingSlash(p)
  BY <1>4, Zenon DEF Accepts
<1>6. PICK N \in Nat, L \in Nat : N = Len(s) /\ L = Len(p)
  BY <1>2
<1>7. CASE i = N
  <2>1. i + 1..Len(s) = {}
    BY <1>6, <1>7
  <2> QED BY <2>1, Zenon DEF LegalTail
<1>8. CASE i # N
  <2>1. /\ i \in Nat /\ 2 <= i /\ i \in 1..Len(s) /\ N \in 1..Len(s) /\ N \in 2..Len(s)
        /\ i + 1 \in 1..Len(s) /\ i + 1 \in 2..Len(s) /\ i + 1 \in i + 1..Len(s)
        /\ i + 1 \in 1..Len(s) + 1 /\ N \in (i + 1)..Len(s) + 1 /\ i + 1 <= N
    BY ONLY <1>2, <1>6, <1>8, i \in 2..Len(s)
  <2>2. PICK g \in Nat : g = b[i]
    BY <1>3, <2>1, Zenon
  <2>3. b[i + 1] = g + 3
    <3>1. b[i + 1] = b[i] + Len(s[i]) + 1
      BY <1>3, <2>1, Zenon
    <3>2. Len(s[i]) = 2
      OBVIOUS
    <3> QED BY ONLY <2>2, <3>1, <3>2
  <2>4. PICK t : t = s[N]
    OBVIOUS
  <2>5. PICK e \in Nat, l \in Nat : e = b[N] /\ l = Len(t)
    <3>1. b[N] \in Nat /\ Len(s[N]) \in Nat
      BY <1>3, <2>1, Zenon
    <3> QED BY <2>4, <3>1
  <2>6. t \in Seq(C) /\ e + l + 1 = L + 2 /\ p[e - 1] = "/"
    <3>1. s[N] \in Seq(C) /\ b[N + 1] = b[N] + Len(s[N]) + 1 /\ p[b[N] - 1] = "/"
      BY <1>2, <1>3, <2>1, Zenon
    <3> QED BY <1>2, <1>6, <2>4, <2>5, <3>1
  <2>7. g + 3 <= e
    <3>1. b[i + 1] <= b[N]
      BY <2>1, CutOrder, Zenon
    <3> QED BY <2>3, <2>5, <3>1
  <2>8. l # 0
    <3> SUFFICES ASSUME l = 0 PROVE FALSE
      OBVIOUS
    <3>1. e - 1 = L /\ L # 0
      BY ONLY <2>6, <2>7, l = 0, e \in Nat, l \in Nat, L \in Nat, g \in Nat
    <3>2. p[Len(p)] = "/" /\ p # <<>>
      BY <1>2, <1>6, <2>6, <3>1, EmptyIs
    <3>3. Last(p) = "/"
      BY <3>2 DEF Last
    <3> QED BY <1>5, <3>2, <3>3, Zenon DEF CheckNoTrailingSlash
  <2>9. t # <<>>
    BY <2>5, <2>6, <2>8, EmptyIs
  <2>10. g + 3 <= L
    BY ONLY <2>6, <2>7, <2>8, e \in Nat, l \in Nat, L \in Nat, g \in Nat
  <2>11. f \in Seq(C) /\ Len(f) \in Nat /\ Len(f) = (L - (g + 2)) + 1 /\ 2 <= Len(f)
         /\ \A m \in 1..Len(f) : f[m] = p[(g + 2) + m - 1]
    <3>1. PICK lo \in Nat : lo = g + 2
      OBVIOUS
    <3>2. lo # 0 /\ L <= Len(p) /\ lo <= L + 1
      BY <1>6, <2>10, <3>1
    <3>3. f = SubSeq(p, lo, L)
      BY <1>4, <1>6, <2>2, <3>1
    <3>4. /\ f \in Seq(C) /\ Len(f) = (L - lo) + 1
          /\ \A m \in 1..(L - lo) + 1 : f[m] = p[lo + m - 1]
      BY <1>2, <3>2, <3>3, PartIs
    <3>5. (L - lo) + 1 \in Nat /\ 2 <= (L - lo) + 1
      BY <2>10, <3>1
    <3> QED BY <3>1, <3>4, <3>5, Zenon
  <2>12. f[2] = p[g + 3]
    <3>1. 2 \in 1..Len(f) /\ (g + 2) + 2 - 1 = g + 3
      BY <2>11
    <3> QED BY <2>11, <3>1, Zenon
  <2>13. CASE StarLed(f)
    <3>1. p[g + 3] = "*" /\ {"/", "*"} \cap ToSet(SubSeq(f, 3, Len(f))) = {}
      BY <1>5, <2>12, <2>13, Zenon DEF StarLed, CheckPatternSuffix
    <3>2. ASSUME NEW j \in g + 4..L PROVE p[j] # "/" /\ p[j] # "*"
      <4>1. PICK m \in 3..Len(f) : (g + 2) + m - 1 = j
        <5>1. (j - g) - 1 \in 3..Len(f) /\ (g + 2) + ((j - g) - 1) - 1 = j
          <6>1. PICK n \in Nat : n = Len(f)
            BY <2>11, Zenon
          <6>2. n = (L - (g + 2)) + 1
            BY <2>11, <6>1
          <6>3. (j - g) - 1 \in 3..n /\ (g + 2) + ((j - g) - 1) - 1 = j
            BY ONLY <6>2, n \in Nat, L \in Nat, g \in Nat, j \in g + 4..L
          <6> QED BY <6>1, <6>3
        <5> QED BY <5>1, Zenon
      <4>2. f[m] = p[j]
        <5>1. m \in 1..Len(f)
          BY <2>11
        <5> QED BY <2>11, <4>1, <5>1, Zenon
      <4>3. f[m] \in ToSet(SubSeq(f, 3, Len(f)))
        <5>1. PICK n \in Nat : n = Len(f)
          BY <2>11, Zenon
        <5>2. 3 \in Nat /\ 3 # 0 /\ n <= Len(f) /\ 3 <= n + 1 /\ m \in 3..n
          BY <2>11, <5>1
        <5>3. f[m] \in ToSet(SubSeq(f, 3, n)) <=> \E k \in 3..n : f[k] = f[m]
          BY <2>11, <5>2, PartHolds
        <5> QED BY <5>1, <5>2, <5>3, Zenon
      <4> QED BY <3>1, <4>2, <4>3, Zenon
    <3>3. N = i + 1
      <4> SUFFICES ASSUME N # i + 1 PROVE FALSE
        OBVIOUS
      <4>1. PICK h \in Nat : h = Len(s[i + 1])
        <5>1. Len(s[i + 1]) \in Nat
          BY <1>3, <2>1, Zenon
        <5> QED BY <5>1
      <4>2. b[i + 2] = g + 3 + h + 1
        <5>1. b[(i + 1) + 1] = b[i + 1] + Len(s[i + 1]) + 1
          BY <1>3, <2>1, Zenon
        <5>2. (i + 1) + 1 = i + 2
          BY <2>1
        <5> QED BY <2>3, <4>1, <5>1, <5>2
      <4>3. i + 2 \in 2..Len(s) /\ i + 2 \in 1..Len(s) + 1 /\ N \in (i + 2)..Len(s) + 1
        BY ONLY <1>6, <2>1, N # i + 1, N \in Nat
      <4>4. p[g + 3 + h] = "/"
        <5>1. p[b[i + 2] - 1] = "/"
          BY <1>2, <4>3, Zenon
        <5>2. b[i + 2] - 1 = g + 3 + h
          BY ONLY <4>2, g \in Nat, h \in Nat
        <5> QED BY <5>1, <5>2
      <4>5. g + 3 + h + 1 <= e
        <5>1. b[i + 2] <= b[N]
          BY <4>3, CutOrder, Zenon
        <5> QED BY <2>5, <4>2, <5>1
      <4>6. h # 0
        <5> SUFFICES ASSUME h = 0 PROVE FALSE
          OBVIOUS
        <5>1. g + 3 + h = g + 3
          OBVIOUS
        <5> QED BY <3>1, <4>4, <5>1
      <4>7. g + 3 + h \in g + 4..L
        BY ONLY <2>6, <4>5, <4>6, e \in Nat, l \in Nat, L \in Nat, g \in Nat, h \in Nat
      <4> QED BY <3>2, <4>4, <4>7, Zenon
    <3>4. e = g + 3 /\ g + 3 + l = L + 1
      <4>1. e = g + 3
        BY <2>3, <2>5, <3>3
      <4> QED BY ONLY <2>6, <4>1, e \in Nat, l \in Nat, L \in Nat, g \in Nat
    <3>5. \A m \in 1..l : t[m] = p[(g + 3) + m - 1]
      <4>1. \A m \in 1..Len(s[N]) : s[N][m] = p[b[N] + m - 1]
        BY <1>3, <2>1, Zenon
      <4> QED BY <2>4, <2>5, <3>4, <4>1, Zenon
    <3>6. t[1] = "*"
      <4>1. 1 \in 1..l /\ (g + 3) + 1 - 1 = g + 3
        BY ONLY <2>8, l \in Nat, g \in Nat
      <4> QED BY <3>1, <3>5, <4>1, Zenon
    <3>7. ASSUME NEW m \in 2..Len(t) PROVE t[m] # "*" /\ t[m] # "?"
      <4>1. m \in 1..l /\ (g + 3) + m - 1 \in g + 4..L
        <5>1. m \in 2..l
          BY <2>5
        <5> QED BY ONLY <3>4, <5>1, l \in Nat, L \in Nat, g \in Nat
      <4>2. t[m] # "*"
        BY <3>2, <3>5, <4>1, Zenon
      <4>3. "?" \notin ToSet(t)
        BY <2>1, <2>4, Zenon
      <4>4. m \in 1..Len(t)
        BY <2>5, <4>1, Zenon
      <4>5. t[m] \in ToSet(t)
        BY <2>6, <4>4, ToSetHolds, Zenon
      <4> QED BY <4>2, <4>3, <4>5, Zenon
    <3>8. StarSegment(t)
      BY <2>6, <2>9, <3>6, <3>7, StarIs, Zenon
    <3> QED BY <1>6, <2>4, <3>3, <3>8, Zenon DEF LegalTail
  <2>14. CASE ~ StarLed(f)
    <3>1. "*" \notin ToSet(f) /\ CheckNoSpecialComponents(f)
      BY <1>5, <2>14, Zenon DEF CheckPatternSuffix
    <3>2. PICK x \in 2..Len(s), y \in Nat, hi \in Nat : x = i + 1 /\ y = N /\ hi = L
      BY <2>1
    <3>3. x <= y + 1 /\ y <= Len(s) /\ hi \in {b[y + 1] - 2, b[y + 1] - 1} /\ hi <= Len(p)
          /\ b[x] - 1 <= hi /\ b[x] - 1 = g + 2
      <4>1. x <= y + 1 /\ y <= Len(s) /\ hi <= Len(p)
        BY ONLY <1>6, <2>1, <3>2
      <4>2. b[y + 1] - 2 = hi
        BY <1>2, <1>6, <3>2
      <4>3. b[x] - 1 = g + 2
        BY <2>3, <3>2
      <4>4. g + 2 <= hi
        BY <2>10, <3>2
      <4> QED BY <4>1, <4>2, <4>3, <4>4
    <3>4. Opens(C, p, s, b, x, y, b[x] - 1, hi) /\ Covers(C, p, s, b, x, y, b[x] - 1, hi)
      BY <3>3, OpensFrom
    <3>5. f = SubSeq(p, b[x] - 1, hi)
      BY <1>4, <1>6, <2>2, <3>2, <3>3
    <3>6. "*" # "/"
      OBVIOUS
    <3>7. "*" \in ToSet(SubSeq(p, b[x] - 1, hi)) <=> \E k \in x..y : "*" \in ToSet(s[k])
      BY ONLY <3>4, <3>6, CharsIn
    <3>8. x <= y /\ s[y] # <<>>
      BY <2>1, <2>4, <2>9, <3>2
    <3>9. CheckNoSpecialComponents(SubSeq(p, b[x] - 1, hi)) <=> \A k \in x..y : s[k] \notin Special
      BY ONLY <3>4, <3>8, NoneSpecial
    <3>10. ASSUME NEW k \in i + 1..Len(s) PROVE Plain(s[k])
      <4>1. k \in x..y /\ k \in 1..Len(s)
        BY <1>6, <2>1, <3>2
      <4> QED BY <3>1, <3>5, <3>7, <3>9, <4>1, PlainIs, Zenon
    <3> QED BY <3>10, Zenon DEF LegalTail
  <2> QED BY <2>13, <2>14
<1> QED BY <1>7, <1>8

(* The parser and the grammar understand the same of a pattern.               *)
LEMMA PatternParsed ==
  ASSUME NEW C, NEW p \in Seq(C)
  PROVE  ParseFilePattern(p) = GrammarOf(p)
<1> DEFINE s == Segments(p)
           at == {i \in 2..Len(s) : LegalPatternAt(s, i)}
<1>1. GrammarOf(p) = IF at = {} THEN NoPattern ELSE Meaning(s, CHOOSE i \in at : TRUE)
  BY DEF GrammarOf
<1>2. PICK b : IsCut(C, p, s, b)
  BY SegmentsCut
<1> HIDE DEF s
<1>3. \A i \in 2..Len(s) : i \in at <=> LegalPatternAt(s, i)
  OBVIOUS
<1>4. at \subseteq 2..Len(s)
  OBVIOUS
<1> HIDE DEF at
<1>5. CASE at = {}
  <2>1. ~ Accepts(p)
    <3> SUFFICES ASSUME Accepts(p) PROVE FALSE
      OBVIOUS
    <3>1. PICK i \in 2..Len(s) : b[i] = Min(GlobStars(p)) /\ s[i] = <<"*", "*">>
      <4>1. \E i \in 2..Len(s) : IsGlobStar(p, s, b, i)
        BY <1>2, AcceptedStar, Zenon
      <4> QED BY <4>1, Zenon DEF IsGlobStar
    <3>2. /\ s[1] = <<>> /\ \A k \in 1..Len(s) : "?" \notin ToSet(s[k])
          /\ \A k \in 2..i - 1 : Plain(s[k])
      BY <1>2, <3>1, AcceptedPrefix
    <3>3. LegalTail(s, i)
      BY <1>2, <3>1, <3>2, AcceptedTail
    <3>4. LegalPatternAt(s, i)
      BY <3>1, <3>2, <3>3, Zenon DEF LegalPatternAt, LegalTail
    <3> QED BY <1>3, <1>5, <3>4, Zenon
  <2>2. ParseFilePattern(p) = NoPattern
    BY <2>1, Zenon DEF ParseFilePattern, Accepts
  <2> QED BY <1>1, <1>5, <2>2
<1>6. CASE at # {}
  <2>1. PICK i : i = CHOOSE j \in at : TRUE
    OBVIOUS
  <2>2. i \in 2..Len(s) /\ LegalPatternAt(s, i)
    BY <1>3, <1>4, <1>6, <2>1, Zenon
  <2>3. Legal(C, p, s, b, i)
    BY <1>2, <2>2, Zenon DEF Legal
  <2>4. ParseFilePattern(p) = Meaning(s, i)
    BY ONLY <2>3, LegalAccepted
  <2> QED BY <1>1, <1>6, <2>1, <2>4, Zenon
<1> QED BY <1>5, <1>6

(* ParseFilePattern accepts the patterns of the grammar and no other, and     *)
(* gives the directory and the suffix the grammar gives them.                 *)
THEOREM PatternsAreParsed == AnyInput => []PatternsFollowGrammar
<1> DEFINE I == input.kind = "pattern" => input.pattern \in Patterns
<1>1. NoInput => I
  BY DEF NoInput
<1>2. I /\ [TakeInput]_input => I'
  <2> SUFFICES ASSUME I, [TakeInput]_input PROVE I'
    OBVIOUS
  <2>1. CASE TakeInput
    <3>1. CASE Json
      BY <3>1 DEF Json
    <3>2. CASE Pattern
      BY <3>2 DEF Pattern
    <3>3. CASE SysCall
      BY <3>3 DEF SysCall
    <3>4. CASE Profile
      BY <3>4 DEF Profile
    <3>5. CASE Share
      BY <3>5 DEF Share
    <3> QED
      BY <2>1, <3>1, <3>2, <3>3, <3>4, <3>5 DEF TakeInput
  <2>2. CASE UNCHANGED input
    BY <2>2
  <2> QED
    BY <2>1, <2>2
<1>3. I => PatternsFollowGrammar
  <2> SUFFICES ASSUME I, input.kind = "pattern" PROVE PatternsFollowGrammar
    BY DEF PatternsFollowGrammar
  <2>1. PICK p \in Patterns : p = input.pattern
    OBVIOUS
  <2>2. p \in Seq(STRING)
    <3>1. Patterns \subseteq Seq(STRING)
      BY InputAssumption, Zenon
    <3> QED BY <2>1, <3>1, Zenon
  <2>3. ParseFilePattern(p) = GrammarOf(p)
    BY <2>2, PatternParsed, Zenon
  <2> QED BY <2>1, <2>3, Zenon DEF PatternsFollowGrammar
<1> QED BY <1>1, <1>2, <1>3, PTL DEF AnyInput
=============================================================================
