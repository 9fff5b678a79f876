-------------------------- MODULE OperationControl --------------------------
(***************************************************************************)
(* Delivery of operation control rules to the DEC device: the parser of   *)
(* sandbox_op_control_parser.cpp, the shared pipeline of                  *)
(* sandbox_policy.cpp, the start-up delivery of                           *)
(* sandbox_op_control_deliver.cpp and the monitor's add policy request.   *)
(*                                                                         *)
(* One module of a rule group goes through three steps - convert (lstat   *)
(* of every path, to tell objects apart), open (one O_PATH fd per path)   *)
(* and check-and-send (fstat of the fds, one ioctl) - and the file system *)
(* may change between any two of them.  The device binds a rule to the    *)
(* inode behind its fd, the pattern tail and the event; a rule for an     *)
(* object it already knows replaces the old one.                          *)
(***************************************************************************)
EXTENDS Naturals, FiniteSets, Sequences, SequencesExt

CONSTANTS
    Paths,          \* spellings of paths: aliases of one file are two members
    SocketPath,     \* the monitor socket, one of Paths
    Inodes,         \* objects of the file system
    Tails,          \* pattern tails, "" (none) among them
    Commands,       \* bare command names
    PathfulCommands,\* commands spelled with a '/'
    StartupDocs, RequestDocs,   \* rule group arrays: the profile's, the app's
    MaxPayload,     \* wire entities a DEC_CMD_POLICY_ADD may carry
    MaxRequests, MaxChanges, MaxFaults   \* bounds of the instance

Events == {"read", "write", "delete"}
ActionOrder == <<"deny", "allow", "ask">>   \* the order the arrays are converted in
Actions == {"deny", "allow", "ask"}
Absent == "absent"                          \* no inode behind a path
ILLEGAL == "illegal"                        \* tail of a pattern the grammar refuses
UNKNOWN == "unknown"                        \* a word outside the vocabulary
STARTUP_DELIVERY_MODULES == <<"network", "file", "process">>
DYNAMIC_DELIVERY_MODULES == <<"file", "process">>

\* A file object is a literal path (tail "") or a pattern, prefix path and tail.
FileRules == [event: Events, action: Actions,
              path: Paths, tail: Tails \cup {ILLEGAL}]
ProcessRules == [action: Actions, cmd: Commands \cup PathfulCommands]

\* A rule group as the JSON reader gives it, before the words are looked at.
ActionWords == Actions \cup {"none", UNKNOWN}
Groups == [wellFormed: BOOLEAN, scope: {"self_session", "self_task", UNKNOWN},
           hasNetwork: BOOLEAN, network: ActionWords,
           hasFile: BOOLEAN, fileDefault: ActionWords, file: SUBSET FileRules,
           hasProcess: BOOLEAN, processDefault: ActionWords, process: SUBSET ProcessRules]

ASSUME OperationControlAssumption ==
    /\ SocketPath \in Paths
    /\ "" \in Tails
    /\ StartupDocs \cup RequestDocs \subseteq Seq(Groups)
    /\ MaxPayload \in Nat /\ MaxRequests \in Nat
    /\ MaxChanges \in Nat /\ MaxFaults \in Nat

EmptyGroup == [wellFormed |-> TRUE, scope |-> "self_session",
               hasNetwork |-> FALSE, network |-> "none",
               hasFile |-> FALSE, fileDefault |-> "none", file |-> {},
               hasProcess |-> FALSE, processDefault |-> "none", process |-> {}]

FileKeys == Inodes \X Tails \X Events

VARIABLES
    fs,        \* path -> inode or Absent
    dec,       \* the device: [daemon, subscribed, scope, defaults, files, cmds]
    run,       \* the delivery under way (see RunType)
    fds,       \* rule fds open in the process: set of [rule, inode]
    requests,  \* add policy requests handled
    changes,   \* changes of the file system
    faults,    \* failing system calls
    past       \* history: [files, cmds, defaults] before the delivery, whether
               \* the fs moved since the module was converted, and the inode
               \* the socket protection was bound to

vars == <<fs, dec, run, fds, requests, changes, faults, past>>

Modules == {"network", "file", "process"}

RunType ==
    [pc: {"parse", "device", "daemon", "scope", "convert", "open", "send",
          "protect", "executer", "ready", "report", "aborted"},
     phase: {"startup", "dynamic"},
     group: Groups,
     todo: {STARTUP_DELIVERY_MODULES, DYNAMIC_DELIVERY_MODULES, <<"process">>, <<>>},
     guarded: Inodes \cup {Absent},
     delivered: UNION {[S -> {"ok", "refused"}] : S \in SUBSET Modules},
     errors: SUBSET {"action_conflict", "open_failed", "protected_object"},
     verdict: {"none", "ok", "partial", "invalid", "failed"}]

DecType ==
    [daemon: BOOLEAN, subscribed: BOOLEAN, scope: {"none", "self_session"},
     defaults: [Modules -> Actions \cup {"none"}],
     files: [FileKeys -> Actions \cup {"none"}],
     cmds: [Commands -> Actions \cup {"none"}]]

PastType ==
    [files: [FileKeys -> Actions \cup {"none"}], cmds: [Commands -> Actions \cup {"none"}],
     defaults: [Modules -> Actions \cup {"none"}],
     raced: BOOLEAN, recreated: BOOLEAN, socket: Inodes \cup {Absent}]

\* All the variables are in their ranges.
TypeOK ==
    /\ fs \in [Paths -> Inodes \cup {Absent}]
    /\ dec \in DecType
    /\ run \in RunType
    /\ fds \subseteq [rule: FileRules, inode: Inodes]
    /\ requests \in 0..MaxRequests /\ changes \in 0..MaxChanges /\ faults \in 0..MaxFaults
    /\ past \in PastType

Init ==
    /\ fs \in [Paths -> Inodes \cup {Absent}]
    /\ fs[SocketPath] # Absent
    /\ dec = [daemon |-> FALSE, subscribed |-> FALSE, scope |-> "none",
              defaults |-> [m \in Modules |-> "none"],
              files |-> [k \in FileKeys |-> "none"],
              cmds |-> [c \in Commands |-> "none"]]
    /\ run = [pc |-> "parse", phase |-> "startup", group |-> EmptyGroup,
              todo |-> STARTUP_DELIVERY_MODULES, guarded |-> Absent,
              delivered |-> <<>>, errors |-> {}, verdict |-> "none"]
    /\ fds = {} /\ requests = 0 /\ changes = 0 /\ faults = 0
    /\ past = [files |-> dec.files, cmds |-> dec.cmds, defaults |-> dec.defaults,
               raced |-> FALSE, recreated |-> FALSE, socket |-> Absent]

\* A system call fails; the run takes the path the code has for it.
Fault == faults < MaxFaults /\ faults' = faults + 1
NoFault == faults' = faults

-----------------------------------------------------------------------------
(* Parsing: a document is refused as a whole. *)

\* ParseFilePattern, whose grammar is the module GlobPattern.
LegalPattern(r) == r.tail # ILLEGAL

ValidateFilePatternArray(rules) == \A r \in rules : LegalPattern(r)

ValidateExecCmdArray(rules) == \A r \in rules : r.cmd \notin PathfulCommands

\* Type mismatches and missing fields anywhere in the group are ~wellFormed.
ParseOperationControlScope(g) == g.wellFormed /\ g.scope = "self_session"

ParseNetworkOperationControl(g) == g.hasNetwork => g.network \in {"deny", "allow"}

\* DefaultAction is not looked up in the vocabulary.
ParseFileOperationControl(g) ==
    g.hasFile => /\ g.fileDefault \in Actions \cup {"none"}
                 /\ ValidateFilePatternArray(g.file)

ParseProcessOperationControl(g) ==
    g.hasProcess => /\ g.processDefault \in Actions \cup {"none"}
                    /\ ValidateExecCmdArray(g.process)

EnforcePhaseRules(g, phase) == ~(phase = "dynamic" /\ g.hasNetwork)

ParseOperationControlRuleGroupItem(g, phase) ==
    /\ ParseOperationControlScope(g)
    /\ ParseNetworkOperationControl(g)
    /\ ParseFileOperationControl(g)
    /\ ParseProcessOperationControl(g)
    /\ EnforcePhaseRules(g, phase)

\* One group per Scope.Type, and one type is supported: at most one group.
ParseOperationControlRuleGroups(doc, phase) ==
    /\ \A i \in DOMAIN doc : ParseOperationControlRuleGroupItem(doc[i], phase)
    /\ \A i, j \in DOMAIN doc : doc[i].scope = doc[j].scope => i = j

\* ParseAddPolicy also refuses a request without a group.
ParseOperationControlPolicy(doc) ==
    doc # <<>> /\ ParseOperationControlRuleGroups(doc, "dynamic")

GroupOf(doc) == IF doc = <<>> THEN EmptyGroup ELSE doc[1]

-----------------------------------------------------------------------------
(* Conversion: conflicts are told by what the device would bind. *)

\* Keys a rule by its spelling.
ObjectIdentitySpellingMutant(r) == <<"path", r.path, r.tail>>

\* lstat now, the spelling when nothing is there.
ObjectIdentity(r) ==
    IF fs[r.path] = Absent THEN <<"path", r.path, r.tail>>
                           ELSE <<"inode", fs[r.path], r.tail>>

ValidateOperationActionConflict(rules) ==
    \A r, q \in rules : r.event = q.event /\ ObjectIdentity(r) = ObjectIdentity(q)
                            => r.action = q.action

ConvertFileRuleGroupToTlv(g) ==
    ValidateOperationActionConflict(g.file) /\ ValidateFilePatternArray(g.file)

ConvertProcessRuleGroupToTlv(g) ==
    \A r, q \in g.process : r.cmd = q.cmd => r.action = q.action

Configured(m) ==
    \/ m = "network" /\ run.group.hasNetwork
    \/ m = "file"    /\ run.group.hasFile
    \/ m = "process" /\ run.group.hasProcess

ConvertOperationControlToTlv(m) ==
    /\ m = "file"    => ConvertFileRuleGroupToTlv(run.group)
    /\ m = "process" => ConvertProcessRuleGroupToTlv(run.group)

-----------------------------------------------------------------------------
(* The shared pipeline, one module at a time. *)

Module == Head(run.todo)

Answered(delivered, answer) ==
    [m \in DOMAIN delivered \cup {Module} |-> IF m = Module THEN answer ELSE delivered[m]]

\* The failed module is skipped and not recorded.
RefuseModuleSilentMutant(reasons) ==
    /\ run' = [run EXCEPT !.pc = IF run.phase = "startup" THEN "aborted" ELSE "convert",
                          !.todo = Tail(@), !.errors = @ \cup reasons]
    /\ fds' = {}
    /\ UNCHANGED dec

\* A module that does not go out: start-up gives the device back and stops
\* there, a request goes on with its next module.  Its fds are closed.
RefuseModule(reasons) ==
    /\ run' = [run EXCEPT !.pc = IF run.phase = "startup" THEN "aborted" ELSE "convert",
                          !.todo = Tail(@),
                          !.errors = @ \cup reasons,
                          !.delivered = Answered(@, "refused"),
                          !.verdict = IF run.phase = "startup" THEN "failed" ELSE @]
    /\ fds' = {}
    /\ UNCHANGED dec

ConvertModuleTlv ==
    /\ run.pc = "convert" /\ run.todo # <<>>
    /\ past' = [past EXCEPT !.raced = FALSE]
    /\ \/ /\ ~Configured(Module)
          /\ run' = [run EXCEPT !.todo = Tail(@)]
          /\ UNCHANGED <<dec, fds>>
       \/ /\ Configured(Module) /\ ~ConvertOperationControlToTlv(Module)
          /\ RefuseModule({"action_conflict"})
       \/ /\ Configured(Module) /\ ConvertOperationControlToTlv(Module)
          /\ run' = [run EXCEPT !.pc = "open"]
          /\ UNCHANGED <<dec, fds>>
    /\ UNCHANGED <<fs, requests, changes, faults>>

PathRules == IF Module = "file" THEN run.group.file ELSE {}

Opened == {[rule |-> r, inode |-> fs[r.path]] : r \in {q \in PathRules : fs[q.path] # Absent}}

\* Every path is tried; one that does not open costs the module.
OpenFileFds ==
    /\ run.pc = "open"
    /\ \/ /\ \A r \in PathRules : fs[r.path] # Absent
          /\ fds' = Opened
          /\ run' = [run EXCEPT !.pc = "send"]
          /\ UNCHANGED dec /\ NoFault
       \/ /\ \E r \in PathRules : fs[r.path] = Absent
          /\ RefuseModule({"open_failed"}) /\ NoFault
       \/ /\ PathRules # {}         \* a path that exists and may not be opened
          /\ RefuseModule({"open_failed"}) /\ Fault
    /\ UNCHANGED <<fs, requests, changes, past>>

\* Compares the spelling in the rule instead of the fd.
RefuseGuardedInodePathMutant ==
    run.guarded # Absent /\ \E f \in fds : f.rule.path = SocketPath

\* fstat of the fds against the socket's inode.
RefuseGuardedInode ==
    run.guarded # Absent /\ \E f \in fds : f.inode = run.guarded

\* A PATH rule goes out as an fd entity and a string entity, a CMD rule as one.
WireEntities ==
    IF Module = "process" THEN Cardinality(run.group.process) ELSE 2 * Cardinality(PathRules)

BuildAlPolicyContext == WireEntities <= MaxPayload

Default ==
    IF Module = "file" THEN run.group.fileDefault
    ELSE IF Module = "process" THEN run.group.processDefault ELSE run.group.network

\* The device: the last of the rules for one object stands, NONE keeps the default.
LastOf(acts, old) ==
    IF acts = {} THEN old
    ELSE ActionOrder[CHOOSE i \in 1..3 : /\ ActionOrder[i] \in acts
                                         /\ \A j \in i+1..3 : ActionOrder[j] \notin acts]

DecPolicyAdd ==
    [dec EXCEPT
        !.defaults[Module] = IF Default = "none" THEN @ ELSE Default,
        !.files = [k \in FileKeys |->
            LastOf({f.rule.action : f \in {h \in fds :
                        <<h.inode, h.rule.tail, h.rule.event>> = k}}, @[k])],
        !.cmds = [c \in Commands |->
            LastOf({r.action : r \in {q \in run.group.process :
                        Module = "process" /\ q.cmd = c}}, @[c])]]

CheckAndSendModule ==
    /\ run.pc = "send"
    /\ \/ /\ RefuseGuardedInode
          /\ RefuseModule({"protected_object"}) /\ NoFault
       \/ /\ ~RefuseGuardedInode /\ ~BuildAlPolicyContext
          /\ RefuseModule({}) /\ NoFault
       \/ /\ ~RefuseGuardedInode /\ BuildAlPolicyContext
          /\ dec' = DecPolicyAdd
          /\ run' = [run EXCEPT !.pc = "convert", !.todo = Tail(@),
                                !.delivered = Answered(@, "ok")]
          /\ fds' = {} /\ NoFault
       \/ /\ ~RefuseGuardedInode /\ BuildAlPolicyContext    \* the ioctl fails
          /\ RefuseModule({}) /\ Fault
    /\ UNCHANGED <<fs, requests, changes, past>>

-----------------------------------------------------------------------------
(* Start-up: DeliverDaemonSidePolicies in the parent, then DeliverExecuterInit *)
(* in the child.                                                               *)

Abort == run' = [run EXCEPT !.pc = "aborted", !.verdict = "failed"]

\* The profile is parsed before anything is done for the sandbox.
ParseProfile(doc) ==
    /\ run.pc = "parse"
    /\ IF ParseOperationControlRuleGroups(doc, "startup")
       THEN run' = [run EXCEPT !.pc = "device", !.group = GroupOf(doc)]
       ELSE Abort
    /\ UNCHANGED <<fs, dec, fds, requests, changes, faults, past>>

OpenDecDeviceBeforeFork ==
    /\ run.pc = "device"
    /\ \/ run' = [run EXCEPT !.pc = "daemon"] /\ NoFault
       \/ Abort /\ Fault
    /\ UNCHANGED <<fs, dec, fds, requests, changes, past>>

\* The subscription is best effort.
DaemonInitUnsubscribedMutant ==
    /\ run.pc = "daemon"
    /\ \/ /\ dec' = [dec EXCEPT !.daemon = TRUE, !.subscribed = TRUE]
          /\ run' = [run EXCEPT !.pc = "scope"] /\ NoFault
       \/ Abort /\ Fault /\ UNCHANGED dec
       \/ /\ run' = [run EXCEPT !.pc = "scope"]
          /\ Fault /\ dec' = [dec EXCEPT !.daemon = TRUE]
    /\ UNCHANGED <<fs, fds, requests, changes, past>>

\* Registration, then the subscription to ASK events on the same fd.
DaemonInit ==
    /\ run.pc = "daemon"
    /\ \/ /\ dec' = [dec EXCEPT !.daemon = TRUE, !.subscribed = TRUE]
          /\ run' = [run EXCEPT !.pc = "scope"] /\ NoFault
       \/ Abort /\ Fault /\ UNCHANGED dec
       \/ Abort /\ Fault /\ dec' = [dec EXCEPT !.daemon = TRUE]
    /\ UNCHANGED <<fs, fds, requests, changes, past>>

DeliverScopeConfigSet ==
    /\ run.pc = "scope"
    /\ \/ /\ dec' = [dec EXCEPT !.scope = run.group.scope]
          /\ run' = [run EXCEPT !.pc = "convert"] /\ NoFault
       \/ Abort /\ Fault /\ UNCHANGED dec
    /\ UNCHANGED <<fs, fds, requests, changes, past>>

\* Every module is out: start-up protects the socket, a request has its verdict.
ModulesDone ==
    /\ run.pc = "convert" /\ run.todo = <<>>
    /\ run' = IF run.phase = "startup"
              THEN [run EXCEPT !.pc = "protect"]
              ELSE [run EXCEPT !.pc = "report",
                               !.verdict = IF "refused" \in Range(run.delivered)
                                           THEN "partial" ELSE "ok"]
    /\ UNCHANGED <<fs, dec, fds, requests, changes, faults, past>>

DenySocket(ino) ==
    [dec.files EXCEPT ![<<ino, "", "read">>] = "deny", ![<<ino, "", "write">>] = "deny",
                      ![<<ino, "", "delete">>] = "deny"]

\* Last of start-up.  A socket that is not visible needs no rule; a failure is
\* logged and the launch goes on without the rule.
AddSocketProtectionPolicy ==
    /\ run.pc = "protect"
    /\ run' = [run EXCEPT !.pc = "executer"]
    /\ \/ /\ fs[SocketPath] # Absent
          /\ dec' = [dec EXCEPT !.files = DenySocket(fs[SocketPath])]
          /\ past' = [past EXCEPT !.socket = fs[SocketPath]] /\ NoFault
       \/ fs[SocketPath] = Absent /\ NoFault /\ UNCHANGED <<dec, past>>
       \/ fs[SocketPath] # Absent /\ Fault /\ UNCHANGED <<dec, past>>
    /\ UNCHANGED <<fs, fds, requests, changes>>

DeliverExecuterInit ==
    /\ run.pc = "executer"
    /\ \/ run' = [run EXCEPT !.pc = "ready"] /\ NoFault
       \/ Abort /\ Fault
    /\ UNCHANGED <<fs, dec, fds, requests, changes, past>>

-----------------------------------------------------------------------------
(* SandboxMonitor::HandleAddPolicy and AddOperationControlPolicies. *)

\* lstat of the socket path, once per request.
ResolveGuardedInode == fs[SocketPath]

HandleAddPolicy(doc) ==
    /\ run.pc = "ready" /\ requests < MaxRequests
    /\ requests' = requests + 1
    /\ LET ok == ParseOperationControlPolicy(doc) IN
       run' = [pc |-> IF ok THEN "convert" ELSE "report", phase |-> "dynamic",
               group |-> IF ok THEN GroupOf(doc) ELSE EmptyGroup,
               todo |-> DYNAMIC_DELIVERY_MODULES, guarded |-> ResolveGuardedInode,
               delivered |-> <<>>, errors |-> {},
               verdict |-> IF ok THEN "none" ELSE "invalid"]
    /\ past' = [past EXCEPT !.files = dec.files, !.cmds = dec.cmds, !.defaults = dec.defaults]
    /\ UNCHANGED <<fs, dec, fds, changes, faults>>

\* QueueResponse: the verdict, with a body when it is partial, goes to the app.
AnswerRequest ==
    /\ run.pc = "report"
    /\ run' = [run EXCEPT !.pc = "ready"]
    /\ UNCHANGED <<fs, dec, fds, requests, changes, faults, past>>

-----------------------------------------------------------------------------
(* Everyone else: links, unlinks and renames by the sandboxed program, which *)
(* the device's delete rules stop, and by the app, which they do not.        *)

MayDelete(p) == fs[p] # Absent => dec.files[<<fs[p], "", "delete">>] # "deny"

ChangePath(p, ino) ==
    /\ changes < MaxChanges /\ changes' = changes + 1
    /\ ino # fs[p]
    /\ fs' = [fs EXCEPT ![p] = ino]
    /\ UNCHANGED <<dec, run, fds, requests, faults>>

ProgramChanges(p, ino) ==
    /\ run.phase = "dynamic" \/ run.pc = "ready"
    /\ MayDelete(p)
    /\ ChangePath(p, ino)
    /\ past' = [past EXCEPT !.raced = TRUE]

AppChanges(p, ino) ==
    /\ ChangePath(p, ino)
    /\ past' = [past EXCEPT !.raced = TRUE,
                            !.recreated = @ \/ (p = SocketPath /\ past.socket # Absent)]

Deliver ==
    \/ \E doc \in StartupDocs : ParseProfile(doc)
    \/ OpenDecDeviceBeforeFork \/ DaemonInit \/ DeliverScopeConfigSet
    \/ ConvertModuleTlv \/ OpenFileFds \/ CheckAndSendModule \/ ModulesDone
    \/ AddSocketProtectionPolicy \/ DeliverExecuterInit
    \/ \E doc \in RequestDocs : HandleAddPolicy(doc)
    \/ AnswerRequest

Next ==
    \/ Deliver
    \/ \E p \in Paths, ino \in Inodes \cup {Absent} : ProgramChanges(p, ino) \/ AppChanges(p, ino)

Spec == Init /\ [][Next]_vars

-----------------------------------------------------------------------------
(* Properties *)

\* delivered is the app's only account of what is live (AddOperationControl-
\* Policies): when a request is answered, every configured module is in it and
\* nothing else, a refused module left its part of the device as it was, a
\* refused rule of a document left all of it, and the verdict is a success
\* exactly when every module is live.
ReportIsTrue ==
    run.pc = "report" =>
        /\ run.verdict = "invalid" =>
               dec.files = past.files /\ dec.cmds = past.cmds /\ dec.defaults = past.defaults
        /\ run.verdict # "invalid" =>
               /\ DOMAIN run.delivered = {m \in Modules : Configured(m)}
               /\ (run.verdict = "ok") = ("refused" \notin Range(run.delivered))
               /\ \A m \in DOMAIN run.delivered : run.delivered[m] = "refused" =>
                      /\ dec.defaults[m] = past.defaults[m]
                      /\ m = "file" => dec.files = past.files
                      /\ m = "process" => dec.cmds = past.cmds

\* DeliverDaemonSidePolicies: a program only starts when the daemon is
\* registered and subscribed, the scope is open and every module its profile
\* configures is live; one failing ioctl, unopenable path or clash stops it.
StartsUnderItsProfile ==
    run.pc \in {"protect", "executer"} \/ (run.pc = "ready" /\ run.phase = "startup") =>
        /\ dec.daemon /\ dec.subscribed /\ dec.scope = "self_session"
        /\ \A m \in Modules : Configured(m) =>
               m \in DOMAIN run.delivered /\ run.delivered[m] = "ok"

\* AddSocketProtectionPolicy and RefuseGuardedInode together: from the rule that
\* start-up binds to the monitor socket on, neither the sandboxed program nor
\* any later policy - however it spells or links the socket - takes the name
\* from the socket or the denial from its inode.  Only the app can, by putting
\* another socket there.
SocketStaysProtected ==
    past.socket # Absent /\ ~past.recreated =>
        /\ fs[SocketPath] = past.socket
        /\ \A e \in Events : dec.files[<<past.socket, "", e>>] = "deny"

\* ObjectIdentity against the device's own key: a file module that goes out puts
\* every object it names under the action it names it with - no rule of one
\* module silently replaces another - as long as no name moved between the
\* conflict check and the open.
AskedIsEnforced ==
    [][ (run.pc = "send" /\ Module = "file" /\ ~past.raced /\ "file" \in DOMAIN run'.delivered
            /\ run'.delivered["file"] = "ok")
        => \A f \in fds : dec'.files[<<f.inode, f.rule.tail, f.rule.event>>] = f.rule.action ]_vars
=============================================================================
