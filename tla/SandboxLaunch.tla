----------------------------- MODULE SandboxLaunch -----------------------------
(***************************************************************************)
(* One launch of claw_sandbox: SandboxExec::Run, SandboxManager::Execute   *)
(* and the files behind its steps (sandbox_manager.cpp, sandbox_mount.cpp, *)
(* sandbox_credential.cpp).                                                *)
(*                                                                         *)
(* A process runs some forty steps in a fixed order, each of which may     *)
(* fail: it checks the configuration, enters the mount namespace of the    *)
(* caller, builds a new root and pivots into it, and forks.  The parent    *)
(* starts the monitor, opens the start gate and mirrors the exit status of *)
(* the child; the child waits at the gate, drops every privilege and       *)
(* executes the command.  Several launches share the sandbox directories   *)
(* on disk, processes are killed, and the pid of the caller is reused.     *)
(* Mounts live in the private namespace of a launch and die with it.       *)
(***************************************************************************)
EXTENDS Naturals, FiniteSets, Sequences

CONSTANTS
  Launches,     \* launches of claw_sandbox
  Scenarios,    \* the configurations the launches are given, per launch
  Names,        \* names of sandbox directories
  Permissions,  \* permissions the caller may hold
  AutoName,     \* AutoName[l]: the random name launch l generates
  Targets,      \* paths of a sandbox a mount may name
  SystemMounts, \* targets of the template's system-mounts, besides /proc
  AppMounts,    \* AppMounts[t]: "rw" or "ro", the template's app-mounts
  Conditional,  \* Conditional[t]: permissions of the conditional rule of t
  Location,     \* Location[t]: what t names, as mountinfo spells it
  Within,       \* pairs <<t, u>>: t is u or continues after it with a slash
  MaxTroubles   \* bound: failing system calls, killed processes, reuses of the
                \* caller's pid and deletions of a sandbox directory

VARIABLES
  conf,     \* conf[l]: the parsed configuration
  pc,       \* pc[l]: next step of the process that is to run the command
  par,      \* par[l]: what the parent does, "none" while nothing was forked
  marks,    \* marks[l]: the confinement measures in force
  mnts,     \* mnts[l]: the mounts below the new root; "covered" is one that
            \* mountinfo lists but a later mount above it hides
  left,     \* left[l]: policy mounts still to apply
  fds,      \* fds[l]: <<process, file>> of the start gate, the device, the socket
  byte,     \* byte[l]: the token of the start gate was sent
  seen,     \* seen[l]: whom the process took the label and the namespace of
  status,   \* status[l]: how the process that runs the steps ended
  code,     \* code[l]: the status the caller of claw_sandbox gets
  disk,     \* disk[n]: what exists in and of the directory of sandbox n
  pidOf,    \* pidOf[l]: the process that has the caller's pid now
  troubles  \* the number of them so far

vars == <<conf, pc, par, marks, mnts, left, fds, byte, seen, status, code, disk,
          pidOf, troubles>>

own == <<conf, left, mnts, byte, seen>>      \* changed by few steps

(****************************** the steps ***********************************)

EarlySteps == <<"ParseArguments", "Initialize", "ValidateConfig", "LoadTemplate", "SetSelinuxMCS",
  "GenerateTokenId", "SetReadProcGroup", "OpenCallerProcDir", "OpenCallerMountNamespace",
  "ReadNamespaceId", "SetNs">>

MountSteps == <<"CreateSandboxDir", "MkdirPutOld", "UnshareNamespaces", "MountNewRoot",
  "MountSystemDirs", "MountSymLinks", "MountAppDirs", "SetGroups", "ApplyPolicyMounts",
  "PivotRoot", "SetProcessGroup", "DeliverDaemonSidePolicies", "ConnectMonitorSocket",
  "ForkAfterUnshare", "ChildAfterFork", "WaitForStartGate", "MountProcFs">>

LateStepsMutant == <<"SetAccessToken", "SetXpmOwnerId", "SetAinfo",
  "FetchToolCredentials", "SetUidGid", "PreDecDenyPaths", "ApplyDecPolicies",
  "SetSeccomp", "PrepareWorkdir", "ApplyEnvironment", "SetToolCredentials",
  "DeliverExecuterInit", "DropCapabilities", "SetSandboxPathMark", "SetEncapsProcFlag",
  "ExecuteCommand">>

LateSteps == <<"SetAccessToken", "SetXpmOwnerId", "SetAinfo", "FetchToolCredentials",
  "SetUidGid", "PreDecDenyPaths", "ApplyDecPolicies", "PrepareWorkdir",
  "ApplyEnvironment", "SetToolCredentials", "SetSeccomp", "DeliverExecuterInit",
  "DropCapabilities", "SetSandboxPathMark", "SetEncapsProcFlag", "ExecuteCommand">>

Steps == EarlySteps \o MountSteps \o LateSteps

StepNames == {Steps[i] : i \in 1..Len(Steps)}
Place == [s \in StepNames |-> CHOOSE i \in 1..Len(Steps) : Steps[i] = s]
Onward == [s \in StepNames \ {"ExecuteCommand"} |-> Steps[Place[s] + 1]]
Before(step) == {s \in StepNames : Place[s] < Place[step]}

(* A failing step in this range finds directories Cleanup has to remove:     *)
(* newRootPath_ is set, pivotRootDone_ is not.                                *)
Undoable == (Before("PivotRoot") \cup {"PivotRoot"}) \ Before("MkdirPutOld")

(* Steps only root may take, and steps the seccomp filter would kill.         *)
NeedsRoot == (Before("SetUidGid") \cup {"SetUidGid"})
                \ {"ParseArguments", "Initialize", "ValidateConfig", "LoadTemplate",
                   "GenerateTokenId"}
NeedsNoFilter == {"SetProcessGroup", "PrepareWorkdir", "SetSeccomp", "SetUidGid"}

Able(l, step) ==
  /\ step \in NeedsRoot => "uid" \notin marks[l]
  /\ step \in NeedsNoFilter => "seccomp" \notin marks[l]

(****************************** configuration *******************************)

PolicyMounts == [target: Targets, ro: BOOLEAN]
Configurations ==
  [type: {"shell", "cli"}, name: Names \cup {""}, pidns: BOOLEAN, mounts: Seq(PolicyMounts),
   perms: SUBSET Permissions, sock: {"none", "good", "bad"},
   flaw: {"", "ParseArguments", "Initialize", "ValidateConfig", "LoadTemplate"},
   exec: BOOLEAN, subject: BOOLEAN]

Template == {"proc"} \cup SystemMounts \cup DOMAIN AppMounts

(* In the templates of etc/ only the system mounts name /proc, and no mount   *)
(* lies within another one or within or above a conditional rule.             *)
ASSUME LaunchAssumption ==
  /\ Scenarios \subseteq [Launches -> Configurations]
  /\ AutoName \in [Launches -> Names] /\ "" \notin Names
  /\ Template \cup DOMAIN Conditional \subseteq Targets
  /\ "proc" \notin SystemMounts \cup DOMAIN AppMounts
  /\ Template \cap DOMAIN Conditional = {}
  /\ AppMounts \in [DOMAIN AppMounts -> {"rw", "ro"}]
  /\ Conditional \in [DOMAIN Conditional -> SUBSET Permissions]
  /\ MaxTroubles \in Nat
  /\ \A t \in Template, u \in Template \cup DOMAIN Conditional :
       t # u => <<t, u>> \notin Within /\ <<u, t>> \notin Within

(* The text of a path is within that of another as directories are, and a     *)
(* path within another leads to a place within that of the other: bound       *)
(* directories hold no links and no mounts of their own.                      *)
ASSUME PathAssumption ==
  /\ Within \subseteq Targets \X Targets
  /\ \A t \in Targets : <<t, t>> \in Within
  /\ \A t, u, w \in Targets :
       <<t, u>> \in Within /\ <<u, w>> \in Within => <<t, w>> \in Within
  /\ \A t, u, w \in Targets :
       <<t, u>> \in Within /\ <<t, w>> \in Within =>
         <<u, w>> \in Within \/ <<w, u>> \in Within
  /\ Location \in [Targets -> Targets]
  /\ \A t \in Targets : Location[Location[t]] = Location[t]
  /\ \A t, u \in Targets : <<t, u>> \in Within => <<Location[t], Location[u]>> \in Within
  /\ \A t \in Template \cup DOMAIN Conditional : Location[t] = t

IsShell(l) == conf[l].type = "shell"
NameOf(l) == IF conf[l].name = "" THEN AutoName[l] ELSE conf[l].name
IsPermissionGranted(l, p) == p \in conf[l].perms

NeedsStartGate(l) == IsShell(l)
NeedsForkAfterUnshare(l) == ~(conf[l].type = "cli") \/ conf[l].pidns

Self(l) == IF par[l] = "none" THEN "P" ELSE "C"
Alive(l) == pc[l] \notin {"running", "over"}

Measures ==
  {"label", "tokenid", "readproc", "nsfd", "ns", "unshared", "bound", "groups", "pivot",
   "leftold", "pgrp", "policy", "watched", "token", "xpm", "ainfo", "creds", "uid", "deny",
   "allow", "workdir", "env", "credenv", "lostcred", "seccomp", "executer", "caps",
   "pathmark", "encaps"}
Seen == {"none", "caller", "twin", "other"}

TypeOK ==
  /\ conf \in Scenarios
  /\ pc \in [Launches -> StepNames \cup {"running", "over"}]
  /\ par \in [Launches -> {"none", "fresh", "init", "release", "watch", "wait", "over"}]
  /\ marks \in [Launches -> SUBSET Measures]
  /\ mnts \in [Launches -> [Targets -> {"none", "rw", "ro", "own", "covered"}]]
  /\ left \in [Launches -> Seq(PolicyMounts)]
  /\ fds \in [Launches -> SUBSET ({"P", "C"} \X {"gateR", "gateW", "dec", "sock"})]
  /\ byte \in [Launches -> BOOLEAN]
  /\ seen \in [Launches -> [label: Seen, proc: Seen, target: Seen, ns: Seen]]
  /\ status \in [Launches -> {"none", "refused", "unwatched", "exit", "killed"}]
  /\ code \in [Launches -> {"none", "refused", "unwatched", "exit", "killed", "lost"}]
  /\ disk \in [Names -> SUBSET {"root", "putold", "links", "dirs"}]
  /\ \A n \in Names : disk[n] # {} => "root" \in disk[n]
  /\ pidOf \in [Launches -> {"caller", "twin", "other"}]
  /\ troubles \in 0..MaxTroubles

Init ==
  /\ conf \in Scenarios
  /\ pc = [l \in Launches |-> Steps[1]]
  /\ par = [l \in Launches |-> "none"]
  /\ marks = [l \in Launches |-> {}]
  /\ mnts = [l \in Launches |-> [t \in Targets |-> "none"]]
  /\ left = [l \in Launches |-> conf[l].mounts]
  /\ fds = [l \in Launches |-> {}]
  /\ byte = [l \in Launches |-> FALSE]
  /\ seen = [l \in Launches |-> [label |-> "none", proc |-> "none", target |-> "none",
                                 ns |-> "none"]]
  /\ status = [l \in Launches |-> "none"]
  /\ code = [l \in Launches |-> "none"]
  /\ disk = [n \in Names |-> {}]
  /\ pidOf = [l \in Launches |-> "caller"]
  /\ troubles = 0

(****************************** ends and failures ***************************)

Fault == troubles < MaxTroubles /\ troubles' = troubles + 1

Closed(l, process) == {f \in fds[l] : f[1] # process}

(* The process that runs the steps ends with status s: the kernel closes its  *)
(* files.  Without a fork it is also the process the caller waits for.        *)
Over(l, s) ==
  /\ pc' = [pc EXCEPT ![l] = "over"]
  /\ status' = [status EXCEPT ![l] = s]
  /\ code' = IF par[l] = "none" THEN [code EXCEPT ![l] = s] ELSE code
  /\ fds' = [fds EXCEPT ![l] = Closed(l, Self(l))]
  /\ UNCHANGED <<own, par, pidOf>>

CleanedKeepsLockMutant(entries) == IF entries = {"root"} THEN {} ELSE entries

(* Cleanup: rmdir of put_old, whoever made it, then of the root if nothing    *)
(* else is in it.                                                             *)
Cleaned(entries) ==
  LET rest == entries \ {"putold"} IN IF rest = {"root"} THEN {} ELSE rest

(* Removing the root on disk detaches the bind mount on it in every launch.   *)
Unbound(n) ==
  [k \in Launches |-> IF NameOf(k) = n THEN marks[k] \ {"bound"} ELSE marks[k]]

(* A step returns an error; the destructor of the manager runs Cleanup.       *)
Failed(l) ==
  LET n == NameOf(l)
      rest == Cleaned(disk[n])
  IN  /\ Over(l, "refused")
      /\ IF pc[l] \in Undoable
           THEN /\ disk' = [disk EXCEPT ![n] = rest]
                /\ marks' = IF rest = {} THEN Unbound(n) ELSE marks
           ELSE UNCHANGED <<disk, marks>>

(* The process goes on with the next step, with the measures new in force.    *)
Proceed(l, new) ==
  /\ pc' = [pc EXCEPT ![l] = Onward[pc[l]]]
  /\ marks' = [marks EXCEPT ![l] = @ \cup new]
  /\ UNCHANGED <<par, status, code, pidOf>>

ProceedPrivately(l, new) == Proceed(l, new) /\ UNCHANGED <<own, fds, disk, troubles>>

(* A step that touches nothing but its process: not needed for this           *)
(* configuration, or done, or failed.                                         *)
Step(l, step, needed, mark) ==
  /\ pc[l] = step
  /\ \/ /\ needed => Able(l, step)
        /\ ProceedPrivately(l, IF needed THEN {mark} ELSE {})
     \/ /\ needed /\ Failed(l)
        /\ IF Able(l, step) THEN Fault ELSE UNCHANGED troubles

(* A condition of the configuration or the state refuses the launch.          *)
Refuse(l, step) == pc[l] = step /\ Failed(l) /\ UNCHANGED troubles

(****************************** ExecuteEarlySteps ***************************)

(* A flaw of the command line or the configuration refuses the launch in the  *)
(* step that looks for it.                                                    *)
Examine(l, step) ==
  \/ conf[l].flaw # step /\ Step(l, step, FALSE, "")
  \/ conf[l].flaw = step /\ Refuse(l, step)

(* --config, --cmd and subCliName of the command line.                        *)
ParseArguments(l) == Examine(l, "ParseArguments")

(* ExtractMonitorSocketPath: the socket path may be given only once.          *)
Initialize(l) == Examine(l, "Initialize")

(* Caller pid, uid, gid, token and its type.                                  *)
ValidateConfig(l) == Examine(l, "ValidateConfig")

LoadTemplate(l) == Examine(l, "LoadTemplate")

(* The MCS level of whoever has the pid of the caller now.                    *)
SetSelinuxMCS(l) ==
  \/ /\ pc[l] = "SetSelinuxMCS" /\ Able(l, "SetSelinuxMCS")
     /\ seen' = [seen EXCEPT ![l] = [@ EXCEPT !.label = pidOf[l]]]
     /\ Proceed(l, {"label"}) /\ UNCHANGED <<conf, left, mnts, byte, fds, disk, troubles>>
  \/ pc[l] = "SetSelinuxMCS" /\ Fault /\ Failed(l)

GenerateTokenId(l) == Step(l, "GenerateTokenId", ~IsShell(l), "tokenid")

SetReadProcGroup(l) == Step(l, "SetReadProcGroup", TRUE, "readproc")

(* /proc/<pid> is pinned by a file descriptor and its uid and gid compared    *)
(* with the configuration's: "twin" is another process with the same ids.     *)
SameIds(l) == pidOf[l] \in {"caller", "twin"}

OpenCallerProcDir(l) ==
  \/ /\ pc[l] = "OpenCallerProcDir" /\ SameIds(l)
     /\ seen' = [seen EXCEPT ![l] = [@ EXCEPT !.proc = pidOf[l]]]
     /\ Proceed(l, {}) /\ UNCHANGED <<conf, left, mnts, byte, fds, disk, troubles>>
  \/ ~SameIds(l) /\ Refuse(l, "OpenCallerProcDir")
  \/ pc[l] = "OpenCallerProcDir" /\ Fault /\ Failed(l)

(* openat below the pinned directory fails once that process is gone.         *)
OpenCallerMountNamespace(l) ==
  \/ seen[l].proc = pidOf[l] /\ Step(l, "OpenCallerMountNamespace", TRUE, "nsfd")
  \/ seen[l].proc # pidOf[l] /\ Refuse(l, "OpenCallerMountNamespace")

(* readlink of /proc/<pid>/ns/mnt, by pid again.                              *)
ReadNamespaceId(l) ==
  \/ /\ pc[l] = "ReadNamespaceId"
     /\ seen' = [seen EXCEPT ![l] = [@ EXCEPT !.target = pidOf[l]]]
     /\ Proceed(l, {}) /\ UNCHANGED <<conf, left, mnts, byte, fds, disk, troubles>>
  \/ pc[l] = "ReadNamespaceId" /\ Fault /\ Failed(l)

(* setns and VerifyNamespaceChanged.                                          *)
SetNs(l) ==
  \/ /\ pc[l] = "SetNs" /\ seen[l].proc = seen[l].target
     /\ seen' = [seen EXCEPT ![l] = [@ EXCEPT !.ns = seen[l].proc]]
     /\ Proceed(l, {"ns"}) /\ UNCHANGED <<conf, left, mnts, byte, fds, disk, troubles>>
  \/ seen[l].proc # seen[l].target /\ Refuse(l, "SetNs")
  \/ pc[l] = "SetNs" /\ Fault /\ Failed(l)

EnterCallerSandbox(l) ==
  \/ SetReadProcGroup(l) \/ OpenCallerProcDir(l) \/ OpenCallerMountNamespace(l)
  \/ ReadNamespaceId(l) \/ SetNs(l)

ExecuteEarlySteps(l) ==
  \/ ParseArguments(l) \/ Initialize(l) \/ ValidateConfig(l) \/ LoadTemplate(l)
  \/ SetSelinuxMCS(l) \/ GenerateTokenId(l)
  \/ EnterCallerSandbox(l)

(****************************** ExecuteMountSteps ***************************)

Put(l, entries) == disk' = [disk EXCEPT ![NameOf(l)] = @ \cup entries]

(* CreateSandboxWithName takes an existing directory, CreateSandboxAutoName   *)
(* a fresh random one.                                                        *)
CreateSandboxDir(l) ==
  \/ /\ pc[l] = "CreateSandboxDir"
     /\ Put(l, {"root"})
     /\ Proceed(l, {}) /\ UNCHANGED <<own, fds, troubles>>
  \/ pc[l] = "CreateSandboxDir" /\ Fault /\ Failed(l)

(* put_old serves as the lock of the directory: mkdir fails when it exists    *)
(* or when the directory is gone.                                             *)
MkdirPutOld(l) ==
  LET free == "root" \in disk[NameOf(l)] /\ "putold" \notin disk[NameOf(l)]
  IN  \/ /\ pc[l] = "MkdirPutOld" /\ free
         /\ Put(l, {"putold"})
         /\ Proceed(l, {}) /\ UNCHANGED <<own, fds, troubles>>
      \/ ~free /\ Refuse(l, "MkdirPutOld")
      \/ pc[l] = "MkdirPutOld" /\ free /\ Fault /\ Failed(l)

UnshareNamespaces(l) == Step(l, "UnshareNamespaces", TRUE, "unshared")

MountNewRoot(l) ==
  \/ "root" \in disk[NameOf(l)] /\ Step(l, "MountNewRoot", TRUE, "bound")
  \/ "root" \notin disk[NameOf(l)] /\ Refuse(l, "MountNewRoot")

(* CreateDir makes every missing directory on the way, the bind mounts go to  *)
(* the private namespace.                                                     *)
MountAll(l, step, mounted) ==
  \/ /\ pc[l] = step
     /\ mnts' = [mnts EXCEPT ![l] =
          [t \in Targets |-> IF t \in DOMAIN mounted THEN mounted[t] ELSE mnts[l][t]]]
     /\ Put(l, {"root", "dirs"})
     /\ Proceed(l, {}) /\ UNCHANGED <<conf, left, byte, seen, fds, troubles>>
  \/ /\ pc[l] = step /\ Fault /\ Failed(l)

(* With a pid namespace the host's /proc is not bound.                        *)
BoundSystem(l) ==
  [t \in SystemMounts \cup (IF conf[l].pidns THEN {} ELSE {"proc"}) |-> "rw"]

MountSystemDirs(l) == MountAll(l, "MountSystemDirs", BoundSystem(l))

(* A link that an earlier launch left makes symlink fail with EEXIST.         *)
MountSymLinks(l) ==
  LET free == "links" \notin disk[NameOf(l)]
  IN  \/ /\ pc[l] = "MountSymLinks" /\ free
         /\ Put(l, {"root", "links"})
         /\ Proceed(l, {}) /\ UNCHANGED <<own, fds, troubles>>
      \/ ~free /\ Refuse(l, "MountSymLinks")
      \/ pc[l] = "MountSymLinks" /\ free /\ Fault /\ Failed(l)

MountAppDirs(l) == MountAll(l, "MountAppDirs", AppMounts)

SetGroups(l) == Step(l, "SetGroups", TRUE, "groups")

(* The policy names the mount point as mountinfo spells it.                   *)
IsExactMountPoint(l, t) == mnts[l][t] # "none"

IsPolicyWriteEscalation(policyReadOnly, existing) == ~policyReadOnly /\ existing = "ro"

(* A rule matches the paths within its target; one granted permission is      *)
(* enough.                                                                    *)
MatchConditionalSource(l, t) ==
  \E r \in DOMAIN Conditional :
    /\ <<t, r>> \in Within
    /\ \/ Conditional[r] = {}
       \/ \E perm \in Conditional[r] : IsPermissionGranted(l, perm)

(* Whether the policy mount p of launch l is carried out over the mounts so   *)
(* far; a remount fails at a mount point that a later mount hides.            *)
Permitted(l, p) ==
  IF IsExactMountPoint(l, p.target)
    THEN /\ mnts[l][p.target] # "covered"
         /\ ~IsPolicyWriteEscalation(p.ro, mnts[l][p.target])
    ELSE MatchConditionalSource(l, p.target)

(* A mount on u hides whatever was mounted there and below.                   *)
BindOver(mt, u, new) ==
  [t \in Targets |->
     IF t = u THEN new
     ELSE IF mt[t] # "none" /\ <<t, u>> \in Within THEN "covered" ELSE mt[t]]

(* RemountPolicyMount, or BindMountConditionalPath, which makes the missing   *)
(* directories on the way.  A source that does not exist is a fault.          *)
MountPolicyPath(l, p) ==
  LET mode == IF p.ro THEN "ro" ELSE "rw"
  IN  IF IsExactMountPoint(l, p.target)
        THEN mnts' = [mnts EXCEPT ![l] = [@ EXCEPT ![p.target] = mode]] /\ UNCHANGED disk
        ELSE /\ mnts' = [mnts EXCEPT ![l] = BindOver(@, Location[p.target], mode)]
             /\ Put(l, {"root", "dirs"})

(* The next policy mount.                                                     *)
ApplyPolicyMounts(l) ==
  LET p == Head(left[l])
  IN  \/ left[l] = << >> /\ Step(l, "ApplyPolicyMounts", FALSE, "")
      \/ /\ pc[l] = "ApplyPolicyMounts" /\ left[l] # << >> /\ Permitted(l, p)
         /\ MountPolicyPath(l, p)
         /\ left' = [left EXCEPT ![l] = Tail(@)]
         /\ UNCHANGED <<pc, par, marks, status, code, pidOf, conf, byte, seen, fds, troubles>>
      \/ left[l] # << >> /\ ~Permitted(l, p) /\ Refuse(l, "ApplyPolicyMounts")
      \/ /\ pc[l] = "ApplyPolicyMounts" /\ left[l] # << >> /\ Permitted(l, p)
         /\ Fault /\ Failed(l)

(* pivot_root needs the bind mount and put_old.  Once it happened a failure   *)
(* of chdir or umount finds none of the old paths to clean up, and a failing  *)
(* rmdir of put_old is only logged.                                           *)
PivotRoot(l) ==
  LET n == NameOf(l)
      can == "bound" \in marks[l] /\ "putold" \in disk[n]
      rmdir == disk' = [disk EXCEPT ![n] = @ \ {"putold"}]
  IN  \/ ~can /\ Refuse(l, "PivotRoot")
      \/ /\ pc[l] = "PivotRoot" /\ can /\ Able(l, "PivotRoot")
         /\ \/ rmdir /\ Proceed(l, {"pivot"}) /\ UNCHANGED troubles
            \/ Fault /\ Proceed(l, {"pivot", "leftold"}) /\ UNCHANGED disk
         /\ UNCHANGED <<own, fds>>
      \/ pc[l] = "PivotRoot" /\ can /\ Fault /\ Failed(l)
      \/ /\ pc[l] = "PivotRoot" /\ can
         /\ marks' = [marks EXCEPT ![l] = @ \cup {"leftold"}]
         /\ Fault /\ Over(l, "refused") /\ UNCHANGED disk

SetProcessGroup(l) == Step(l, "SetProcessGroup", TRUE, "pgrp")

Opened(l, process, files) == [fds EXCEPT ![l] = @ \cup ({process} \X files)]

(* The delivery itself is module OperationControl; a failure gives the device *)
(* back, success keeps it open across the fork.                               *)
DeliverDaemonSidePolicies(l) ==
  \/ ~IsShell(l) /\ Step(l, "DeliverDaemonSidePolicies", FALSE, "")
  \/ /\ IsShell(l) /\ pc[l] = "DeliverDaemonSidePolicies"
     /\ fds' = Opened(l, "P", {"dec"})
     /\ Proceed(l, {"policy"}) /\ UNCHANGED <<own, disk, troubles>>
  \/ IsShell(l) /\ pc[l] = "DeliverDaemonSidePolicies" /\ Fault /\ Failed(l)

ConnectMonitorSocket(l) ==
  \/ conf[l].sock = "none" /\ Step(l, "ConnectMonitorSocket", FALSE, "")
  \/ conf[l].sock = "bad" /\ Refuse(l, "ConnectMonitorSocket")
  \/ /\ conf[l].sock = "good" /\ pc[l] = "ConnectMonitorSocket"
     /\ fds' = Opened(l, "P", {"sock"})
     /\ Proceed(l, {}) /\ UNCHANGED <<own, disk, troubles>>
  \/ conf[l].sock = "good" /\ pc[l] = "ConnectMonitorSocket" /\ Fault /\ Failed(l)

(* The gate is made before the fork, and both sides get a copy of every file. *)
ForkAfterUnshare(l) ==
  /\ pc[l] = "ForkAfterUnshare"
  /\ IF NeedsForkAfterUnshare(l)
       THEN \/ /\ par' = [par EXCEPT ![l] = "fresh"]
               /\ pc' = [pc EXCEPT ![l] = "ChildAfterFork"]
               /\ LET files == {f[2] : f \in fds[l]}
                          \cup IF NeedsStartGate(l) THEN {"gateR", "gateW"} ELSE {}
                  IN  fds' = [fds EXCEPT ![l] = {"P", "C"} \X files]
               /\ UNCHANGED <<own, marks, status, code, disk, pidOf, troubles>>
            \/ Fault /\ Failed(l)
       ELSE /\ pc' = [pc EXCEPT ![l] = "MountProcFs"]
            /\ UNCHANGED <<own, par, marks, fds, status, code, disk, pidOf, troubles>>

(* The child gives up its copies of the write end, the socket and the device. *)
KeptByChildMutant(l) == {<<"C", "gateR">>, <<"C", "gateW">>}
KeptByChild(l) == {<<"C", "gateR">>}

ChildAfterFork(l) ==
  /\ pc[l] = "ChildAfterFork"
  /\ fds' = [fds EXCEPT ![l] = {f \in @ : f[1] = "P" \/ f \in KeptByChild(l)}]
  /\ pc' = [pc EXCEPT ![l] = IF NeedsStartGate(l) THEN "WaitForStartGate"
                             ELSE "MountProcFs"]
  /\ UNCHANGED <<own, par, marks, status, code, disk, pidOf, troubles>>

(* read blocks while the gate has a writer and no byte; end of file means     *)
(* that nobody watches.                                                       *)
WaitForStartGate(l) ==
  /\ pc[l] = "WaitForStartGate"
  /\ \/ /\ byte[l]
        /\ byte' = [byte EXCEPT ![l] = FALSE]
        /\ fds' = [fds EXCEPT ![l] = @ \ {<<"C", "gateR">>}]
        /\ Proceed(l, {}) /\ UNCHANGED <<conf, left, mnts, seen, disk, troubles>>
     \/ /\ ~byte[l] /\ {"P", "C"} \X {"gateW"} \cap fds[l] = {}
        /\ Over(l, "unwatched") /\ UNCHANGED <<marks, disk, troubles>>

MountProcFs(l) ==
  \/ ~conf[l].pidns /\ Step(l, "MountProcFs", FALSE, "")
  \/ /\ conf[l].pidns /\ pc[l] = "MountProcFs"
     /\ mnts' = [mnts EXCEPT ![l] = [@ EXCEPT !["proc"] = "own"]]
     /\ Proceed(l, {}) /\ UNCHANGED <<conf, left, byte, seen, fds, disk, troubles>>
  \/ conf[l].pidns /\ pc[l] = "MountProcFs" /\ Fault /\ Failed(l)

ExecuteMountSteps(l) ==
  \/ CreateSandboxDir(l) \/ MkdirPutOld(l) \/ UnshareNamespaces(l) \/ MountNewRoot(l)
  \/ MountSystemDirs(l) \/ MountSymLinks(l) \/ MountAppDirs(l) \/ SetGroups(l)
  \/ ApplyPolicyMounts(l) \/ PivotRoot(l) \/ SetProcessGroup(l)
  \/ DeliverDaemonSidePolicies(l) \/ ConnectMonitorSocket(l) \/ ForkAfterUnshare(l)
  \/ ChildAfterFork(l) \/ WaitForStartGate(l) \/ MountProcFs(l)

(****************************** ExecuteLateSteps ****************************)

SetAccessToken(l) == Step(l, "SetAccessToken", TRUE, "token")
SetXpmOwnerId(l) == Step(l, "SetXpmOwnerId", IsShell(l), "xpm")
SetAinfo(l) == Step(l, "SetAinfo", IsShell(l), "ainfo")

(* Never fails: without root, or when the service refuses, there are simply   *)
(* no credentials.                                                            *)
FetchToolCredentials(l) ==
  /\ pc[l] = "FetchToolCredentials"
  /\ \E got \in BOOLEAN :
       /\ got => IsShell(l) /\ Able(l, "FetchToolCredentials") /\ conf[l].subject
       /\ ProceedPrivately(l, IF got THEN {"creds"} ELSE {})

SetUidGid(l) == Step(l, "SetUidGid", TRUE, "uid")

(* Directories whose permission the caller lacks are denied, those it has are *)
(* allowed; the answer of the permission check may change in between.         *)
PreDecDenyPaths(l) ==
  Step(l, "PreDecDenyPaths", IsShell(l) /\ ~IsPermissionGranted(l, "dir"), "deny")
ApplyDecPolicies(l) ==
  Step(l, "ApplyDecPolicies", IsShell(l) /\ IsPermissionGranted(l, "dir"), "allow")

PrepareWorkdir(l) == Step(l, "PrepareWorkdir", TRUE, "workdir")

(* clearenv and the sanitized variables: whatever was in the environment      *)
(* before is gone.                                                            *)
ApplyEnvironment(l) ==
  \/ /\ pc[l] = "ApplyEnvironment"
     /\ pc' = [pc EXCEPT ![l] = Onward[pc[l]]]
     /\ marks' = [marks EXCEPT ![l] = (@ \ {"credenv"}) \cup {"env"}]
     /\ UNCHANGED <<par, status, code, pidOf, own, fds, disk, troubles>>
  \/ pc[l] = "ApplyEnvironment" /\ Fault /\ Failed(l)

(* Never fails: a credential that setenv does not take is logged and left     *)
(* out.                                                                       *)
SetToolCredentials(l) ==
  /\ pc[l] = "SetToolCredentials"
  /\ \/ ProceedPrivately(l, IF "creds" \in marks[l] THEN {"credenv"} ELSE {})
     \/ /\ "creds" \in marks[l] /\ Fault
        /\ Proceed(l, {"lostcred"}) /\ UNCHANGED <<own, fds, disk>>

SetSeccomp(l) == Step(l, "SetSeccomp", TRUE, "seccomp")
DeliverExecuterInit(l) == Step(l, "DeliverExecuterInit", IsShell(l), "executer")
DropCapabilities(l) == Step(l, "DropCapabilities", TRUE, "caps")

IsCustom(l) == IsShell(l) /\ IsPermissionGranted(l, "custom")
SetSandboxPathMark(l) == Step(l, "SetSandboxPathMark", IsCustom(l), "pathmark")
SetEncapsProcFlag(l) == Step(l, "SetEncapsProcFlag", IsCustom(l), "encaps")

(* The executable is opened, its SELinux type compared with the template's    *)
(* and that descriptor executed; every file of this module is close-on-exec.  *)
ExecuteCommand(l) ==
  \/ ~conf[l].exec /\ Refuse(l, "ExecuteCommand")
  \/ /\ conf[l].exec /\ pc[l] = "ExecuteCommand"
     /\ pc' = [pc EXCEPT ![l] = "running"]
     /\ fds' = [fds EXCEPT ![l] = Closed(l, Self(l))]
     /\ UNCHANGED <<own, par, marks, status, code, disk, pidOf, troubles>>
  \/ conf[l].exec /\ pc[l] = "ExecuteCommand" /\ Fault /\ Failed(l)

ExecuteLateSteps(l) ==
  \/ SetAccessToken(l) \/ SetXpmOwnerId(l) \/ SetAinfo(l) \/ FetchToolCredentials(l)
  \/ SetUidGid(l) \/ PreDecDenyPaths(l) \/ ApplyDecPolicies(l) \/ PrepareWorkdir(l)
  \/ ApplyEnvironment(l) \/ SetToolCredentials(l) \/ SetSeccomp(l)
  \/ DeliverExecuterInit(l) \/ DropCapabilities(l) \/ SetSandboxPathMark(l)
  \/ SetEncapsProcFlag(l) \/ ExecuteCommand(l)

Execute(l) == ExecuteEarlySteps(l) \/ ExecuteMountSteps(l) \/ ExecuteLateSteps(l)

(****************************** the parent **********************************)

ParentStep(l, from, to) ==
  /\ par[l] = from
  /\ par' = [par EXCEPT ![l] = to]
  /\ marks' = [marks EXCEPT ![l] = IF to = "release" THEN @ \cup {"watched"} ELSE @]
  /\ UNCHANGED <<conf, left, mnts, seen, pc, status, disk, pidOf>>

(* The read end belongs to the child.                                         *)
ParentAfterFork(l) ==
  /\ ParentStep(l, "fresh", IF IsShell(l) THEN "init" ELSE "wait")
  /\ fds' = [fds EXCEPT ![l] = @ \ {<<"P", "gateR">>}]
  /\ UNCHANGED <<byte, code, troubles>>

CloseStartGateMutant(l) == byte' = [byte EXCEPT ![l] = TRUE]
CloseStartGate(l) == UNCHANGED byte

(* The device and the socket become the monitor's.  When it cannot start, the *)
(* gate is dropped instead of opened and its files are closed.                *)
MonitorInit(l) ==
  \/ /\ ParentStep(l, "init", "release")
     /\ UNCHANGED <<fds, byte, code, troubles>>
  \/ /\ ParentStep(l, "init", "wait")
     /\ Fault /\ CloseStartGate(l)
     /\ fds' = [fds EXCEPT ![l] = Closed(l, "P")]
     /\ UNCHANGED code

(* send fails when the child is gone; the write end is closed either way.     *)
ReleaseStartGate(l) ==
  /\ ParentStep(l, "release", "watch")
  /\ fds' = [fds EXCEPT ![l] = @ \ {<<"P", "gateW">>}]
  /\ \/ <<"C", "gateR">> \in fds[l] /\ byte' = [byte EXCEPT ![l] = TRUE] /\ UNCHANGED troubles
     \/ <<"C", "gateR">> \notin fds[l] /\ UNCHANGED <<byte, troubles>>
     \/ Fault /\ UNCHANGED byte
  /\ UNCHANGED code

(* Run returns the status of the child, or gives up watching.                 *)
MonitorRun(l) ==
  \/ /\ ParentStep(l, "watch", "over") /\ status[l] # "none"
     /\ code' = [code EXCEPT ![l] = status[l]]
     /\ fds' = [fds EXCEPT ![l] = Closed(l, "P")]
     /\ UNCHANGED <<byte, troubles>>
  \/ /\ ParentStep(l, "watch", "wait") /\ Fault
     /\ fds' = [fds EXCEPT ![l] = Closed(l, "P")]
     /\ UNCHANGED <<byte, code>>

ReapableMutant(l) == TRUE
Reapable(l) == status[l] # "none"

(* waitpid, then the exit of the parent with the status of the child.         *)
WaitForChildExit(l) ==
  /\ ParentStep(l, "wait", "over") /\ Reapable(l)
  /\ \/ code' = [code EXCEPT ![l] = status[l]] /\ UNCHANGED troubles
     \/ code' = [code EXCEPT ![l] = "lost"] /\ Fault
  /\ fds' = [fds EXCEPT ![l] = Closed(l, "P")]
  /\ UNCHANGED byte

Parent(l) ==
  \/ ParentAfterFork(l) \/ MonitorInit(l) \/ ReleaseStartGate(l) \/ MonitorRun(l)
  \/ WaitForChildExit(l)

(****************************** the environment *****************************)

CommandExits(l) ==
  pc[l] = "running" /\ Over(l, "exit") /\ UNCHANGED <<marks, disk, troubles>>

(* A signal ends the process that runs the steps or the command ...           *)
KillStepper(l) ==
  pc[l] # "over" /\ Fault /\ Over(l, "killed") /\ UNCHANGED <<marks, disk>>

(* ... or the parent that watches it.                                         *)
KillParent(l) ==
  /\ par[l] \notin {"none", "over"}
  /\ ParentStep(l, par[l], "over") /\ Fault
  /\ code' = [code EXCEPT ![l] = "killed"]
  /\ fds' = [fds EXCEPT ![l] = Closed(l, "P")]
  /\ UNCHANGED byte

(* The process with the caller's pid ends and another one gets the pid.  What *)
(* happens to the pid once the namespace is entered changes nothing.          *)
PidReused(l) ==
  /\ pc[l] \in Before("CreateSandboxDir") /\ Fault
  /\ \E who \in {"twin", "other"} \ {pidOf[l]} : pidOf' = [pidOf EXCEPT ![l] = who]
  /\ UNCHANGED <<own, pc, par, marks, fds, status, code, disk>>

(* claw_sandbox -d: RemoveSandboxDirTree deletes what is on disk.             *)
DeleteSandboxDir(n) ==
  /\ disk[n] # {} /\ Fault
  /\ disk' = [disk EXCEPT ![n] = {}]
  /\ marks' = Unbound(n)
  /\ UNCHANGED <<own, pc, par, fds, status, code, pidOf>>

Environment ==
  \/ \E l \in Launches : CommandExits(l) \/ KillStepper(l) \/ KillParent(l) \/ PidReused(l)
  \/ \E n \in Names : DeleteSandboxDir(n)

Next == (\E l \in Launches : Execute(l) \/ Parent(l)) \/ Environment

(* Both processes of a launch are scheduled; the command may run for ever.    *)
Fairness == \A l \in Launches : WF_vars(Execute(l)) /\ WF_vars(Parent(l))

Spec == Init /\ [][Next]_vars /\ Fairness

(****************************** properties **********************************)

(* What has to be in force when the command of launch l runs.                 *)
Required(l) ==
  {"label", "ns", "unshared", "pivot", "pgrp", "groups", "token", "uid", "env", "seccomp",
   "caps"}
  \cup (IF IsShell(l) THEN {"xpm", "ainfo", "policy", "executer"} ELSE {"tokenid"})
  \cup (IF IsShell(l) /\ ~IsPermissionGranted(l, "dir") THEN {"deny"} ELSE {})
  \cup (IF IsCustom(l) THEN {"pathmark", "encaps"} ELSE {})
  \cup (IF "creds" \in marks[l] /\ "lostcred" \notin marks[l] THEN {"credenv"} ELSE {})

(* The innermost mount that a process sees at the place t is read-only.       *)
ReadOnlyAt(mt, t) ==
  \E u \in Targets :
    /\ mt[u] = "ro" /\ <<t, u>> \in Within
    /\ \A w \in Targets :
         mt[w] \in {"rw", "ro", "own"} /\ <<t, w>> \in Within => <<u, w>> \in Within

(* Policy mount i of the list all names no mount point that exists by then.   *)
Binds(all, i) ==
  LET t == all[i].target
  IN  /\ t \notin Template
      /\ Location[t] = t => \A k \in 1..(i - 1) : Location[all[k].target] # t

(* It binds a fresh writable directory over the place u or one above it.      *)
Reopens(all, i, u) ==
  ~all[i].ro /\ Binds(all, i) /\ <<u, Location[all[i].target]>> \in Within

(* What the template or the policy makes read-only stays so, unless a later   *)
(* policy mount of a place above, or of the place in another spelling, binds  *)
(* a fresh one.                                                               *)
StaysReadOnly(l) ==
  LET all == conf[l].mounts
  IN  /\ \A t \in DOMAIN AppMounts : AppMounts[t] = "ro" => ReadOnlyAt(mnts[l], t)
      /\ \A j \in 1..Len(all) : all[j].ro =>
           \/ ReadOnlyAt(mnts[l], Location[all[j].target])
           \/ \E i \in (j + 1)..Len(all) : Reopens(all, i, Location[all[j].target])

(* A shell sandbox gets past the start gate only when its monitor was running *)
(* (sandbox_manager.cpp:2019): no kill, lost byte or failed start lets the    *)
(* command through unwatched.                                                 *)
PassedGate(l) ==
  pc[l] = "running" \/ pc[l] \in StepNames \ Before("MountProcFs")

(* A command runs only behind every measure its configuration calls for,      *)
(* whatever failed on the way, and holds no end of the gate, the device or    *)
(* the socket (sandbox_manager.cpp:604, :657); the monitor was running before *)
(* the gate let it through (:2019); what the template has read-only and what  *)
(* a policy mount makes so is read-only; and the mount namespace it entered   *)
(* belongs to a process with the ids of the caller, however often the pid was *)
(* reused (sandbox_mount.cpp:151).  A policy "must not widen an existing      *)
(* readonly mount to writable" (:773), but the code asks that only of a mount *)
(* point named exactly: a writable mount of a directory above it, or of the   *)
(* place with a slash more, is bound over it (:898).  A credential that       *)
(* setenv does not take is missing (sandbox_credential.cpp:92).               *)
RunsConfined ==
  \A l \in Launches :
    /\ pc[l] = "running" =>
         /\ Required(l) \subseteq marks[l]
         /\ mnts[l]["proc"] \in (IF conf[l].pidns THEN {"own"} ELSE {"rw", "ro"})
         /\ StaysReadOnly(l)
         /\ \A f \in fds[l] : f[1] # Self(l)
    /\ IsShell(l) /\ PassedGate(l) => "watched" \in marks[l]
    /\ seen[l].ns \in {"none", "caller", "twin"}

(* A launch that met no fault, no reuse of the pid, no deletion and no other  *)
(* launch of its name is refused only for its own configuration: no step      *)
(* gives up what a later step needs (sandbox_manager.cpp:624).                *)
PolicyRefused(l) ==
  \E i \in 1..Len(conf[l].mounts) :
    LET p == conf[l].mounts[i]
        t == p.target
        Spot(j) == Location[conf[l].mounts[j].target]
        templateReadOnly == t \in DOMAIN AppMounts /\ AppMounts[t] = "ro"
    IN  \/ ~p.ro /\ templateReadOnly
        \/ \E h \in 1..(i - 1) : ~p.ro /\ conf[l].mounts[h].ro /\ Spot(h) = t
        \/ \E h \in 1..(i - 1) : Spot(h) = t /\
             \E j \in (h + 1)..(i - 1) : Spot(j) # t /\ <<t, Spot(j)>> \in Within
        \/ /\ t \notin DOMAIN BoundSystem(l) \cup DOMAIN AppMounts
           /\ \A h \in 1..(i - 1) : Spot(h) # t
           /\ ~MatchConditionalSource(l, t)
Deserved(l) ==
  \/ conf[l].flaw # "" \/ conf[l].sock = "bad" \/ ~conf[l].exec \/ PolicyRefused(l)
  \/ troubles > 0
  \/ \E k \in Launches \ {l} : NameOf(k) = NameOf(l)
RefusalHasCause ==
  \A l \in Launches : status[l] \in {"refused", "unwatched"} => Deserved(l)

(* put_old, which keeps every other launch of the name out, outlasts the      *)
(* launches that are building a root only when one of them was killed or was  *)
(* stuck in the middle of PivotRoot (sandbox_mount.cpp:433, 1076).            *)
LockIsReturned ==
  \A n \in Names : "putold" \in disk[n] =>
    \E l \in Launches :
      /\ NameOf(l) = n
      /\ \/ pc[l] \in Undoable \ {"MkdirPutOld"}
         \/ status[l] = "killed" \/ "leftold" \in marks[l]

(* Every launch gets to its command or to its end: nobody waits for ever at   *)
(* the start gate (sandbox_manager.cpp:2063).                                 *)
LaunchSettles == \A l \in Launches : <>(pc[l] \in {"running", "over"})

(* The launch keeps the promise of LaunchContract to its caller.              *)
Contract == INSTANCE LaunchContract WITH
  Refusals <- {"refused", "unwatched", "killed"},
  Endings <- {"exit", "killed"},
  Unknown <- {"killed", "lost"},
  phase <- [l \in Launches |-> IF pc[l] \in {"running", "over"} THEN pc[l] ELSE "setup"],
  report <- code
KeepsContract == Contract!Spec
=============================================================================
