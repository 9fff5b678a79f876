-------------------------- MODULE SandboxLaunchProofs --------------------------
(***************************************************************************)
(* Theorems about SandboxLaunch for every number of launches, every        *)
(* configuration and template, and any number of faults, kills, reuses of  *)
(* the caller's pid and deletions.                                         *)
(*                                                                         *)
(* The forty-four steps come in three kinds: a step fails (Fails), passes  *)
(* without touching more than its process (Passes), or is one of twenty    *)
(* special ones (Special).  Every invariant below is carried through the   *)
(* kinds and through the steps of the parent and the environment:          *)
(*   EndsInv   how an end, the fork and the report to the caller fit;      *)
(*   GuardInv  a launch at step i has every measure the steps before i     *)
(*             give, the mounts they make, and a gate only a watching      *)
(*             parent opens;                                               *)
(*   ClearInv  without a fault a launch with nothing to blame finds, at    *)
(*             step i, whatever the steps from i on need.                  *)
(***************************************************************************)
EXTENDS SandboxLaunch, Algorithms, SequenceTheorems, WellFoundedInduction, TLAPS

(* Concatenation, element by element.                                         *)
LEMMA Joined ==
  ASSUME NEW S, NEW a \in Seq(S), NEW b \in Seq(S), NEW c, c = a \o b
  PROVE  /\ c \in Seq(S) /\ Len(c) = Len(a) + Len(b)
         /\ \A i \in 1..(Len(a) + Len(b)) : c[i] = IF i <= Len(a) THEN a[i] ELSE b[i - Len(a)]
<1>1. /\ a \o b \in Seq(S) /\ Len(a \o b) = Len(a) + Len(b)
      /\ \A i \in 1..(Len(a) + Len(b)) :
           (a \o b)[i] = IF i <= Len(a) THEN a[i] ELSE b[i - Len(a)]
  OBVIOUS
<1> QED BY <1>1

(* The forty-four steps, one by one.                                          *)
LEMMA StepLists ==
  /\ Steps[1] = "ParseArguments" /\ Steps[2] = "Initialize" /\ Steps[3] = "ValidateConfig"
  /\ Steps[4] = "LoadTemplate" /\ Steps[5] = "SetSelinuxMCS" /\ Steps[6] = "GenerateTokenId"
  /\ Steps[7] = "SetReadProcGroup"
  /\ Steps[8] = "OpenCallerProcDir" /\ Steps[9] = "OpenCallerMountNamespace"
  /\ Steps[10] = "ReadNamespaceId" /\ Steps[11] = "SetNs" /\ Steps[12] = "CreateSandboxDir"
  /\ Steps[13] = "MkdirPutOld" /\ Steps[14] = "UnshareNamespaces" /\ Steps[15] = "MountNewRoot"
  /\ Steps[16] = "MountSystemDirs" /\ Steps[17] = "MountSymLinks" /\ Steps[18] = "MountAppDirs"
  /\ Steps[19] = "SetGroups" /\ Steps[20] = "ApplyPolicyMounts" /\ Steps[21] = "PivotRoot"
  /\ Steps[22] = "SetProcessGroup"
  /\ Steps[23] = "DeliverDaemonSidePolicies" /\ Steps[24] = "ConnectMonitorSocket"
  /\ Steps[25] = "ForkAfterUnshare"
  /\ Steps[26] = "ChildAfterFork" /\ Steps[27] = "WaitForStartGate"
  /\ Steps[28] = "MountProcFs" /\ Steps[29] = "SetAccessToken" /\ Steps[30] = "SetXpmOwnerId"
  /\ Steps[31] = "SetAinfo" /\ Steps[32] = "FetchToolCredentials" /\ Steps[33] = "SetUidGid"
  /\ Steps[34] = "PreDecDenyPaths" /\ Steps[35] = "ApplyDecPolicies" /\ Steps[36] = "PrepareWorkdir"
  /\ Steps[37] = "ApplyEnvironment" /\ Steps[38] = "SetToolCredentials" /\ Steps[39] = "SetSeccomp"
  /\ Steps[40] = "DeliverExecuterInit"
  /\ Steps[41] = "DropCapabilities" /\ Steps[42] = "SetSandboxPathMark"
  /\ Steps[43] = "SetEncapsProcFlag" /\ Steps[44] = "ExecuteCommand"
  /\ Len(Steps) = 44
<1> DEFINE Words == {"ParseArguments", "Initialize", "ValidateConfig", "LoadTemplate",
      "SetSelinuxMCS", "GenerateTokenId", "SetReadProcGroup", "OpenCallerProcDir",
      "OpenCallerMountNamespace", "ReadNamespaceId", "SetNs", "CreateSandboxDir",
      "MkdirPutOld", "UnshareNamespaces", "MountNewRoot", "MountSystemDirs",
      "MountSymLinks", "MountAppDirs", "SetGroups", "ApplyPolicyMounts",
      "PivotRoot", "SetProcessGroup", "DeliverDaemonSidePolicies", "ConnectMonitorSocket",
      "ForkAfterUnshare", "ChildAfterFork", "WaitForStartGate", "MountProcFs",
      "SetAccessToken", "SetXpmOwnerId", "SetAinfo", "FetchToolCredentials",
      "SetUidGid", "PreDecDenyPaths", "ApplyDecPolicies", "PrepareWorkdir",
      "ApplyEnvironment", "SetToolCredentials", "SetSeccomp", "DeliverExecuterInit",
      "DropCapabilities", "SetSandboxPathMark", "SetEncapsProcFlag", "ExecuteCommand"}
<1>1. EarlySteps \in Seq(Words) /\ Len(EarlySteps) = 11
  BY DEF EarlySteps
<1>2. MountSteps \in Seq(Words) /\ Len(MountSteps) = 17
  BY DEF MountSteps
<1>3. LateSteps \in Seq(Words) /\ Len(LateSteps) = 16
  BY DEF LateSteps
<1> HIDE DEF Words
<1>4. /\ Len(Steps) = 44
      /\ \A i \in 1..11 : Steps[i] = EarlySteps[i]
      /\ \A i \in 12..28 : Steps[i] = MountSteps[i - 11]
      /\ \A i \in 29..44 : Steps[i] = LateSteps[i - 28]
  <2>1. PICK e, m, k, f : /\ e = EarlySteps /\ m = MountSteps /\ k = LateSteps
                          /\ f = e \o m
    OBVIOUS
  <2>2. /\ e \in Seq(Words) /\ Len(e) = 11 /\ m \in Seq(Words) /\ Len(m) = 17
        /\ k \in Seq(Words) /\ Len(k) = 16 /\ f = e \o m
    BY <1>1, <1>2, <1>3, <2>1
  <2>3. /\ f \in Seq(Words) /\ Len(f) = Len(e) + Len(m)
        /\ \A i \in 1..(Len(e) + Len(m)) : f[i] = IF i <= Len(e) THEN e[i] ELSE m[i - Len(e)]
    <3>1. e \in Seq(Words) /\ m \in Seq(Words) /\ f = e \o m
      BY <2>2
    <3> QED BY <3>1, Joined
  <2>4. PICK g : g = f \o k
    OBVIOUS
  <2>5. /\ Len(g) = Len(f) + Len(k)
        /\ \A i \in 1..(Len(f) + Len(k)) : g[i] = IF i <= Len(f) THEN f[i] ELSE k[i - Len(f)]
    <3>1. f \in Seq(Words) /\ k \in Seq(Words) /\ g = f \o k
      BY <2>2, <2>3, <2>4
    <3> QED BY <3>1, Joined
  <2>6. g = Steps
    BY <2>1, <2>4, Zenon DEF Steps
  <2>7. Len(f) = 28 /\ Len(g) = 44
    BY <2>2, <2>3, <2>5
  <2>8. \A i \in 1..28 : f[i] = IF i <= 11 THEN e[i] ELSE m[i - 11]
    <3>1. Len(e) = 11 /\ Len(m) = 17
      BY <2>2
    <3>2. \A i \in 1..(Len(e) + Len(m)) : f[i] = IF i <= Len(e) THEN e[i] ELSE m[i - Len(e)]
      BY <2>3
    <3> QED BY <3>1, <3>2
  <2>9. \A i \in 1..44 : g[i] = IF i <= 28 THEN f[i] ELSE k[i - 28]
    <3>1. Len(f) = 28 /\ Len(k) = 16
      BY <2>2, <2>7
    <3> QED BY <2>5, <3>1
  <2>10. /\ e = EarlySteps /\ m = MountSteps /\ k = LateSteps
    BY <2>1
  <2> QED BY <2>6, <2>7, <2>8, <2>9, <2>10
<1>5. /\ Steps[1] = "ParseArguments" /\ Steps[2] = "Initialize" /\ Steps[3] = "ValidateConfig"
      /\ Steps[4] = "LoadTemplate" /\ Steps[5] = "SetSelinuxMCS" /\ Steps[6] = "GenerateTokenId"
      /\ Steps[7] = "SetReadProcGroup"
      /\ Steps[8] = "OpenCallerProcDir" /\ Steps[9] = "OpenCallerMountNamespace"
      /\ Steps[10] = "ReadNamespaceId" /\ Steps[11] = "SetNs"
  BY <1>4 DEF EarlySteps
<1>6. /\ Steps[12] = "CreateSandboxDir" /\ Steps[13] = "MkdirPutOld" /\ Steps[14] = "UnshareNamespaces"
      /\ Steps[15] = "MountNewRoot" /\ Steps[16] = "MountSystemDirs" /\ Steps[17] = "MountSymLinks"
      /\ Steps[18] = "MountAppDirs" /\ Steps[19] = "SetGroups" /\ Steps[20] = "ApplyPolicyMounts"
      /\ Steps[21] = "PivotRoot"
      /\ Steps[22] = "SetProcessGroup" /\ Steps[23] = "DeliverDaemonSidePolicies"
      /\ Steps[24] = "ConnectMonitorSocket"
      /\ Steps[25] = "ForkAfterUnshare" /\ Steps[26] = "ChildAfterFork"
      /\ Steps[27] = "WaitForStartGate" /\ Steps[28] = "MountProcFs"
  BY <1>4 DEF MountSteps
<1>7. /\ Steps[29] = "SetAccessToken" /\ Steps[30] = "SetXpmOwnerId" /\ Steps[31] = "SetAinfo"
      /\ Steps[32] = "FetchToolCredentials"
      /\ Steps[33] = "SetUidGid" /\ Steps[34] = "PreDecDenyPaths"
      /\ Steps[35] = "ApplyDecPolicies"
      /\ Steps[36] = "PrepareWorkdir" /\ Steps[37] = "ApplyEnvironment"
      /\ Steps[38] = "SetToolCredentials"
      /\ Steps[39] = "SetSeccomp" /\ Steps[40] = "DeliverExecuterInit"
      /\ Steps[41] = "DropCapabilities"
      /\ Steps[42] = "SetSandboxPathMark" /\ Steps[43] = "SetEncapsProcFlag"
      /\ Steps[44] = "ExecuteCommand"
  BY <1>4 DEF LateSteps
<1> QED BY <1>4, <1>5, <1>6, <1>7

(* The place of every step.                                                   *)
LEMMA Places ==
  /\ StepNames = {"ParseArguments", "Initialize", "ValidateConfig", "LoadTemplate",
      "SetSelinuxMCS", "GenerateTokenId", "SetReadProcGroup", "OpenCallerProcDir",
      "OpenCallerMountNamespace", "ReadNamespaceId", "SetNs", "CreateSandboxDir",
      "MkdirPutOld", "UnshareNamespaces", "MountNewRoot", "MountSystemDirs",
      "MountSymLinks", "MountAppDirs", "SetGroups", "ApplyPolicyMounts",
      "PivotRoot", "SetProcessGroup", "DeliverDaemonSidePolicies", "ConnectMonitorSocket",
      "ForkAfterUnshare", "ChildAfterFork", "WaitForStartGate", "MountProcFs",
      "SetAccessToken", "SetXpmOwnerId", "SetAinfo", "FetchToolCredentials",
      "SetUidGid", "PreDecDenyPaths", "ApplyDecPolicies", "PrepareWorkdir",
      "ApplyEnvironment", "SetToolCredentials", "SetSeccomp", "DeliverExecuterInit",
      "DropCapabilities", "SetSandboxPathMark", "SetEncapsProcFlag", "ExecuteCommand"}
  /\ Place["ParseArguments"] = 1 /\ Place["Initialize"] = 2
  /\ Place["ValidateConfig"] = 3 /\ Place["LoadTemplate"] = 4
  /\ Place["SetSelinuxMCS"] = 5 /\ Place["GenerateTokenId"] = 6
  /\ Place["SetReadProcGroup"] = 7 /\ Place["OpenCallerProcDir"] = 8
  /\ Place["OpenCallerMountNamespace"] = 9 /\ Place["ReadNamespaceId"] = 10
  /\ Place["SetNs"] = 11 /\ Place["CreateSandboxDir"] = 12
  /\ Place["MkdirPutOld"] = 13 /\ Place["UnshareNamespaces"] = 14
  /\ Place["MountNewRoot"] = 15 /\ Place["MountSystemDirs"] = 16
  /\ Place["MountSymLinks"] = 17 /\ Place["MountAppDirs"] = 18
  /\ Place["SetGroups"] = 19 /\ Place["ApplyPolicyMounts"] = 20
  /\ Place["PivotRoot"] = 21 /\ Place["SetProcessGroup"] = 22
  /\ Place["DeliverDaemonSidePolicies"] = 23 /\ Place["ConnectMonitorSocket"] = 24
  /\ Place["ForkAfterUnshare"] = 25 /\ Place["ChildAfterFork"] = 26
  /\ Place["WaitForStartGate"] = 27 /\ Place["MountProcFs"] = 28
  /\ Place["SetAccessToken"] = 29 /\ Place["SetXpmOwnerId"] = 30
  /\ Place["SetAinfo"] = 31 /\ Place["FetchToolCredentials"] = 32
  /\ Place["SetUidGid"] = 33 /\ Place["PreDecDenyPaths"] = 34
  /\ Place["ApplyDecPolicies"] = 35 /\ Place["PrepareWorkdir"] = 36
  /\ Place["ApplyEnvironment"] = 37 /\ Place["SetToolCredentials"] = 38
  /\ Place["SetSeccomp"] = 39 /\ Place["DeliverExecuterInit"] = 40
  /\ Place["DropCapabilities"] = 41 /\ Place["SetSandboxPathMark"] = 42
  /\ Place["SetEncapsProcFlag"] = 43 /\ Place["ExecuteCommand"] = 44
<1>1. \A s \in StepNames : Place[s] = CHOOSE i \in 1..44 : Steps[i] = s
  BY StepLists, ZenonT(60) DEF Place
<1>2. StepNames = {Steps[i] : i \in 1..44}
  BY StepLists, ZenonT(60) DEF StepNames
<1>3. \A i \in 1..44 : Steps[i] \in StepNames
  BY <1>2
<1>4. \A i, j \in 1..44 : Steps[i] = Steps[j] => i = j
  BY StepLists
<1>5. \A i \in 1..44 : Place[Steps[i]] = i
  BY <1>1, <1>3, <1>4, ZenonT(60)
<1>6. StepNames = {"ParseArguments", "Initialize", "ValidateConfig", "LoadTemplate",
      "SetSelinuxMCS", "GenerateTokenId", "SetReadProcGroup", "OpenCallerProcDir",
      "OpenCallerMountNamespace", "ReadNamespaceId", "SetNs", "CreateSandboxDir",
      "MkdirPutOld", "UnshareNamespaces", "MountNewRoot", "MountSystemDirs",
      "MountSymLinks", "MountAppDirs", "SetGroups", "ApplyPolicyMounts",
      "PivotRoot", "SetProcessGroup", "DeliverDaemonSidePolicies", "ConnectMonitorSocket",
      "ForkAfterUnshare", "ChildAfterFork", "WaitForStartGate", "MountProcFs",
      "SetAccessToken", "SetXpmOwnerId", "SetAinfo", "FetchToolCredentials",
      "SetUidGid", "PreDecDenyPaths", "ApplyDecPolicies", "PrepareWorkdir",
      "ApplyEnvironment", "SetToolCredentials", "SetSeccomp", "DeliverExecuterInit",
      "DropCapabilities", "SetSandboxPathMark", "SetEncapsProcFlag", "ExecuteCommand"}
  BY <1>2, StepLists
<1> QED BY <1>5, <1>6, StepLists

(* The step that follows each step.                                           *)
LEMMA Road ==
  /\ DOMAIN Onward = StepNames \ {"ExecuteCommand"}
  /\ Onward["ParseArguments"] = "Initialize" /\ Onward["Initialize"] = "ValidateConfig"
  /\ Onward["ValidateConfig"] = "LoadTemplate" /\ Onward["LoadTemplate"] = "SetSelinuxMCS"
  /\ Onward["SetSelinuxMCS"] = "GenerateTokenId" /\ Onward["GenerateTokenId"] = "SetReadProcGroup"
  /\ Onward["SetReadProcGroup"] = "OpenCallerProcDir"
  /\ Onward["OpenCallerProcDir"] = "OpenCallerMountNamespace"
  /\ Onward["OpenCallerMountNamespace"] = "ReadNamespaceId" /\ Onward["ReadNamespaceId"] = "SetNs"
  /\ Onward["SetNs"] = "CreateSandboxDir" /\ Onward["CreateSandboxDir"] = "MkdirPutOld"
  /\ Onward["MkdirPutOld"] = "UnshareNamespaces" /\ Onward["UnshareNamespaces"] = "MountNewRoot"
  /\ Onward["MountNewRoot"] = "MountSystemDirs" /\ Onward["MountSystemDirs"] = "MountSymLinks"
  /\ Onward["MountSymLinks"] = "MountAppDirs" /\ Onward["MountAppDirs"] = "SetGroups"
  /\ Onward["SetGroups"] = "ApplyPolicyMounts" /\ Onward["ApplyPolicyMounts"] = "PivotRoot"
  /\ Onward["PivotRoot"] = "SetProcessGroup"
  /\ Onward["SetProcessGroup"] = "DeliverDaemonSidePolicies"
  /\ Onward["DeliverDaemonSidePolicies"] = "ConnectMonitorSocket"
  /\ Onward["ConnectMonitorSocket"] = "ForkAfterUnshare"
  /\ Onward["ForkAfterUnshare"] = "ChildAfterFork" /\ Onward["ChildAfterFork"] = "WaitForStartGate"
  /\ Onward["WaitForStartGate"] = "MountProcFs" /\ Onward["MountProcFs"] = "SetAccessToken"
  /\ Onward["SetAccessToken"] = "SetXpmOwnerId" /\ Onward["SetXpmOwnerId"] = "SetAinfo"
  /\ Onward["SetAinfo"] = "FetchToolCredentials" /\ Onward["FetchToolCredentials"] = "SetUidGid"
  /\ Onward["SetUidGid"] = "PreDecDenyPaths" /\ Onward["PreDecDenyPaths"] = "ApplyDecPolicies"
  /\ Onward["ApplyDecPolicies"] = "PrepareWorkdir" /\ Onward["PrepareWorkdir"] = "ApplyEnvironment"
  /\ Onward["ApplyEnvironment"] = "SetToolCredentials"
  /\ Onward["SetToolCredentials"] = "SetSeccomp"
  /\ Onward["SetSeccomp"] = "DeliverExecuterInit"
  /\ Onward["DeliverExecuterInit"] = "DropCapabilities"
  /\ Onward["DropCapabilities"] = "SetSandboxPathMark"
  /\ Onward["SetSandboxPathMark"] = "SetEncapsProcFlag"
  /\ Onward["SetEncapsProcFlag"] = "ExecuteCommand"
<1>1. \A s \in StepNames \ {"ExecuteCommand"} : Onward[s] = Steps[Place[s] + 1]
  BY Zenon DEF Onward
<1> QED BY <1>1, Places, StepLists DEF Onward

(****************************** kinds of steps ******************************)

(* Steps that only ever concern their own process, and the configurations     *)
(* for which another step is skipped.                                         *)
Private(l) ==
  {"ParseArguments", "Initialize", "ValidateConfig", "LoadTemplate", "GenerateTokenId",
   "SetReadProcGroup", "OpenCallerMountNamespace", "UnshareNamespaces", "MountNewRoot",
   "SetGroups", "SetProcessGroup", "SetAccessToken", "SetXpmOwnerId", "SetAinfo",
   "FetchToolCredentials", "SetUidGid", "PreDecDenyPaths", "ApplyDecPolicies",
   "PrepareWorkdir", "SetToolCredentials", "SetSeccomp", "DeliverExecuterInit",
   "DropCapabilities", "SetSandboxPathMark", "SetEncapsProcFlag"}
  \cup (IF left[l] = << >> THEN {"ApplyPolicyMounts"} ELSE {})
  \cup (IF IsShell(l) THEN {} ELSE {"DeliverDaemonSidePolicies"})
  \cup (IF conf[l].sock = "none" THEN {"ConnectMonitorSocket"} ELSE {})
  \cup (IF conf[l].pidns THEN {} ELSE {"MountProcFs"})

(* What a step puts in force for a configuration, when it has to.             *)
Due(step, c) ==
  {m \in Measures :
     \/ step = "GenerateTokenId" /\ c.type # "shell" /\ m = "tokenid"
     \/ step = "UnshareNamespaces" /\ m = "unshared"
     \/ step = "MountNewRoot" /\ m = "bound"
     \/ step = "SetGroups" /\ m = "groups"
     \/ step = "SetProcessGroup" /\ m = "pgrp"
     \/ step = "SetAccessToken" /\ m = "token"
     \/ step = "SetXpmOwnerId" /\ c.type = "shell" /\ m = "xpm"
     \/ step = "SetAinfo" /\ c.type = "shell" /\ m = "ainfo"
     \/ step = "SetUidGid" /\ m = "uid"
     \/ step = "PreDecDenyPaths" /\ c.type = "shell" /\ "dir" \notin c.perms /\ m = "deny"
     \/ step = "SetSeccomp" /\ m = "seccomp"
     \/ step = "DeliverExecuterInit" /\ c.type = "shell" /\ m = "executer"
     \/ step = "DropCapabilities" /\ m = "caps"
     \/ /\ step = "SetSandboxPathMark" /\ c.type = "shell" /\ "custom" \in c.perms
        /\ m = "pathmark"
     \/ /\ step = "SetEncapsProcFlag" /\ c.type = "shell" /\ "custom" \in c.perms
        /\ m = "encaps"}

(* A private step succeeds or is skipped.                                     *)
Passes(l) ==
  /\ pc[l] \in Private(l)
  /\ \E new \in SUBSET Measures :
       /\ Due(pc[l], conf[l]) \subseteq new
       /\ new \cap {"leftold", "watched", "pivot"} = {}
       /\ "uid" \in new => pc[l] = "SetUidGid"
       /\ "seccomp" \in new => pc[l] = "SetSeccomp"
       /\ "creds" \in new => pc[l] = "FetchToolCredentials"
       /\ pc[l] = "SetToolCredentials" /\ "creds" \in marks[l] =>
            "credenv" \in new \/ "lostcred" \in new
       /\ Proceed(l, new) /\ UNCHANGED <<own, fds, disk>>
       /\ Fault \/ UNCHANGED troubles

(* Why a step refuses a launch without a failing call.                        *)
Blocked(l) ==
  \/ ~Able(l, pc[l])
  \/ conf[l].flaw = pc[l]
  \/ pc[l] = "OpenCallerProcDir" /\ ~SameIds(l)
  \/ pc[l] = "OpenCallerMountNamespace" /\ seen[l].proc # pidOf[l]
  \/ pc[l] = "SetNs" /\ seen[l].proc # seen[l].target
  \/ /\ pc[l] = "MkdirPutOld"
     /\ "root" \notin disk[NameOf(l)] \/ "putold" \in disk[NameOf(l)]
  \/ pc[l] = "MountNewRoot" /\ "root" \notin disk[NameOf(l)]
  \/ pc[l] = "MountSymLinks" /\ "links" \in disk[NameOf(l)]
  \/ pc[l] = "ApplyPolicyMounts" /\ left[l] # << >> /\ ~Permitted(l, Head(left[l]))
  \/ pc[l] = "PivotRoot" /\ ("bound" \notin marks[l] \/ "putold" \notin disk[NameOf(l)])
  \/ pc[l] = "ConnectMonitorSocket" /\ conf[l].sock = "bad"
  \/ pc[l] = "ExecuteCommand" /\ ~conf[l].exec

(* A step fails, and with it the launch.                                      *)
Fails(l) ==
  /\ pc[l] \in StepNames
  /\ Failed(l)
  /\ Fault \/ (Blocked(l) /\ UNCHANGED troubles)

(* The steps that do more than that, and did not fail.                        *)
Special(l) ==
  \/ SetSelinuxMCS(l) \/ OpenCallerProcDir(l) \/ ReadNamespaceId(l) \/ SetNs(l)
  \/ CreateSandboxDir(l) \/ MkdirPutOld(l) \/ MountSystemDirs(l) \/ MountSymLinks(l)
  \/ MountAppDirs(l)
  \/ left[l] # << >> /\ ApplyPolicyMounts(l)
  \/ PivotRoot(l)
  \/ IsShell(l) /\ DeliverDaemonSidePolicies(l)
  \/ conf[l].sock # "none" /\ ConnectMonitorSocket(l)
  \/ ForkAfterUnshare(l) \/ ChildAfterFork(l) \/ WaitForStartGate(l)
  \/ conf[l].pidns /\ MountProcFs(l)
  \/ ApplyEnvironment(l) \/ ExecuteCommand(l)

(* A step of the shape Step fails or passes.                                  *)
LEMMA StepKinds ==
  ASSUME NEW l \in Launches, NEW step \in StepNames, NEW needed \in BOOLEAN,
         NEW mark, needed => mark \in Measures \ {"leftold", "watched", "pivot", "creds"},
         needed /\ mark = "uid" => step = "SetUidGid",
         needed /\ mark = "seccomp" => step = "SetSeccomp",
         step # "SetToolCredentials",
         Due(step, conf[l]) \subseteq (IF needed THEN {mark} ELSE {}),
         step \in Private(l), Step(l, step, needed, mark)
  PROVE  Fails(l) \/ Passes(l)
<1>1. CASE /\ needed => Able(l, step)
           /\ ProceedPrivately(l, IF needed THEN {mark} ELSE {})
  <2> DEFINE new == IF needed THEN {mark} ELSE {}
  <2>1. new \in SUBSET Measures /\ new \cap {"leftold", "watched", "pivot"} = {}
    OBVIOUS
  <2>2. /\ "uid" \in new => step = "SetUidGid"
        /\ "seccomp" \in new => step = "SetSeccomp"
        /\ "creds" \notin new
    OBVIOUS
  <2> HIDE DEF new
  <2>3. pc[l] = step /\ Due(step, conf[l]) \subseteq new /\ ProceedPrivately(l, new)
    BY <1>1 DEF new, Step
  <2> QED BY <2>1, <2>2, <2>3 DEF Passes, ProceedPrivately
<1>2. CASE /\ needed /\ Failed(l)
           /\ IF Able(l, step) THEN Fault ELSE UNCHANGED troubles
  BY <1>2 DEF Fails, Blocked, Step
<1> QED BY <1>1, <1>2 DEF Step

(* Every step of the process fails, passes, or is one of the special ones.    *)
LEMMA Kinds ==
  ASSUME NEW l \in Launches, Execute(l)
  PROVE  Fails(l) \/ Passes(l) \/ Special(l)
<1>0. ASSUME NEW step \in {"ParseArguments", "Initialize", "ValidateConfig", "LoadTemplate"},
             Examine(l, step)
      PROVE  Fails(l) \/ Passes(l)
  <2>1. /\ step \in StepNames /\ step # "SetToolCredentials" /\ step \in Private(l)
        /\ Due(step, conf[l]) \subseteq {}
    BY Places DEF Private, Due
  <2>2. CASE Step(l, step, FALSE, "")
    BY <2>1, <2>2, StepKinds
  <2>3. CASE conf[l].flaw = step /\ Refuse(l, step)
    BY <2>1, <2>3 DEF Refuse, Fails, Blocked
  <2> QED BY <1>0, <2>2, <2>3 DEF Examine
<1>1. CASE GenerateTokenId(l)
  <2>1. /\ "GenerateTokenId" \in StepNames /\ "GenerateTokenId" \in Private(l)
        /\ Due("GenerateTokenId", conf[l]) \subseteq (IF ~IsShell(l) THEN {"tokenid"} ELSE {})
    BY Places DEF Private, Due, IsShell, IsCustom, IsPermissionGranted
  <2>2. Step(l, "GenerateTokenId", ~IsShell(l), "tokenid")
    BY <1>1 DEF GenerateTokenId
  <2>3. (~IsShell(l)) \in BOOLEAN /\ "tokenid" \in Measures
    BY DEF Measures, IsShell, IsCustom, IsPermissionGranted
  <2> QED BY <2>1, <2>2, <2>3, StepKinds
<1>2. CASE SetReadProcGroup(l)
  <2>1. /\ "SetReadProcGroup" \in StepNames /\ "SetReadProcGroup" \in Private(l)
        /\ Due("SetReadProcGroup", conf[l]) \subseteq (IF TRUE THEN {"readproc"} ELSE {})
    BY Places DEF Private, Due, IsShell, IsCustom, IsPermissionGranted
  <2>2. Step(l, "SetReadProcGroup", TRUE, "readproc")
    BY <1>2 DEF SetReadProcGroup
  <2>3. TRUE \in BOOLEAN /\ "readproc" \in Measures
    BY DEF Measures, IsShell, IsCustom, IsPermissionGranted
  <2> QED BY <2>1, <2>2, <2>3, StepKinds
<1>3. CASE UnshareNamespaces(l)
  <2>1. /\ "UnshareNamespaces" \in StepNames /\ "UnshareNamespaces" \in Private(l)
        /\ Due("UnshareNamespaces", conf[l]) \subseteq (IF TRUE THEN {"unshared"} ELSE {})
    BY Places DEF Private, Due, IsShell, IsCustom, IsPermissionGranted
  <2>2. Step(l, "UnshareNamespaces", TRUE, "unshared")
    BY <1>3 DEF UnshareNamespaces
  <2>3. TRUE \in BOOLEAN /\ "unshared" \in Measures
    BY DEF Measures, IsShell, IsCustom, IsPermissionGranted
  <2> QED BY <2>1, <2>2, <2>3, StepKinds
<1>4. CASE SetGroups(l)
  <2>1. /\ "SetGroups" \in StepNames /\ "SetGroups" \in Private(l)
        /\ Due("SetGroups", conf[l]) \subseteq (IF TRUE THEN {"groups"} ELSE {})
    BY Places DEF Private, Due, IsShell, IsCustom, IsPermissionGranted
  <2>2. Step(l, "SetGroups", TRUE, "groups")
    BY <1>4 DEF SetGroups
  <2>3. TRUE \in BOOLEAN /\ "groups" \in Measures
    BY DEF Measures, IsShell, IsCustom, IsPermissionGranted
  <2> QED BY <2>1, <2>2, <2>3, StepKinds
<1>5. CASE SetProcessGroup(l)
  <2>1. /\ "SetProcessGroup" \in StepNames /\ "SetProcessGroup" \in Private(l)
        /\ Due("SetProcessGroup", conf[l]) \subseteq (IF TRUE THEN {"pgrp"} ELSE {})
    BY Places DEF Private, Due, IsShell, IsCustom, IsPermissionGranted
  <2>2. Step(l, "SetProcessGroup", TRUE, "pgrp")
    BY <1>5 DEF SetProcessGroup
  <2>3. TRUE \in BOOLEAN /\ "pgrp" \in Measures
    BY DEF Measures, IsShell, IsCustom, IsPermissionGranted
  <2> QED BY <2>1, <2>2, <2>3, StepKinds
<1>6. CASE SetAccessToken(l)
  <2>1. /\ "SetAccessToken" \in StepNames /\ "SetAccessToken" \in Private(l)
        /\ Due("SetAccessToken", conf[l]) \subseteq (IF TRUE THEN {"token"} ELSE {})
    BY Places DEF Private, Due, IsShell, IsCustom, IsPermissionGranted
  <2>2. Step(l, "SetAccessToken", TRUE, "token")
    BY <1>6 DEF SetAccessToken
  <2>3. TRUE \in BOOLEAN /\ "token" \in Measures
    BY DEF Measures, IsShell, IsCustom, IsPermissionGranted
  <2> QED BY <2>1, <2>2, <2>3, StepKinds
<1>7. CASE SetXpmOwnerId(l)
  <2>1. /\ "SetXpmOwnerId" \in StepNames /\ "SetXpmOwnerId" \in Private(l)
        /\ Due("SetXpmOwnerId", conf[l]) \subseteq (IF IsShell(l) THEN {"xpm"} ELSE {})
    BY Places DEF Private, Due, IsShell, IsCustom, IsPermissionGranted
  <2>2. Step(l, "SetXpmOwnerId", IsShell(l), "xpm")
    BY <1>7 DEF SetXpmOwnerId
  <2>3. IsShell(l) \in BOOLEAN /\ "xpm" \in Measures
    BY DEF Measures, IsShell, IsCustom, IsPermissionGranted
  <2> QED BY <2>1, <2>2, <2>3, StepKinds
<1>8. CASE SetAinfo(l)
  <2>1. /\ "SetAinfo" \in StepNames /\ "SetAinfo" \in Private(l)
        /\ Due("SetAinfo", conf[l]) \subseteq (IF IsShell(l) THEN {"ainfo"} ELSE {})
    BY Places DEF Private, Due, IsShell, IsCustom, IsPermissionGranted
  <2>2. Step(l, "SetAinfo", IsShell(l), "ainfo")
    BY <1>8 DEF SetAinfo
  <2>3. IsShell(l) \in BOOLEAN /\ "ainfo" \in Measures
    BY DEF Measures, IsShell, IsCustom, IsPermissionGranted
  <2> QED BY <2>1, <2>2, <2>3, StepKinds
<1>9. CASE SetUidGid(l)
  <2>1. /\ "SetUidGid" \in StepNames /\ "SetUidGid" \in Private(l)
        /\ Due("SetUidGid", conf[l]) \subseteq (IF TRUE THEN {"uid"} ELSE {})
    BY Places DEF Private, Due, IsShell, IsCustom, IsPermissionGranted
  <2>2. Step(l, "SetUidGid", TRUE, "uid")
    BY <1>9 DEF SetUidGid
  <2>3. TRUE \in BOOLEAN /\ "uid" \in Measures
    BY DEF Measures, IsShell, IsCustom, IsPermissionGranted
  <2> QED BY <2>1, <2>2, <2>3, StepKinds
<1>10. CASE PreDecDenyPaths(l)
  <2>1. /\ "PreDecDenyPaths" \in StepNames /\ "PreDecDenyPaths" \in Private(l)
        /\ Due("PreDecDenyPaths", conf[l])
              \subseteq (IF (IsShell(l) /\ ~IsPermissionGranted(l, "dir")) THEN {"deny"} ELSE {})
    BY Places DEF Private, Due, IsShell, IsCustom, IsPermissionGranted
  <2>2. Step(l, "PreDecDenyPaths", (IsShell(l) /\ ~IsPermissionGranted(l, "dir")), "deny")
    BY <1>10 DEF PreDecDenyPaths
  <2>3. (IsShell(l) /\ ~IsPermissionGranted(l, "dir")) \in BOOLEAN /\ "deny" \in Measures
    BY DEF Measures, IsShell, IsCustom, IsPermissionGranted
  <2> QED BY <2>1, <2>2, <2>3, StepKinds
<1>11. CASE ApplyDecPolicies(l)
  <2>1. /\ "ApplyDecPolicies" \in StepNames /\ "ApplyDecPolicies" \in Private(l)
        /\ Due("ApplyDecPolicies", conf[l])
              \subseteq (IF (IsShell(l) /\ IsPermissionGranted(l, "dir")) THEN {"allow"} ELSE {})
    BY Places DEF Private, Due, IsShell, IsCustom, IsPermissionGranted
  <2>2. Step(l, "ApplyDecPolicies", (IsShell(l) /\ IsPermissionGranted(l, "dir")), "allow")
    BY <1>11 DEF ApplyDecPolicies
  <2>3. (IsShell(l) /\ IsPermissionGranted(l, "dir")) \in BOOLEAN /\ "allow" \in Measures
    BY DEF Measures, IsShell, IsCustom, IsPermissionGranted
  <2> QED BY <2>1, <2>2, <2>3, StepKinds
<1>12. CASE PrepareWorkdir(l)
  <2>1. /\ "PrepareWorkdir" \in StepNames /\ "PrepareWorkdir" \in Private(l)
        /\ Due("PrepareWorkdir", conf[l]) \subseteq (IF TRUE THEN {"workdir"} ELSE {})
    BY Places DEF Private, Due, IsShell, IsCustom, IsPermissionGranted
  <2>2. Step(l, "PrepareWorkdir", TRUE, "workdir")
    BY <1>12 DEF PrepareWorkdir
  <2>3. TRUE \in BOOLEAN /\ "workdir" \in Measures
    BY DEF Measures, IsShell, IsCustom, IsPermissionGranted
  <2> QED BY <2>1, <2>2, <2>3, StepKinds
<1>13. CASE SetSeccomp(l)
  <2>1. /\ "SetSeccomp" \in StepNames /\ "SetSeccomp" \in Private(l)
        /\ Due("SetSeccomp", conf[l]) \subseteq (IF TRUE THEN {"seccomp"} ELSE {})
    BY Places DEF Private, Due, IsShell, IsCustom, IsPermissionGranted
  <2>2. Step(l, "SetSeccomp", TRUE, "seccomp")
    BY <1>13 DEF SetSeccomp
  <2>3. TRUE \in BOOLEAN /\ "seccomp" \in Measures
    BY DEF Measures, IsShell, IsCustom, IsPermissionGranted
  <2> QED BY <2>1, <2>2, <2>3, StepKinds
<1>14. CASE DeliverExecuterInit(l)
  <2>1. /\ "DeliverExecuterInit" \in StepNames /\ "DeliverExecuterInit" \in Private(l)
        /\ Due("DeliverExecuterInit", conf[l]) \subseteq (IF IsShell(l) THEN {"executer"} ELSE {})
    BY Places DEF Private, Due, IsShell, IsCustom, IsPermissionGranted
  <2>2. Step(l, "DeliverExecuterInit", IsShell(l), "executer")
    BY <1>14 DEF DeliverExecuterInit
  <2>3. IsShell(l) \in BOOLEAN /\ "executer" \in Measures
    BY DEF Measures, IsShell, IsCustom, IsPermissionGranted
  <2> QED BY <2>1, <2>2, <2>3, StepKinds
<1>15. CASE DropCapabilities(l)
  <2>1. /\ "DropCapabilities" \in StepNames /\ "DropCapabilities" \in Private(l)
        /\ Due("DropCapabilities", conf[l]) \subseteq (IF TRUE THEN {"caps"} ELSE {})
    BY Places DEF Private, Due, IsShell, IsCustom, IsPermissionGranted
  <2>2. Step(l, "DropCapabilities", TRUE, "caps")
    BY <1>15 DEF DropCapabilities
  <2>3. TRUE \in BOOLEAN /\ "caps" \in Measures
    BY DEF Measures, IsShell, IsCustom, IsPermissionGranted
  <2> QED BY <2>1, <2>2, <2>3, StepKinds
<1>16. CASE SetSandboxPathMark(l)
  <2>1. /\ "SetSandboxPathMark" \in StepNames /\ "SetSandboxPathMark" \in Private(l)
        /\ Due("SetSandboxPathMark", conf[l]) \subseteq (IF IsCustom(l) THEN {"pathmark"} ELSE {})
    BY Places DEF Private, Due, IsShell, IsCustom, IsPermissionGranted
  <2>2. Step(l, "SetSandboxPathMark", IsCustom(l), "pathmark")
    BY <1>16 DEF SetSandboxPathMark
  <2>3. IsCustom(l) \in BOOLEAN /\ "pathmark" \in Measures
    BY DEF Measures, IsShell, IsCustom, IsPermissionGranted
  <2> QED BY <2>1, <2>2, <2>3, StepKinds
<1>17. CASE SetEncapsProcFlag(l)
  <2>1. /\ "SetEncapsProcFlag" \in StepNames /\ "SetEncapsProcFlag" \in Private(l)
        /\ Due("SetEncapsProcFlag", conf[l]) \subseteq (IF IsCustom(l) THEN {"encaps"} ELSE {})
    BY Places DEF Private, Due, IsShell, IsCustom, IsPermissionGranted
  <2>2. Step(l, "SetEncapsProcFlag", IsCustom(l), "encaps")
    BY <1>17 DEF SetEncapsProcFlag
  <2>3. IsCustom(l) \in BOOLEAN /\ "encaps" \in Measures
    BY DEF Measures, IsShell, IsCustom, IsPermissionGranted
  <2> QED BY <2>1, <2>2, <2>3, StepKinds
<1>18. CASE OpenCallerMountNamespace(l)
  <2>1. /\ "OpenCallerMountNamespace" \in StepNames /\ "OpenCallerMountNamespace" \in Private(l)
        /\ Due("OpenCallerMountNamespace", conf[l]) \subseteq {"nsfd"} /\ "nsfd" \in Measures
    BY Places DEF Private, Due, Measures
  <2>2. CASE Step(l, "OpenCallerMountNamespace", TRUE, "nsfd")
    BY <2>1, <2>2, StepKinds
  <2>3. CASE ~(seen[l].proc = pidOf[l]) /\ Refuse(l, "OpenCallerMountNamespace")
    BY <2>1, <2>3 DEF Refuse, Fails, Blocked
  <2> QED BY <1>18, <2>2, <2>3 DEF OpenCallerMountNamespace
<1>19. CASE MountNewRoot(l)
  <2>1. /\ "MountNewRoot" \in StepNames /\ "MountNewRoot" \in Private(l)
        /\ Due("MountNewRoot", conf[l]) \subseteq {"bound"} /\ "bound" \in Measures
    BY Places DEF Private, Due, Measures
  <2>2. CASE Step(l, "MountNewRoot", TRUE, "bound")
    BY <2>1, <2>2, StepKinds
  <2>3. CASE ~("root" \in disk[NameOf(l)]) /\ Refuse(l, "MountNewRoot")
    BY <2>1, <2>3 DEF Refuse, Fails, Blocked
  <2> QED BY <1>19, <2>2, <2>3 DEF MountNewRoot
<1>20. CASE left[l] = << >> /\ ApplyPolicyMounts(l)
  <2>1. /\ "ApplyPolicyMounts" \in StepNames /\ "ApplyPolicyMounts" \in Private(l)
        /\ Due("ApplyPolicyMounts", conf[l]) \subseteq {}
    BY <1>20, Places DEF Private, Due
  <2>2. Step(l, "ApplyPolicyMounts", FALSE, "")
    BY <1>20 DEF ApplyPolicyMounts
  <2> QED BY <2>1, <2>2, StepKinds
<1>21. CASE ~IsShell(l) /\ DeliverDaemonSidePolicies(l)
  <2>1. /\ "DeliverDaemonSidePolicies" \in StepNames /\ "DeliverDaemonSidePolicies" \in Private(l)
        /\ Due("DeliverDaemonSidePolicies", conf[l]) \subseteq {}
    BY <1>21, Places DEF Private, Due
  <2>2. Step(l, "DeliverDaemonSidePolicies", FALSE, "")
    BY <1>21 DEF DeliverDaemonSidePolicies
  <2> QED BY <2>1, <2>2, StepKinds
<1>22. CASE conf[l].sock = "none" /\ ConnectMonitorSocket(l)
  <2>1. /\ "ConnectMonitorSocket" \in StepNames /\ "ConnectMonitorSocket" \in Private(l)
        /\ Due("ConnectMonitorSocket", conf[l]) \subseteq {}
    BY <1>22, Places DEF Private, Due
  <2>2. Step(l, "ConnectMonitorSocket", FALSE, "")
    BY <1>22 DEF ConnectMonitorSocket
  <2> QED BY <2>1, <2>2, StepKinds
<1>23. CASE ~conf[l].pidns /\ MountProcFs(l)
  <2>1. /\ "MountProcFs" \in StepNames /\ "MountProcFs" \in Private(l)
        /\ Due("MountProcFs", conf[l]) \subseteq {}
    BY <1>23, Places DEF Private, Due
  <2>2. Step(l, "MountProcFs", FALSE, "")
    BY <1>23 DEF MountProcFs
  <2> QED BY <2>1, <2>2, StepKinds
<1>24. CASE FetchToolCredentials(l)
  <2>1. PICK got \in BOOLEAN :
          pc[l] = "FetchToolCredentials" /\ ProceedPrivately(l, IF got THEN {"creds"} ELSE {})
    BY <1>24 DEF FetchToolCredentials
  <2>2. PICK new : new = IF got THEN {"creds"} ELSE {}
    OBVIOUS
  <2>3. /\ pc[l] \in Private(l) /\ Due(pc[l], conf[l]) \subseteq new /\ new \in SUBSET Measures
        /\ new \cap {"leftold", "watched", "pivot"} = {}
        /\ "uid" \notin new /\ "seccomp" \notin new
    BY <2>1, <2>2 DEF Private, Due, Measures
  <2> QED BY <2>1, <2>2, <2>3 DEF Passes, ProceedPrivately
<1>25. CASE SetToolCredentials(l)
  <2>1. pc[l] = "SetToolCredentials"
    BY <1>25 DEF SetToolCredentials
  <2>2. PICK new \in {{}, {"credenv"}, {"lostcred"}} :
          /\ new = {} => "creds" \notin marks[l]
          /\ Proceed(l, new) /\ UNCHANGED <<own, fds, disk>>
          /\ Fault \/ UNCHANGED troubles
    BY <1>25 DEF SetToolCredentials, ProceedPrivately
  <2>3. /\ pc[l] \in Private(l) /\ Due(pc[l], conf[l]) \subseteq new /\ new \in SUBSET Measures
        /\ new \cap {"leftold", "watched", "pivot"} = {}
        /\ "uid" \notin new /\ "seccomp" \notin new /\ "creds" \notin new
        /\ "creds" \in marks[l] => "credenv" \in new \/ "lostcred" \in new
    BY <2>1, <2>2 DEF Private, Due, Measures
  <2> QED BY <2>1, <2>2, <2>3 DEF Passes
<1>26. CASE Special(l)
  BY <1>26
<1> QED
  <2>1. ParseArguments(l) \/ Initialize(l) \/ ValidateConfig(l) \/ LoadTemplate(l) =>
          Fails(l) \/ Passes(l)
    BY <1>0 DEF ParseArguments, Initialize, ValidateConfig, LoadTemplate
  <2> QED BY <2>1, <1>1, <1>2, <1>3, <1>4, <1>5, <1>6, <1>7, <1>8, <1>9, <1>10, <1>11, <1>12,
             <1>13, <1>14, <1>15, <1>16, <1>17, <1>18, <1>19, <1>20, <1>21, <1>22, <1>23,
             <1>24, <1>25, <1>26
          DEF Execute, ExecuteEarlySteps, EnterCallerSandbox, ExecuteMountSteps,
              ExecuteLateSteps, Special

(****************************** types ***************************************)

(* Every launch has a configuration and a name.                               *)
LEMMA ConfTyped ==
  ASSUME TypeOK, NEW l \in Launches
  PROVE  conf[l] \in Configurations /\ NameOf(l) \in Names
<1>1. conf \in [Launches -> Configurations]
  BY LaunchAssumption DEF TypeOK
<1>2. conf[l] \in Configurations
  BY <1>1
<1> QED BY <1>2, LaunchAssumption DEF NameOf, Configurations

(* The next step is a step.                                                   *)
LEMMA OnwardTyped ==
  \A s \in StepNames \ {"ExecuteCommand"} : Onward[s] \in StepNames
BY Places, Road

(* The steps that touch nothing but their process are steps.                  *)
LEMMA PrivateNames ==
  \A l \in Launches : \A s \in Private(l) : s \in StepNames \ {"ExecuteCommand"}
<1> SUFFICES ASSUME NEW l \in Launches, NEW s \in Private(l)
             PROVE  s \in StepNames \ {"ExecuteCommand"}
  OBVIOUS
<1> QED BY Places, ZenonT(60) DEF Private

(* A mount step that did not fail mounts what it is to mount, and moves on.    *)
LEMMA MountsWhatItShould ==
  ASSUME NEW l \in Launches, MountSystemDirs(l) \/ MountAppDirs(l), ~Fails(l)
  PROVE  \E step, b :
           /\ step \in {"MountSystemDirs", "MountAppDirs"}
           /\ pc[l] = step /\ Proceed(l, {}) /\ UNCHANGED <<conf, left, byte, seen, fds>>
           /\ disk' = [disk EXCEPT ![NameOf(l)] = @ \cup {"root", "dirs"}]
           /\ mnts' = [mnts EXCEPT ![l] =
                 [t \in Targets |-> IF t \in DOMAIN b THEN b[t] ELSE mnts[l][t]]]
           /\ step = "MountSystemDirs" => b = BoundSystem(l)
           /\ step = "MountAppDirs" => b = AppMounts
<1>1. ASSUME NEW step \in {"MountSystemDirs", "MountAppDirs"}, NEW b, MountAll(l, step, b)
      PROVE  /\ pc[l] = step /\ Proceed(l, {}) /\ UNCHANGED <<conf, left, byte, seen, fds>>
             /\ disk' = [disk EXCEPT ![NameOf(l)] = @ \cup {"root", "dirs"}]
             /\ mnts' = [mnts EXCEPT ![l] =
                   [t \in Targets |-> IF t \in DOMAIN b THEN b[t] ELSE mnts[l][t]]]
  <2>1. step \in StepNames
    BY Places
  <2> QED BY <1>1, <2>1 DEF MountAll, Fails, Put
<1>2. CASE MountSystemDirs(l)
  <2>1. MountAll(l, "MountSystemDirs", BoundSystem(l))
    BY <1>2 DEF MountSystemDirs
  <2> QED BY <1>1, <2>1
<1>3. CASE MountAppDirs(l)
  <2>1. MountAll(l, "MountAppDirs", AppMounts)
    BY <1>3 DEF MountAppDirs
  <2> QED BY <1>1, <2>1
<1> QED BY <1>2, <1>3

(* Closing files opens none.                                                  *)
LEMMA ClosedTyped ==
  ASSUME TypeOK, NEW l \in Launches, NEW q
  PROVE  Closed(l, q) \subseteq fds[l]
BY DEF Closed

(* Cleanup leaves no lock, and nothing without the root.                      *)
LEMMA CleanedTyped ==
  ASSUME NEW e \in SUBSET {"root", "putold", "links", "dirs"}, e # {} => "root" \in e
  PROVE  /\ Cleaned(e) \in SUBSET {"root", "putold", "links", "dirs"}
         /\ Cleaned(e) # {} => "root" \in Cleaned(e)
         /\ "putold" \notin Cleaned(e)
BY DEF Cleaned

(* The end of the stepping process keeps the types.                           *)
LEMMA OverTypes ==
  ASSUME TypeOK, NEW l \in Launches, NEW s \in {"refused", "unwatched", "exit", "killed"},
         Over(l, s), marks' \in [Launches -> SUBSET Measures],
         disk' \in [Names -> SUBSET {"root", "putold", "links", "dirs"}],
         \A n \in Names : disk'[n] # {} => "root" \in disk'[n],
         troubles' \in 0..MaxTroubles
  PROVE  TypeOK'
<1>1. Closed(l, Self(l)) \subseteq fds[l]
  BY ClosedTyped
<1> HIDE DEF Closed, Self
<1>2. fds' \in [Launches -> SUBSET ({"P", "C"} \X {"gateR", "gateW", "dec", "sock"})]
  <2>1. fds[l] \in SUBSET ({"P", "C"} \X {"gateR", "gateW", "dec", "sock"})
    BY DEF TypeOK
  <2>2. Closed(l, Self(l)) \in SUBSET ({"P", "C"} \X {"gateR", "gateW", "dec", "sock"})
    BY <1>1, <2>1
  <2>3. fds' = [fds EXCEPT ![l] = Closed(l, Self(l))]
    BY DEF Over
  <2> QED BY <2>2, <2>3 DEF TypeOK
<1>3. pc' \in [Launches -> StepNames \cup {"running", "over"}]
  BY DEF TypeOK, Over
<1>4. /\ status' \in [Launches -> {"none", "refused", "unwatched", "exit", "killed"}]
      /\ code' \in [Launches -> {"none", "refused", "unwatched", "exit", "killed", "lost"}]
  BY DEF TypeOK, Over
<1>5. UNCHANGED <<conf, left, mnts, byte, seen, par, pidOf>>
  BY DEF Over, own
<1> QED BY <1>2, <1>3, <1>4, <1>5 DEF TypeOK

(* A counted fault stays within its bound.                                    *)
LEMMA FaultTypes ==
  ASSUME TypeOK, Fault \/ UNCHANGED troubles
  PROVE  troubles' \in 0..MaxTroubles
<1>1. troubles \in 0..MaxTroubles /\ MaxTroubles \in Nat
  BY LaunchAssumption DEF TypeOK
<1>2. CASE Fault
  BY <1>1, <1>2 DEF Fault
<1>3. CASE UNCHANGED troubles
  BY <1>1, <1>3
<1> QED BY <1>2, <1>3

(* Losing the bind mount leaves measures.                                     *)
LEMMA UnboundTypes ==
  ASSUME TypeOK, NEW n \in Names
  PROVE  Unbound(n) \in [Launches -> SUBSET Measures]
BY DEF TypeOK, Unbound

(* A failing step keeps the types.                                            *)
LEMMA FailedTypes ==
  ASSUME TypeOK, NEW l \in Launches, Failed(l), Fault \/ UNCHANGED troubles
  PROVE  TypeOK'
<1> DEFINE n == NameOf(l)
<1>1. n \in Names
  BY ConfTyped
<1>2. /\ Cleaned(disk[n]) \in SUBSET {"root", "putold", "links", "dirs"}
      /\ Cleaned(disk[n]) # {} => "root" \in Cleaned(disk[n])
  BY <1>1, CleanedTyped DEF TypeOK
<1>3. Unbound(n) \in [Launches -> SUBSET Measures]
  BY <1>1, UnboundTypes
<1>4. /\ Over(l, "refused")
      /\ disk' = disk \/ disk' = [disk EXCEPT ![n] = Cleaned(disk[n])]
      /\ marks' = marks \/ marks' = Unbound(n)
  BY DEF Failed
<1> HIDE DEF n
<1>5. /\ disk' \in [Names -> SUBSET {"root", "putold", "links", "dirs"}]
      /\ \A m \in Names : disk'[m] # {} => "root" \in disk'[m]
  <2>1. /\ disk \in [Names -> SUBSET {"root", "putold", "links", "dirs"}]
        /\ \A m \in Names : disk[m] # {} => "root" \in disk[m]
    BY DEF TypeOK
  <2>2. PICK c : c = Cleaned(disk[n])
    OBVIOUS
  <2>3. /\ c \in SUBSET {"root", "putold", "links", "dirs"} /\ (c # {} => "root" \in c)
        /\ disk' = disk \/ disk' = [disk EXCEPT ![n] = c]
    BY <1>2, <1>4, <2>2
  <2> QED BY <1>1, <2>1, <2>3
<1>6. marks' \in [Launches -> SUBSET Measures]
  BY <1>3, <1>4 DEF TypeOK
<1> QED BY <1>4, <1>5, <1>6, FaultTypes, OverTypes

(* What a process that goes on leaves alone, and the types of the rest.       *)
LEMMA ProceedTypes ==
  ASSUME TypeOK, NEW l \in Launches, NEW new \in SUBSET Measures,
         pc[l] \in StepNames \ {"ExecuteCommand"}, Proceed(l, new)
  PROVE  /\ pc' \in [Launches -> StepNames \cup {"running", "over"}]
         /\ marks' \in [Launches -> SUBSET Measures]
         /\ UNCHANGED <<par, status, code, pidOf>>
<1>1. Onward[pc[l]] \in StepNames
  BY OnwardTyped
<1>2. pc' = [pc EXCEPT ![l] = Onward[pc[l]]] /\ marks' = [marks EXCEPT ![l] = marks[l] \cup new]
  BY DEF Proceed
<1> QED BY <1>1, <1>2 DEF TypeOK, Proceed

(* A new entry of a directory keeps the type of the disk.                     *)
LEMMA PutTypes ==
  ASSUME TypeOK, NEW l \in Launches, NEW e \in SUBSET {"root", "putold", "links", "dirs"},
         "root" \in e \/ "root" \in disk[NameOf(l)], Put(l, e)
  PROVE  /\ disk' \in [Names -> SUBSET {"root", "putold", "links", "dirs"}]
         /\ \A m \in Names : disk'[m] # {} => "root" \in disk'[m]
<1>1. NameOf(l) \in Names
  BY ConfTyped
<1> QED BY <1>1, ZenonT(30) DEF TypeOK, Put

(* Opening files leaves files.                                                *)
LEMMA OpenedTypes ==
  ASSUME TypeOK, NEW l \in Launches, NEW f \in {"dec", "sock"}
  PROVE  Opened(l, "P", {f}) \in [Launches -> SUBSET ({"P", "C"} \X {"gateR", "gateW", "dec", "sock"})]
BY DEF TypeOK, Opened

(* The mounts after policy mount p, at x if it binds.                         *)
Mode(p) == IF p.ro THEN "ro" ELSE "rw"
MountedOver(mt, p) ==
  IF mt[p.target] # "none" THEN [mt EXCEPT ![p.target] = Mode(p)]
  ELSE BindOver(mt, Location[p.target], Mode(p))

(* What a policy mount that is carried out does.                              *)
LEMMA PolicyShape ==
  ASSUME NEW l \in Launches, left[l] # << >>, ApplyPolicyMounts(l), ~Fails(l)
  PROVE  /\ pc[l] = "ApplyPolicyMounts" /\ Permitted(l, Head(left[l]))
         /\ left' = [left EXCEPT ![l] = Tail(left[l])]
         /\ mnts' = [mnts EXCEPT ![l] = MountedOver(mnts[l], Head(left[l]))]
         /\ disk' = disk \/ Put(l, {"root", "dirs"})
         /\ UNCHANGED <<pc, par, marks, status, code, pidOf, conf, byte, seen, fds, troubles>>
<1> DEFINE p == Head(left[l])
<1>1. /\ pc[l] = "ApplyPolicyMounts" /\ Permitted(l, p) /\ MountPolicyPath(l, p)
      /\ left' = [left EXCEPT ![l] = Tail(@)]
      /\ UNCHANGED <<pc, par, marks, status, code, pidOf, conf, byte, seen, fds, troubles>>
  BY Places DEF ApplyPolicyMounts, Fails, Blocked, Refuse
<1>2. CASE mnts[l][p.target] # "none"
  BY <1>1, <1>2 DEF MountPolicyPath, IsExactMountPoint, MountedOver, Mode
<1>3. CASE mnts[l][p.target] = "none"
  BY <1>1, <1>3 DEF MountPolicyPath, IsExactMountPoint, MountedOver, Mode
<1> QED BY <1>1, <1>2, <1>3

(* The next policy mount is one.                                              *)
LEMMA HeadTyped ==
  ASSUME TypeOK, NEW l \in Launches, left[l] # << >>
  PROVE  Head(left[l]) \in PolicyMounts
BY DEF TypeOK

(* The mounts after a policy mount, one by one.                               *)
LEMMA MountedPoints ==
  ASSUME NEW mt \in [Targets -> {"none", "rw", "ro", "own", "covered"}], NEW p \in PolicyMounts
  PROVE  /\ MountedOver(mt, p) \in [Targets -> {"none", "rw", "ro", "own", "covered"}]
         /\ p.target \in Targets /\ Location[p.target] \in Targets /\ p.ro \in BOOLEAN
         /\ mt[p.target] # "none" =>
              \A t \in Targets : MountedOver(mt, p)[t] = IF t = p.target THEN Mode(p) ELSE mt[t]
         /\ mt[p.target] = "none" =>
              \A t \in Targets : MountedOver(mt, p)[t] =
                IF t = Location[p.target] THEN Mode(p)
                ELSE IF mt[t] # "none" /\ <<t, Location[p.target]>> \in Within THEN "covered"
                ELSE mt[t]
<1>1. /\ p.target \in Targets /\ Location[p.target] \in Targets /\ p.ro \in BOOLEAN
      /\ Mode(p) \in {"rw", "ro"}
  BY PathAssumption DEF PolicyMounts, Mode
<1>2. CASE mt[p.target] # "none"
  BY <1>1, <1>2 DEF MountedOver
<1>3. CASE mt[p.target] = "none"
  BY <1>1, <1>3 DEF MountedOver, BindOver
<1> QED BY <1>1, <1>2, <1>3

(* A passing step keeps the types.                                            *)
LEMMA PassesTypes ==
  ASSUME TypeOK, NEW l \in Launches, Passes(l)
  PROVE  TypeOK'
<1>1. PICK new \in SUBSET Measures :
        /\ Proceed(l, new) /\ UNCHANGED <<own, fds, disk>>
        /\ Fault \/ UNCHANGED troubles
  BY DEF Passes
<1>2. pc[l] \in StepNames \ {"ExecuteCommand"}
  BY PrivateNames DEF Passes
<1>3. /\ pc' \in [Launches -> StepNames \cup {"running", "over"}]
      /\ marks' \in [Launches -> SUBSET Measures]
      /\ UNCHANGED <<par, status, code, pidOf>>
  BY <1>1, <1>2, ProceedTypes
<1>4. UNCHANGED <<conf, left, mnts, byte, seen, fds, disk>> /\ troubles' \in 0..MaxTroubles
  BY <1>1, FaultTypes DEF own
<1> QED BY <1>3, <1>4 DEF TypeOK

(* The types of what the special steps change.                                *)
LEMMA SpecialTypes ==
  ASSUME TypeOK, NEW l \in Launches, Special(l), ~Fails(l)
  PROVE  TypeOK'
<1> DEFINE Entries == SUBSET {"root", "putold", "links", "dirs"}
           Files == {"P", "C"} \X {"gateR", "gateW", "dec", "sock"}
           Kept(new) == /\ pc' \in [Launches -> StepNames \cup {"running", "over"}]
                        /\ marks' \in [Launches -> SUBSET Measures]
                        /\ UNCHANGED <<par, status, code, pidOf>>
<1>a. ASSUME NEW new \in SUBSET Measures, NEW step \in StepNames \ {"ExecuteCommand"},
             pc[l] = step, Proceed(l, new)
      PROVE  Kept(new)
  BY <1>a, ProceedTypes
<1>b. \A step \in StepNames : pc[l] = step /\ Failed(l) /\ Fault => FALSE
  BY DEF Fails
<1>1. CASE SetSelinuxMCS(l)
  <2>1. /\ pc[l] = "SetSelinuxMCS" /\ seen' = [seen EXCEPT ![l] = [seen[l] EXCEPT !.label = pidOf[l]]]
        /\ Proceed(l, {"label"}) /\ UNCHANGED <<conf, left, mnts, byte, fds, disk, troubles>>
    BY <1>1, Places DEF SetSelinuxMCS, Fails, Blocked, Refuse
  <2>2. Kept({"label"})
    BY <1>a, <2>1, Places DEF Measures
  <2>3. seen' \in [Launches -> [label: Seen, proc: Seen, target: Seen, ns: Seen]]
    <3>1. /\ seen[l] \in [label: Seen, proc: Seen, target: Seen, ns: Seen] /\ pidOf[l] \in Seen
          /\ seen \in [Launches -> [label: Seen, proc: Seen, target: Seen, ns: Seen]]
      BY DEF TypeOK, Seen
    <3>2. PICK v : v = [seen[l] EXCEPT !.label = pidOf[l]]
      OBVIOUS
    <3>3. v \in [label: Seen, proc: Seen, target: Seen, ns: Seen]
      BY <3>1, <3>2
    <3>4. seen' = [seen EXCEPT ![l] = v]
      BY <2>1, <3>2
    <3> QED BY <3>1, <3>3, <3>4
  <2> QED BY <2>1, <2>2, <2>3 DEF TypeOK
<1>2. CASE OpenCallerProcDir(l)
  <2>1. /\ pc[l] = "OpenCallerProcDir" /\ seen' = [seen EXCEPT ![l] = [seen[l] EXCEPT !.proc = pidOf[l]]]
        /\ Proceed(l, {}) /\ UNCHANGED <<conf, left, mnts, byte, fds, disk, troubles>>
    BY <1>2, Places DEF OpenCallerProcDir, Fails, Blocked, Refuse
  <2>2. Kept({})
    BY <1>a, <2>1, Places DEF Measures
  <2>3. seen' \in [Launches -> [label: Seen, proc: Seen, target: Seen, ns: Seen]]
    <3>1. /\ seen[l] \in [label: Seen, proc: Seen, target: Seen, ns: Seen] /\ pidOf[l] \in Seen
          /\ seen \in [Launches -> [label: Seen, proc: Seen, target: Seen, ns: Seen]]
      BY DEF TypeOK, Seen
    <3>2. PICK v : v = [seen[l] EXCEPT !.proc = pidOf[l]]
      OBVIOUS
    <3>3. v \in [label: Seen, proc: Seen, target: Seen, ns: Seen]
      BY <3>1, <3>2
    <3>4. seen' = [seen EXCEPT ![l] = v]
      BY <2>1, <3>2
    <3> QED BY <3>1, <3>3, <3>4
  <2> QED BY <2>1, <2>2, <2>3 DEF TypeOK
<1>3. CASE ReadNamespaceId(l)
  <2>1. /\ pc[l] = "ReadNamespaceId" /\ seen' = [seen EXCEPT ![l] = [seen[l] EXCEPT !.target = pidOf[l]]]
        /\ Proceed(l, {}) /\ UNCHANGED <<conf, left, mnts, byte, fds, disk, troubles>>
    BY <1>3, Places DEF ReadNamespaceId, Fails, Blocked, Refuse
  <2>2. Kept({})
    BY <1>a, <2>1, Places DEF Measures
  <2>3. seen' \in [Launches -> [label: Seen, proc: Seen, target: Seen, ns: Seen]]
    <3>1. /\ seen[l] \in [label: Seen, proc: Seen, target: Seen, ns: Seen] /\ pidOf[l] \in Seen
          /\ seen \in [Launches -> [label: Seen, proc: Seen, target: Seen, ns: Seen]]
      BY DEF TypeOK, Seen
    <3>2. PICK v : v = [seen[l] EXCEPT !.target = pidOf[l]]
      OBVIOUS
    <3>3. v \in [label: Seen, proc: Seen, target: Seen, ns: Seen]
      BY <3>1, <3>2
    <3>4. seen' = [seen EXCEPT ![l] = v]
      BY <2>1, <3>2
    <3> QED BY <3>1, <3>3, <3>4
  <2> QED BY <2>1, <2>2, <2>3 DEF TypeOK
<1>4. CASE SetNs(l)
  <2>1. /\ pc[l] = "SetNs" /\ seen' = [seen EXCEPT ![l] = [seen[l] EXCEPT !.ns = seen[l].proc]]
        /\ Proceed(l, {"ns"}) /\ UNCHANGED <<conf, left, mnts, byte, fds, disk, troubles>>
    BY <1>4, Places DEF SetNs, Fails, Blocked, Refuse
  <2>2. Kept({"ns"})
    BY <1>a, <2>1, Places DEF Measures
  <2>3. seen' \in [Launches -> [label: Seen, proc: Seen, target: Seen, ns: Seen]]
    <3>1. /\ seen[l] \in [label: Seen, proc: Seen, target: Seen, ns: Seen] /\ pidOf[l] \in Seen
          /\ seen \in [Launches -> [label: Seen, proc: Seen, target: Seen, ns: Seen]]
      BY DEF TypeOK, Seen
    <3>2. PICK v : v = [seen[l] EXCEPT !.ns = seen[l].proc]
      OBVIOUS
    <3>3. v \in [label: Seen, proc: Seen, target: Seen, ns: Seen]
      BY <3>1, <3>2
    <3>4. seen' = [seen EXCEPT ![l] = v]
      BY <2>1, <3>2
    <3> QED BY <3>1, <3>3, <3>4
  <2> QED BY <2>1, <2>2, <2>3 DEF TypeOK
<1>5. CASE CreateSandboxDir(l)
  <2>1. /\ pc[l] = "CreateSandboxDir" /\ Put(l, {"root"})
        /\ Proceed(l, {}) /\ UNCHANGED <<own, fds, troubles>>
    BY <1>5, Places DEF CreateSandboxDir, Fails, Blocked, Refuse
  <2>2. Kept({})
    BY <1>a, <2>1, Places
  <2>3. disk' \in [Names -> Entries] /\ \A m \in Names : disk'[m] # {} => "root" \in disk'[m]
    BY <2>1, PutTypes
  <2> QED BY <2>1, <2>2, <2>3 DEF TypeOK, own
<1>6. CASE MkdirPutOld(l)
  <2>1. /\ pc[l] = "MkdirPutOld" /\ Put(l, {"putold"})
        /\ "root" \in disk[NameOf(l)] /\ Proceed(l, {}) /\ UNCHANGED <<own, fds, troubles>>
    BY <1>6, Places DEF MkdirPutOld, Fails, Blocked, Refuse
  <2>2. Kept({})
    BY <1>a, <2>1, Places
  <2>3. disk' \in [Names -> Entries] /\ \A m \in Names : disk'[m] # {} => "root" \in disk'[m]
    BY <2>1, PutTypes
  <2> QED BY <2>1, <2>2, <2>3 DEF TypeOK, own
<1>7. CASE MountSymLinks(l)
  <2>1. /\ pc[l] = "MountSymLinks" /\ Put(l, {"root", "links"})
        /\ Proceed(l, {}) /\ UNCHANGED <<own, fds, troubles>>
    BY <1>7, Places DEF MountSymLinks, Fails, Blocked, Refuse
  <2>2. Kept({})
    BY <1>a, <2>1, Places
  <2>3. disk' \in [Names -> Entries] /\ \A m \in Names : disk'[m] # {} => "root" \in disk'[m]
    BY <2>1, PutTypes
  <2> QED BY <2>1, <2>2, <2>3 DEF TypeOK, own
<1>8. CASE MountSystemDirs(l)
  <2>1. /\ pc[l] = "MountSystemDirs" /\ Put(l, {"root", "dirs"})
        /\ mnts' = [mnts EXCEPT ![l] =
             [t \in Targets |-> IF t \in DOMAIN BoundSystem(l) THEN BoundSystem(l)[t] ELSE mnts[l][t]]]
        /\ Proceed(l, {}) /\ UNCHANGED <<conf, left, byte, seen, fds, troubles>>
    BY <1>8, Places DEF MountSystemDirs, MountAll, Fails
  <2>2. Kept({})
    BY <1>a, <2>1, Places
  <2>3. disk' \in [Names -> Entries] /\ \A m \in Names : disk'[m] # {} => "root" \in disk'[m]
    BY <2>1, PutTypes
  <2>4. mnts' \in [Launches -> [Targets -> {"none", "rw", "ro", "own", "covered"}]]
    <3>1. \A t \in DOMAIN BoundSystem(l) : BoundSystem(l)[t] \in {"rw", "ro"}
      BY LaunchAssumption DEF BoundSystem
    <3>2. PICK v : v = [t \in Targets |-> IF t \in DOMAIN BoundSystem(l)
                                          THEN BoundSystem(l)[t] ELSE mnts[l][t]]
      OBVIOUS
    <3>3. mnts[l] \in [Targets -> {"none", "rw", "ro", "own", "covered"}]
      BY DEF TypeOK
    <3>4. v \in [Targets -> {"none", "rw", "ro", "own", "covered"}]
      BY <3>1, <3>2, <3>3
    <3>5. mnts' = [mnts EXCEPT ![l] = v]
      BY <2>1, <3>2
    <3> QED BY <3>4, <3>5 DEF TypeOK
  <2> QED BY <2>1, <2>2, <2>3, <2>4 DEF TypeOK
<1>9. CASE MountAppDirs(l)
  <2>1. /\ pc[l] = "MountAppDirs" /\ Put(l, {"root", "dirs"})
        /\ mnts' = [mnts EXCEPT ![l] =
             [t \in Targets |-> IF t \in DOMAIN AppMounts THEN AppMounts[t] ELSE mnts[l][t]]]
        /\ Proceed(l, {}) /\ UNCHANGED <<conf, left, byte, seen, fds, troubles>>
    BY <1>9, Places DEF MountAppDirs, MountAll, Fails
  <2>2. Kept({})
    BY <1>a, <2>1, Places
  <2>3. disk' \in [Names -> Entries] /\ \A m \in Names : disk'[m] # {} => "root" \in disk'[m]
    BY <2>1, PutTypes
  <2>4. mnts' \in [Launches -> [Targets -> {"none", "rw", "ro", "own", "covered"}]]
    <3>1. \A t \in DOMAIN AppMounts : AppMounts[t] \in {"rw", "ro"}
      BY LaunchAssumption DEF BoundSystem
    <3>2. PICK v : v = [t \in Targets |-> IF t \in DOMAIN AppMounts THEN AppMounts[t] ELSE mnts[l][t]]
      OBVIOUS
    <3>3. mnts[l] \in [Targets -> {"none", "rw", "ro", "own", "covered"}]
      BY DEF TypeOK
    <3>4. v \in [Targets -> {"none", "rw", "ro", "own", "covered"}]
      BY <3>1, <3>2, <3>3
    <3>5. mnts' = [mnts EXCEPT ![l] = v]
      BY <2>1, <3>2
    <3> QED BY <3>4, <3>5 DEF TypeOK
  <2> QED BY <2>1, <2>2, <2>3, <2>4 DEF TypeOK
<1>10. CASE left[l] # << >> /\ ApplyPolicyMounts(l)
  <2>1. /\ left' = [left EXCEPT ![l] = Tail(left[l])]
        /\ mnts' = [mnts EXCEPT ![l] = MountedOver(mnts[l], Head(left[l]))]
        /\ disk' = disk \/ Put(l, {"root", "dirs"})
        /\ UNCHANGED <<pc, par, marks, status, code, pidOf, conf, byte, seen, fds, troubles>>
    BY <1>10, PolicyShape
  <2>2. left' \in [Launches -> Seq(PolicyMounts)]
    BY <1>10, <2>1 DEF TypeOK
  <2>3. mnts' \in [Launches -> [Targets -> {"none", "rw", "ro", "own", "covered"}]]
    <3>1. MountedOver(mnts[l], Head(left[l])) \in [Targets -> {"none", "rw", "ro", "own", "covered"}]
      BY <1>10, HeadTyped, MountedPoints DEF TypeOK
    <3> QED BY <2>1, <3>1 DEF TypeOK
  <2>4. /\ disk' \in [Names -> Entries] /\ \A m \in Names : disk'[m] # {} => "root" \in disk'[m]
    <3>1. {"root", "dirs"} \in Entries
      OBVIOUS
    <3> QED BY <2>1, <3>1, PutTypes DEF TypeOK
  <2> QED BY <2>1, <2>2, <2>3, <2>4 DEF TypeOK
<1>11. CASE PivotRoot(l)
  <2>1. CASE /\ disk' = [disk EXCEPT ![NameOf(l)] = disk[NameOf(l)] \ {"putold"}]
             /\ pc[l] = "PivotRoot" /\ Proceed(l, {"pivot"}) /\ UNCHANGED <<own, fds, troubles>>
    <3>1. Kept({"pivot"})
      BY <1>a, <2>1, Places DEF Measures
    <3>2. disk' \in [Names -> Entries] /\ \A m \in Names : disk'[m] # {} => "root" \in disk'[m]
      <4>1. NameOf(l) \in Names
        BY ConfTyped
      <4> QED BY <2>1, <4>1 DEF TypeOK
    <3> QED BY <2>1, <3>1, <3>2 DEF TypeOK, own
  <2>2. CASE /\ pc[l] = "PivotRoot" /\ Proceed(l, {"pivot", "leftold"}) /\ Fault
             /\ UNCHANGED <<own, fds, disk>>
    <3>1. Kept({"pivot", "leftold"})
      BY <1>a, <2>2, Places DEF Measures
    <3>2. troubles' \in 0..MaxTroubles
      BY <2>2, FaultTypes
    <3> QED BY <2>2, <3>1, <3>2 DEF TypeOK, own
  <2>3. CASE /\ pc[l] = "PivotRoot" /\ marks' = [marks EXCEPT ![l] = @ \cup {"leftold"}]
             /\ Fault /\ Over(l, "refused") /\ UNCHANGED disk
    <3>1. marks' \in [Launches -> SUBSET Measures] /\ troubles' \in 0..MaxTroubles
      BY <2>3, FaultTypes DEF TypeOK, Measures
    <3> QED BY <2>3, <3>1, OverTypes DEF TypeOK
  <2> QED BY <1>11, <2>1, <2>2, <2>3, Places DEF PivotRoot, Fails, Blocked, Refuse
<1>12. CASE IsShell(l) /\ DeliverDaemonSidePolicies(l)
  <2>1. /\ pc[l] = "DeliverDaemonSidePolicies" /\ fds' = Opened(l, "P", {"dec"})
        /\ Proceed(l, {"policy"}) /\ UNCHANGED <<own, disk, troubles>>
    BY <1>12, Places DEF DeliverDaemonSidePolicies, Fails, Blocked, Refuse
  <2>2. Kept({"policy"})
    BY <1>a, <2>1, Places DEF Measures
  <2>3. fds' \in [Launches -> SUBSET Files]
    BY <2>1, OpenedTypes
  <2> QED BY <2>1, <2>2, <2>3 DEF TypeOK, own
<1>13. CASE conf[l].sock # "none" /\ ConnectMonitorSocket(l)
  <2>1. /\ pc[l] = "ConnectMonitorSocket" /\ fds' = Opened(l, "P", {"sock"})
        /\ Proceed(l, {}) /\ UNCHANGED <<own, disk, troubles>>
    BY <1>13, Places DEF ConnectMonitorSocket, Fails, Blocked, Refuse
  <2>2. Kept({})
    BY <1>a, <2>1, Places DEF Measures
  <2>3. fds' \in [Launches -> SUBSET Files]
    BY <2>1, OpenedTypes
  <2> QED BY <2>1, <2>2, <2>3 DEF TypeOK, own
<1>14. CASE ForkAfterUnshare(l)
  <2>1. CASE /\ pc' = [pc EXCEPT ![l] = "MountProcFs"]
             /\ UNCHANGED <<own, par, marks, fds, status, code, disk, pidOf, troubles>>
    <3>1. pc' \in [Launches -> StepNames \cup {"running", "over"}]
      BY <2>1, Places DEF TypeOK
    <3> QED BY <2>1, <3>1 DEF TypeOK, own
  <2>2. CASE /\ par' = [par EXCEPT ![l] = "fresh"]
             /\ pc' = [pc EXCEPT ![l] = "ChildAfterFork"]
             /\ \E files \in SUBSET {"gateR", "gateW", "dec", "sock"} :
                  fds' = [fds EXCEPT ![l] = {"P", "C"} \X files]
             /\ UNCHANGED <<own, marks, status, code, disk, pidOf, troubles>>
    <3>1. PICK files \in SUBSET {"gateR", "gateW", "dec", "sock"} :
            fds' = [fds EXCEPT ![l] = {"P", "C"} \X files]
      BY <2>2
    <3>2. {"P", "C"} \X files \in SUBSET Files
      OBVIOUS
    <3>3. fds' \in [Launches -> SUBSET Files]
      BY <3>1, <3>2 DEF TypeOK
    <3>4. /\ pc' \in [Launches -> StepNames \cup {"running", "over"}]
          /\ par' \in [Launches -> {"none", "fresh", "init", "release", "watch", "wait", "over"}]
      BY <2>2, Places DEF TypeOK
    <3> QED BY <2>2, <3>3, <3>4 DEF TypeOK, own
  <2>3. {f[2] : f \in fds[l]} \cup (IF NeedsStartGate(l) THEN {"gateR", "gateW"} ELSE {})
           \in SUBSET {"gateR", "gateW", "dec", "sock"}
    BY DEF TypeOK
  <2> QED BY <1>14, <2>1, <2>2, <2>3, Places DEF ForkAfterUnshare, Fails
<1>15. CASE ChildAfterFork(l)
  <2>1. PICK kept : /\ fds' = [fds EXCEPT ![l] = kept] /\ kept \subseteq fds[l]
    BY <1>15 DEF ChildAfterFork
  <2>2. fds' \in [Launches -> SUBSET Files]
    BY <2>1 DEF TypeOK
  <2>3. pc' \in [Launches -> StepNames \cup {"running", "over"}]
    BY <1>15, Places DEF ChildAfterFork, TypeOK
  <2> QED BY <1>15, <2>2, <2>3 DEF ChildAfterFork, TypeOK, own
<1>16. CASE WaitForStartGate(l)
  <2>1. CASE /\ pc[l] = "WaitForStartGate" /\ byte' = [byte EXCEPT ![l] = FALSE]
             /\ fds' = [fds EXCEPT ![l] = @ \ {<<"C", "gateR">>}]
             /\ Proceed(l, {}) /\ UNCHANGED <<conf, left, mnts, seen, disk, troubles>>
    <3>1. Kept({})
      BY <1>a, <2>1, Places
    <3>2. fds' \in [Launches -> SUBSET Files] /\ byte' \in [Launches -> BOOLEAN]
      <4>1. PICK kept : /\ fds' = [fds EXCEPT ![l] = kept] /\ kept \subseteq fds[l]
        BY <2>1
      <4> QED BY <2>1, <4>1 DEF TypeOK
    <3> QED BY <2>1, <3>1, <3>2 DEF TypeOK
  <2>2. CASE Over(l, "unwatched") /\ UNCHANGED <<marks, disk, troubles>>
    BY <2>2, OverTypes DEF TypeOK
  <2> QED BY <1>16, <2>1, <2>2 DEF WaitForStartGate
<1>17. CASE conf[l].pidns /\ MountProcFs(l)
  <2>1. /\ pc[l] = "MountProcFs"
        /\ mnts' = [mnts EXCEPT ![l] = [mnts[l] EXCEPT !["proc"] = "own"]]
        /\ Proceed(l, {}) /\ UNCHANGED <<conf, left, byte, seen, fds, disk, troubles>>
    BY <1>17, Places DEF MountProcFs, Fails
  <2>2. Kept({})
    BY <1>a, <2>1, Places
  <2>3. mnts' \in [Launches -> [Targets -> {"none", "rw", "ro", "own", "covered"}]]
    BY <2>1 DEF TypeOK
  <2> QED BY <2>1, <2>2, <2>3 DEF TypeOK
<1>18. CASE ApplyEnvironment(l)
  <2>1. /\ pc[l] = "ApplyEnvironment" /\ pc' = [pc EXCEPT ![l] = Onward[pc[l]]]
        /\ marks' = [marks EXCEPT ![l] = (marks[l] \ {"credenv"}) \cup {"env"}]
        /\ UNCHANGED <<par, status, code, pidOf, own, fds, disk, troubles>>
    BY <1>18, Places DEF ApplyEnvironment, Fails
  <2>2. Onward[pc[l]] \in StepNames
    BY <2>1, OnwardTyped, Places
  <2>3. /\ pc' \in [Launches -> StepNames \cup {"running", "over"}]
        /\ marks' \in [Launches -> SUBSET Measures]
    BY <2>1, <2>2 DEF TypeOK, Measures
  <2> QED BY <2>1, <2>3 DEF TypeOK, own
<1>19. CASE ExecuteCommand(l)
  <2>1. /\ pc' = [pc EXCEPT ![l] = "running"]
        /\ fds' = [fds EXCEPT ![l] = Closed(l, Self(l))]
        /\ UNCHANGED <<own, par, marks, status, code, disk, pidOf, troubles>>
    BY <1>19, Places DEF ExecuteCommand, Fails, Blocked, Refuse
  <2>2. PICK kept : /\ fds' = [fds EXCEPT ![l] = kept] /\ kept \subseteq fds[l]
    BY <2>1, ClosedTyped
  <2>3. fds' \in [Launches -> SUBSET Files]
    BY <2>2 DEF TypeOK
  <2> QED BY <2>1, <2>3 DEF TypeOK, own
<1> QED BY <1>1, <1>2, <1>3, <1>4, <1>5, <1>6, <1>7, <1>8, <1>9, <1>10, <1>11, <1>12, <1>13,
           <1>14, <1>15, <1>16, <1>17, <1>18, <1>19
       DEF Special

(* Every step of the launch keeps the types.                                  *)
LEMMA ExecuteTypes ==
  ASSUME TypeOK, NEW l \in Launches, Execute(l)
  PROVE  TypeOK'
<1>1. CASE Fails(l)
  BY <1>1, FailedTypes DEF Fails
<1> QED BY <1>1, Kinds, PassesTypes, SpecialTypes

(* What every step of the parent has in common keeps the types.               *)
LEMMA ParentTypes ==
  ASSUME TypeOK, NEW l \in Launches, NEW kept \in SUBSET fds[l],
         NEW from, NEW to \in {"init", "release", "watch", "wait", "over"},
         ParentStep(l, from, to), fds' = [fds EXCEPT ![l] = kept],
         byte' \in [Launches -> BOOLEAN], Fault \/ UNCHANGED troubles,
         code' \in [Launches -> {"none", "refused", "unwatched", "exit", "killed", "lost"}]
  PROVE  TypeOK'
<1>1. fds' \in [Launches -> SUBSET ({"P", "C"} \X {"gateR", "gateW", "dec", "sock"})]
  BY DEF TypeOK
<1>2. troubles' \in 0..MaxTroubles
  BY FaultTypes
<1>3. /\ par' \in [Launches -> {"none", "fresh", "init", "release", "watch", "wait", "over"}]
      /\ marks' \in [Launches -> SUBSET Measures]
  BY DEF TypeOK, ParentStep, Measures
<1> QED BY <1>1, <1>2, <1>3 DEF TypeOK, ParentStep

(* Every step of the parent keeps the types.                                  *)
LEMMA ParentActionTypes ==
  ASSUME TypeOK, NEW l \in Launches, Parent(l) \/ KillParent(l)
  PROVE  TypeOK'
<1>0. /\ fds[l] \in SUBSET fds[l] /\ Closed(l, "P") \in SUBSET fds[l]
      /\ fds = [fds EXCEPT ![l] = fds[l]]
      /\ \A f : fds[l] \ {f} \in SUBSET fds[l]
      /\ status[l] \in {"none", "refused", "unwatched", "exit", "killed"}
      /\ code \in [Launches -> {"none", "refused", "unwatched", "exit", "killed", "lost"}]
      /\ byte \in [Launches -> BOOLEAN]
      /\ par[l] \in {"none", "fresh", "init", "release", "watch", "wait", "over"}
  BY ClosedTyped DEF TypeOK
<1>1. CASE ParentAfterFork(l)
  <2>1. PICK to \in {"init", "wait"} : ParentStep(l, "fresh", to)
    BY <1>1 DEF ParentAfterFork
  <2>2. /\ fds' = [fds EXCEPT ![l] = fds[l] \ {<<"P", "gateR">>}]
        /\ UNCHANGED <<byte, code, troubles>>
    BY <1>1 DEF ParentAfterFork
  <2> QED BY <1>0, <2>1, <2>2, ParentTypes
<1>2. CASE MonitorInit(l)
  <2>1. PICK to \in {"release", "wait"}, kept \in SUBSET fds[l] :
          ParentStep(l, "init", to) /\ fds' = [fds EXCEPT ![l] = kept]
    BY <1>0, <1>2 DEF MonitorInit
  <2>2. /\ Fault \/ UNCHANGED troubles
        /\ UNCHANGED <<byte, code>>
    BY <1>2 DEF MonitorInit, CloseStartGate
  <2> QED BY <1>0, <2>1, <2>2, ParentTypes
<1>3. CASE ReleaseStartGate(l)
  <2>1. ParentStep(l, "release", "watch")
    BY <1>3 DEF ReleaseStartGate
  <2>2. /\ fds' = [fds EXCEPT ![l] = fds[l] \ {<<"P", "gateW">>}]
        /\ Fault \/ UNCHANGED troubles
        /\ UNCHANGED code
        /\ byte' = byte \/ byte' = [byte EXCEPT ![l] = TRUE]
    BY <1>3 DEF ReleaseStartGate
  <2>3. byte' \in [Launches -> BOOLEAN]
    BY <1>0, <2>2
  <2> QED BY <1>0, <2>1, <2>2, <2>3, ParentTypes
<1>4. CASE MonitorRun(l)
  <2>1. PICK to \in {"over", "wait"} : ParentStep(l, "watch", to)
    BY <1>4 DEF MonitorRun
  <2>2. /\ fds' = [fds EXCEPT ![l] = Closed(l, "P")]
        /\ Fault \/ UNCHANGED troubles
        /\ UNCHANGED byte
        /\ code' = code \/ code' = [code EXCEPT ![l] = status[l]]
    BY <1>4 DEF MonitorRun
  <2>3. code' \in [Launches -> {"none", "refused", "unwatched", "exit", "killed", "lost"}]
    BY <1>0, <2>2
  <2>4. byte' \in [Launches -> BOOLEAN] /\ to \in {"init", "release", "watch", "wait", "over"}
    BY <1>0, <2>2
  <2>5. Closed(l, "P") \in SUBSET fds[l]
    BY <1>0
  <2>6. PICK kept \in SUBSET fds[l] : fds' = [fds EXCEPT ![l] = kept]
    BY <2>2, <2>5
  <2>7. Fault \/ UNCHANGED troubles
    BY <2>2
  <2> QED BY <2>1, <2>3, <2>4, <2>6, <2>7, ParentTypes
<1>5. CASE WaitForChildExit(l)
  <2>1. ParentStep(l, "wait", "over")
    BY <1>5 DEF WaitForChildExit
  <2>2. /\ fds' = [fds EXCEPT ![l] = Closed(l, "P")]
        /\ Fault \/ UNCHANGED troubles
        /\ UNCHANGED byte
        /\ code' = [code EXCEPT ![l] = "lost"] \/ code' = [code EXCEPT ![l] = status[l]]
    BY <1>5 DEF WaitForChildExit
  <2>3. code' \in [Launches -> {"none", "refused", "unwatched", "exit", "killed", "lost"}]
    BY <1>0, <2>2
  <2> QED BY <1>0, <2>1, <2>2, <2>3, ParentTypes
<1>6. CASE KillParent(l)
  <2>1. ParentStep(l, par[l], "over")
    BY <1>6 DEF KillParent
  <2>2. /\ fds' = [fds EXCEPT ![l] = Closed(l, "P")]
        /\ Fault \/ UNCHANGED troubles
        /\ UNCHANGED byte
        /\ code' = [code EXCEPT ![l] = "killed"]
    BY <1>6 DEF KillParent
  <2>3. code' \in [Launches -> {"none", "refused", "unwatched", "exit", "killed", "lost"}]
    BY <1>0, <2>2
  <2> QED BY <1>0, <2>1, <2>2, <2>3, ParentTypes
<1> QED BY <1>1, <1>2, <1>3, <1>4, <1>5, <1>6 DEF Parent

(* The type invariant: steps, parents and the environment keep the shape of   *)
(* the state, for every set of launches, configurations and mounts.           *)
THEOREM TypeCorrect == Spec => []TypeOK
<1>1. Init => TypeOK
  <2> SUFFICES ASSUME Init PROVE TypeOK
    OBVIOUS
  <2>1. conf \in [Launches -> Configurations]
    BY LaunchAssumption DEF Init
  <2>2. left \in [Launches -> Seq(PolicyMounts)]
    BY <2>1 DEF Init, Configurations
  <2>3. Steps[1] \in StepNames
    BY StepLists, Places
  <2>4. seen \in [Launches -> [label: Seen, proc: Seen, target: Seen, ns: Seen]]
    BY DEF Init, Seen
  <2>5. /\ marks \in [Launches -> SUBSET Measures]
        /\ fds \in [Launches -> SUBSET ({"P", "C"} \X {"gateR", "gateW", "dec", "sock"})]
        /\ disk \in [Names -> SUBSET {"root", "putold", "links", "dirs"}]
    BY DEF Init
  <2>6. pc \in [Launches -> StepNames \cup {"running", "over"}]
    BY <2>3 DEF Init
  <2>7. mnts \in [Launches -> [Targets -> {"none", "rw", "ro", "own", "covered"}]]
    BY DEF Init
  <2>8. /\ conf \in Scenarios /\ par \in [Launches -> {"none"}]
        /\ byte \in [Launches -> BOOLEAN] /\ status \in [Launches -> {"none"}]
        /\ code \in [Launches -> {"none"}] /\ pidOf \in [Launches -> {"caller"}]
        /\ troubles = 0 /\ \A n \in Names : disk[n] = {}
    BY DEF Init
  <2>9. 0 \in 0..MaxTroubles
    <3>1. MaxTroubles \in Nat
      BY LaunchAssumption
    <3> QED BY <3>1
  <2> QED BY <2>2, <2>4, <2>5, <2>6, <2>7, <2>8, <2>9 DEF TypeOK
<1>2. TypeOK /\ [Next]_vars => TypeOK'
  <2> SUFFICES ASSUME TypeOK, [Next]_vars PROVE TypeOK'
    OBVIOUS
  <2>1. CASE UNCHANGED vars
    BY <2>1 DEF TypeOK, vars
  <2>2. ASSUME NEW l \in Launches, Execute(l)
        PROVE  TypeOK'
    BY <2>2, ExecuteTypes
  <2>3. ASSUME NEW l \in Launches, Parent(l) \/ KillParent(l)
        PROVE  TypeOK'
    BY <2>3, ParentActionTypes
  <2>4. ASSUME NEW l \in Launches, CommandExits(l) \/ KillStepper(l)
        PROVE  TypeOK'
    <3>1. PICK s \in {"exit", "killed"} : Over(l, s)
      BY <2>4 DEF CommandExits, KillStepper
    <3>2. UNCHANGED <<marks, disk>> /\ (Fault \/ UNCHANGED troubles)
      BY <2>4 DEF CommandExits, KillStepper
    <3>3. troubles' \in 0..MaxTroubles
      BY <3>2, FaultTypes
    <3>4. /\ marks' \in [Launches -> SUBSET Measures]
          /\ disk' \in [Names -> SUBSET {"root", "putold", "links", "dirs"}]
          /\ \A n \in Names : disk'[n] # {} => "root" \in disk'[n]
      BY <3>2 DEF TypeOK
    <3> QED BY <3>1, <3>3, <3>4, OverTypes
  <2>5. ASSUME NEW l \in Launches, PidReused(l)
        PROVE  TypeOK'
    <3>1. pidOf' \in [Launches -> {"caller", "twin", "other"}]
      BY <2>5 DEF PidReused, TypeOK
    <3>2. troubles' \in 0..MaxTroubles
      BY <2>5, FaultTypes DEF PidReused
    <3> QED BY <2>5, <3>1, <3>2 DEF PidReused, TypeOK, own
  <2>6. ASSUME NEW n \in Names, DeleteSandboxDir(n)
        PROVE  TypeOK'
    <3>1. troubles' \in 0..MaxTroubles
      BY <2>6, FaultTypes DEF DeleteSandboxDir
    <3>2. marks' \in [Launches -> SUBSET Measures]
      BY <2>6, UnboundTypes DEF DeleteSandboxDir
    <3>3. /\ disk' \in [Names -> SUBSET {"root", "putold", "links", "dirs"}]
          /\ \A m \in Names : disk'[m] # {} => "root" \in disk'[m]
      BY <2>6 DEF DeleteSandboxDir, TypeOK
    <3>4. UNCHANGED <<conf, left, mnts, byte, seen, pc, par, fds, status, code, pidOf>>
      BY <2>6 DEF DeleteSandboxDir, own
    <3> QED BY <3>1, <3>2, <3>3, <3>4 DEF TypeOK
  <2> QED BY <2>1, <2>2, <2>3, <2>4, <2>5, <2>6 DEF Next, Environment
<1> QED BY <1>1, <1>2, PTL DEF Spec

(****************************** ends and reports ****************************)

(* The places of the steps are numbers, and onward is one more.               *)
LEMMA OnwardPlace ==
  /\ \A s \in StepNames : Place[s] \in 1..44
  /\ \A s \in StepNames \ {"ExecuteCommand"} : Place[Onward[s]] = Place[s] + 1
BY Places, Road

(* A step is before whatever its successor is before.                         *)
LEMMA OnwardBefore ==
  ASSUME NEW s \in StepNames \ {"ExecuteCommand"}, NEW x \in StepNames,
         Onward[s] \in Before(x)
  PROVE  s \in Before(x)
BY OnwardPlace, OnwardTyped DEF Before

(* The process moves on to next; at ForkAfterUnshare it may be the child.     *)
MovesTo(l, next) ==
  /\ pc' = [pc EXCEPT ![l] = next]
  /\ UNCHANGED <<status, code>>
  /\ \/ /\ UNCHANGED par
        /\ next \in Before("ChildAfterFork") => pc[l] \in Before("ChildAfterFork")
     \/ /\ par' = [par EXCEPT ![l] = "fresh"]
        /\ pc[l] = "ForkAfterUnshare" /\ next = "ChildAfterFork"

(* The next step is another one, and no end of the launch.                    *)
LEMMA OnwardMoves ==
  ASSUME NEW l \in Launches, pc[l] \in StepNames \ {"ExecuteCommand"},
         pc' = [pc EXCEPT ![l] = Onward[pc[l]]], UNCHANGED <<par, status, code>>
  PROVE  \E next \in StepNames : MovesTo(l, next)
<1>1. Onward[pc[l]] \in StepNames /\ "ChildAfterFork" \in StepNames
  BY OnwardTyped, Places
<1>2. Onward[pc[l]] \in Before("ChildAfterFork") => pc[l] \in Before("ChildAfterFork")
  BY <1>1, OnwardBefore
<1> QED BY <1>1, <1>2 DEF MovesTo

(* A step of the process, seen from outside.                                  *)
LEMMA ExecuteShape ==
  ASSUME TypeOK, NEW l \in Launches, Execute(l)
  PROVE  /\ UNCHANGED conf
         /\ pc[l] \in StepNames
         /\ \/ UNCHANGED <<pc, par, status, code>>
            \/ \E next \in StepNames : MovesTo(l, next)
            \/ pc' = [pc EXCEPT ![l] = "running"] /\ UNCHANGED <<par, status, code>>
            \/ \E s \in {"refused", "unwatched"} : Over(l, s)
<1> DEFINE Shape ==
       /\ UNCHANGED conf
       /\ pc[l] \in StepNames
       /\ \/ UNCHANGED <<pc, par, status, code>>
          \/ \E next \in StepNames : MovesTo(l, next)
          \/ pc' = [pc EXCEPT ![l] = "running"] /\ UNCHANGED <<par, status, code>>
          \/ \E s \in {"refused", "unwatched"} : Over(l, s)
<1>1. CASE Fails(l)
  BY <1>1 DEF Fails, Failed, Over, own
<1>2. CASE Passes(l)
  <2>1. /\ pc[l] \in StepNames \ {"ExecuteCommand"} /\ UNCHANGED conf
        /\ pc' = [pc EXCEPT ![l] = Onward[pc[l]]] /\ UNCHANGED <<par, status, code>>
    BY <1>2, PrivateNames DEF Passes, Proceed, own
  <2> QED BY <2>1, OnwardMoves
<1>3. ASSUME NEW new, NEW step \in StepNames \ {"ExecuteCommand"}, pc[l] = step,
             Proceed(l, new), UNCHANGED conf
      PROVE  Shape
  <2>1. pc' = [pc EXCEPT ![l] = Onward[pc[l]]] /\ UNCHANGED <<par, status, code>>
    BY <1>3 DEF Proceed
  <2> QED BY <1>3, <2>1, OnwardMoves
<1>4. CASE Special(l) /\ ~Fails(l)
  <2>1. CASE \/ SetSelinuxMCS(l) \/ OpenCallerProcDir(l) \/ ReadNamespaceId(l) \/ SetNs(l)
    <3>1. PICK step \in {"SetSelinuxMCS", "OpenCallerProcDir", "ReadNamespaceId", "SetNs"} :
            pc[l] = step /\ (\E new : Proceed(l, new)) /\ UNCHANGED conf
      BY <1>4, <2>1, Places
         DEF SetSelinuxMCS, OpenCallerProcDir, ReadNamespaceId, SetNs, Fails, Blocked, Refuse
    <3> QED BY <1>3, <3>1, Places
  <2>2. CASE \/ CreateSandboxDir(l) \/ MkdirPutOld(l) \/ MountSystemDirs(l) \/ MountSymLinks(l)
             \/ MountAppDirs(l)
    <3>1. PICK step \in {"CreateSandboxDir", "MkdirPutOld", "MountSystemDirs",
                        "MountSymLinks", "MountAppDirs"} :
            pc[l] = step /\ (\E new : Proceed(l, new)) /\ UNCHANGED conf
      BY <1>4, <2>2, Places
         DEF CreateSandboxDir, MkdirPutOld, MountSystemDirs, MountSymLinks, MountAppDirs,
             MountAll, Fails, Blocked, Refuse, own
    <3> QED BY <1>3, <3>1, Places
  <2>3. CASE left[l] # << >> /\ ApplyPolicyMounts(l)
    BY <1>4, <2>3, Places DEF ApplyPolicyMounts, Fails, Blocked, Refuse
  <2>4. CASE PivotRoot(l)
    <3>1. CASE \E new : pc[l] = "PivotRoot" /\ Proceed(l, new) /\ UNCHANGED own
      <4>1. PICK new : pc[l] = "PivotRoot" /\ Proceed(l, new) /\ UNCHANGED conf
        BY <3>1 DEF own
      <4> QED BY <1>3, <4>1, Places
    <3>2. CASE pc[l] = "PivotRoot" /\ Over(l, "refused")
      BY <3>2, Places DEF Over, own
    <3> QED BY <1>4, <2>4, <3>1, <3>2, Places DEF PivotRoot, Fails, Blocked, Refuse
  <2>5. CASE \/ IsShell(l) /\ DeliverDaemonSidePolicies(l)
             \/ conf[l].sock # "none" /\ ConnectMonitorSocket(l)
             \/ conf[l].pidns /\ MountProcFs(l)
    <3>1. PICK step \in {"DeliverDaemonSidePolicies", "ConnectMonitorSocket", "MountProcFs"} :
            pc[l] = step /\ (\E new : Proceed(l, new)) /\ UNCHANGED conf
      BY <1>4, <2>5, Places
         DEF DeliverDaemonSidePolicies, ConnectMonitorSocket, MountProcFs, Fails, Blocked,
             Refuse, own
    <3> QED BY <1>3, <3>1, Places
  <2>6. CASE ForkAfterUnshare(l)
    <3>1. "ChildAfterFork" \in StepNames /\ "MountProcFs" \in StepNames
          /\ "MountProcFs" \notin Before("ChildAfterFork")
      BY Places DEF Before
    <3>2. /\ pc[l] = "ForkAfterUnshare" /\ pc[l] \in StepNames /\ UNCHANGED <<conf, status, code>>
          /\ \/ /\ par' = [par EXCEPT ![l] = "fresh"]
                /\ pc' = [pc EXCEPT ![l] = "ChildAfterFork"]
             \/ pc' = [pc EXCEPT ![l] = "MountProcFs"] /\ UNCHANGED par
      BY <1>4, <2>6, Places DEF ForkAfterUnshare, Fails, own
    <3> QED BY <3>1, <3>2 DEF MovesTo
  <2>7. CASE ChildAfterFork(l)
    <3>1. PICK next \in {"WaitForStartGate", "MountProcFs"} :
            /\ pc[l] = "ChildAfterFork" /\ pc' = [pc EXCEPT ![l] = next]
            /\ UNCHANGED <<conf, par, status, code>>
      BY <2>7 DEF ChildAfterFork, own
    <3>2. pc[l] \in StepNames /\ next \in StepNames /\ next \notin Before("ChildAfterFork")
      BY <3>1, Places DEF Before
    <3> QED BY <3>1, <3>2 DEF MovesTo
  <2>8. CASE WaitForStartGate(l)
    <3>1. CASE pc[l] = "WaitForStartGate" /\ Proceed(l, {}) /\ UNCHANGED conf
      BY <1>3, <3>1, Places
    <3>2. CASE pc[l] = "WaitForStartGate" /\ Over(l, "unwatched")
      BY <3>2, Places DEF Over, own
    <3> QED BY <2>8, <3>1, <3>2 DEF WaitForStartGate
  <2>9. CASE ApplyEnvironment(l)
    <3>1. /\ pc[l] = "ApplyEnvironment" /\ pc' = [pc EXCEPT ![l] = Onward[pc[l]]]
          /\ UNCHANGED <<conf, par, status, code>>
      BY <1>4, <2>9, Places DEF ApplyEnvironment, Fails, own
    <3> QED BY <3>1, OnwardMoves, Places
  <2>10. CASE ExecuteCommand(l)
    BY <1>4, <2>10, Places DEF ExecuteCommand, Fails, Blocked, Refuse, own
  <2> QED BY <1>4, <2>1, <2>2, <2>3, <2>4, <2>5, <2>6, <2>7, <2>8, <2>9, <2>10 DEF Special
<1> QED BY <1>1, <1>2, <1>4, Kinds

(* What is known of the end of a launch and of the report to its caller.      *)
Settled(p, q, s, c) ==
  /\ s # "none" => p = "over"
  /\ p = "over" => s # "none"
  /\ p \in Before("ChildAfterFork") => q = "none"
  /\ q = "none" /\ p # "over" => c = "none"
  /\ q \notin {"none", "over"} => c = "none"
  /\ p # "over" => c \in {"none", "killed"}

EndsInv == \A l \in Launches : Settled(pc[l], par[l], status[l], code[l])

(* A step is neither the running command nor the end.                         *)
LEMMA StepNamesProper ==
  /\ "running" \notin StepNames /\ "over" \notin StepNames
  /\ \A x \in StepNames : "running" \notin Before(x) /\ "over" \notin Before(x)
BY Places DEF Before

(* The end of the stepping process reports to whoever waits for it.           *)
LEMMA OverEnds ==
  ASSUME TypeOK, EndsInv, NEW l \in Launches,
         NEW s \in {"refused", "unwatched", "exit", "killed"}, pc[l] # "over", Over(l, s)
  PROVE  /\ EndsInv'
         /\ pc' = [pc EXCEPT ![l] = "over"] /\ status' = [status EXCEPT ![l] = s]
         /\ code' = code \/ (code[l] = "none" /\ code' = [code EXCEPT ![l] = s])
<1>1. /\ pc' = [pc EXCEPT ![l] = "over"] /\ status' = [status EXCEPT ![l] = s] /\ par' = par
      /\ code' = IF par[l] = "none" THEN [code EXCEPT ![l] = s] ELSE code
  BY DEF Over
<1>2. /\ pc \in [Launches -> StepNames \cup {"running", "over"}]
      /\ status \in [Launches -> {"none", "refused", "unwatched", "exit", "killed"}]
      /\ code \in [Launches -> {"none", "refused", "unwatched", "exit", "killed", "lost"}]
  BY DEF TypeOK
<1>3. "over" \notin Before("ChildAfterFork")
  BY StepNamesProper, Places
<1>4. ASSUME NEW k \in Launches
      PROVE  Settled(pc'[k], par'[k], status'[k], code'[k])
  <2>1. Settled(pc[k], par[k], status[k], code[k])
    BY DEF EndsInv
  <2>2. CASE k = l
    BY <1>1, <1>2, <1>3, <2>1, <2>2 DEF Settled
  <2>3. CASE k # l
    <3>1. pc'[k] = pc[k] /\ par'[k] = par[k] /\ status'[k] = status[k] /\ code'[k] = code[k]
      BY <1>1, <1>2, <2>3
    <3> QED BY <2>1, <3>1
  <2> QED BY <2>2, <2>3
<1>5. Settled(pc[l], par[l], status[l], code[l])
  BY DEF EndsInv
<1> QED BY <1>1, <1>4, <1>5 DEF EndsInv, Settled

(* The four things a launch does to the abstract one.                         *)
Phase(p) == IF p \in {"running", "over"} THEN p ELSE "setup"

(* The steps of a launch keep what is known of its end.                       *)
LEMMA ExecuteEnds ==
  ASSUME TypeOK, EndsInv, NEW l \in Launches, Execute(l)
  PROVE  /\ EndsInv'
         /\ \/ /\ \A k \in Launches : Phase(pc'[k]) = Phase(pc[k])
               /\ UNCHANGED <<status, code>>
            \/ /\ pc[l] \in StepNames /\ pc' = [pc EXCEPT ![l] = "running"]
               /\ code[l] \in {"none", "killed"} /\ UNCHANGED <<status, code>>
            \/ \E s \in {"refused", "unwatched", "killed"} :
                 /\ pc[l] \in StepNames /\ pc' = [pc EXCEPT ![l] = "over"]
                 /\ status' = [status EXCEPT ![l] = s]
                 /\ code' = code \/ (code[l] = "none" /\ code' = [code EXCEPT ![l] = s])
<1>1. /\ pc[l] \in StepNames /\ pc[l] # "running" /\ pc[l] # "over"
      /\ "ChildAfterFork" \notin Before("ChildAfterFork")
      /\ "running" \notin Before("ChildAfterFork")
      /\ "ForkAfterUnshare" \in Before("ChildAfterFork")
  BY ExecuteShape, Places DEF Before
<1>2. /\ pc \in [Launches -> StepNames \cup {"running", "over"}]
      /\ par \in [Launches -> {"none", "fresh", "init", "release", "watch", "wait", "over"}]
  BY DEF TypeOK
<1>3. Settled(pc[l], par[l], status[l], code[l])
  BY DEF EndsInv
<1>4. CASE UNCHANGED <<pc, par, status, code>>
  BY <1>4 DEF EndsInv
<1>5. CASE \E next \in StepNames : MovesTo(l, next)
  <2>1. PICK next \in StepNames : MovesTo(l, next)
    BY <1>5
  <2>2. next # "running" /\ next # "over"
    BY StepNamesProper
  <2>3. /\ pc' = [pc EXCEPT ![l] = next] /\ UNCHANGED <<status, code>>
        /\ \/ /\ UNCHANGED par
              /\ next \in Before("ChildAfterFork") => pc[l] \in Before("ChildAfterFork")
           \/ /\ par' = [par EXCEPT ![l] = "fresh"]
              /\ pc[l] = "ForkAfterUnshare" /\ next = "ChildAfterFork"
    BY <2>1 DEF MovesTo
  <2>4. ASSUME NEW k \in Launches
        PROVE  Settled(pc'[k], par'[k], status'[k], code'[k]) /\ Phase(pc'[k]) = Phase(pc[k])
    <3>1. Settled(pc[k], par[k], status[k], code[k])
      BY DEF EndsInv
    <3>2. CASE k = l
      <4>1. pc'[k] = next
        BY <1>2, <2>3, <3>2
      <4>2. par'[k] = par[k] \/ (par'[k] = "fresh" /\ par[k] = "none")
        BY <1>1, <1>2, <1>3, <2>3, <3>2 DEF Settled
      <4>3. next \in Before("ChildAfterFork") => par'[k] = "none"
        BY <1>1, <1>2, <1>3, <2>3, <3>2 DEF Settled
      <4> QED BY <1>1, <2>2, <2>3, <3>1, <3>2, <4>1, <4>2, <4>3 DEF Settled, Phase
    <3>3. CASE k # l
      <4>1. pc'[k] = pc[k] /\ par'[k] = par[k] /\ status'[k] = status[k] /\ code'[k] = code[k]
        BY <1>2, <2>3, <3>3
      <4> QED BY <3>1, <4>1
    <3> QED BY <3>2, <3>3
  <2> QED BY <2>3, <2>4 DEF EndsInv
<1>6. CASE pc' = [pc EXCEPT ![l] = "running"] /\ UNCHANGED <<par, status, code>>
  <2>1. ASSUME NEW k \in Launches
        PROVE  Settled(pc'[k], par'[k], status'[k], code'[k])
    <3>1. Settled(pc[k], par[k], status[k], code[k])
      BY DEF EndsInv
    <3> QED BY <1>1, <1>2, <1>6, <3>1 DEF Settled
  <2> QED BY <1>1, <1>3, <1>6, <2>1 DEF EndsInv, Settled
<1>7. CASE \E s \in {"refused", "unwatched"} : Over(l, s)
  BY <1>1, <1>7, OverEnds
<1> QED BY <1>4, <1>5, <1>6, <1>7, ExecuteShape

(* So do the steps of the parent.                                             *)
LEMMA ParentEnds ==
  ASSUME TypeOK, EndsInv, NEW l \in Launches, Parent(l) \/ KillParent(l)
  PROVE  /\ EndsInv'
         /\ UNCHANGED <<conf, pc, status>>
         /\ \/ UNCHANGED code
            \/ /\ code[l] = "none"
               /\ \E s \in {"killed", "lost", status[l]} :
                    /\ s # "killed" => pc[l] = "over"
                    /\ code' = [code EXCEPT ![l] = s]
<1>1. /\ par \in [Launches -> {"none", "fresh", "init", "release", "watch", "wait", "over"}]
      /\ code \in [Launches -> {"none", "refused", "unwatched", "exit", "killed", "lost"}]
  BY DEF TypeOK
<1>2. PICK to \in {"init", "release", "watch", "wait", "over"} :
        /\ par[l] \notin {"none", "over"} /\ par' = [par EXCEPT ![l] = to]
        /\ UNCHANGED <<conf, pc, status>>
        /\ \/ UNCHANGED code
           \/ /\ to = "over"
              /\ \/ code' = [code EXCEPT ![l] = "killed"]
                 \/ /\ status[l] # "none"
                    /\ \E s \in {"lost", status[l]} : code' = [code EXCEPT ![l] = s]
  <2>1. CASE ParentAfterFork(l)
    BY <2>1 DEF ParentAfterFork, ParentStep
  <2>2. CASE MonitorInit(l)
    BY <2>2 DEF MonitorInit, ParentStep
  <2>3. CASE ReleaseStartGate(l)
    BY <2>3 DEF ReleaseStartGate, ParentStep
  <2>4. CASE MonitorRun(l)
    BY <2>4 DEF MonitorRun, ParentStep
  <2>5. CASE WaitForChildExit(l)
    BY <2>5 DEF WaitForChildExit, ParentStep, Reapable
  <2>6. CASE KillParent(l)
    BY <2>6 DEF KillParent, ParentStep
  <2> QED BY <2>1, <2>2, <2>3, <2>4, <2>5, <2>6 DEF Parent
<1>3. Settled(pc[l], par[l], status[l], code[l])
  BY DEF EndsInv
<1>4. code[l] = "none"
  BY <1>2, <1>3 DEF Settled
<1>5. \/ UNCHANGED code
      \/ /\ to = "over"
         /\ \E s \in {"killed", "lost", status[l]} :
              /\ s # "killed" => pc[l] = "over"
              /\ code' = [code EXCEPT ![l] = s]
  BY <1>2, <1>3 DEF Settled
<1>6. ASSUME NEW k \in Launches
      PROVE  Settled(pc'[k], par'[k], status'[k], code'[k])
  <2>1. Settled(pc[k], par[k], status[k], code[k])
    BY DEF EndsInv
  <2>2. CASE k = l
    <3>1. par'[k] = to /\ pc'[k] = pc[k] /\ status'[k] = status[k] /\ par[k] # "none" /\ to # "none"
      BY <1>1, <1>2, <2>2
    <3>2. CASE UNCHANGED code
      BY <1>4, <2>1, <2>2, <3>1, <3>2 DEF Settled
    <3>3. CASE to = "over" /\ (code'[k] = "killed" \/ pc[l] = "over")
      BY <2>1, <2>2, <3>1, <3>3 DEF Settled
    <3> QED BY <1>1, <1>5, <2>2, <3>2, <3>3
  <2>3. CASE k # l
    <3>1. pc'[k] = pc[k] /\ par'[k] = par[k] /\ status'[k] = status[k] /\ code'[k] = code[k]
      BY <1>1, <1>2, <1>5, <2>3
    <3> QED BY <2>1, <3>1
  <2> QED BY <2>2, <2>3
<1> QED BY <1>2, <1>4, <1>5, <1>6 DEF EndsInv

(* Nothing ended initially.                                                   *)
LEMMA EndsInit == Init => EndsInv
<1> SUFFICES ASSUME Init, NEW l \in Launches
             PROVE  Settled(pc[l], par[l], status[l], code[l])
  BY DEF EndsInv
<1>1. pc[l] \in StepNames
  BY StepLists, Places DEF Init
<1>2. pc[l] # "over"
  BY <1>1, StepNamesProper
<1>3. par[l] = "none" /\ status[l] = "none" /\ code[l] = "none"
  BY DEF Init
<1> QED BY <1>2, <1>3 DEF Settled

(* One step of the system is one step of the contract, or none.               *)
Outside(l) ==
  \/ /\ \A k \in Launches : Phase(pc'[k]) = Phase(pc[k])
     /\ UNCHANGED <<status, code>>
  \/ /\ Phase(pc[l]) = "setup" /\ pc' = [pc EXCEPT ![l] = "running"]
     /\ code[l] \in {"none", "killed"} /\ UNCHANGED <<status, code>>
  \/ \E s \in {"refused", "unwatched", "killed", "exit"} :
       /\ Phase(pc[l]) = "setup" => s # "exit"
       /\ Phase(pc[l]) = "running" => s \in {"exit", "killed"}
       /\ Phase(pc[l]) # "over" /\ pc' = [pc EXCEPT ![l] = "over"]
       /\ status' = [status EXCEPT ![l] = s]
       /\ code' = code \/ (code[l] = "none" /\ code' = [code EXCEPT ![l] = s])
  \/ /\ UNCHANGED <<pc, status>> /\ code[l] = "none"
     /\ \E s \in {"killed", "lost", status[l]} :
          /\ s # "killed" => pc[l] = "over"
          /\ code' = [code EXCEPT ![l] = s]

(* Every step keeps what is known of the ends.                                *)
LEMMA EndsStep ==
  ASSUME TypeOK, EndsInv, [Next]_vars
  PROVE  EndsInv' /\ UNCHANGED conf /\ (UNCHANGED <<pc, status, code>> \/ \E l \in Launches : Outside(l))
<1>1. CASE UNCHANGED vars
  BY <1>1 DEF EndsInv, vars
<1>2. ASSUME NEW l \in Launches, Execute(l)
      PROVE  EndsInv' /\ UNCHANGED conf /\ Outside(l)
  <2>1. pc[l] \in StepNames => Phase(pc[l]) = "setup"
    BY StepNamesProper DEF Phase
  <2> QED BY <1>2, <2>1, ExecuteEnds, ExecuteShape DEF Outside
<1>3. ASSUME NEW l \in Launches, Parent(l) \/ KillParent(l)
      PROVE  EndsInv' /\ UNCHANGED conf /\ (UNCHANGED <<pc, status, code>> \/ Outside(l))
  BY <1>3, ParentEnds DEF Outside
<1>4. ASSUME NEW l \in Launches, CommandExits(l) \/ KillStepper(l)
      PROVE  EndsInv' /\ UNCHANGED conf /\ Outside(l)
  <2>1. PICK s \in {"exit", "killed"} :
          Over(l, s) /\ pc[l] # "over" /\ (s = "exit" => pc[l] = "running")
    BY <1>4 DEF CommandExits, KillStepper
  <2>2. /\ EndsInv'
        /\ pc' = [pc EXCEPT ![l] = "over"] /\ status' = [status EXCEPT ![l] = s]
        /\ code' = code \/ (code[l] = "none" /\ code' = [code EXCEPT ![l] = s])
    BY <2>1, OverEnds
  <2>3. UNCHANGED conf
    BY <2>1 DEF Over, own
  <2> QED BY <2>1, <2>2, <2>3 DEF Outside, Phase
<1>5. ASSUME NEW l \in Launches, PidReused(l)
      PROVE  EndsInv' /\ UNCHANGED conf /\ UNCHANGED <<pc, status, code>>
  BY <1>5 DEF PidReused, EndsInv, own
<1>6. ASSUME NEW n \in Names, DeleteSandboxDir(n)
      PROVE  EndsInv' /\ UNCHANGED conf /\ UNCHANGED <<pc, status, code>>
  BY <1>6 DEF DeleteSandboxDir, EndsInv, own
<1> QED BY <1>1, <1>2, <1>3, <1>4, <1>5, <1>6 DEF Next, Environment

(* The types and what is known of the ends always hold.                       *)
LEMMA EndsAlways == Spec => [](TypeOK /\ EndsInv)
<1>1. Init => EndsInv
  BY EndsInit
<1>2. TypeOK /\ EndsInv /\ [Next]_vars => EndsInv'
  BY EndsStep
<1> QED BY <1>1, <1>2, TypeCorrect, PTL DEF Spec

(* What the caller sees of a step is a step of the contract.                  *)
LEMMA OutsideSteps ==
  ASSUME TypeOK, NEW l \in Launches, Outside(l)
  PROVE  [Contract!Next]_(Contract!vars)
<1> DEFINE phase == [k \in Launches |-> Phase(pc[k])]
<1>1. /\ pc \in [Launches -> StepNames \cup {"running", "over"}]
      /\ status \in [Launches -> {"none", "refused", "unwatched", "exit", "killed"}]
  BY DEF TypeOK
<1>2. phase = [k \in Launches |-> IF pc[k] \in {"running", "over"} THEN pc[k] ELSE "setup"]
  BY DEF Phase
<1>3. phase' = [k \in Launches |-> IF pc'[k] \in {"running", "over"} THEN pc'[k] ELSE "setup"]
  BY DEF Phase
<1>4. CASE /\ \A k \in Launches : Phase(pc'[k]) = Phase(pc[k])
           /\ UNCHANGED <<status, code>>
  <2>1. phase' = phase
    BY <1>4
  <2> QED BY <1>2, <1>3, <1>4, <2>1 DEF Contract!vars
<1>5. CASE /\ Phase(pc[l]) = "setup" /\ pc' = [pc EXCEPT ![l] = "running"]
           /\ code[l] \in {"none", "killed"} /\ UNCHANGED <<status, code>>
  <2>1. phase' = [phase EXCEPT ![l] = "running"] /\ phase[l] = "setup"
    BY <1>1, <1>5 DEF Phase
  <2> QED BY <1>2, <1>3, <1>5, <2>1 DEF Contract!Next, Contract!Run
<1>6. CASE \E s \in {"refused", "unwatched", "killed", "exit"} :
             /\ Phase(pc[l]) = "setup" => s # "exit"
             /\ Phase(pc[l]) = "running" => s \in {"exit", "killed"}
             /\ Phase(pc[l]) # "over" /\ pc' = [pc EXCEPT ![l] = "over"]
             /\ status' = [status EXCEPT ![l] = s]
             /\ code' = code \/ (code[l] = "none" /\ code' = [code EXCEPT ![l] = s])
  <2>1. PICK s \in {"refused", "unwatched", "killed", "exit"} :
             /\ Phase(pc[l]) = "setup" => s # "exit"
             /\ Phase(pc[l]) = "running" => s \in {"exit", "killed"}
             /\ Phase(pc[l]) # "over" /\ pc' = [pc EXCEPT ![l] = "over"]
             /\ status' = [status EXCEPT ![l] = s]
             /\ code' = code \/ (code[l] = "none" /\ code' = [code EXCEPT ![l] = s])
    BY <1>6
  <2>2. phase' = [phase EXCEPT ![l] = "over"] /\ phase[l] # "over"
    BY <1>1, <2>1 DEF Phase
  <2>3. s \in IF phase[l] = "setup" THEN {"refused", "unwatched", "killed"} ELSE {"exit", "killed"}
    BY <1>1, <2>1 DEF Phase
  <2> HIDE DEF phase
  <2>4. Contract!End(l)
    BY <1>2, <1>3, <2>1, <2>2, <2>3 DEF Contract!End
  <2> QED BY <2>4 DEF Contract!Next
<1>7. CASE /\ UNCHANGED <<pc, status>> /\ code[l] = "none"
           /\ \E s \in {"killed", "lost", status[l]} :
                /\ s # "killed" => pc[l] = "over"
                /\ code' = [code EXCEPT ![l] = s]
  <2>1. PICK s \in {"killed", "lost", status[l]} :
             /\ s # "killed" => pc[l] = "over"
             /\ code' = [code EXCEPT ![l] = s]
    BY <1>7
  <2>2. phase' = phase /\ (s # "killed" => phase[l] = "over")
    BY <1>7, <2>1 DEF Phase
  <2> HIDE DEF phase
  <2>3. CASE s = "killed"
    BY <1>2, <1>3, <1>7, <2>1, <2>2, <2>3 DEF Contract!Next, Contract!Abandon
  <2>4. CASE s # "killed"
    BY <1>2, <1>3, <1>7, <2>1, <2>2, <2>4 DEF Contract!Next, Contract!Report
  <2> QED BY <2>3, <2>4
<1> QED BY <1>4, <1>5, <1>6, <1>7 DEF Outside

(* The safety part of KeepsContract: whatever fails, is killed, refused or    *)
(* competes, a launch runs its command at most once and only while its caller *)
(* was told nothing, and what the caller is told is how the launch ended, for *)
(* every number of launches and troubles.  (The fair part, that every end is  *)
(* reported, is left to the model checker.)                                   *)
THEOREM ContractIsKept == Spec => Contract!Safely
<1>1. Init => Contract!Init
  <2> SUFFICES ASSUME Init PROVE Contract!Init
    OBVIOUS
  <2>1. \A k \in Launches : pc[k] \in StepNames
    BY StepLists, Places DEF Init
  <2>2. \A k \in Launches : pc[k] \notin {"running", "over"}
    BY <2>1, StepNamesProper
  <2> QED BY <2>2 DEF Init, Contract!Init
<1>2. TypeOK /\ EndsInv /\ [Next]_vars => [Contract!Next]_(Contract!vars)
  <2> SUFFICES ASSUME TypeOK, EndsInv, [Next]_vars
               PROVE  [Contract!Next]_(Contract!vars)
    OBVIOUS
  <2>1. CASE UNCHANGED <<pc, status, code>>
    BY <2>1 DEF Contract!vars
  <2> QED BY <2>1, EndsStep, OutsideSteps
<1> QED BY <1>1, <1>2, EndsAlways, PTL DEF Spec, Contract!Safely

(****************************** the lock ************************************)

(* The steps after which Cleanup removes the lock.                            *)
LEMMA UndoableSteps ==
  Undoable = {"MkdirPutOld", "UnshareNamespaces", "MountNewRoot", "MountSystemDirs",
              "MountSymLinks", "MountAppDirs", "SetGroups", "ApplyPolicyMounts", "PivotRoot"}
BY Places DEF Undoable, Before

(* A launch that accounts for the lock of its name.                           *)
Holds(p, s, ms) ==
  p \in Undoable \ {"MkdirPutOld"} \/ s = "killed" \/ "leftold" \in ms

(* The lock is accounted for when its holders go on holding it.               *)
LEMMA LockKept ==
  ASSUME LockIsReturned, UNCHANGED conf,
         \A n \in Names : "putold" \in disk'[n] =>
           \/ /\ "putold" \in disk[n]
              /\ \A k \in Launches : NameOf(k) = n /\ Holds(pc[k], status[k], marks[k])
                                       => Holds(pc'[k], status'[k], marks'[k])
           \/ \E k \in Launches : NameOf(k) = n /\ Holds(pc'[k], status'[k], marks'[k])
  PROVE  LockIsReturned'
<1>1. \A k \in Launches : NameOf(k)' = NameOf(k)
  BY DEF NameOf
<1> SUFFICES ASSUME NEW n \in Names, "putold" \in disk'[n]
             PROVE  \E k \in Launches : NameOf(k) = n /\ Holds(pc'[k], status'[k], marks'[k])
  BY <1>1 DEF LockIsReturned, Holds
<1>2. "putold" \in disk[n] =>
        \E k \in Launches : NameOf(k) = n /\ Holds(pc[k], status[k], marks[k])
  BY DEF LockIsReturned, Holds
<1> QED BY <1>2

(* A process that goes on keeps what it holds, except by PivotRoot.           *)
LEMMA OnwardHolds ==
  ASSUME TypeOK, NEW l \in Launches, pc[l] \in StepNames \ {"ExecuteCommand", "PivotRoot"},
         NEW ms, marks[l] \ {"credenv"} \subseteq ms,
         pc' = [pc EXCEPT ![l] = Onward[pc[l]]], marks' = [marks EXCEPT ![l] = ms],
         UNCHANGED status
  PROVE  \A k \in Launches : Holds(pc[k], status[k], marks[k])
                               => Holds(pc'[k], status'[k], marks'[k])
<1>1. pc[l] \in Undoable \ {"MkdirPutOld"} => Onward[pc[l]] \in Undoable \ {"MkdirPutOld"}
  BY UndoableSteps, Road
<1>2. DOMAIN pc = Launches /\ DOMAIN marks = Launches
  BY DEF TypeOK
<1> QED BY <1>1, <1>2 DEF Holds

(* A launch that goes on holds what it held.                                  *)
LEMMA ProceedHolds ==
  ASSUME TypeOK, NEW l \in Launches, pc[l] \in StepNames \ {"ExecuteCommand", "PivotRoot"},
         NEW new, Proceed(l, new)
  PROVE  \A k \in Launches : Holds(pc[k], status[k], marks[k])
                               => Holds(pc'[k], status'[k], marks'[k])
BY OnwardHolds DEF Proceed

(* A failing launch takes the lock away with it.                              *)
LEMMA FailedHolds ==
  ASSUME TypeOK, EndsInv, LockIsReturned, NEW l \in Launches, pc[l] \in StepNames, Failed(l)
  PROVE  LockIsReturned'
<1>1. /\ pc' = [pc EXCEPT ![l] = "over"] /\ status' = [status EXCEPT ![l] = "refused"]
      /\ UNCHANGED conf
  BY DEF Failed, Over, own
<1>2. status[l] = "none" /\ pc[l] # "over"
  BY StepNamesProper DEF EndsInv, Settled
<1>3. \A k \in Launches : "leftold" \in marks[k] => "leftold" \in marks'[k]
  BY DEF Failed, Unbound
<1>4. /\ DOMAIN pc = Launches /\ DOMAIN status = Launches /\ DOMAIN disk = Names
      /\ NameOf(l) \in Names
  BY ConfTyped DEF TypeOK
<1>5. "putold" \notin Cleaned(disk[NameOf(l)])
  BY <1>4, CleanedTyped DEF TypeOK
<1>6. CASE pc[l] \in Undoable
  <2>1. disk' = [disk EXCEPT ![NameOf(l)] = Cleaned(disk[NameOf(l)])]
    BY <1>6 DEF Failed
  <2>2. ASSUME NEW n \in Names, "putold" \in disk'[n]
        PROVE  /\ "putold" \in disk[n] /\ n # NameOf(l)
    BY <1>4, <1>5, <2>1, <2>2
  <2>3. \A k \in Launches : k # l /\ Holds(pc[k], status[k], marks[k])
                              => Holds(pc'[k], status'[k], marks'[k])
    BY <1>1, <1>3, <1>4 DEF Holds
  <2> QED BY <1>1, <2>2, <2>3, LockKept
<1>7. CASE pc[l] \notin Undoable
  <2>1. disk' = disk
    BY <1>7 DEF Failed
  <2>2. \A k \in Launches : Holds(pc[k], status[k], marks[k])
                              => Holds(pc'[k], status'[k], marks'[k])
    BY <1>1, <1>2, <1>3, <1>4, <1>7 DEF Holds
  <2> QED BY <1>1, <2>1, <2>2, LockKept
<1> QED BY <1>6, <1>7

(* Every step of a launch keeps the lock accounted for.                       *)
LEMMA ExecuteHolds ==
  ASSUME TypeOK, EndsInv, LockIsReturned, NEW l \in Launches, Execute(l)
  PROVE  LockIsReturned'
<1>0. /\ DOMAIN pc = Launches /\ DOMAIN status = Launches /\ DOMAIN disk = Names
      /\ DOMAIN marks = Launches /\ NameOf(l) \in Names
  BY ConfTyped DEF TypeOK
<1>1. CASE Fails(l)
  BY <1>1, FailedHolds DEF Fails
<1>2. CASE Passes(l)
  <2>1. PICK new : Proceed(l, new) /\ UNCHANGED <<conf, disk>>
    BY <1>2 DEF Passes, own
  <2>2. pc[l] \in StepNames \ {"ExecuteCommand", "PivotRoot"}
    BY <1>2, Places, ZenonT(60) DEF Passes, Private
  <2> QED BY <2>1, <2>2, ProceedHolds, LockKept
<1>3. ASSUME NEW new, NEW step \in StepNames \ {"ExecuteCommand", "PivotRoot"},
             pc[l] = step, Proceed(l, new), UNCHANGED conf,
             \A n \in Names : "putold" \in disk'[n] => "putold" \in disk[n]
      PROVE  LockIsReturned'
  BY <1>3, ProceedHolds, LockKept
<1>4. CASE Special(l) /\ ~Fails(l)
  <2>1. CASE \/ SetSelinuxMCS(l) \/ OpenCallerProcDir(l) \/ ReadNamespaceId(l) \/ SetNs(l)
    <3>1. PICK step \in {"SetSelinuxMCS", "OpenCallerProcDir", "ReadNamespaceId", "SetNs"} :
            pc[l] = step /\ (\E new : Proceed(l, new)) /\ UNCHANGED <<conf, disk>>
      BY <1>4, <2>1, Places
         DEF SetSelinuxMCS, OpenCallerProcDir, ReadNamespaceId, SetNs, Fails, Blocked, Refuse
    <3> QED BY <1>3, <3>1, Places
  <2>2. CASE \/ CreateSandboxDir(l) \/ MountSystemDirs(l) \/ MountSymLinks(l) \/ MountAppDirs(l)
    <3>1. PICK step \in {"CreateSandboxDir", "MountSystemDirs", "MountSymLinks", "MountAppDirs"},
               new, e \in SUBSET {"root", "links", "dirs"} :
            pc[l] = step /\ Proceed(l, new) /\ UNCHANGED conf /\ Put(l, e)
      BY <1>4, <2>2, Places
         DEF CreateSandboxDir, MountSystemDirs, MountSymLinks, MountAppDirs,
             MountAll, Fails, Blocked, Refuse, own
    <3>2. \A n \in Names : "putold" \in disk'[n] => "putold" \in disk[n]
      BY <1>0, <3>1 DEF Put
    <3> QED BY <1>3, <3>1, <3>2, Places
  <2>3. CASE MkdirPutOld(l)
    <3>1. /\ pc[l] = "MkdirPutOld" /\ Put(l, {"putold"}) /\ Proceed(l, {}) /\ UNCHANGED conf
      BY <1>4, <2>3, Places DEF MkdirPutOld, Fails, Blocked, Refuse, own
    <3>2. \A k \in Launches : Holds(pc[k], status[k], marks[k])
                                => Holds(pc'[k], status'[k], marks'[k])
      BY <3>1, ProceedHolds, Places
    <3>3. Holds(pc'[l], status'[l], marks'[l])
      BY <1>0, <3>1, Road, UndoableSteps DEF Proceed, Holds
    <3>4. \A n \in Names : "putold" \in disk'[n] => "putold" \in disk[n] \/ n = NameOf(l)
      BY <1>0, <3>1 DEF Put
    <3> QED BY <3>1, <3>2, <3>3, <3>4, LockKept
  <2>4. CASE left[l] # << >> /\ ApplyPolicyMounts(l)
    <3>1. UNCHANGED <<conf, pc, status, marks>> /\ (disk' = disk \/ Put(l, {"root", "dirs"}))
      BY <1>4, <2>4, PolicyShape
    <3>2. \A n \in Names : "putold" \in disk'[n] => "putold" \in disk[n]
      BY <1>0, <3>1 DEF Put
    <3> QED BY <3>1, <3>2, LockKept
  <2>5. CASE PivotRoot(l)
    <3>1. CASE /\ disk' = [disk EXCEPT ![NameOf(l)] = disk[NameOf(l)] \ {"putold"}]
               /\ pc[l] = "PivotRoot" /\ Proceed(l, {"pivot"}) /\ UNCHANGED own
      <4>1. \A k \in Launches : k # l /\ Holds(pc[k], status[k], marks[k])
                                  => Holds(pc'[k], status'[k], marks'[k])
        BY <1>0, <3>1 DEF Proceed, Holds
      <4>2. \A n \in Names : "putold" \in disk'[n] => "putold" \in disk[n] /\ n # NameOf(l)
        BY <1>0, <3>1
      <4> QED BY <3>1, <4>1, <4>2, LockKept DEF own
    <3>2. CASE /\ UNCHANGED <<conf, disk>> /\ "leftold" \in marks'[l]
               /\ \A k \in Launches \ {l} : pc'[k] = pc[k] /\ status'[k] = status[k]
                                            /\ marks'[k] = marks[k]
      <4>1. \A k \in Launches : Holds(pc[k], status[k], marks[k])
                                  => Holds(pc'[k], status'[k], marks'[k])
        BY <3>2 DEF Holds
      <4> QED BY <3>2, <4>1, LockKept
    <3>3. CASE /\ pc[l] = "PivotRoot" /\ Proceed(l, {"pivot", "leftold"})
               /\ UNCHANGED <<own, disk>>
      BY <1>0, <3>2, <3>3 DEF Proceed, own
    <3>4. CASE /\ pc[l] = "PivotRoot" /\ marks' = [marks EXCEPT ![l] = @ \cup {"leftold"}]
               /\ Over(l, "refused") /\ UNCHANGED disk
      BY <1>0, <3>2, <3>4 DEF Over, own
    <3> QED BY <1>4, <2>5, <3>1, <3>3, <3>4, Places DEF PivotRoot, Fails, Blocked, Refuse
  <2>6. CASE \/ IsShell(l) /\ DeliverDaemonSidePolicies(l)
             \/ conf[l].sock # "none" /\ ConnectMonitorSocket(l)
             \/ conf[l].pidns /\ MountProcFs(l)
    <3>1. PICK step \in {"DeliverDaemonSidePolicies", "ConnectMonitorSocket", "MountProcFs"} :
            pc[l] = step /\ (\E new : Proceed(l, new)) /\ UNCHANGED <<conf, disk>>
      BY <1>4, <2>6, Places
         DEF DeliverDaemonSidePolicies, ConnectMonitorSocket, MountProcFs, Fails, Blocked,
             Refuse, own
    <3> QED BY <1>3, <3>1, Places
  <2>7. CASE ForkAfterUnshare(l) \/ ChildAfterFork(l) \/ ExecuteCommand(l)
    <3>1. /\ pc[l] \in {"ForkAfterUnshare", "ChildAfterFork", "ExecuteCommand"}
          /\ \E next : pc' = [pc EXCEPT ![l] = next]
          /\ UNCHANGED <<conf, disk, marks, status>>
      BY <1>4, <2>7, Places, ZenonT(30)
         DEF ForkAfterUnshare, ChildAfterFork, ExecuteCommand, Fails, Blocked, Refuse, own
    <3>2. \A k \in Launches : Holds(pc[k], status[k], marks[k])
                                => Holds(pc'[k], status'[k], marks'[k])
      BY <1>0, <3>1, UndoableSteps DEF Holds
    <3> QED BY <3>1, <3>2, LockKept
  <2>8. CASE WaitForStartGate(l)
    <3>1. CASE pc[l] = "WaitForStartGate" /\ Proceed(l, {}) /\ UNCHANGED <<conf, disk>>
      BY <1>3, <3>1, Places
    <3>2. CASE pc[l] = "WaitForStartGate" /\ Over(l, "unwatched") /\ UNCHANGED <<marks, disk>>
      <4>1. status[l] = "none"
        BY <3>2, StepNamesProper, Places DEF EndsInv, Settled
      <4>2. \A k \in Launches : Holds(pc[k], status[k], marks[k])
                                  => Holds(pc'[k], status'[k], marks'[k])
        BY <1>0, <3>2, <4>1, UndoableSteps DEF Holds, Over
      <4> QED BY <3>2, <4>2, LockKept DEF Over, own
    <3> QED BY <2>8, <3>1, <3>2 DEF WaitForStartGate
  <2>9. CASE ApplyEnvironment(l)
    <3>1. /\ pc[l] = "ApplyEnvironment" /\ pc' = [pc EXCEPT ![l] = Onward[pc[l]]]
          /\ marks' = [marks EXCEPT ![l] = (marks[l] \ {"credenv"}) \cup {"env"}]
          /\ UNCHANGED <<conf, status, disk>>
      BY <1>4, <2>9, Places DEF ApplyEnvironment, Fails, own
    <3>2. \A k \in Launches : Holds(pc[k], status[k], marks[k])
                                => Holds(pc'[k], status'[k], marks'[k])
      BY <3>1, OnwardHolds, Places
    <3> QED BY <3>1, <3>2, LockKept
  <2> QED BY <1>4, <2>1, <2>2, <2>3, <2>4, <2>5, <2>6, <2>7, <2>8, <2>9 DEF Special
<1> QED BY <1>1, <1>2, <1>4, Kinds

(* LockIsReturned for every number of launches, names and troubles: the lock  *)
(* of a name outlasts the launches that build its root only where one of them *)
(* was killed or was stuck in the middle of PivotRoot.                        *)
THEOREM LockIsGivenBack == Spec => []LockIsReturned
<1>1. Init => LockIsReturned
  BY DEF Init, LockIsReturned
<1>2. TypeOK /\ EndsInv /\ LockIsReturned /\ [Next]_vars => LockIsReturned'
  <2> SUFFICES ASSUME TypeOK, EndsInv, LockIsReturned, [Next]_vars PROVE LockIsReturned'
    OBVIOUS
  <2>0. /\ DOMAIN pc = Launches /\ DOMAIN status = Launches /\ DOMAIN disk = Names
        /\ DOMAIN marks = Launches
    BY DEF TypeOK
  <2>1. ASSUME UNCHANGED <<conf, pc, status>>,
               \A k \in Launches : "leftold" \in marks[k] => "leftold" \in marks'[k],
               \A n \in Names : "putold" \in disk'[n] => "putold" \in disk[n]
        PROVE  LockIsReturned'
    BY <2>1, LockKept DEF Holds
  <2>2. CASE UNCHANGED vars
    BY <2>1, <2>2 DEF vars
  <2>3. ASSUME NEW l \in Launches, Execute(l)
        PROVE  LockIsReturned'
    BY <2>3, ExecuteHolds
  <2>4. ASSUME NEW l \in Launches, Parent(l) \/ KillParent(l)
        PROVE  LockIsReturned'
    <3>1. PICK from, to : ParentStep(l, from, to)
      BY <2>4 DEF Parent, ParentAfterFork, MonitorInit, ReleaseStartGate, MonitorRun,
                  WaitForChildExit, KillParent
    <3> QED BY <2>0, <2>1, <3>1 DEF ParentStep
  <2>5. ASSUME NEW l \in Launches, CommandExits(l) \/ KillStepper(l)
        PROVE  LockIsReturned'
    <3>1. PICK s \in {"exit", "killed"} :
            Over(l, s) /\ pc[l] # "over" /\ (s = "exit" => pc[l] = "running")
      BY <2>5 DEF CommandExits, KillStepper
    <3>2. UNCHANGED <<conf, marks, disk>>
      BY <2>5 DEF CommandExits, KillStepper, Over, own
    <3>3. status[l] = "none"
      BY <3>1 DEF EndsInv, Settled
    <3>4. \A k \in Launches : Holds(pc[k], status[k], marks[k])
                                => Holds(pc'[k], status'[k], marks'[k])
      BY <2>0, <3>1, <3>2, <3>3, UndoableSteps DEF Holds, Over
    <3> QED BY <3>2, <3>4, LockKept
  <2>6. ASSUME NEW l \in Launches, PidReused(l)
        PROVE  LockIsReturned'
    BY <2>1, <2>6 DEF PidReused, own
  <2>7. ASSUME NEW n \in Names, DeleteSandboxDir(n)
        PROVE  LockIsReturned'
    BY <2>0, <2>1, <2>7 DEF DeleteSandboxDir, Unbound, own
  <2> QED BY <2>2, <2>3, <2>4, <2>5, <2>6, <2>7 DEF Next, Environment
<1> QED BY <1>1, <1>2, EndsAlways, PTL DEF Spec

(****************************** confinement *********************************)

(* How far a launch got: the number of the next step, one more than the last  *)
(* while the command runs.                                                    *)
At(p) == IF p = "running" THEN 45 ELSE IF p \in StepNames THEN Place[p] ELSE 0

(* What is in force once a step is behind, for configuration c and the        *)
(* measures ms: what is due, and what the steps with a state of their own do. *)
Gives(step, c, ms) ==
  {m \in Measures \ {"bound"} :
     \/ m \in Due(step, c)
     \/ step = "SetSelinuxMCS" /\ m = "label"
     \/ step = "SetNs" /\ m = "ns"
     \/ step = "PivotRoot" /\ m = "pivot"
     \/ step = "DeliverDaemonSidePolicies" /\ c.type = "shell" /\ m = "policy"
     \/ step = "WaitForStartGate" /\ c.type = "shell" /\ m = "watched"
     \/ step = "ApplyEnvironment" /\ m = "env"
     \/ /\ step = "SetToolCredentials" /\ "creds" \in ms /\ "lostcred" \notin ms
        /\ m = "credenv"}

(* Every step behind left its measures in force.                              *)
Armed(i, ms, c) == \A s \in StepNames : Place[s] < i => Gives(s, c, ms) \subseteq ms

(* Mounts are at places of the template and within conditional rules.         *)
Rooted(mt) ==
  \A t \in Targets : mt[t] # "none" =>
    Location[t] = t /\ (t \in Template \/ \E r \in DOMAIN Conditional : <<t, r>> \in Within)

(* Policy mount j is read-only after the first k ones, or reopened by one.    *)
Sealed(mt, all, j, k) ==
  \/ ReadOnlyAt(mt, Location[all[j].target])
  \/ \E i \in (j + 1)..k : Reopens(all, i, Location[all[j].target])

(* Of the policy mounts all, the first k were carried out.                    *)
Carried(mt, all, k) ==
  \A j \in 1..k :
    mt[Location[all[j].target]] # "none" /\ (all[j].ro => Sealed(mt, all, j, k))

(* Of the policy mounts all, those not in rest were carried out.              *)
Applied(mt, rest, all) ==
  /\ Len(rest) <= Len(all)
  /\ \A j \in 1..Len(rest) : rest[j] = all[(Len(all) - Len(rest)) + j]
  /\ Carried(mt, all, Len(all) - Len(rest))

(* The mounts before step i.  With a pid namespace nothing is mounted at      *)
(* /proc until its own is, so that no policy mount can have named it.         *)
Mounted(i, mt, rest, c) ==
  /\ ~c.pidns /\ i > 16 => mt["proc"] \in {"rw", "ro"}
  /\ c.pidns => mt["proc"] = IF i > 28 THEN "own" ELSE "none"
  /\ i > 18 => \A t \in DOMAIN AppMounts : AppMounts[t] = "ro" => mt[t] = "ro"
  /\ i > 20 => rest = << >>
  /\ i < 20 => rest = c.mounts
  /\ Rooted(mt) /\ Applied(mt, rest, c.mounts)

(* The gate opens only for a monitor that runs.                               *)
Gated(b, q, ms) == b \/ q = "release" => "watched" \in ms

(* A command holds none of the files of the launch.                           *)
Shut(p, q, fs) == p = "running" => \A f \in fs : f[1] # (IF q = "none" THEN "P" ELSE "C")

Behind(p, q, ms, mt, rest, fs, b, c) ==
  /\ Armed(At(p), ms, c) /\ Mounted(At(p), mt, rest, c) /\ Gated(b, q, ms) /\ Shut(p, q, fs)

Same == {"none", "caller", "twin"}

GuardInv ==
  \A l \in Launches :
    /\ pc[l] # "over" =>
         Behind(pc[l], par[l], marks[l], mnts[l], left[l], fds[l], byte[l], conf[l])
    /\ seen[l].proc \in Same /\ seen[l].ns \in Same

(* The number of a step is its place.                                         *)
LEMMA AtSteps ==
  /\ \A s \in StepNames : At(s) = Place[s] /\ At(s) \in 1..44
  /\ At("running") = 45
  /\ \A s, t \in StepNames : Place[s] = Place[t] => s = t
  /\ \A s \in StepNames : s = Steps[Place[s]]
<1>1. \A s \in StepNames : Steps[Place[s]] = s
  BY StepLists, Places
<1>2. \A s, t \in StepNames : Place[s] = Place[t] => s = t
  BY <1>1
<1> QED BY <1>1, <1>2, OnwardPlace, StepNamesProper DEF At

(* The places of the steps whose success changes what later ones find.        *)
LEMMA Numbers ==
  /\ At("ParseArguments") = 1 /\ At("SetSelinuxMCS") = 5 /\ At("OpenCallerProcDir") = 8
  /\ At("ReadNamespaceId") = 10
  /\ At("SetNs") = 11 /\ At("CreateSandboxDir") = 12 /\ At("MkdirPutOld") = 13
  /\ At("MountSystemDirs") = 16 /\ At("MountSymLinks") = 17 /\ At("MountAppDirs") = 18
  /\ At("SetGroups") = 19 /\ At("ApplyPolicyMounts") = 20 /\ At("PivotRoot") = 21
  /\ At("DeliverDaemonSidePolicies") = 23 /\ At("ConnectMonitorSocket") = 24
  /\ At("ForkAfterUnshare") = 25 /\ At("ChildAfterFork") = 26
  /\ At("WaitForStartGate") = 27 /\ At("MountProcFs") = 28 /\ At("SetAccessToken") = 29
  /\ At("ApplyEnvironment") = 37 /\ At("SetToolCredentials") = 38
  /\ At("ExecuteCommand") = 44 /\ At("running") = 45
<1>1. {"ParseArguments", "SetSelinuxMCS", "OpenCallerProcDir", "ReadNamespaceId", "SetNs",
       "CreateSandboxDir", "MkdirPutOld", "MountSystemDirs", "MountSymLinks", "MountAppDirs",
       "SetGroups", "ApplyPolicyMounts", "PivotRoot"} \subseteq StepNames
  BY Places
<1>2. {"DeliverDaemonSidePolicies", "ConnectMonitorSocket", "ForkAfterUnshare",
       "ChildAfterFork", "WaitForStartGate", "MountProcFs", "SetAccessToken",
       "ApplyEnvironment", "SetToolCredentials", "ExecuteCommand"} \subseteq StepNames
  BY Places
<1>3. At("running") = 45 /\ \A s \in StepNames : At(s) = Place[s]
  BY AtSteps
<1>4. /\ At("ParseArguments") = 1 /\ At("SetSelinuxMCS") = 5 /\ At("OpenCallerProcDir") = 8
      /\ At("ReadNamespaceId") = 10
      /\ At("SetNs") = 11 /\ At("CreateSandboxDir") = 12 /\ At("MkdirPutOld") = 13
      /\ At("MountSystemDirs") = 16 /\ At("MountSymLinks") = 17 /\ At("MountAppDirs") = 18
      /\ At("SetGroups") = 19 /\ At("ApplyPolicyMounts") = 20 /\ At("PivotRoot") = 21
  BY <1>1, <1>3, Places, ZenonT(60)
<1>5. /\ At("DeliverDaemonSidePolicies") = 23 /\ At("ConnectMonitorSocket") = 24
      /\ At("ForkAfterUnshare") = 25 /\ At("ChildAfterFork") = 26
      /\ At("WaitForStartGate") = 27 /\ At("MountProcFs") = 28 /\ At("SetAccessToken") = 29
      /\ At("ApplyEnvironment") = 37 /\ At("SetToolCredentials") = 38
      /\ At("ExecuteCommand") = 44
  BY <1>2, <1>3, Places, ZenonT(60)
<1> QED BY <1>3, <1>4, <1>5

(* The steps at some of the places.                                           *)
LEMMA StepsAtPlaces ==
  ASSUME NEW r \in StepNames
  PROVE  /\ Place[r] = 16 => r = "MountSystemDirs"
         /\ Place[r] = 18 => r = "MountAppDirs"
         /\ Place[r] = 20 => r = "ApplyPolicyMounts"
         /\ Place[r] = 25 => r = "ForkAfterUnshare"
         /\ Place[r] = 26 => r = "ChildAfterFork"
         /\ Place[r] = 27 => r = "WaitForStartGate"
         /\ Place[r] = 28 => r = "MountProcFs"
         /\ Place[r] = 37 => r = "ApplyEnvironment"
         /\ Place[r] = 44 => r = "ExecuteCommand"
<1>1. {"MountSystemDirs", "MountAppDirs", "ApplyPolicyMounts", "ForkAfterUnshare", "ChildAfterFork",
       "WaitForStartGate", "MountProcFs", "ApplyEnvironment", "ExecuteCommand"} \subseteq StepNames
  BY Places
<1>2. /\ Place["MountSystemDirs"] = 16 /\ Place["MountAppDirs"] = 18
      /\ Place["ApplyPolicyMounts"] = 20 /\ Place["ForkAfterUnshare"] = 25
      /\ Place["ChildAfterFork"] = 26 /\ Place["WaitForStartGate"] = 27
      /\ Place["MountProcFs"] = 28 /\ Place["ApplyEnvironment"] = 37 /\ Place["ExecuteCommand"] = 44
  BY Places
<1> QED BY <1>1, <1>2, AtSteps

(* The next step: nothing but what the step behind gives has to be shown.     *)
LEMMA ArmedOnward ==
  ASSUME NEW s \in StepNames \ {"ExecuteCommand"}, NEW ms, NEW ms2, NEW c,
         Armed(At(s), ms, c), s # "ApplyEnvironment", ms \ {"bound"} \subseteq ms2,
         "creds" \in ms2 => "creds" \in ms \/ s = "FetchToolCredentials",
         Gives(s, c, ms2) \subseteq ms2
  PROVE  Armed(At(Onward[s]), ms2, c)
<1>1. /\ At(s) = Place[s] /\ Place[s] \in 1..44 /\ Onward[s] \in StepNames
      /\ At(Onward[s]) = Place[s] + 1
  BY AtSteps, OnwardPlace, OnwardTyped
<1> SUFFICES ASSUME NEW t \in StepNames, Place[t] < Place[s] + 1
             PROVE  Gives(t, c, ms2) \subseteq ms2
  BY <1>1 DEF Armed
<1>2. Place[t] \in 1..44
  BY OnwardPlace
<1>3. CASE Place[t] < Place[s]
  <2>1. Gives(t, c, ms) \subseteq ms
    BY <1>1, <1>3 DEF Armed
  <2>2. s = "FetchToolCredentials" => t # "SetToolCredentials"
    BY <1>3, Places
  <2> QED BY <2>1, <2>2 DEF Gives
<1>4. CASE Place[t] = Place[s]
  BY <1>4, AtSteps
<1> QED BY <1>1, <1>2, <1>3, <1>4

(* clearenv comes before the credentials.                                     *)
LEMMA ArmedEnvironment ==
  ASSUME NEW ms, NEW c, Armed(At("ApplyEnvironment"), ms, c)
  PROVE  Armed(At("SetToolCredentials"), (ms \ {"credenv"}) \cup {"env"}, c)
<1>1. At("ApplyEnvironment") = 37 /\ At("SetToolCredentials") = 38
  BY Numbers
<1> SUFFICES ASSUME NEW t \in StepNames, Place[t] < 38
             PROVE  Gives(t, c, (ms \ {"credenv"}) \cup {"env"})
                      \subseteq (ms \ {"credenv"}) \cup {"env"}
  BY <1>1 DEF Armed
<1>2. Place[t] \in 1..44 /\ t # "SetToolCredentials"
  BY OnwardPlace, Places
<1>3. CASE Place[t] < 37
  <2>1. Gives(t, c, ms) \subseteq ms
    BY <1>1, <1>3 DEF Armed
  <2>2. \A m \in Due(t, c) : m # "credenv"
    BY DEF Due
  <2> QED BY <1>2, <2>1, <2>2 DEF Gives
<1>4. CASE Place[t] = 37
  <2>1. t = "ApplyEnvironment"
    BY <1>4, StepsAtPlaces
  <2> QED BY <2>1 DEF Gives, Due
<1> QED BY <1>2, <1>3, <1>4

(* Past the fork: a command line without a gate is not watched.               *)
LEMMA ArmedPast ==
  ASSUME NEW s \in StepNames, NEW t \in StepNames, NEW ms, NEW c, Armed(At(s), ms, c),
         s \in {"ForkAfterUnshare", "ChildAfterFork"},
         t \in {"ChildAfterFork", "WaitForStartGate", "MountProcFs"},
         t = "MountProcFs" => c.type # "shell"
  PROVE  Armed(At(t), ms, c)
<1>1. At(s) \in {25, 26} /\ At(t) \in {26, 27, 28} /\ (t # "MountProcFs" => At(t) \in {26, 27})
  BY Numbers
<1> SUFFICES ASSUME NEW r \in StepNames, Place[r] < At(t)
             PROVE  Gives(r, c, ms) \subseteq ms
  BY DEF Armed
<1>2. Place[r] \in 1..44
  BY OnwardPlace
<1>3. CASE Place[r] < At(s)
  BY <1>3 DEF Armed
<1>4. CASE Place[r] >= At(s)
  <2>1. Place[r] \in {25, 26, 27} /\ (Place[r] = 27 => t = "MountProcFs")
    BY <1>1, <1>2, <1>4
  <2>2. r \in {"ForkAfterUnshare", "ChildAfterFork", "WaitForStartGate"}
        /\ (r = "WaitForStartGate" => t = "MountProcFs")
    BY <2>1, StepsAtPlaces
  <2> QED BY <2>2 DEF Gives, Due
<1> QED BY <1>1, <1>2, <1>3, <1>4

(* The last step gives nothing.                                               *)
LEMMA ArmedCommand ==
  ASSUME NEW ms, NEW c, Armed(At("ExecuteCommand"), ms, c)
  PROVE  Armed(At("running"), ms, c)
<1>1. At("ExecuteCommand") = 44 /\ At("running") = 45
  BY Numbers
<1> SUFFICES ASSUME NEW r \in StepNames
             PROVE  Gives(r, c, ms) \subseteq ms
  BY DEF Armed
<1>2. Place[r] \in 1..44
  BY OnwardPlace
<1>3. CASE Place[r] < 44
  BY <1>1, <1>3 DEF Armed
<1>4. CASE Place[r] = 44
  <2>1. r = "ExecuteCommand"
    BY <1>4, StepsAtPlaces
  <2> QED BY <2>1 DEF Gives, Due
<1> QED BY <1>2, <1>3, <1>4

(* A measure lost or won elsewhere.                                           *)
LEMMA ArmedElsewhere ==
  ASSUME NEW i, NEW ms, NEW ms2, NEW c, Armed(i, ms, c), ms \ {"bound"} \subseteq ms2,
         "creds" \in ms2 => "creds" \in ms
  PROVE  Armed(i, ms2, c)
BY DEF Armed, Gives

(* Steps that mount nothing.                                                  *)
LEMMA MountedOnward ==
  ASSUME NEW i \in Nat, NEW j \in Nat, NEW mt, NEW rest, NEW c, Mounted(i, mt, rest, c), i < j,
         i > 16 \/ j <= 16, i > 18 \/ j <= 18, i > 28 \/ j <= 28 \/ ~c.pidns,
         i > 20 \/ j < 20 \/ (i = 20 /\ rest = << >>) \/ (j = 20 /\ i < 20)
  PROVE  Mounted(j, mt, rest, c)
BY DEF Mounted

(* The policy mounts of a configuration are a sequence of them.               *)
LEMMA MountsTyped ==
  ASSUME NEW c \in Configurations
  PROVE  c.mounts \in Seq(PolicyMounts) /\ c.pidns \in BOOLEAN
BY DEF Configurations

(* What lies within a conditional rule is apart from the template's mounts.   *)
LEMMA TemplateApart ==
  ASSUME NEW a \in Template, NEW u \in Targets, NEW r \in DOMAIN Conditional,
         <<u, r>> \in Within
  PROVE  a # u /\ <<a, u>> \notin Within /\ <<u, a>> \notin Within
<1>1. a \in Targets /\ r \in Targets /\ a # r
  BY LaunchAssumption
<1>2. <<a, r>> \notin Within /\ <<r, a>> \notin Within
  BY <1>1, LaunchAssumption
<1>3. <<a, u>> \notin Within
  BY <1>1, <1>2, PathAssumption
<1>4. <<u, a>> \notin Within
  BY <1>1, <1>2, PathAssumption
<1>5. <<u, u>> \in Within
  BY PathAssumption
<1> QED BY <1>3, <1>4, <1>5

(* A mount of the template is within no other one.                            *)
LEMMA TemplateFlat ==
  ASSUME NEW a \in Template, NEW u \in Template, a # u
  PROVE  <<a, u>> \notin Within
BY LaunchAssumption

(* What is mounted read-only and not hidden is read-only.                     *)
LEMMA ReadOnlyThere ==
  ASSUME NEW mt, NEW t \in Targets, mt[t] = "ro"
  PROVE  ReadOnlyAt(mt, t)
<1>1. <<t, t>> \in Within
  BY PathAssumption
<1> QED BY <1>1 DEF ReadOnlyAt

(* A remount that is no escalation keeps read-only places.                    *)
Remounted(mt, mt2, p, new) ==
  /\ p \in Targets /\ mt[p] \in {"rw", "ro", "own"} /\ (mt[p] = "ro" => new = "ro")
  /\ \A t \in Targets : mt2[t] = IF t = p THEN new ELSE mt[t]

LEMMA RemountKeeps ==
  ASSUME NEW mt, NEW p, NEW new, NEW mt2, Remounted(mt, mt2, p, new),
         NEW s \in Targets, ReadOnlyAt(mt, s)
  PROVE  ReadOnlyAt(mt2, s)
<1>1. PICK u \in Targets :
        /\ mt[u] = "ro" /\ <<s, u>> \in Within
        /\ \A w \in Targets :
             mt[w] \in {"rw", "ro", "own"} /\ <<s, w>> \in Within => <<u, w>> \in Within
  BY DEF ReadOnlyAt
<1>2. mt2[u] = "ro"
  BY <1>1 DEF Remounted
<1>3. ASSUME NEW w \in Targets, mt2[w] \in {"rw", "ro", "own"}
      PROVE  mt[w] \in {"rw", "ro", "own"}
  BY <1>3 DEF Remounted
<1> QED BY <1>1, <1>2, <1>3 DEF ReadOnlyAt

(* A bind elsewhere, or of a read-only directory, keeps read-only places.     *)
LEMMA BindKeeps ==
  ASSUME NEW mt, NEW v \in Targets, NEW new, NEW mt2,
         \A t \in Targets : mt2[t] =
           IF t = v THEN new
           ELSE IF mt[t] # "none" /\ <<t, v>> \in Within THEN "covered" ELSE mt[t],
         NEW s \in Targets, ReadOnlyAt(mt, s), new = "ro" \/ <<s, v>> \notin Within
  PROVE  ReadOnlyAt(mt2, s)
<1>1. CASE <<s, v>> \notin Within
  <2>1. PICK u \in Targets :
          /\ mt[u] = "ro" /\ <<s, u>> \in Within
          /\ \A w \in Targets :
               mt[w] \in {"rw", "ro", "own"} /\ <<s, w>> \in Within => <<u, w>> \in Within
    BY DEF ReadOnlyAt
  <2>2. ASSUME NEW w \in Targets, <<s, w>> \in Within
        PROVE  mt2[w] = mt[w]
    <3>1. <<w, v>> \notin Within /\ w # v
      BY <1>1, <2>2, PathAssumption
    <3> QED BY <3>1
  <2>3. mt2[u] = "ro"
    BY <2>1, <2>2
  <2>4. ASSUME NEW w \in Targets, mt2[w] \in {"rw", "ro", "own"}, <<s, w>> \in Within
        PROVE  <<u, w>> \in Within
    BY <2>1, <2>2, <2>4
  <2> QED BY <2>1, <2>3, <2>4 DEF ReadOnlyAt
<1>2. CASE <<s, v>> \in Within /\ new = "ro"
  <2>1. mt2[v] = "ro"
    BY <1>2
  <2>2. ASSUME NEW w \in Targets, mt2[w] \in {"rw", "ro", "own"}, <<s, w>> \in Within
        PROVE  <<v, w>> \in Within
    <3>1. CASE w = v
      BY <3>1, PathAssumption
    <3>2. CASE w # v /\ <<w, v>> \in Within
      <4>1. mt2[w] = IF mt[w] # "none" THEN "covered" ELSE "none"
        BY <3>2
      <4> QED BY <2>2, <4>1
    <3>3. CASE <<w, v>> \notin Within
      BY <1>2, <2>2, <3>3, PathAssumption
    <3> QED BY <3>1, <3>2, <3>3
  <2> QED BY <1>2, <2>1, <2>2 DEF ReadOnlyAt
<1> QED BY <1>1, <1>2

(* The template's mounts come before every policy mount.                      *)
LEMMA MountedAll ==
  ASSUME NEW i \in {16, 18}, NEW mt \in [Targets -> {"none", "rw", "ro", "own", "covered"}], NEW rest,
         NEW c \in Configurations, Mounted(i, mt, rest, c), NEW b, NEW mt2,
         mt2 = [t \in Targets |-> IF t \in DOMAIN b THEN b[t] ELSE mt[t]],
         i = 16 => /\ DOMAIN b = SystemMounts \cup (IF c.pidns THEN {} ELSE {"proc"})
                   /\ \A t \in DOMAIN b : b[t] = "rw",
         i = 18 => b = AppMounts
  PROVE  Mounted(i + 1, mt2, rest, c)
<1>1. rest = c.mounts /\ c.mounts \in Seq(PolicyMounts) /\ c.pidns \in BOOLEAN
  BY MountsTyped DEF Mounted
<1>2. /\ "proc" \in Targets /\ "proc" \notin SystemMounts /\ "proc" \notin DOMAIN AppMounts
      /\ DOMAIN AppMounts \subseteq Targets
  BY LaunchAssumption DEF Template
<1>3. Applied(mt2, rest, c.mounts)
  <2>1. Len(c.mounts) \in Nat
    BY <1>1
  <2>2. Carried(mt2, c.mounts, 0)
    BY DEF Carried
  <2>3. Len(rest) = Len(c.mounts) /\ Len(c.mounts) - Len(rest) = 0
    BY <1>1, <2>1
  <2> QED BY <1>1, <2>1, <2>2, <2>3 DEF Applied
<1>4. Rooted(mt2)
  <2>1. DOMAIN b \subseteq Template
    BY DEF Template
  <2>2. ASSUME NEW t \in Targets, mt2[t] # "none", t \notin DOMAIN b
        PROVE  mt[t] # "none"
    BY <2>2
  <2>3. Rooted(mt)
    BY DEF Mounted
  <2>4. \A t \in Template : Location[t] = t
    BY PathAssumption
  <2> QED BY <2>1, <2>2, <2>3, <2>4 DEF Rooted
<1>5. CASE i = 16
  BY <1>1, <1>2, <1>3, <1>4, <1>5 DEF Mounted
<1>6. CASE i = 18
  BY <1>1, <1>2, <1>3, <1>4, <1>6 DEF Mounted
<1> QED BY <1>5, <1>6

(* A policy mount that is carried out is at a mount it may change, or at a    *)
(* place within a conditional rule.                                           *)
LEMMA PermittedPlace ==
  ASSUME TypeOK, NEW l \in Launches, NEW p \in PolicyMounts, Permitted(l, p), Rooted(mnts[l])
  PROVE  /\ mnts[l][p.target] # "none" =>
              /\ mnts[l][p.target] # "covered" /\ Location[p.target] = p.target
              /\ mnts[l][p.target] = "ro" => Mode(p) = "ro"
         /\ mnts[l][p.target] = "none" =>
              \E r \in DOMAIN Conditional :
                <<p.target, r>> \in Within /\ <<Location[p.target], r>> \in Within
<1>1. p.target \in Targets /\ p.ro \in BOOLEAN
  BY DEF PolicyMounts
<1>2. CASE mnts[l][p.target] # "none"
  <2>1. mnts[l][p.target] # "covered" /\ ~(~p.ro /\ mnts[l][p.target] = "ro")
    BY <1>2 DEF Permitted, IsExactMountPoint, IsPolicyWriteEscalation
  <2>2. Location[p.target] = p.target
    BY <1>1, <1>2 DEF Rooted
  <2> QED BY <1>1, <1>2, <2>1, <2>2 DEF Mode
<1>3. CASE mnts[l][p.target] = "none"
  <2>1. MatchConditionalSource(l, p.target)
    BY <1>3 DEF Permitted, IsExactMountPoint
  <2>2. PICK r \in DOMAIN Conditional : <<p.target, r>> \in Within
    BY <2>1 DEF MatchConditionalSource
  <2>3. r \in Targets /\ Location[r] = r
    BY LaunchAssumption, PathAssumption
  <2>4. <<Location[p.target], r>> \in Within
    BY <1>1, <2>2, <2>3, PathAssumption
  <2> QED BY <1>3, <2>2, <2>4
<1> QED BY <1>2, <1>3

(* The next policy mount that is carried out undoes no read-only one but by   *)
(* a fresh bind.                                                              *)
LEMMA CarriedOn ==
  ASSUME NEW mt \in [Targets -> {"none", "rw", "ro", "own", "covered"}], Rooted(mt),
         NEW all \in Seq(PolicyMounts), NEW k \in Nat, k < Len(all), Carried(mt, all, k),
         NEW p \in PolicyMounts, p = all[k + 1],
         mt[p.target] # "none" =>
           /\ mt[p.target] # "covered" /\ Location[p.target] = p.target
           /\ mt[p.target] = "ro" => Mode(p) = "ro",
         mt[p.target] = "none" =>
           \E r \in DOMAIN Conditional :
             <<p.target, r>> \in Within /\ <<Location[p.target], r>> \in Within
  PROVE  Carried(MountedOver(mt, p), all, k + 1)
<1> DEFINE v == Location[p.target]
           mt2 == MountedOver(mt, p)
           Spot(j) == Location[all[j].target]
<1>1. /\ p.target \in Targets /\ v \in Targets /\ p.ro \in BOOLEAN
      /\ mt[p.target] # "none" =>
              \A t \in Targets : mt2[t] = IF t = p.target THEN Mode(p) ELSE mt[t]
      /\ mt[p.target] = "none" =>
              \A t \in Targets : mt2[t] =
                IF t = v THEN Mode(p)
                ELSE IF mt[t] # "none" /\ <<t, v>> \in Within THEN "covered" ELSE mt[t]
  BY MountedPoints
<1>2. Mode(p) \in {"rw", "ro"} /\ (p.ro => Mode(p) = "ro") /\ (~p.ro => Mode(p) = "rw")
  BY DEF Mode
<1>3. \A j \in 1..(k + 1) : all[j] \in PolicyMounts /\ Spot(j) \in Targets
  <2>1. \A j \in 1..(k + 1) : j \in 1..Len(all)
    OBVIOUS
  <2>2. \A j \in 1..(k + 1) : all[j] \in PolicyMounts
    BY <2>1
  <2> QED BY <2>2, PathAssumption DEF PolicyMounts
<1> HIDE DEF mt2
<1>4. mt2[v] = Mode(p)
  BY <1>1
<1>5. \A t \in Targets : mt[t] # "none" => mt2[t] # "none"
  BY <1>1, <1>2
<1>6. ASSUME NEW j \in 1..k, all[j].ro
      PROVE  Sealed(mt2, all, j, k + 1)
  <2>1. Sealed(mt, all, j, k)
    BY <1>6 DEF Carried
  <2>2. CASE \E i \in (j + 1)..k : Reopens(all, i, Spot(j))
    <3>1. PICK i \in (j + 1)..k : Reopens(all, i, Spot(j))
      BY <2>2
    <3>2. i \in (j + 1)..(k + 1)
      OBVIOUS
    <3> QED BY <3>1, <3>2 DEF Sealed
  <2>3. CASE ReadOnlyAt(mt, Spot(j)) /\ mt[p.target] # "none"
    <3>1. /\ mt[p.target] \in {"rw", "ro", "own"}
          /\ mt[p.target] = "ro" => Mode(p) = "ro"
          /\ p.target \in Targets /\ Spot(j) \in Targets
          /\ \A t \in Targets : mt2[t] = IF t = p.target THEN Mode(p) ELSE mt[t]
      BY <1>1, <1>3, <2>3
    <3>2. Remounted(mt, mt2, p.target, Mode(p))
      BY <3>1 DEF Remounted
    <3> HIDE DEF Spot
    <3>3. ReadOnlyAt(mt2, Spot(j))
      BY <2>3, <3>1, <3>2, RemountKeeps
    <3> QED BY <3>3 DEF Sealed, Spot
  <2>4. CASE ReadOnlyAt(mt, Spot(j)) /\ mt[p.target] = "none"
    <3>1. CASE p.ro \/ <<Spot(j), v>> \notin Within
      <4>1. Spot(j) \in Targets
        BY <1>3
      <4>2. \A t \in Targets : mt2[t] =
              IF t = v THEN Mode(p)
              ELSE IF mt[t] # "none" /\ <<t, v>> \in Within THEN "covered" ELSE mt[t]
        BY <1>1, <2>4
      <4>3. Mode(p) = "ro" \/ <<Spot(j), v>> \notin Within
        BY <1>2, <3>1
      <4> HIDE DEF Spot, v
      <4>4. ReadOnlyAt(mt2, Spot(j))
        BY <1>1, <2>4, <4>1, <4>2, <4>3, BindKeeps, Zenon
      <4> QED BY <4>4 DEF Sealed, Spot
    <3>2. CASE ~p.ro /\ <<Spot(j), v>> \in Within
      <4>1. p.target \notin Template
        BY <1>1, <2>4, TemplateApart
      <4>2. ASSUME NEW h \in 1..k, v = p.target
            PROVE  Spot(h) # p.target
        BY <2>4 DEF Carried
      <4>3. (k + 1) - 1 = k /\ k + 1 \in (j + 1)..(k + 1)
        OBVIOUS
      <4>4. Binds(all, k + 1)
        BY <4>1, <4>2, <4>3 DEF Binds
      <4>5. Reopens(all, k + 1, Spot(j))
        BY <3>2, <4>4 DEF Reopens
      <4> QED BY <4>3, <4>5 DEF Sealed
    <3> QED BY <3>1, <3>2
  <2> QED BY <2>1, <2>2, <2>3, <2>4 DEF Sealed
<1>7. ASSUME all[k + 1].ro
      PROVE  Sealed(mt2, all, k + 1, k + 1)
  <2>1. mt2[Spot(k + 1)] = "ro"
    BY <1>2, <1>4, <1>7
  <2> QED BY <1>1, <2>1, ReadOnlyThere DEF Sealed
<1>8. ASSUME NEW j \in 1..(k + 1)
      PROVE  mt2[Spot(j)] # "none" /\ (all[j].ro => Sealed(mt2, all, j, k + 1))
  <2>1. CASE j \in 1..k
    BY <1>3, <1>5, <1>6, <2>1 DEF Carried
  <2>2. CASE j = k + 1
    BY <1>2, <1>4, <1>7, <2>2
  <2> QED BY <2>1, <2>2
<1>9. Carried(mt2, all, k + 1)
  BY <1>8 DEF Carried
<1> QED BY <1>9 DEF mt2

(* A policy mount that is permitted undoes no read-only mount.                *)
LEMMA MountedPolicy ==
  ASSUME TypeOK, NEW l \in Launches, left[l] # << >>, Permitted(l, Head(left[l])),
         Mounted(20, mnts[l], left[l], conf[l])
  PROVE  Mounted(20, MountedOver(mnts[l], Head(left[l])), Tail(left[l]), conf[l])
<1>1. /\ conf[l] \in Configurations /\ left[l] \in Seq(PolicyMounts)
      /\ mnts[l] \in [Targets -> {"none", "rw", "ro", "own", "covered"}]
  BY ConfTyped DEF TypeOK
<1>2. PICK p, rest, all, mt :
        p = Head(left[l]) /\ rest = left[l] /\ all = conf[l].mounts /\ mt = mnts[l]
  OBVIOUS
<1> DEFINE mt2 == MountedOver(mt, p)
           v == Location[p.target]
<1>3. /\ all \in Seq(PolicyMounts) /\ rest \in Seq(PolicyMounts) /\ rest # << >>
      /\ p = rest[1] /\ mt \in [Targets -> {"none", "rw", "ro", "own", "covered"}]
      /\ Applied(mt, rest, all) /\ Rooted(mt)
  <2>1. all \in Seq(PolicyMounts) /\ rest \in Seq(PolicyMounts) /\ rest # << >>
    BY <1>1, <1>2, MountsTyped
  <2>2. p = Head(rest)
    BY <1>2
  <2>3. p = rest[1]
    BY <2>1, <2>2
  <2>4. mt \in [Targets -> {"none", "rw", "ro", "own", "covered"}]
    BY <1>1, <1>2
  <2>5. Applied(mt, rest, all) /\ Rooted(mt)
    BY <1>2 DEF Mounted
  <2> QED BY <2>1, <2>3, <2>4, <2>5
<1>4. PICK n \in Nat, m \in Nat : n = Len(all) /\ m = Len(rest)
  BY <1>3
<1>5. /\ m >= 1 /\ m <= n /\ p = all[(n - m) + 1] /\ p \in PolicyMounts
  BY <1>3, <1>4 DEF Applied
<1>6. /\ mt[p.target] # "none" =>
           /\ mt[p.target] # "covered" /\ Location[p.target] = p.target
           /\ mt[p.target] = "ro" => Mode(p) = "ro"
      /\ mt[p.target] = "none" =>
           \E r \in DOMAIN Conditional :
             <<p.target, r>> \in Within /\ <<Location[p.target], r>> \in Within
  BY <1>2, <1>3, <1>5, PermittedPlace, Zenon
<1>7. /\ p.target \in Targets /\ v \in Targets /\ p.ro \in BOOLEAN
      /\ mt[p.target] # "none" =>
              \A t \in Targets : mt2[t] = IF t = p.target THEN Mode(p) ELSE mt[t]
      /\ mt[p.target] = "none" =>
              \A t \in Targets : mt2[t] =
                IF t = v THEN Mode(p)
                ELSE IF mt[t] # "none" /\ <<t, v>> \in Within THEN "covered" ELSE mt[t]
  BY <1>3, <1>5, MountedPoints
<1>8. Mode(p) \in {"rw", "ro"}
  BY DEF Mode
<1> HIDE DEF mt2
<1>9. Rooted(mt2)
  <2>1. Location[v] = v
    BY <1>7, PathAssumption
  <2>2. CASE mt[p.target] # "none"
    BY <1>3, <1>7, <2>2 DEF Rooted
  <2>3. CASE mt[p.target] = "none"
    <3>1. ASSUME NEW t \in Targets, mt2[t] # "none", t # v
          PROVE  mt[t] # "none"
      BY <1>7, <2>3, <3>1
    <3> QED BY <1>3, <1>6, <2>1, <2>3, <3>1 DEF Rooted
  <2> QED BY <2>2, <2>3
<1>10. Applied(mt2, Tail(rest), all)
  <2>1. /\ Tail(rest) \in Seq(PolicyMounts) /\ Len(Tail(rest)) = m - 1
        /\ \A j \in 1..(m - 1) : Tail(rest)[j] = rest[j + 1]
    BY <1>3, <1>4, <1>5
  <2>2. PICK tl : tl = Tail(rest)
    OBVIOUS
  <2>3. \A j \in 1..m : rest[j] = all[(n - m) + j]
    BY <1>3, <1>4 DEF Applied
  <2>4. PICK k \in Nat : k = n - m
    BY <1>4, <1>5
  <2>5. /\ k < Len(all) /\ Carried(mt, all, k) /\ p = all[k + 1]
        /\ k + 1 = n - (m - 1)
    BY <1>3, <1>4, <1>5, <2>4 DEF Applied
  <2>6. Carried(mt2, all, k + 1)
    BY <1>3, <1>5, <1>6, <2>5, CarriedOn DEF mt2
  <2>7. ASSUME NEW j \in 1..(m - 1)
        PROVE  tl[j] = all[(n - (m - 1)) + j]
    <3>1. j + 1 \in 1..m /\ (n - m) + (j + 1) = (n - (m - 1)) + j
      BY <1>4
    <3>2. tl[j] = rest[j + 1]
      BY <2>1, <2>2
    <3> QED BY <2>3, <3>1, <3>2
  <2>8. Len(tl) = m - 1 /\ Len(all) = n /\ m - 1 <= n
    BY <1>4, <1>5, <2>1, <2>2
  <2> QED BY <2>2, <2>5, <2>6, <2>7, <2>8 DEF Applied
<1>11. /\ "proc" \in Template /\ "proc" \in Targets
       /\ DOMAIN AppMounts \subseteq Targets /\ DOMAIN AppMounts \subseteq Template
  BY LaunchAssumption DEF Template
<1>12. ASSUME NEW t \in Template, t \in Targets
       PROVE  /\ mt[t] = "none" => mt2[t] = "none"
              /\ mt[t] = "ro" => mt2[t] = "ro"
              /\ mt[t] \in {"rw", "ro"} => mt2[t] \in {"rw", "ro"}
  <2>1. CASE mt[p.target] # "none"
    BY <1>6, <1>7, <1>8, <1>12, <2>1
  <2>2. CASE mt[p.target] = "none"
    <3>1. t # v /\ <<t, v>> \notin Within
      BY <1>6, <1>7, <1>12, <2>2, TemplateApart
    <3> QED BY <1>7, <1>12, <2>2, <3>1
  <2> QED BY <2>1, <2>2
<1>13. /\ ~conf[l].pidns => mt2["proc"] \in {"rw", "ro"}
       /\ conf[l].pidns => mt2["proc"] = "none"
  BY <1>2, <1>11, <1>12 DEF Mounted
<1>14. \A t \in DOMAIN AppMounts : AppMounts[t] = "ro" => mt2[t] = "ro"
  BY <1>2, <1>11, <1>12 DEF Mounted
<1>15. Mounted(20, mt2, Tail(rest), conf[l])
  BY <1>2, <1>9, <1>10, <1>13, <1>14 DEF Mounted
<1> QED BY <1>2, <1>15 DEF mt2

(* The proc file system of the pid namespace covers nothing else.             *)
LEMMA MountedProc ==
  ASSUME NEW mt \in [Targets -> {"none", "rw", "ro", "own", "covered"}], NEW rest,
         NEW c \in Configurations, c.pidns, Mounted(28, mt, rest, c), NEW mt2,
         mt2 = [mt EXCEPT !["proc"] = "own"]
  PROVE  Mounted(29, mt2, rest, c)
<1>1. mt["proc"] = "none" /\ rest = << >> /\ Rooted(mt)
  BY DEF Mounted
<1>2. "proc" \in Template /\ "proc" \in Targets
  BY LaunchAssumption DEF Template
<1>3. mt2["proc"] = "own" /\ \A t \in Targets \ {"proc"} : mt2[t] = mt[t]
  BY <1>2
<1>4. PICK all : all = c.mounts
  OBVIOUS
<1>5. all \in Seq(PolicyMounts) /\ Applied(mt, << >>, all)
  BY <1>1, <1>4, MountsTyped DEF Mounted
<1>6. PICK n \in Nat : n = Len(all)
  BY <1>5
<1>7. Len(<< >>) = 0 /\ n - 0 = n
  BY <1>6
<1>8. Carried(mt, all, n)
  BY <1>5, <1>6, <1>7 DEF Applied
<1>9. ASSUME NEW s \in Targets, mt[s] # "none"
      PROVE  mt2[s] # "none" /\ (ReadOnlyAt(mt, s) => ReadOnlyAt(mt2, s))
  <2>1. s # "proc"
    BY <1>1, <1>9
  <2>2. <<s, "proc">> \notin Within
    <3>1. CASE s \in Template
      BY <1>2, <2>1, <3>1, TemplateFlat
    <3>2. CASE \E r \in DOMAIN Conditional : <<s, r>> \in Within
      BY <1>2, <3>2, TemplateApart
    <3> QED BY <1>1, <1>9, <3>1, <3>2 DEF Rooted
  <2>3. ASSUME ReadOnlyAt(mt, s)
        PROVE  ReadOnlyAt(mt2, s)
    <3>1. PICK u \in Targets :
            /\ mt[u] = "ro" /\ <<s, u>> \in Within
            /\ \A w \in Targets :
                 mt[w] \in {"rw", "ro", "own"} /\ <<s, w>> \in Within => <<u, w>> \in Within
      BY <2>3 DEF ReadOnlyAt
    <3>2. mt2[u] = "ro"
      BY <1>1, <1>3, <3>1
    <3>3. \A w \in Targets : <<s, w>> \in Within => mt2[w] = mt[w]
      BY <1>3, <2>2
    <3> QED BY <3>1, <3>2, <3>3 DEF ReadOnlyAt
  <2> QED BY <1>3, <1>9, <2>1, <2>3
<1>10. \A j \in 1..n : Location[all[j].target] \in Targets
  <2>1. \A j \in 1..n : all[j] \in PolicyMounts
    BY <1>5, <1>6
  <2> QED BY <2>1, PathAssumption DEF PolicyMounts
<1>11. Carried(mt2, all, n)
  <2> SUFFICES ASSUME NEW j \in 1..n
               PROVE  /\ mt2[Location[all[j].target]] # "none"
                      /\ all[j].ro => Sealed(mt2, all, j, n)
    BY DEF Carried
  <2>1. mt[Location[all[j].target]] # "none" /\ (all[j].ro => Sealed(mt, all, j, n))
    BY <1>8 DEF Carried
  <2>2. PICK s \in Targets : s = Location[all[j].target]
    BY <1>10
  <2> QED BY <1>9, <2>1, <2>2 DEF Sealed
<1>12. Applied(mt2, << >>, all)
  BY <1>5, <1>6, <1>7, <1>11 DEF Applied
<1>13. Rooted(mt2)
  BY <1>1, <1>2, <1>3, PathAssumption DEF Rooted
<1>14. \A t \in DOMAIN AppMounts : t \in Targets
  BY LaunchAssumption, Zenon DEF Template
<1>15. \A t \in DOMAIN AppMounts : AppMounts[t] = "ro" => mt2[t] = "ro"
  <2>1. \A t \in DOMAIN AppMounts : AppMounts[t] = "ro" => mt[t] = "ro"
    BY DEF Mounted
  <2> QED BY <1>1, <1>3, <1>14, <2>1
<1> QED BY <1>1, <1>3, <1>4, <1>12, <1>13, <1>15 DEF Mounted

(* What happens to one launch leaves the others as they were: at most they    *)
(* lose the bind mount of a root that was removed.                            *)
LEMMA GuardFrame ==
  ASSUME TypeOK, GuardInv, NEW l \in Launches, UNCHANGED conf,
         \A k \in Launches \ {l} :
           /\ pc'[k] = pc[k] /\ par'[k] = par[k] /\ mnts'[k] = mnts[k] /\ left'[k] = left[k]
           /\ fds'[k] = fds[k] /\ byte'[k] = byte[k] /\ seen'[k] = seen[k]
           /\ marks'[k] = marks[k] \/ marks'[k] = marks[k] \ {"bound"},
         pc'[l] # "over" =>
           Behind(pc'[l], par'[l], marks'[l], mnts'[l], left'[l], fds'[l], byte'[l], conf[l]),
         seen'[l].proc \in Same, seen'[l].ns \in Same
  PROVE  GuardInv'
<1>1. ASSUME NEW k \in Launches
      PROVE  /\ pc'[k] # "over" =>
                  Behind(pc'[k], par'[k], marks'[k], mnts'[k], left'[k], fds'[k], byte'[k], conf[k])
             /\ seen'[k].proc \in Same /\ seen'[k].ns \in Same
  <2>1. CASE k # l
    <3>1. /\ pc'[k] = pc[k] /\ par'[k] = par[k] /\ mnts'[k] = mnts[k] /\ left'[k] = left[k]
          /\ fds'[k] = fds[k] /\ byte'[k] = byte[k] /\ seen'[k] = seen[k]
          /\ marks[k] \ {"bound"} \subseteq marks'[k] /\ ("creds" \in marks'[k] => "creds" \in marks[k])
      BY <2>1
    <3>2. /\ pc[k] # "over" =>
               Behind(pc[k], par[k], marks[k], mnts[k], left[k], fds[k], byte[k], conf[k])
          /\ seen[k].proc \in Same /\ seen[k].ns \in Same
      BY DEF GuardInv
    <3>3. pc[k] # "over" => Armed(At(pc[k]), marks'[k], conf[k]) /\ Gated(byte[k], par[k], marks'[k])
      BY <3>1, <3>2, ArmedElsewhere DEF Behind, Gated
    <3> QED BY <3>1, <3>2, <3>3 DEF Behind
  <2>2. CASE k = l
    BY <2>2
  <2> QED BY <2>1, <2>2
<1> QED BY <1>1 DEF GuardInv

(* A launch goes on behind its measures if it got those of the step.          *)
LEMMA ProceedGuarded ==
  ASSUME TypeOK, GuardInv, NEW l \in Launches,
         pc[l] \in StepNames \ {"ExecuteCommand", "ApplyEnvironment"},
         NEW new, Proceed(l, new), UNCHANGED conf,
         "creds" \in new => pc[l] = "FetchToolCredentials",
         Gives(pc[l], conf[l], marks[l] \cup new) \subseteq marks[l] \cup new,
         \A k \in Launches \ {l} :
           /\ mnts'[k] = mnts[k] /\ left'[k] = left[k] /\ fds'[k] = fds[k]
           /\ byte'[k] = byte[k] /\ seen'[k] = seen[k],
         Mounted(At(Onward[pc[l]]), mnts'[l], left'[l], conf[l]),
         byte'[l] => byte[l], seen'[l].proc \in Same, seen'[l].ns \in Same
  PROVE  GuardInv'
<1>1. /\ pc' = [pc EXCEPT ![l] = Onward[pc[l]]] /\ marks' = [marks EXCEPT ![l] = @ \cup new]
      /\ UNCHANGED par
  BY DEF Proceed
<1>2. DOMAIN pc = Launches /\ DOMAIN marks = Launches
  BY DEF TypeOK
<1>3. pc'[l] = Onward[pc[l]] /\ marks'[l] = marks[l] \cup new /\ par'[l] = par[l]
  BY <1>1, <1>2
<1>4. pc[l] # "over" /\ pc'[l] # "running"
  BY <1>3, OnwardTyped, StepNamesProper
<1>5. Behind(pc[l], par[l], marks[l], mnts[l], left[l], fds[l], byte[l], conf[l])
  BY <1>4 DEF GuardInv
<1>6. Armed(At(pc'[l]), marks'[l], conf[l])
  <2>1. Armed(At(pc[l]), marks[l], conf[l])
    BY <1>5 DEF Behind
  <2>2. marks[l] \ {"bound"} \subseteq marks[l] \cup new
    OBVIOUS
  <2> QED BY <1>3, <2>1, <2>2, ArmedOnward
<1>7. Gated(byte'[l], par'[l], marks'[l]) /\ Shut(pc'[l], par'[l], fds'[l])
  BY <1>3, <1>4, <1>5 DEF Behind, Gated, Shut
<1>8. Behind(pc'[l], par'[l], marks'[l], mnts'[l], left'[l], fds'[l], byte'[l], conf[l])
  BY <1>3, <1>6, <1>7 DEF Behind
<1>9. \A k \in Launches \ {l} : pc'[k] = pc[k] /\ par'[k] = par[k] /\ marks'[k] = marks[k]
  BY <1>1, <1>2
<1> QED BY <1>8, <1>9, GuardFrame

(* An end of a launch, with or without what Cleanup does to the others.       *)
LEMMA OverGuarded ==
  ASSUME TypeOK, GuardInv, NEW l \in Launches, NEW s, Over(l, s),
         \A k \in Launches \ {l} : marks'[k] = marks[k] \/ marks'[k] = marks[k] \ {"bound"}
  PROVE  GuardInv'
<1>1. /\ pc' = [pc EXCEPT ![l] = "over"] /\ fds' = [fds EXCEPT ![l] = Closed(l, Self(l))]
      /\ UNCHANGED <<conf, left, mnts, byte, seen, par>>
  BY DEF Over, own
<1>2. DOMAIN pc = Launches /\ DOMAIN fds = Launches
  BY DEF TypeOK
<1>3. pc'[l] = "over" /\ \A k \in Launches \ {l} : pc'[k] = pc[k] /\ fds'[k] = fds[k]
  BY <1>1, <1>2
<1>4. seen'[l].proc \in Same /\ seen'[l].ns \in Same
  BY <1>1 DEF GuardInv
<1> QED BY <1>1, <1>3, <1>4, GuardFrame

(* A passing step gives the measures due.                                     *)
LEMMA PassesGuarded ==
  ASSUME TypeOK, GuardInv, NEW l \in Launches, Passes(l)
  PROVE  GuardInv'
<1>1. PICK new \in SUBSET Measures :
        /\ Due(pc[l], conf[l]) \subseteq new
        /\ "creds" \in new => pc[l] = "FetchToolCredentials"
        /\ pc[l] = "SetToolCredentials" /\ "creds" \in marks[l] =>
             "credenv" \in new \/ "lostcred" \in new
        /\ Proceed(l, new) /\ UNCHANGED <<own, fds, disk>>
  BY DEF Passes
<1>2. /\ pc[l] \in StepNames \ {"ExecuteCommand", "ApplyEnvironment"}
      /\ pc[l] \notin {"SetSelinuxMCS", "SetNs", "PivotRoot", "WaitForStartGate",
                       "MountSystemDirs", "MountAppDirs"}
      /\ pc[l] = "DeliverDaemonSidePolicies" => conf[l].type # "shell"
      /\ pc[l] = "ApplyPolicyMounts" => left[l] = << >>
      /\ pc[l] = "MountProcFs" => ~conf[l].pidns
  <2>1. pc[l] \in Private(l)
    BY DEF Passes
  <2> QED BY <2>1, Places, ZenonT(60) DEF Private, IsShell
<1>3. Gives(pc[l], conf[l], marks[l] \cup new) \subseteq marks[l] \cup new
  BY <1>1, <1>2 DEF Gives
<1>4. Proceed(l, new) /\ UNCHANGED <<conf, left, mnts, byte, seen, fds>>
  BY <1>1 DEF own
<1>5. Mounted(At(Onward[pc[l]]), mnts[l], left[l], conf[l])
  <2>1. Mounted(At(pc[l]), mnts[l], left[l], conf[l])
    BY <1>2, StepNamesProper DEF GuardInv, Behind
  <2>2. PICK i \in 1..44 : i = Place[pc[l]]
    BY <1>2, OnwardPlace
  <2>3. At(pc[l]) = i /\ At(Onward[pc[l]]) = i + 1
    BY <1>2, <2>2, AtSteps, OnwardPlace, OnwardTyped
  <2>4. /\ i # 16 /\ i # 18 /\ (i = 20 => left[l] = << >>) /\ (i = 28 => ~conf[l].pidns)
    <3>1. /\ i = 16 => pc[l] = "MountSystemDirs"
          /\ i = 18 => pc[l] = "MountAppDirs"
          /\ i = 20 => pc[l] = "ApplyPolicyMounts"
          /\ i = 28 => pc[l] = "MountProcFs"
      <4>1. pc[l] = Steps[i]
        BY <1>2, <2>2, AtSteps
      <4> QED BY <4>1, StepLists
    <3> QED BY <1>2, <3>1
  <2>5. /\ i + 1 \in Nat /\ i \in Nat /\ i < i + 1
        /\ i > 16 \/ i + 1 <= 16
        /\ i > 18 \/ i + 1 <= 18
        /\ i > 28 \/ i + 1 <= 28 \/ ~conf[l].pidns
        /\ i > 20 \/ i + 1 < 20 \/ (i = 20 /\ left[l] = << >>) \/ (i + 1 = 20 /\ i < 20)
    <3>1. i \in Nat /\ i + 1 \in Nat /\ i < i + 1
      BY ONLY i \in 1..44
    <3>2. (i > 16 \/ i + 1 <= 16) /\ (i > 18 \/ i + 1 <= 18)
      BY ONLY <2>4, <3>1
    <3>3. i > 28 \/ i + 1 <= 28 \/ i = 28
      BY ONLY <3>1
    <3>4. i > 20 \/ i + 1 < 20 \/ i = 20 \/ (i + 1 = 20 /\ i < 20)
      BY ONLY <3>1
    <3> QED BY <2>4, <3>1, <3>2, <3>3, <3>4, Zenon
  <2> QED BY <2>1, <2>3, <2>5, MountedOnward
<1>6. seen[l].proc \in Same /\ seen[l].ns \in Same
  BY DEF GuardInv
<1> QED BY <1>1, <1>2, <1>3, <1>4, <1>5, <1>6, ProceedGuarded

(* So does every other step.                                                  *)
LEMMA SpecialGuarded ==
  ASSUME TypeOK, GuardInv, NEW l \in Launches, Special(l), ~Fails(l)
  PROVE  GuardInv'
<1>0. /\ DOMAIN pc = Launches /\ DOMAIN marks = Launches /\ DOMAIN mnts = Launches
      /\ DOMAIN left = Launches /\ DOMAIN fds = Launches /\ DOMAIN byte = Launches
      /\ DOMAIN seen = Launches /\ DOMAIN par = Launches
      /\ conf[l] \in Configurations /\ left[l] \in Seq(PolicyMounts)
      /\ mnts[l] \in [Targets -> {"none", "rw", "ro", "own", "covered"}]
      /\ seen[l] \in [label: Seen, proc: Seen, target: Seen, ns: Seen]
  BY ConfTyped DEF TypeOK
<1>1. pc[l] # "over" =>
        Behind(pc[l], par[l], marks[l], mnts[l], left[l], fds[l], byte[l], conf[l])
  BY DEF GuardInv
<1>2. seen[l].proc \in Same /\ seen[l].ns \in Same
  BY DEF GuardInv
\* A step that mounts nothing and looks at nobody.
<1>3. ASSUME NEW step \in StepNames \ {"ExecuteCommand", "ApplyEnvironment", "MountSystemDirs",
                                       "MountAppDirs", "ApplyPolicyMounts", "MountProcFs"},
             pc[l] = step
      PROVE  Mounted(At(Onward[pc[l]]), mnts[l], left[l], conf[l])
  <2>1. Mounted(At(step), mnts[l], left[l], conf[l])
    BY <1>1, <1>3, StepNamesProper DEF Behind
  <2>2. PICK i \in 1..44 : i = Place[step]
    BY OnwardPlace
  <2>3. At(step) = i /\ At(Onward[step]) = i + 1
    BY <2>2, AtSteps, OnwardPlace, OnwardTyped
  <2>4. i # 16 /\ i # 18 /\ i # 20 /\ i # 28
    BY <2>2, StepsAtPlaces
  <2>5. /\ i + 1 \in Nat /\ i \in Nat /\ i < i + 1
        /\ i > 16 \/ i + 1 <= 16
        /\ i > 18 \/ i + 1 <= 18
        /\ i > 28 \/ i + 1 <= 28
        /\ i > 20 \/ i + 1 < 20 \/ (i + 1 = 20 /\ i < 20)
    BY <2>4
  <2> QED BY <1>3, <2>1, <2>3, <2>5, MountedOnward
<1>4. ASSUME NEW step \in {"SetSelinuxMCS", "OpenCallerProcDir", "ReadNamespaceId", "SetNs"},
             NEW new \in SUBSET {"label", "ns"}, pc[l] = step, Proceed(l, new),
             step = "SetSelinuxMCS" => "label" \in new,
             step = "SetNs" => "ns" \in new,
             UNCHANGED <<conf, left, mnts, byte, fds>>,
             \A k \in Launches \ {l} : seen'[k] = seen[k],
             seen'[l].proc \in Same, seen'[l].ns \in Same
      PROVE  GuardInv'
  <2>1. pc[l] \in StepNames \ {"ExecuteCommand", "ApplyEnvironment"}
    BY <1>4, Places
  <2>2. Gives(pc[l], conf[l], marks[l] \cup new) \subseteq marks[l] \cup new
    BY <1>4 DEF Gives, Due
  <2>3. Mounted(At(Onward[pc[l]]), mnts[l], left[l], conf[l])
    BY <1>3, <1>4, Places
  <2> QED BY <1>4, <2>1, <2>2, <2>3, ProceedGuarded
<1>5. CASE SetSelinuxMCS(l)
  <2>1. /\ pc[l] = "SetSelinuxMCS" /\ Proceed(l, {"label"})
        /\ UNCHANGED <<conf, left, mnts, byte, fds>>
        /\ seen' = [seen EXCEPT ![l] = [@ EXCEPT !.label = pidOf[l]]]
    BY <1>5, Places DEF SetSelinuxMCS, Fails
  <2>2. seen'[l].proc = seen[l].proc /\ seen'[l].ns = seen[l].ns
    BY <1>0, <2>1
  <2> QED BY <1>0, <1>2, <1>4, <2>1, <2>2
<1>6. CASE OpenCallerProcDir(l)
  <2>1. /\ pc[l] = "OpenCallerProcDir" /\ Proceed(l, {}) /\ SameIds(l)
        /\ UNCHANGED <<conf, left, mnts, byte, fds>>
        /\ seen' = [seen EXCEPT ![l] = [@ EXCEPT !.proc = pidOf[l]]]
    BY <1>6, Places DEF OpenCallerProcDir, Fails, Refuse, Blocked
  <2>2. seen'[l].proc = pidOf[l] /\ seen'[l].ns = seen[l].ns
    BY <1>0, <2>1
  <2>3. pidOf[l] \in Same
    BY <2>1 DEF SameIds, Same
  <2> QED BY <1>0, <1>2, <1>4, <2>1, <2>2, <2>3
<1>7. CASE ReadNamespaceId(l)
  <2>1. /\ pc[l] = "ReadNamespaceId" /\ Proceed(l, {})
        /\ UNCHANGED <<conf, left, mnts, byte, fds>>
        /\ seen' = [seen EXCEPT ![l] = [@ EXCEPT !.target = pidOf[l]]]
    BY <1>7, Places DEF ReadNamespaceId, Fails
  <2>2. seen'[l].proc = seen[l].proc /\ seen'[l].ns = seen[l].ns
    BY <1>0, <2>1
  <2> QED BY <1>0, <1>2, <1>4, <2>1, <2>2
<1>8. CASE SetNs(l)
  <2>1. /\ pc[l] = "SetNs" /\ Proceed(l, {"ns"})
        /\ UNCHANGED <<conf, left, mnts, byte, fds>>
        /\ seen' = [seen EXCEPT ![l] = [@ EXCEPT !.ns = seen[l].proc]]
    BY <1>8, Places DEF SetNs, Fails, Refuse, Blocked
  <2>2. seen'[l].proc = seen[l].proc /\ seen'[l].ns = seen[l].proc
    BY <1>0, <2>1
  <2> QED BY <1>0, <1>2, <1>4, <2>1, <2>2
\* A step that works on the disk or opens a file.
<1>9. ASSUME NEW step \in {"CreateSandboxDir", "MkdirPutOld", "MountSymLinks", "PivotRoot",
                           "DeliverDaemonSidePolicies", "ConnectMonitorSocket", "WaitForStartGate"},
             NEW new \in SUBSET {"pivot", "leftold", "policy"}, pc[l] = step, Proceed(l, new),
             step = "PivotRoot" => "pivot" \in new,
             step = "DeliverDaemonSidePolicies" => "policy" \in new,
             step = "WaitForStartGate" => "watched" \in marks[l],
             UNCHANGED <<conf, left, mnts, seen>>, byte'[l] => byte[l],
             \A k \in Launches \ {l} : fds'[k] = fds[k] /\ byte'[k] = byte[k]
      PROVE  GuardInv'
  <2>1. pc[l] \in StepNames \ {"ExecuteCommand", "ApplyEnvironment"}
    BY <1>9, Places
  <2>2. Gives(pc[l], conf[l], marks[l] \cup new) \subseteq marks[l] \cup new
    BY <1>9 DEF Gives, Due
  <2>3. Mounted(At(Onward[pc[l]]), mnts[l], left[l], conf[l])
    BY <1>3, <1>9, Places
  <2> QED BY <1>2, <1>9, <2>1, <2>2, <2>3, ProceedGuarded
<1>10. CASE CreateSandboxDir(l) \/ MkdirPutOld(l) \/ MountSymLinks(l)
  <2>1. PICK step \in {"CreateSandboxDir", "MkdirPutOld", "MountSymLinks"} :
          pc[l] = step /\ Proceed(l, {}) /\ UNCHANGED <<conf, left, mnts, seen, byte, fds>>
    BY <1>10, Places
       DEF CreateSandboxDir, MkdirPutOld, MountSymLinks, Fails, Blocked, Refuse, own
  <2> QED BY <1>9, <2>1
<1>11. CASE \/ IsShell(l) /\ DeliverDaemonSidePolicies(l)
            \/ conf[l].sock # "none" /\ ConnectMonitorSocket(l)
  <2>1. PICK step \in {"DeliverDaemonSidePolicies", "ConnectMonitorSocket"},
             new \in SUBSET {"policy"} :
          /\ pc[l] = step /\ Proceed(l, new) /\ UNCHANGED <<conf, left, mnts, seen, byte>>
          /\ step = "DeliverDaemonSidePolicies" => "policy" \in new
          /\ \E files : fds' = Opened(l, "P", files)
    BY <1>11, Places
       DEF DeliverDaemonSidePolicies, ConnectMonitorSocket, Fails, Blocked, Refuse, own
  <2>2. \A k \in Launches \ {l} : fds'[k] = fds[k]
    BY <1>0, <2>1 DEF Opened
  <2> QED BY <1>9, <2>1, <2>2
<1>12. CASE MountSystemDirs(l) \/ MountAppDirs(l)
  <2>1. PICK step, b :
          /\ step \in {"MountSystemDirs", "MountAppDirs"}
          /\ pc[l] = step /\ Proceed(l, {}) /\ UNCHANGED <<conf, left, byte, seen, fds>>
          /\ mnts' = [mnts EXCEPT ![l] =
                [t \in Targets |-> IF t \in DOMAIN b THEN b[t] ELSE mnts[l][t]]]
          /\ step = "MountSystemDirs" => b = BoundSystem(l)
          /\ step = "MountAppDirs" => b = AppMounts
    BY <1>12, MountsWhatItShould
  <2>2. PICK i \in {16, 18} : /\ i = At(step) /\ At(Onward[step]) = i + 1
                              /\ i = 16 => step = "MountSystemDirs"
                              /\ i = 18 => step = "MountAppDirs"
    <3>1. step = "MountSystemDirs" \/ step = "MountAppDirs"
      BY <2>1
    <3>2. /\ Onward["MountSystemDirs"] = "MountSymLinks" /\ Onward["MountAppDirs"] = "SetGroups"
          /\ At("SetGroups") = 19
      BY Road, Numbers
    <3> QED BY <3>1, <3>2, Numbers
  <2>3. Mounted(i, mnts[l], left[l], conf[l])
    BY <1>1, <2>1, <2>2 DEF Behind
  <2>4. i = 16 => /\ DOMAIN b = SystemMounts \cup (IF conf[l].pidns THEN {} ELSE {"proc"})
                  /\ \A t \in DOMAIN b : b[t] = "rw"
    BY <2>1, <2>2 DEF BoundSystem
  <2>5. i = 18 => b = AppMounts
    BY <2>1, <2>2
  <2>6. PICK mt2 : mt2 = [t \in Targets |-> IF t \in DOMAIN b THEN b[t] ELSE mnts[l][t]]
    OBVIOUS
  <2>7. Mounted(i + 1, mt2, left[l], conf[l])
    <3>1. conf[l] \in Configurations /\ mnts[l] \in [Targets -> {"none", "rw", "ro", "own", "covered"}]
      BY <1>0
    <3> QED BY <2>3, <2>4, <2>5, <2>6, <3>1, MountedAll, ZenonT(60)
  <2>8. mnts' = [mnts EXCEPT ![l] = mt2]
    BY <2>1, <2>6
  <2>9. /\ mnts'[l] = mt2 /\ \A k \in Launches \ {l} : mnts'[k] = mnts[k]
    BY <1>0, <2>8
  <2>10. /\ pc[l] \in StepNames \ {"ExecuteCommand", "ApplyEnvironment"}
         /\ Gives(pc[l], conf[l], marks[l] \cup {}) \subseteq marks[l] \cup {}
    BY <2>1, Places DEF Gives, Due
  <2> QED BY <1>2, <2>1, <2>2, <2>7, <2>9, <2>10, ProceedGuarded
<1>13. CASE left[l] # << >> /\ ApplyPolicyMounts(l)
  <2>1. /\ pc[l] = "ApplyPolicyMounts" /\ Permitted(l, Head(left[l]))
        /\ left' = [left EXCEPT ![l] = Tail(left[l])]
        /\ mnts' = [mnts EXCEPT ![l] = MountedOver(mnts[l], Head(left[l]))]
        /\ UNCHANGED <<pc, par, marks, conf, byte, seen, fds>>
    BY <1>13, PolicyShape
  <2>2. PICK mt2 : mt2 = MountedOver(mnts[l], Head(left[l]))
    OBVIOUS
  <2>3. mnts' = [mnts EXCEPT ![l] = mt2]
    BY <2>1, <2>2
  <2>4. /\ mnts'[l] = mt2 /\ left'[l] = Tail(left[l])
        /\ \A k \in Launches \ {l} : mnts'[k] = mnts[k] /\ left'[k] = left[k]
    <3>1. left' = [left EXCEPT ![l] = Tail(left[l])]
      BY <2>1
    <3>2. DOMAIN left = Launches /\ DOMAIN mnts = Launches
      BY <1>0
    <3> QED BY <2>3, <3>1, <3>2
  <2>5. At(pc[l]) = 20 /\ pc[l] # "over"
    <3>1. At("ApplyPolicyMounts") = 20
      BY Numbers
    <3>2. pc[l] = "ApplyPolicyMounts"
      BY <2>1
    <3> QED BY <3>1, <3>2
  <2>6. Mounted(20, mt2, Tail(left[l]), conf[l])
    BY <1>1, <1>13, <2>1, <2>2, <2>5, MountedPolicy DEF Behind
  <2>7. Behind(pc'[l], par'[l], marks'[l], mnts'[l], left'[l], fds'[l], byte'[l], conf[l])
    BY <1>1, <2>1, <2>4, <2>5, <2>6 DEF Behind
  <2> QED BY <1>2, <2>1, <2>4, <2>7, GuardFrame
<1>14. CASE PivotRoot(l)
  <2>1. CASE \E new \in SUBSET {"pivot", "leftold"} :
               /\ pc[l] = "PivotRoot" /\ Proceed(l, new) /\ "pivot" \in new
               /\ UNCHANGED <<conf, left, mnts, seen, byte, fds>>
    BY <1>9, <2>1
  <2>2. CASE /\ marks' = [marks EXCEPT ![l] = @ \cup {"leftold"}] /\ Over(l, "refused")
    BY <1>0, <2>2, OverGuarded
  <2> QED BY <1>14, <2>1, <2>2, Places DEF PivotRoot, Fails, Blocked, Refuse, own
<1>15. ASSUME NEW step \in {"ForkAfterUnshare", "ChildAfterFork"},
              NEW next \in {"ChildAfterFork", "WaitForStartGate", "MountProcFs"},
              pc[l] = step, pc' = [pc EXCEPT ![l] = next],
              step # "ForkAfterUnshare" \/ next # "WaitForStartGate",
              step # "ChildAfterFork" \/ next # "ChildAfterFork",
              next = "MountProcFs" => ~IsShell(l),
              UNCHANGED <<conf, left, mnts, byte, seen, marks>>,
              par' = par \/ par' = [par EXCEPT ![l] = "fresh"],
              \A k \in Launches \ {l} : fds'[k] = fds[k]
       PROVE  GuardInv'
  <2>1. /\ step \in StepNames /\ next \in StepNames /\ pc[l] # "over" /\ next # "running"
        /\ At(step) \in {25, 26} /\ At(next) \in {26, 27, 28} /\ At(step) < At(next)
    BY <1>15, Numbers, Places
  <2>2. pc'[l] = next /\ \A k \in Launches \ {l} : pc'[k] = pc[k] /\ par'[k] = par[k]
    BY <1>0, <1>15
  <2>3. par'[l] = par[l] \/ par'[l] = "fresh"
    BY <1>0, <1>15
  <2>4. Armed(At(next), marks[l], conf[l])
    BY <1>1, <1>15, <2>1, ArmedPast DEF Behind, IsShell
  <2>5. Mounted(At(next), mnts[l], left[l], conf[l])
    <3>1. Mounted(At(step), mnts[l], left[l], conf[l])
      BY <1>1, <1>15, <2>1 DEF Behind
    <3>2. PICK i \in {25, 26}, j \in {26, 27, 28} : i = At(step) /\ j = At(next)
      BY <2>1
    <3>3. /\ i \in Nat /\ j \in Nat /\ i < j /\ i > 16 /\ i > 18 /\ j <= 28 /\ i > 20
      BY <2>1, <3>2
    <3>4. Mounted(j, mnts[l], left[l], conf[l])
      BY <3>1, <3>2, <3>3, MountedOnward
    <3> QED BY <3>2, <3>4
  <2>6. Gated(byte'[l], par'[l], marks'[l]) /\ Shut(pc'[l], par'[l], fds'[l])
    BY <1>1, <1>15, <2>1, <2>2, <2>3 DEF Behind, Gated, Shut
  <2>7. Behind(pc'[l], par'[l], marks'[l], mnts'[l], left'[l], fds'[l], byte'[l], conf[l])
    BY <1>15, <2>2, <2>4, <2>5, <2>6 DEF Behind
  <2> QED BY <1>2, <1>15, <2>2, <2>7, GuardFrame
<1>16. CASE ForkAfterUnshare(l)
  <2>1. /\ pc[l] = "ForkAfterUnshare" /\ UNCHANGED <<conf, left, mnts, byte, seen, marks>>
        /\ \/ /\ par' = [par EXCEPT ![l] = "fresh"] /\ pc' = [pc EXCEPT ![l] = "ChildAfterFork"]
              /\ \E fs : fds' = [fds EXCEPT ![l] = fs]
           \/ /\ ~NeedsForkAfterUnshare(l) /\ pc' = [pc EXCEPT ![l] = "MountProcFs"]
              /\ UNCHANGED <<par, fds>>
    BY <1>16, Places DEF ForkAfterUnshare, Fails, own
  <2>2. \A k \in Launches \ {l} : fds'[k] = fds[k]
    BY <1>0, <2>1
  <2>3. ~NeedsForkAfterUnshare(l) => ~IsShell(l)
    BY DEF NeedsForkAfterUnshare, IsShell
  <2> QED BY <1>15, <2>1, <2>2, <2>3
<1>17. CASE ChildAfterFork(l)
  <2>1. /\ pc[l] = "ChildAfterFork" /\ UNCHANGED <<conf, left, mnts, byte, seen, marks, par>>
        /\ \E next \in {"WaitForStartGate", "MountProcFs"} :
             pc' = [pc EXCEPT ![l] = next] /\ (next = "MountProcFs" => ~IsShell(l))
        /\ \E fs : fds' = [fds EXCEPT ![l] = fs]
    BY <1>17 DEF ChildAfterFork, NeedsStartGate, own
  <2>2. \A k \in Launches \ {l} : fds'[k] = fds[k]
    BY <1>0, <2>1
  <2> QED BY <1>15, <2>1, <2>2
<1>18. CASE WaitForStartGate(l)
  <2>1. CASE /\ pc[l] = "WaitForStartGate" /\ byte[l]
             /\ byte' = [byte EXCEPT ![l] = FALSE]
             /\ fds' = [fds EXCEPT ![l] = @ \ {<<"C", "gateR">>}]
             /\ Proceed(l, {}) /\ UNCHANGED <<conf, left, mnts, seen>>
    <3>1. "watched" \in marks[l]
      BY <1>1, <2>1 DEF Behind, Gated
    <3>2. /\ byte'[l] => byte[l]
          /\ \A k \in Launches \ {l} : fds'[k] = fds[k] /\ byte'[k] = byte[k]
      BY <1>0, <2>1
    <3> QED BY <1>9, <2>1, <3>1, <3>2
  <2>2. CASE Over(l, "unwatched") /\ UNCHANGED marks
    BY <2>2, OverGuarded
  <2> QED BY <1>18, <2>1, <2>2 DEF WaitForStartGate
<1>19. CASE conf[l].pidns /\ MountProcFs(l)
  <2>1. /\ pc[l] = "MountProcFs" /\ Proceed(l, {}) /\ UNCHANGED <<conf, left, byte, seen, fds>>
        /\ mnts' = [mnts EXCEPT ![l] = [@ EXCEPT !["proc"] = "own"]]
    BY <1>19, Places DEF MountProcFs, Fails
  <2>2. PICK mt2 : mt2 = [mnts[l] EXCEPT !["proc"] = "own"]
    OBVIOUS
  <2>3. mnts' = [mnts EXCEPT ![l] = mt2]
    BY <2>1, <2>2
  <2>4. mnts'[l] = mt2 /\ \A k \in Launches \ {l} : mnts'[k] = mnts[k]
    BY <1>0, <2>3
  <2>5. At(pc[l]) = 28 /\ pc[l] # "over" /\ At(Onward[pc[l]]) = 29
    <3>1. pc[l] = "MountProcFs" /\ Onward["MountProcFs"] = "SetAccessToken"
      BY <2>1, Road
    <3>2. At("MountProcFs") = 28 /\ At("SetAccessToken") = 29
      BY Numbers
    <3> QED BY <3>1, <3>2
  <2>6. Mounted(28, mnts[l], left[l], conf[l])
    BY <1>1, <2>5 DEF Behind
  <2>7. Mounted(29, mt2, left[l], conf[l])
    BY <1>0, <1>19, <2>2, <2>6, MountedProc
  <2>8. /\ pc[l] \in StepNames \ {"ExecuteCommand", "ApplyEnvironment"}
        /\ Gives(pc[l], conf[l], marks[l] \cup {}) \subseteq marks[l] \cup {}
    BY <2>1, Places DEF Gives, Due
  <2> QED BY <1>2, <2>1, <2>4, <2>5, <2>7, <2>8, ProceedGuarded
<1>20. CASE ApplyEnvironment(l)
  <2>1. /\ pc[l] = "ApplyEnvironment" /\ pc' = [pc EXCEPT ![l] = Onward[pc[l]]]
        /\ marks' = [marks EXCEPT ![l] = (@ \ {"credenv"}) \cup {"env"}]
        /\ UNCHANGED <<conf, left, mnts, byte, seen, par, fds>>
    BY <1>20, Places DEF ApplyEnvironment, Fails, own
  <2>2. /\ pc'[l] = "SetToolCredentials" /\ marks'[l] = (marks[l] \ {"credenv"}) \cup {"env"}
        /\ \A k \in Launches \ {l} : pc'[k] = pc[k] /\ marks'[k] = marks[k]
    BY <1>0, <2>1, Road
  <2>3. At(pc[l]) = 37 /\ pc[l] # "over" /\ At("SetToolCredentials") = 38
    <3>1. At("ApplyEnvironment") = 37 /\ At("SetToolCredentials") = 38
      BY Numbers
    <3>2. pc[l] = "ApplyEnvironment"
      BY <2>1
    <3> QED BY <3>1, <3>2
  <2>4. Armed(At(pc'[l]), marks'[l], conf[l])
    BY <1>1, <2>1, <2>2, <2>3, ArmedEnvironment DEF Behind
  <2>5. Mounted(At(pc'[l]), mnts[l], left[l], conf[l])
    BY <1>1, <2>2, <2>3 DEF Behind, Mounted
  <2>6. Gated(byte'[l], par'[l], marks'[l]) /\ Shut(pc'[l], par'[l], fds'[l])
    BY <1>1, <2>1, <2>2, <2>3 DEF Behind, Gated, Shut
  <2>7. Behind(pc'[l], par'[l], marks'[l], mnts'[l], left'[l], fds'[l], byte'[l], conf[l])
    BY <2>1, <2>4, <2>5, <2>6 DEF Behind
  <2> QED BY <1>2, <2>1, <2>2, <2>7, GuardFrame
<1>21. CASE ExecuteCommand(l)
  <2>1. /\ pc[l] = "ExecuteCommand" /\ pc' = [pc EXCEPT ![l] = "running"]
        /\ fds' = [fds EXCEPT ![l] = Closed(l, Self(l))]
        /\ UNCHANGED <<conf, left, mnts, byte, seen, par, marks>>
    BY <1>21, Places DEF ExecuteCommand, Fails, Blocked, Refuse, own
  <2>2. /\ pc'[l] = "running" /\ fds'[l] = Closed(l, Self(l))
        /\ \A k \in Launches \ {l} : pc'[k] = pc[k] /\ fds'[k] = fds[k]
    BY <1>0, <2>1
  <2>3. At(pc[l]) = 44 /\ pc[l] # "over" /\ At("running") = 45
    <3>1. At("ExecuteCommand") = 44 /\ At("running") = 45
      BY Numbers
    <3>2. pc[l] = "ExecuteCommand"
      BY <2>1
    <3> QED BY <3>1, <3>2
  <2>4. Armed(At(pc'[l]), marks[l], conf[l])
    BY <1>1, <2>1, <2>2, <2>3, ArmedCommand DEF Behind
  <2>5. Mounted(At(pc'[l]), mnts[l], left[l], conf[l])
    BY <1>1, <2>2, <2>3 DEF Behind, Mounted
  <2>6. Gated(byte'[l], par'[l], marks'[l])
    BY <1>1, <2>1, <2>3 DEF Behind, Gated
  <2>7. Shut(pc'[l], par'[l], fds'[l])
    BY <2>1, <2>2 DEF Shut, Closed, Self
  <2>8. Behind(pc'[l], par'[l], marks'[l], mnts'[l], left'[l], fds'[l], byte'[l], conf[l])
    BY <2>1, <2>4, <2>5, <2>6, <2>7 DEF Behind
  <2> QED BY <1>2, <2>1, <2>2, <2>8, GuardFrame
<1> QED BY <1>5, <1>6, <1>7, <1>8, <1>10, <1>11, <1>12, <1>13, <1>14, <1>16, <1>17, <1>18,
           <1>19, <1>20, <1>21 DEF Special

(* The parent takes no measure away and opens the gate when it watches.       *)
LEMMA ParentGuarded ==
  ASSUME TypeOK, GuardInv, NEW l \in Launches, Parent(l) \/ KillParent(l)
  PROVE  GuardInv'
<1>0. /\ DOMAIN par = Launches /\ DOMAIN marks = Launches /\ DOMAIN fds = Launches
      /\ DOMAIN byte = Launches
  BY DEF TypeOK
<1>1. PICK to \in {"init", "release", "watch", "wait", "over"} :
        /\ ParentStep(l, par[l], to) /\ par[l] # "none"
        /\ \E fs \in SUBSET fds[l] : fds' = [fds EXCEPT ![l] = fs]
        /\ byte' = byte \/ (par[l] = "release" /\ byte' = [byte EXCEPT ![l] = TRUE])
  <2>0. fds = [fds EXCEPT ![l] = fds[l]]
    BY DEF TypeOK
  <2>1. CASE ParentAfterFork(l)
    BY <2>1 DEF ParentAfterFork, ParentStep
  <2>2. CASE MonitorInit(l)
    <3>1. \E fs \in SUBSET fds[l] : fds' = [fds EXCEPT ![l] = fs]
      <4>1. CASE UNCHANGED fds
        BY <2>0, <4>1
      <4>2. CASE fds' = [fds EXCEPT ![l] = Closed(l, "P")]
        BY <4>2 DEF Closed
      <4> QED BY <2>2, <4>1, <4>2 DEF MonitorInit
    <3>2. \E to \in {"release", "wait"} : ParentStep(l, par[l], to) /\ par[l] = "init"
      BY <2>2 DEF MonitorInit, ParentStep
    <3>3. UNCHANGED byte
      BY <2>2 DEF MonitorInit, CloseStartGate
    <3> QED BY <3>1, <3>2, <3>3
  <2>3. CASE ReleaseStartGate(l)
    BY <2>3 DEF ReleaseStartGate, ParentStep
  <2>4. CASE MonitorRun(l)
    BY <2>4 DEF MonitorRun, ParentStep, Closed
  <2>5. CASE WaitForChildExit(l)
    BY <2>5 DEF WaitForChildExit, ParentStep, Closed
  <2>6. CASE KillParent(l)
    BY <2>6 DEF KillParent, ParentStep, Closed
  <2> QED BY <2>1, <2>2, <2>3, <2>4, <2>5, <2>6 DEF Parent
<1>2. /\ par'[l] = to /\ fds'[l] \subseteq fds[l]
      /\ marks'[l] = (IF to = "release" THEN marks[l] \cup {"watched"} ELSE marks[l])
      /\ byte'[l] => byte[l] \/ par[l] = "release"
      /\ \A k \in Launches \ {l} : /\ par'[k] = par[k] /\ marks'[k] = marks[k]
                                   /\ fds'[k] = fds[k] /\ byte'[k] = byte[k]
      /\ UNCHANGED <<conf, left, mnts, seen, pc>>
  BY <1>0, <1>1 DEF ParentStep
<1>3. ASSUME pc[l] # "over"
      PROVE  Behind(pc'[l], par'[l], marks'[l], mnts'[l], left'[l], fds'[l], byte'[l], conf[l])
  <2>1. Behind(pc[l], par[l], marks[l], mnts[l], left[l], fds[l], byte[l], conf[l])
    BY <1>3 DEF GuardInv
  <2>2. Armed(At(pc[l]), marks'[l], conf[l])
    BY <1>2, <2>1, ArmedElsewhere DEF Behind
  <2>3. Gated(byte'[l], par'[l], marks'[l]) /\ Shut(pc[l], par'[l], fds'[l])
    BY <1>1, <1>2, <2>1 DEF Behind, Gated, Shut
  <2> QED BY <1>2, <2>1, <2>2, <2>3 DEF Behind
<1>4. seen'[l].proc \in Same /\ seen'[l].ns \in Same
  BY <1>2 DEF GuardInv
<1> QED BY <1>2, <1>3, <1>4, GuardFrame

(* Every step keeps the launches behind their measures.                       *)
LEMMA GuardStep ==
  ASSUME TypeOK, GuardInv, [Next]_vars
  PROVE  GuardInv'
<1>1. CASE UNCHANGED vars
  BY <1>1 DEF vars, GuardInv
<1>2. ASSUME NEW l \in Launches, Execute(l)
      PROVE  GuardInv'
  <2>1. CASE Fails(l)
    <3>1. /\ Over(l, "refused")
          /\ \A k \in Launches : marks'[k] = marks[k] \/ marks'[k] = marks[k] \ {"bound"}
      BY <2>1 DEF Fails, Failed, Unbound
    <3> QED BY <3>1, OverGuarded
  <2>2. CASE Passes(l)
    BY <2>2, PassesGuarded
  <2>3. CASE Special(l) /\ ~Fails(l)
    BY <2>3, SpecialGuarded
  <2> QED BY <1>2, <2>1, <2>2, <2>3, Kinds
<1>3. ASSUME NEW l \in Launches, Parent(l) \/ KillParent(l)
      PROVE  GuardInv'
  BY <1>3, ParentGuarded
<1>4. ASSUME NEW l \in Launches, CommandExits(l) \/ KillStepper(l)
      PROVE  GuardInv'
  <2>1. \E s : Over(l, s) /\ UNCHANGED marks
    BY <1>4 DEF CommandExits, KillStepper
  <2> QED BY <2>1, OverGuarded
<1>5. ASSUME NEW l \in Launches, PidReused(l)
      PROVE  GuardInv'
  BY <1>5 DEF PidReused, own, GuardInv
<1>6. ASSUME NEW n \in Names, DeleteSandboxDir(n)
      PROVE  GuardInv'
  <2>1. /\ UNCHANGED <<conf, left, mnts, byte, seen, pc, par, fds>>
        /\ \A k \in Launches : marks'[k] = marks[k] \/ marks'[k] = marks[k] \ {"bound"}
    BY <1>6 DEF DeleteSandboxDir, own, Unbound
  <2>2. ASSUME NEW k \in Launches
        PROVE  /\ pc[k] # "over" =>
                    Behind(pc[k], par[k], marks'[k], mnts[k], left[k], fds[k], byte[k], conf[k])
               /\ seen[k].proc \in Same /\ seen[k].ns \in Same
    <3>1. /\ pc[k] # "over" =>
               Behind(pc[k], par[k], marks[k], mnts[k], left[k], fds[k], byte[k], conf[k])
          /\ seen[k].proc \in Same /\ seen[k].ns \in Same
      BY DEF GuardInv
    <3>2. marks[k] \ {"bound"} \subseteq marks'[k] /\ ("creds" \in marks'[k] => "creds" \in marks[k])
      BY <2>1
    <3>3. pc[k] # "over" => /\ Armed(At(pc[k]), marks'[k], conf[k])
                            /\ Gated(byte[k], par[k], marks'[k])
      BY <3>1, <3>2, ArmedElsewhere DEF Behind, Gated
    <3> QED BY <3>1, <3>3 DEF Behind
  <2> QED BY <2>1, <2>2 DEF GuardInv
<1> QED BY <1>1, <1>2, <1>3, <1>4, <1>5, <1>6 DEF Next, Environment

(* Initially no measure is due.                                               *)
LEMMA GuardInit == Init => GuardInv
<1> SUFFICES ASSUME Init, NEW l \in Launches
             PROVE  /\ Behind(pc[l], par[l], marks[l], mnts[l], left[l], fds[l], byte[l], conf[l])
                    /\ seen[l].proc \in Same /\ seen[l].ns \in Same
  BY DEF GuardInv
<1>1. conf[l] \in Configurations
  BY LaunchAssumption DEF Init
<1>2. /\ pc[l] = "ParseArguments" /\ par[l] = "none" /\ marks[l] = {} /\ left[l] = conf[l].mounts
      /\ fds[l] = {} /\ byte[l] = FALSE /\ mnts[l] = [t \in Targets |-> "none"]
      /\ seen[l].proc = "none" /\ seen[l].ns = "none"
  BY StepLists DEF Init
<1>3. At("ParseArguments") = 1
  BY Numbers
<1>4. Armed(1, marks[l], conf[l])
  BY OnwardPlace DEF Armed
<1>5. Mounted(1, mnts[l], left[l], conf[l])
  <2>1. PICK all : all = conf[l].mounts
    OBVIOUS
  <2>2. all \in Seq(PolicyMounts)
    BY <1>1, <2>1, MountsTyped
  <2>3. Len(all) \in Nat
    BY <2>2
  <2>4. Applied(mnts[l], all, all)
    <3>1. Carried(mnts[l], all, 0) /\ Len(all) - Len(all) = 0
      BY <2>3 DEF Carried
    <3> QED BY <2>3, <3>1 DEF Applied
  <2>5. mnts[l]["proc"] = "none"
    <3>1. "proc" \in Targets
      BY LaunchAssumption DEF Template
    <3> QED BY <1>2, <3>1
  <2>6. Rooted(mnts[l])
    BY <1>2 DEF Rooted
  <2> QED BY <1>2, <2>1, <2>4, <2>5, <2>6 DEF Mounted
<1>6. Gated(byte[l], par[l], marks[l]) /\ Shut(pc[l], par[l], fds[l])
  BY <1>2 DEF Gated, Shut
<1> QED BY <1>2, <1>3, <1>4, <1>5, <1>6 DEF Behind, Same

(* A command behind all measures is confined.                                 *)
LEMMA GuardConfines ==
  ASSUME TypeOK, GuardInv
  PROVE  RunsConfined
<1> SUFFICES ASSUME NEW l \in Launches
             PROVE  /\ pc[l] = "running" =>
                         /\ Required(l) \subseteq marks[l]
                         /\ mnts[l]["proc"] \in (IF conf[l].pidns THEN {"own"} ELSE {"rw", "ro"})
                         /\ StaysReadOnly(l)
                         /\ \A f \in fds[l] : f[1] # Self(l)
                    /\ IsShell(l) /\ PassedGate(l) => "watched" \in marks[l]
                    /\ seen[l].ns \in {"none", "caller", "twin"}
  BY DEF RunsConfined
<1>0. conf[l] \in Configurations
  BY ConfTyped
<1>1. pc[l] # "over" =>
        Behind(pc[l], par[l], marks[l], mnts[l], left[l], fds[l], byte[l], conf[l])
  BY DEF GuardInv
<1>2. ASSUME pc[l] = "running"
      PROVE  Required(l) \subseteq marks[l]
  <2>1. \A s \in StepNames : Gives(s, conf[l], marks[l]) \subseteq marks[l]
    <3>1. Armed(45, marks[l], conf[l])
      BY <1>1, <1>2, AtSteps DEF Behind
    <3>2. \A s \in StepNames : Place[s] < 45
      BY OnwardPlace
    <3> QED BY <3>1, <3>2 DEF Armed
  <2>2. \A s \in StepNames, m \in Measures : m \in Gives(s, conf[l], marks[l]) => m \in marks[l]
    BY <2>1
  <2>3. {"label", "ns", "pivot", "env"} \subseteq marks[l]
    <3>1. /\ "label" \in Gives("SetSelinuxMCS", conf[l], marks[l])
          /\ "ns" \in Gives("SetNs", conf[l], marks[l])
          /\ "pivot" \in Gives("PivotRoot", conf[l], marks[l])
          /\ "env" \in Gives("ApplyEnvironment", conf[l], marks[l])
      BY DEF Gives, Measures
    <3>2. /\ "SetSelinuxMCS" \in StepNames /\ "SetNs" \in StepNames /\ "PivotRoot" \in StepNames
          /\ "ApplyEnvironment" \in StepNames
      BY Places
    <3> QED BY <2>1, <3>1, <3>2
  <2>4. {"unshared", "groups", "pgrp", "token", "uid", "seccomp", "caps"} \subseteq marks[l]
    <3>1. /\ "unshared" \in Gives("UnshareNamespaces", conf[l], marks[l])
          /\ "groups" \in Gives("SetGroups", conf[l], marks[l])
          /\ "pgrp" \in Gives("SetProcessGroup", conf[l], marks[l])
          /\ "token" \in Gives("SetAccessToken", conf[l], marks[l])
          /\ "uid" \in Gives("SetUidGid", conf[l], marks[l])
          /\ "seccomp" \in Gives("SetSeccomp", conf[l], marks[l])
          /\ "caps" \in Gives("DropCapabilities", conf[l], marks[l])
      BY DEF Gives, Due, Measures
    <3>2. /\ "UnshareNamespaces" \in StepNames /\ "SetGroups" \in StepNames
          /\ "SetProcessGroup" \in StepNames /\ "SetAccessToken" \in StepNames
          /\ "SetUidGid" \in StepNames /\ "SetSeccomp" \in StepNames
          /\ "DropCapabilities" \in StepNames
      BY Places
    <3> QED BY <2>1, <3>1, <3>2
  <2>5. IsShell(l) => {"xpm", "ainfo", "policy", "executer"} \subseteq marks[l]
    <3> SUFFICES ASSUME conf[l].type = "shell"
                 PROVE  {"xpm", "ainfo", "policy", "executer"} \subseteq marks[l]
      BY DEF IsShell
    <3>1. /\ "xpm" \in Gives("SetXpmOwnerId", conf[l], marks[l])
          /\ "ainfo" \in Gives("SetAinfo", conf[l], marks[l])
          /\ "policy" \in Gives("DeliverDaemonSidePolicies", conf[l], marks[l])
          /\ "executer" \in Gives("DeliverExecuterInit", conf[l], marks[l])
      BY DEF Gives, Due, Measures
    <3>2. /\ "SetXpmOwnerId" \in StepNames /\ "SetAinfo" \in StepNames
          /\ "DeliverDaemonSidePolicies" \in StepNames /\ "DeliverExecuterInit" \in StepNames
      BY Places
    <3> QED BY <2>1, <3>1, <3>2
  <2>6. ~IsShell(l) => "tokenid" \in marks[l]
    <3>1. ~IsShell(l) => "tokenid" \in Gives("GenerateTokenId", conf[l], marks[l])
      BY DEF Gives, Due, Measures, IsShell
    <3>2. "GenerateTokenId" \in StepNames
      BY Places
    <3> QED BY <2>1, <3>1, <3>2
  <2>7. IsShell(l) /\ ~IsPermissionGranted(l, "dir") => "deny" \in marks[l]
    <3>1. IsShell(l) /\ ~IsPermissionGranted(l, "dir")
            => "deny" \in Gives("PreDecDenyPaths", conf[l], marks[l])
      BY DEF Gives, Due, Measures, IsShell, IsPermissionGranted
    <3>2. "PreDecDenyPaths" \in StepNames
      BY Places
    <3> QED BY <2>1, <3>1, <3>2
  <2>8. IsCustom(l) => {"pathmark", "encaps"} \subseteq marks[l]
    <3>1. IsCustom(l) => /\ "pathmark" \in Gives("SetSandboxPathMark", conf[l], marks[l])
                         /\ "encaps" \in Gives("SetEncapsProcFlag", conf[l], marks[l])
      BY DEF Gives, Due, Measures, IsShell, IsPermissionGranted, IsCustom
    <3>2. "SetSandboxPathMark" \in StepNames /\ "SetEncapsProcFlag" \in StepNames
      BY Places
    <3> QED BY <2>1, <3>1, <3>2
  <2>9. "creds" \in marks[l] /\ "lostcred" \notin marks[l] => "credenv" \in marks[l]
    <3>1. "creds" \in marks[l] /\ "lostcred" \notin marks[l]
            => "credenv" \in Gives("SetToolCredentials", conf[l], marks[l])
      BY DEF Gives, Measures
    <3>2. "SetToolCredentials" \in StepNames
      BY Places
    <3> QED BY <2>1, <3>1, <3>2
  <2> QED BY <2>3, <2>4, <2>5, <2>6, <2>7, <2>8, <2>9 DEF Required
<1>3. ASSUME pc[l] = "running"
      PROVE  /\ mnts[l]["proc"] \in (IF conf[l].pidns THEN {"own"} ELSE {"rw", "ro"})
             /\ StaysReadOnly(l)
  <2>1. Mounted(45, mnts[l], left[l], conf[l])
    BY <1>1, <1>3, AtSteps DEF Behind
  <2>2. mnts[l]["proc"] \in (IF conf[l].pidns THEN {"own"} ELSE {"rw", "ro"})
    BY <2>1 DEF Mounted
  <2>3. PICK all : all = conf[l].mounts
    OBVIOUS
  <2>4. all \in Seq(PolicyMounts) /\ Applied(mnts[l], << >>, all)
    BY <1>0, <2>1, <2>3, MountsTyped DEF Mounted
  <2>5. \A j \in 1..Len(all) : all[j].ro => Sealed(mnts[l], all, j, Len(all))
    <3>1. Len(all) \in Nat /\ Len(all) - Len(<< >>) = Len(all)
      BY <2>4
    <3>2. Carried(mnts[l], all, Len(all))
      BY <2>4, <3>1 DEF Applied
    <3> QED BY <3>2 DEF Carried
  <2>6. \A t \in DOMAIN AppMounts : AppMounts[t] = "ro" => ReadOnlyAt(mnts[l], t)
    <3>1. \A t \in DOMAIN AppMounts : AppMounts[t] = "ro" => mnts[l][t] = "ro"
      BY <2>1 DEF Mounted
    <3>2. \A t \in DOMAIN AppMounts : t \in Targets
      BY LaunchAssumption, Zenon DEF Template
    <3> QED BY <3>1, <3>2, ReadOnlyThere
  <2> QED BY <2>2, <2>3, <2>5, <2>6 DEF StaysReadOnly, Sealed
<1>4. pc[l] = "running" => \A f \in fds[l] : f[1] # Self(l)
  BY <1>1 DEF Behind, Shut, Self
<1>5. IsShell(l) /\ PassedGate(l) => "watched" \in marks[l]
  <2> SUFFICES ASSUME conf[l].type = "shell", PassedGate(l)
               PROVE  "watched" \in marks[l]
    BY DEF IsShell
  <2>1. pc[l] # "over" /\ At(pc[l]) >= 28
    <3>1. CASE pc[l] = "running"
      BY <3>1, AtSteps
    <3>2. CASE pc[l] \in StepNames \ Before("MountProcFs")
      <4>1. Place["MountProcFs"] = 28
        BY Places
      <4>2. ~(Place[pc[l]] < 28) /\ Place[pc[l]] \in 1..44 /\ At(pc[l]) = Place[pc[l]]
        BY <3>2, <4>1, AtSteps, OnwardPlace DEF Before
      <4> QED BY <3>2, <4>2, StepNamesProper
    <3> QED BY <3>1, <3>2 DEF PassedGate
  <2>2. Place["WaitForStartGate"] = 27 /\ "WaitForStartGate" \in StepNames
    BY Places
  <2>3. At(pc[l]) \in Nat
    <3>1. pc[l] \in StepNames \cup {"running"}
      BY DEF PassedGate
    <3> QED BY <3>1, AtSteps
  <2>4. Gives("WaitForStartGate", conf[l], marks[l]) \subseteq marks[l]
    BY <1>1, <2>1, <2>2, <2>3 DEF Behind, Armed
  <2> QED BY <2>4 DEF Gives, Measures
<1>6. seen[l].ns \in {"none", "caller", "twin"}
  BY DEF GuardInv, Same
<1> QED BY <1>2, <1>3, <1>4, <1>5, <1>6

(* RunsConfined for every number of launches, every template and every list   *)
(* of policy mounts, whatever fails, is killed or reused on the way.          *)
THEOREM CommandIsConfined == Spec => []RunsConfined
<1>1. Init => GuardInv
  BY GuardInit
<1>2. TypeOK /\ GuardInv /\ [Next]_vars => GuardInv'
  BY GuardStep
<1>3. TypeOK /\ GuardInv => RunsConfined
  BY GuardConfines
<1> QED BY <1>1, <1>2, <1>3, TypeCorrect, PTL DEF Spec

(****************************** refusals ************************************)

(* Nothing in the configuration of l deserves a refusal, and no other launch  *)
(* has its name.                                                              *)
Blameless(l) ==
  /\ conf[l].flaw = "" /\ conf[l].sock # "bad" /\ conf[l].exec /\ ~PolicyRefused(l)
  /\ \A k \in Launches \ {l} : NameOf(k) # NameOf(l)

(* Before step i the process can still do what only root may do and what the  *)
(* seccomp filter forbids.                                                    *)
Fit(i, ms) == ("uid" \in ms => i > 33) /\ ("seccomp" \in ms => i > 39)

(* It saw nobody but its caller.                                              *)
Facing(i, sn) == (i > 8 => sn.proc = "caller") /\ (i > 10 => sn.target = "caller")

(* The directory d holds what the steps so far put there.                     *)
Built(i, d, ms) ==
  /\ i <= 12 => d = {}
  /\ i > 12 /\ i <= 21 => "root" \in d
  /\ i <= 13 => "putold" \notin d
  /\ i > 13 /\ i <= 21 => "putold" \in d
  /\ i <= 17 => "links" \notin d
  /\ i > 15 /\ i <= 21 => "bound" \in ms

(* Every mount is of the template or of one of the first k policy mounts, and *)
(* one of them made it read-only or hides it.                                 *)
Spot(all, j) == Location[all[j].target]
Traced(mt, all, k) ==
  \A t \in Targets :
    /\ mt[t] = "ro" =>
         \/ t \in DOMAIN AppMounts /\ AppMounts[t] = "ro"
         \/ \E j \in 1..k : Spot(all, j) = t /\ all[j].ro
    /\ mt[t] = "covered" =>
         \E h \in 1..k : Spot(all, h) = t /\
           \E j \in (h + 1)..k : Spot(all, j) # t /\ <<t, Spot(all, j)>> \in Within
    /\ mt[t] # "none" => t \in Template \/ \E j \in 1..k : Spot(all, j) = t

(* A target of the template is mounted, and what happened to a mount has its  *)
(* cause in the template or in a policy mount that was carried out.           *)
Sourced(i, mt, rest, c) ==
  /\ i > 16 => /\ \A t \in SystemMounts : mt[t] # "none"
               /\ ~c.pidns => mt["proc"] # "none"
  /\ i > 18 => \A t \in DOMAIN AppMounts : mt[t] # "none"
  /\ Traced(mt, c.mounts, Len(c.mounts) - Len(rest))

(* Whoever waits at the gate has a parent that is going to open it.           *)
Awaited(p, q, fs, b, c) ==
  /\ p = "WaitForStartGate" => c.type = "shell"
  /\ p \in {"ChildAfterFork", "WaitForStartGate"} /\ c.type = "shell" =>
       /\ <<"C", "gateR">> \in fs
       /\ \/ q \in {"fresh", "init", "release"} /\ <<"P", "gateW">> \in fs
          \/ q = "watch" /\ b

Ready(p, q, ms, mt, rest, fs, b, sn, d, c) ==
  /\ Fit(At(p), ms) /\ Facing(At(p), sn) /\ Built(At(p), d, ms) /\ Sourced(At(p), mt, rest, c)
  /\ Awaited(p, q, fs, b, c)

ClearInv ==
  troubles = 0 =>
    \A l \in Launches :
      /\ pidOf[l] = "caller"
      /\ Blameless(l) =>
           /\ status[l] \notin {"refused", "unwatched"}
           /\ pc[l] # "over" => Ready(pc[l], par[l], marks[l], mnts[l], left[l], fds[l], byte[l],
                                      seen[l], disk[NameOf(l)], conf[l])

(* The configuration alone decides who is blameless.                          *)
LEMMA BlamelessStays ==
  ASSUME UNCHANGED conf
  PROVE  /\ \A k \in Launches : Blameless(k)' <=> Blameless(k)
         /\ \A k \in Launches : NameOf(k)' = NameOf(k)
<1>1. \A k \in Launches : NameOf(k)' = NameOf(k)
  BY DEF NameOf
<1>2. \A k \in Launches : PolicyRefused(k)' <=> PolicyRefused(k)
  BY DEF PolicyRefused, BoundSystem, MatchConditionalSource, IsPermissionGranted
<1> QED BY <1>1, <1>2 DEF Blameless

(* After a fault there is one.                                                *)
LEMMA FaultCounts ==
  ASSUME TypeOK, Fault
  PROVE  troubles' # 0
<1>1. troubles \in 0..MaxTroubles /\ MaxTroubles \in Nat
  BY LaunchAssumption DEF TypeOK
<1>2. troubles' = troubles + 1
  BY DEF Fault
<1> QED BY <1>1, <1>2

(* What a launch does is nothing to a launch of another name.                 *)
Apart(l) ==
  \A k \in Launches \ {l} : NameOf(k) # NameOf(l) =>
    /\ pc'[k] = pc[k] /\ par'[k] = par[k] /\ marks'[k] = marks[k] /\ mnts'[k] = mnts[k]
    /\ left'[k] = left[k] /\ fds'[k] = fds[k] /\ byte'[k] = byte[k] /\ seen'[k] = seen[k]
    /\ status'[k] = status[k] /\ disk'[NameOf(k)] = disk[NameOf(k)]

(* A step that is nothing to others has only its own launch to answer for.    *)
LEMMA ClearFrame ==
  ASSUME TypeOK, ClearInv, NEW l \in Launches, UNCHANGED conf, Apart(l),
         troubles' = 0 => troubles = 0 /\ UNCHANGED pidOf,
         troubles' = 0 /\ Blameless(l) =>
           /\ status'[l] \notin {"refused", "unwatched"}
           /\ pc'[l] # "over" => Ready(pc'[l], par'[l], marks'[l], mnts'[l], left'[l], fds'[l],
                                       byte'[l], seen'[l], disk'[NameOf(l)], conf[l])
  PROVE  ClearInv'
<1> SUFFICES ASSUME troubles' = 0, NEW k \in Launches
             PROVE  /\ pidOf'[k] = "caller"
                    /\ Blameless(k) =>
                         /\ status'[k] \notin {"refused", "unwatched"}
                         /\ pc'[k] # "over" =>
                              Ready(pc'[k], par'[k], marks'[k], mnts'[k], left'[k], fds'[k],
                                    byte'[k], seen'[k], disk'[NameOf(k)], conf[k])
  BY BlamelessStays DEF ClearInv
<1>1. pidOf'[k] = "caller"
  BY DEF ClearInv
<1>2. CASE k = l
  BY <1>1, <1>2
<1>3. CASE k # l /\ Blameless(k)
  <2>1. NameOf(k) # NameOf(l)
    BY <1>3 DEF Blameless
  <2>2. /\ pc'[k] = pc[k] /\ par'[k] = par[k] /\ marks'[k] = marks[k] /\ mnts'[k] = mnts[k]
        /\ left'[k] = left[k] /\ fds'[k] = fds[k] /\ byte'[k] = byte[k] /\ seen'[k] = seen[k]
        /\ status'[k] = status[k] /\ disk'[NameOf(k)] = disk[NameOf(k)]
    BY <1>3, <2>1 DEF Apart
  <2>3. /\ status[k] \notin {"refused", "unwatched"}
        /\ pc[k] # "over" => Ready(pc[k], par[k], marks[k], mnts[k], left[k], fds[k],
                                   byte[k], seen[k], disk[NameOf(k)], conf[k])
    BY <1>3 DEF ClearInv
  <2> QED BY <1>1, <2>2, <2>3
<1> QED BY <1>1, <1>2, <1>3

(* The next policy mount of a blameless launch is permitted.                  *)
LEMMA PolicyAllowed ==
  ASSUME TypeOK, NEW l \in Launches, Blameless(l), left[l] # << >>,
         Mounted(20, mnts[l], left[l], conf[l]), Sourced(20, mnts[l], left[l], conf[l])
  PROVE  Permitted(l, Head(left[l]))
<1>1. /\ conf[l] \in Configurations /\ left[l] \in Seq(PolicyMounts)
      /\ mnts[l] \in [Targets -> {"none", "rw", "ro", "own", "covered"}]
  BY ConfTyped DEF TypeOK
<1>2. PICK p, rest, all, mt :
        p = Head(left[l]) /\ rest = left[l] /\ all = conf[l].mounts /\ mt = mnts[l]
  OBVIOUS
<1>3. /\ all \in Seq(PolicyMounts) /\ rest \in Seq(PolicyMounts) /\ rest # << >>
      /\ Applied(mt, rest, all)
  BY <1>1, <1>2, MountsTyped DEF Mounted
<1>4. PICK n \in Nat, m \in Nat : n = Len(all) /\ m = Len(rest)
  BY <1>3
<1>5. p = rest[1]
  <2>1. p = Head(rest)
    BY <1>2
  <2> QED BY <1>3, <2>1
<1>6. m >= 1 /\ m <= n /\ p = all[(n - m) + 1] /\ p \in PolicyMounts
  BY <1>3, <1>4, <1>5 DEF Applied
<1>7. p.target \in Targets /\ p.ro \in BOOLEAN
  BY <1>6 DEF PolicyMounts
<1>8. PICK i \in 1..n : i = (n - m) + 1
  BY <1>4, <1>6
\* What ~PolicyRefused says of this mount.
<1>9. /\ p.ro \/ ~(p.target \in DOMAIN AppMounts /\ AppMounts[p.target] = "ro")
      /\ p.ro \/ \A h \in 1..(i - 1) : ~(all[h].ro /\ Spot(all, h) = p.target)
      /\ ~\E h \in 1..(i - 1) : Spot(all, h) = p.target /\
            \E j \in (h + 1)..(i - 1) :
              Spot(all, j) # p.target /\ <<p.target, Spot(all, j)>> \in Within
      /\ \/ p.target \in DOMAIN BoundSystem(l) \cup DOMAIN AppMounts
         \/ \E h \in 1..(i - 1) : Spot(all, h) = p.target
         \/ MatchConditionalSource(l, p.target)
  <2>1. ~PolicyRefused(l)
    BY DEF Blameless
  <2>2. i \in 1..Len(conf[l].mounts) /\ conf[l].mounts[i] = p /\ all = conf[l].mounts
    BY <1>2, <1>4, <1>6, <1>8
  <2> QED BY <2>1, <2>2, <1>7, Zenon DEF PolicyRefused, Spot
<1>10. Traced(mt, all, i - 1) /\ Carried(mt, all, i - 1) /\ i - 1 = n - m
  <2>1. i - 1 = n - m
    BY <1>4, <1>6, <1>8
  <2> QED BY <1>2, <1>3, <1>4, <2>1 DEF Sourced, Applied
<1>11. mt[p.target] = "none" => p.target \notin DOMAIN BoundSystem(l) \cup DOMAIN AppMounts
  <2>1. DOMAIN BoundSystem(l) = SystemMounts \cup (IF conf[l].pidns THEN {} ELSE {"proc"})
    BY DEF BoundSystem
  <2>2. /\ \A t \in SystemMounts : mt[t] # "none"
        /\ ~conf[l].pidns => mt["proc"] # "none"
        /\ \A t \in DOMAIN AppMounts : mt[t] # "none"
    BY <1>2 DEF Sourced
  <2> QED BY <2>1, <2>2
<1>12. CASE mt[p.target] # "none"
  <2>1. mt[p.target] # "covered"
    BY <1>7, <1>9, <1>10, Zenon DEF Traced
  <2>2. mt[p.target] = "ro" => p.ro
    BY <1>7, <1>9, <1>10, Zenon DEF Traced
  <2> QED
    BY <1>2, <1>7, <1>12, <2>1, <2>2 DEF Permitted, IsExactMountPoint, IsPolicyWriteEscalation
<1>13. CASE mt[p.target] = "none"
  <2>1. ~\E h \in 1..(i - 1) : Spot(all, h) = p.target
    BY <1>10, <1>13 DEF Carried, Spot
  <2>2. MatchConditionalSource(l, p.target)
    BY <1>9, <1>11, <1>13, <2>1
  <2> QED BY <1>2, <1>13, <2>2 DEF Permitted, IsExactMountPoint
<1> QED BY <1>12, <1>13

(* The places of the steps that need root or no filter.                       *)
LEMMA RootSteps ==
  /\ \A s \in NeedsRoot : s \in StepNames /\ Place[s] <= 33
  /\ \A s \in NeedsNoFilter : s \in StepNames /\ Place[s] <= 39
BY Places, OnwardPlace DEF NeedsRoot, NeedsNoFilter, Before

(* No step finds a reason to refuse a blameless launch.                       *)
LEMMA Unblocked ==
  ASSUME TypeOK, GuardInv, ClearInv, troubles = 0, NEW l \in Launches, Blameless(l),
         pc[l] \in StepNames
  PROVE  ~Blocked(l)
<1>1. pc[l] # "over" /\ pc[l] # "running"
  BY StepNamesProper
<1>2. Ready(pc[l], par[l], marks[l], mnts[l], left[l], fds[l], byte[l], seen[l],
            disk[NameOf(l)], conf[l]) /\ pidOf[l] = "caller"
  BY <1>1 DEF ClearInv
<1>3. Behind(pc[l], par[l], marks[l], mnts[l], left[l], fds[l], byte[l], conf[l])
  BY <1>1 DEF GuardInv
<1>4. PICK i \in 1..44 : i = Place[pc[l]] /\ i = At(pc[l])
  BY AtSteps, OnwardPlace
<1>5. /\ Fit(i, marks[l]) /\ Facing(i, seen[l]) /\ Built(i, disk[NameOf(l)], marks[l])
      /\ Sourced(i, mnts[l], left[l], conf[l]) /\ Mounted(i, mnts[l], left[l], conf[l])
  BY <1>2, <1>3, <1>4 DEF Ready, Behind
<1>6. Able(l, pc[l])
  <2>1. (pc[l] \in NeedsRoot => i <= 33) /\ (pc[l] \in NeedsNoFilter => i <= 39)
    BY <1>4, RootSteps
  <2> QED BY <1>5, <2>1 DEF Able, Fit
<1>7. conf[l].flaw # pc[l]
  <2>1. "" \notin StepNames
    BY Places
  <2> QED BY <2>1 DEF Blameless
<1>8. SameIds(l)
  BY <1>2 DEF SameIds
<1>9. pc[l] = "OpenCallerMountNamespace" => seen[l].proc = pidOf[l]
  <2>1. Place["OpenCallerMountNamespace"] = 9
    BY Places
  <2>2. pc[l] = "OpenCallerMountNamespace" => i = 9
    BY <1>4, <2>1
  <2> QED BY <1>2, <1>5, <2>2 DEF Facing
<1>10. pc[l] = "SetNs" => seen[l].proc = seen[l].target
  <2>1. Place["SetNs"] = 11
    BY Places
  <2>2. pc[l] = "SetNs" => i = 11
    BY <1>4, <2>1
  <2> QED BY <1>5, <2>2 DEF Facing
<1>11. /\ pc[l] = "MkdirPutOld" => "root" \in disk[NameOf(l)] /\ "putold" \notin disk[NameOf(l)]
       /\ pc[l] = "MountNewRoot" => "root" \in disk[NameOf(l)]
       /\ pc[l] = "MountSymLinks" => "links" \notin disk[NameOf(l)]
       /\ pc[l] = "PivotRoot" => "bound" \in marks[l] /\ "putold" \in disk[NameOf(l)]
  <2>1. /\ Place["MkdirPutOld"] = 13 /\ Place["MountNewRoot"] = 15
        /\ Place["MountSymLinks"] = 17 /\ Place["PivotRoot"] = 21
    BY Places
  <2>2. /\ pc[l] = "MkdirPutOld" => i = 13
        /\ pc[l] = "MountNewRoot" => i = 15
        /\ pc[l] = "MountSymLinks" => i = 17
        /\ pc[l] = "PivotRoot" => i = 21
    BY <1>4, <2>1
  <2> QED BY <1>5, <2>2 DEF Built
<1>12. pc[l] = "ApplyPolicyMounts" /\ left[l] # << >> => Permitted(l, Head(left[l]))
  <2>1. Place["ApplyPolicyMounts"] = 20
    BY Places
  <2> QED BY <1>4, <1>5, <2>1, PolicyAllowed
<1>13. conf[l].sock # "bad" /\ conf[l].exec
  BY DEF Blameless
<1> QED BY <1>6, <1>7, <1>8, <1>9, <1>10, <1>11, <1>12, <1>13 DEF Blocked

(* The next step, when it neither forks nor follows the fork.                 *)
LEMMA ProceedReady ==
  ASSUME TypeOK, ClearInv, NEW l \in Launches, Blameless(l), troubles = 0,
         pc[l] \in StepNames \ {"ExecuteCommand", "ForkAfterUnshare", "ChildAfterFork"},
         NEW i, i = At(pc[l]), pc'[l] = Onward[pc[l]],
         \A m \in {"uid", "seccomp"} : m \in marks'[l] =>
           m \in marks[l] \/ (m = "uid" /\ i = 33) \/ (m = "seccomp" /\ i = 39),
         Facing(i, seen[l]) => Facing(i + 1, seen'[l]),
         Built(i, disk[NameOf(l)], marks[l]) => Built(i + 1, disk'[NameOf(l)], marks'[l]),
         Sourced(i, mnts[l], left[l], conf[l]) => Sourced(i + 1, mnts'[l], left'[l], conf[l])
  PROVE  Ready(pc'[l], par'[l], marks'[l], mnts'[l], left'[l], fds'[l], byte'[l], seen'[l],
               disk'[NameOf(l)], conf[l])
<1>1. Ready(pc[l], par[l], marks[l], mnts[l], left[l], fds[l], byte[l], seen[l],
            disk[NameOf(l)], conf[l])
  BY StepNamesProper DEF ClearInv
<1>2. i \in 1..44 /\ At(pc'[l]) = i + 1
  BY AtSteps, OnwardPlace, OnwardTyped
<1>3. pc'[l] \notin {"ChildAfterFork", "WaitForStartGate"}
  <2>1. Place["ChildAfterFork"] = 26 /\ Place["WaitForStartGate"] = 27
    BY Places
  <2>2. i # 25 /\ i # 26
    <3>1. pc[l] = Steps[i]
      BY AtSteps
    <3>2. Steps[25] = "ForkAfterUnshare" /\ Steps[26] = "ChildAfterFork"
      BY StepLists
    <3> QED BY <3>1, <3>2
  <2>3. Place[pc'[l]] = i + 1
    BY AtSteps, OnwardPlace
  <2> QED BY <1>2, <2>1, <2>2, <2>3
<1>4. Fit(i + 1, marks'[l])
  BY <1>1, <1>2 DEF Ready, Fit
<1> QED BY <1>1, <1>2, <1>3, <1>4 DEF Ready, Awaited

(* Nothing more is mounted after the template.                                *)
LEMMA SourcedLater ==
  ASSUME NEW i \in Nat, NEW j \in Nat, i > 18, NEW mt, NEW rest, NEW c, Sourced(i, mt, rest, c)
  PROVE  Sourced(j, mt, rest, c)
<1>1. i > 16
  OBVIOUS
<1> QED BY <1>1 DEF Sourced

(* The steps that ask nothing new of the state.                               *)
LEMMA ReadyOnward ==
  ASSUME NEW i \in Nat, NEW sn, NEW d, NEW ms, NEW ms2, NEW mt, NEW rest, NEW c,
         ms \subseteq ms2
  PROVE  /\ i \notin {8, 10} /\ Facing(i, sn) => Facing(i + 1, sn)
         /\ i \notin {12, 13} /\ (i = 15 => "bound" \in ms2) /\ Built(i, d, ms)
              => Built(i + 1, d, ms2)
         /\ i \notin {16, 18} /\ Sourced(i, mt, rest, c) => Sourced(i + 1, mt, rest, c)
<1>1. i \notin {8, 10} /\ Facing(i, sn) => Facing(i + 1, sn)
  BY DEF Facing
<1>2. i \notin {12, 13} /\ (i = 15 => "bound" \in ms2) /\ Built(i, d, ms) => Built(i + 1, d, ms2)
  BY DEF Built
<1>3. i \notin {16, 18} /\ Sourced(i, mt, rest, c) => Sourced(i + 1, mt, rest, c)
  BY DEF Sourced
<1> QED BY <1>1, <1>2, <1>3

(* A passing step leaves its launch ready for the next one.                   *)
LEMMA PassesReady ==
  ASSUME TypeOK, ClearInv, NEW l \in Launches, Blameless(l), troubles = 0, Passes(l)
  PROVE  /\ status'[l] \notin {"refused", "unwatched"}
         /\ Ready(pc'[l], par'[l], marks'[l], mnts'[l], left'[l], fds'[l], byte'[l], seen'[l],
                  disk'[NameOf(l)], conf[l])
<1>1. PICK new \in SUBSET Measures :
        /\ Due(pc[l], conf[l]) \subseteq new
        /\ "uid" \in new => pc[l] = "SetUidGid"
        /\ "seccomp" \in new => pc[l] = "SetSeccomp"
        /\ Proceed(l, new) /\ UNCHANGED <<own, fds, disk>>
  BY DEF Passes
<1>2. /\ pc[l] \in StepNames \ {"ExecuteCommand", "ForkAfterUnshare", "ChildAfterFork"}
      /\ pc[l] \notin {"OpenCallerProcDir", "ReadNamespaceId", "CreateSandboxDir", "MkdirPutOld",
                       "MountSystemDirs", "MountAppDirs"}
  <2>1. pc[l] \in Private(l)
    BY DEF Passes
  <2> QED BY <2>1, Places, ZenonT(60) DEF Private
<1>3. PICK i \in 1..44 : i = At(pc[l]) /\ pc[l] = Steps[i] /\ i = Place[pc[l]]
  BY <1>2, AtSteps, OnwardPlace
<1>4. i \notin {8, 10, 12, 13, 16, 18} /\ (i = 15 => pc[l] = "MountNewRoot")
  <2>1. /\ Steps[8] = "OpenCallerProcDir" /\ Steps[10] = "ReadNamespaceId"
        /\ Steps[12] = "CreateSandboxDir" /\ Steps[13] = "MkdirPutOld"
        /\ Steps[16] = "MountSystemDirs" /\ Steps[18] = "MountAppDirs"
        /\ Steps[15] = "MountNewRoot"
    BY StepLists
  <2>2. pc[l] = Steps[i]
    BY <1>3
  <2>3. pc[l] \notin {"OpenCallerProcDir", "ReadNamespaceId", "CreateSandboxDir", "MkdirPutOld",
                     "MountSystemDirs", "MountAppDirs"}
    BY <1>2
  <2> QED BY <2>1, <2>2, <2>3
<1>5. /\ pc[l] = "SetUidGid" => i = 33
      /\ pc[l] = "SetSeccomp" => i = 39
  <2>1. Place["SetUidGid"] = 33 /\ Place["SetSeccomp"] = 39
    BY Places
  <2> QED BY <1>3, <2>1
<1>6. DOMAIN pc = Launches /\ DOMAIN marks = Launches
  BY DEF TypeOK
<1>7. /\ pc'[l] = Onward[pc[l]] /\ marks'[l] = marks[l] \cup new
      /\ UNCHANGED <<conf, left, mnts, byte, seen, fds, disk, status, par>>
  BY <1>1, <1>6 DEF Proceed, own
<1>8. i = 15 => "bound" \in marks'[l]
  <2>1. "bound" \in Due("MountNewRoot", conf[l])
    BY DEF Due, Measures
  <2> QED BY <1>1, <1>4, <1>7, <2>1
<1>9. /\ Facing(i, seen[l]) => Facing(i + 1, seen'[l])
      /\ Built(i, disk[NameOf(l)], marks[l]) => Built(i + 1, disk'[NameOf(l)], marks'[l])
      /\ Sourced(i, mnts[l], left[l], conf[l]) => Sourced(i + 1, mnts'[l], left'[l], conf[l])
  <2>1. i \in Nat /\ marks[l] \subseteq marks'[l]
    BY <1>7
  <2>2. disk'[NameOf(l)] = disk[NameOf(l)] /\ seen'[l] = seen[l] /\ mnts'[l] = mnts[l]
        /\ left'[l] = left[l]
    BY <1>7
  <2> QED BY <1>4, <1>8, <2>1, <2>2, ReadyOnward
<1>10. \A m \in {"uid", "seccomp"} : m \in marks'[l] =>
         m \in marks[l] \/ (m = "uid" /\ i = 33) \/ (m = "seccomp" /\ i = 39)
  BY <1>1, <1>5, <1>7
<1>11. status'[l] \notin {"refused", "unwatched"}
  BY <1>2, <1>7, StepNamesProper DEF ClearInv
<1> QED BY <1>2, <1>3, <1>7, <1>9, <1>10, <1>11, ProceedReady

(* The end of a process is nothing to the other launches.                     *)
LEMMA OverApart ==
  ASSUME TypeOK, NEW l \in Launches, NEW s, Over(l, s),
         \A k \in Launches \ {l} : NameOf(k) # NameOf(l) =>
           marks'[k] = marks[k] /\ disk'[NameOf(k)] = disk[NameOf(k)]
  PROVE  Apart(l) /\ UNCHANGED <<conf, pidOf>>
<1>1. DOMAIN pc = Launches /\ DOMAIN fds = Launches /\ DOMAIN status = Launches
  BY DEF TypeOK
<1>2. /\ pc' = [pc EXCEPT ![l] = "over"] /\ status' = [status EXCEPT ![l] = s]
      /\ fds' = [fds EXCEPT ![l] = Closed(l, Self(l))]
      /\ UNCHANGED <<conf, left, mnts, byte, seen, par, pidOf>>
  BY DEF Over, own
<1> QED BY <1>1, <1>2 DEF Apart

(* Nor is a launch that goes on.                                              *)
LEMMA ProceedApart ==
  ASSUME TypeOK, NEW l \in Launches, NEW new, Proceed(l, new), UNCHANGED conf,
         \A k \in Launches \ {l} :
           /\ mnts'[k] = mnts[k] /\ left'[k] = left[k] /\ fds'[k] = fds[k]
           /\ byte'[k] = byte[k] /\ seen'[k] = seen[k],
         \A k \in Launches \ {l} : NameOf(k) # NameOf(l) => disk'[NameOf(k)] = disk[NameOf(k)]
  PROVE  Apart(l) /\ UNCHANGED <<conf, pidOf>>
<1>1. DOMAIN pc = Launches /\ DOMAIN marks = Launches
  BY DEF TypeOK
<1>2. /\ pc' = [pc EXCEPT ![l] = Onward[pc[l]]] /\ marks' = [marks EXCEPT ![l] = @ \cup new]
      /\ UNCHANGED <<par, status, pidOf>>
  BY DEF Proceed
<1> QED BY <1>1, <1>2 DEF Apart

(* Nor is a new entry of its directory.                                       *)
LEMMA PutApart ==
  ASSUME TypeOK, NEW l \in Launches, NEW e, Put(l, e) \/ UNCHANGED disk
  PROVE  \A k \in Launches \ {l} : NameOf(k) # NameOf(l) => disk'[NameOf(k)] = disk[NameOf(k)]
<1>1. DOMAIN disk = Names /\ \A k \in Launches : NameOf(k) \in Names
  BY ConfTyped DEF TypeOK
<1> QED BY <1>1 DEF Put

(* Nor is any other step.                                                     *)
LEMMA ExecuteApart ==
  ASSUME TypeOK, NEW l \in Launches, Execute(l)
  PROVE  Apart(l) /\ UNCHANGED <<conf, pidOf>>
<1>0. /\ DOMAIN pc = Launches /\ DOMAIN marks = Launches /\ DOMAIN mnts = Launches
      /\ DOMAIN left = Launches /\ DOMAIN fds = Launches /\ DOMAIN byte = Launches
      /\ DOMAIN seen = Launches /\ DOMAIN par = Launches /\ DOMAIN disk = Names
      /\ \A k \in Launches : NameOf(k) \in Names
  BY ConfTyped DEF TypeOK
<1>1. CASE Fails(l)
  <2>1. Over(l, "refused")
    BY <1>1 DEF Fails, Failed
  <2>2. /\ disk' = disk \/ disk' = [disk EXCEPT ![NameOf(l)] = Cleaned(disk[NameOf(l)])]
        /\ marks' = marks \/ marks' = Unbound(NameOf(l))
    BY <1>1 DEF Fails, Failed
  <2>3. \A k \in Launches \ {l} : NameOf(k) # NameOf(l) =>
          marks'[k] = marks[k] /\ disk'[NameOf(k)] = disk[NameOf(k)]
    BY <1>0, <2>2 DEF Unbound
  <2> QED BY <2>1, <2>3, OverApart
<1>2. CASE Passes(l)
  <2>1. PICK new : Proceed(l, new) /\ UNCHANGED <<conf, left, mnts, byte, seen, fds, disk>>
    BY <1>2 DEF Passes, own
  <2> QED BY <2>1, ProceedApart
<1>3. CASE Special(l) /\ ~Fails(l)
  <2>1. CASE SetSelinuxMCS(l) \/ OpenCallerProcDir(l) \/ ReadNamespaceId(l) \/ SetNs(l)
    <3>1. /\ \E new : Proceed(l, new)
          /\ UNCHANGED <<conf, left, mnts, byte, fds, disk>>
      BY <1>3, <2>1, Places
         DEF SetSelinuxMCS, OpenCallerProcDir, ReadNamespaceId, SetNs, Fails, Blocked, Refuse
    <3>2. \A k \in Launches \ {l} : seen'[k] = seen[k]
      <4>1. \/ seen' = [seen EXCEPT ![l] = [@ EXCEPT !.label = pidOf[l]]]
            \/ seen' = [seen EXCEPT ![l] = [@ EXCEPT !.proc = pidOf[l]]]
            \/ seen' = [seen EXCEPT ![l] = [@ EXCEPT !.target = pidOf[l]]]
            \/ seen' = [seen EXCEPT ![l] = [@ EXCEPT !.ns = seen[l].proc]]
        BY <1>3, <2>1, Places
           DEF SetSelinuxMCS, OpenCallerProcDir, ReadNamespaceId, SetNs, Fails, Blocked, Refuse
      <4> QED BY <1>0, <4>1
    <3> QED BY <3>1, <3>2, ProceedApart
  <2>2. CASE CreateSandboxDir(l) \/ MkdirPutOld(l) \/ MountSymLinks(l)
    <3>1. PICK new, e : /\ Proceed(l, new) /\ Put(l, e)
                        /\ UNCHANGED <<conf, left, mnts, byte, seen, fds>>
      BY <1>3, <2>2, Places
         DEF CreateSandboxDir, MkdirPutOld, MountSymLinks, Fails, Blocked, Refuse, own
    <3> QED BY <3>1, PutApart, ProceedApart
  <2>3. CASE MountSystemDirs(l) \/ MountAppDirs(l)
    <3>1. PICK new, e, mt : /\ Proceed(l, new) /\ Put(l, e) /\ mnts' = [mnts EXCEPT ![l] = mt]
                            /\ UNCHANGED <<conf, left, byte, seen, fds>>
      BY <1>3, <2>3, Places DEF MountSystemDirs, MountAppDirs, MountAll, Fails
    <3>2. \A k \in Launches \ {l} : mnts'[k] = mnts[k]
      BY <1>0, <3>1
    <3> QED BY <3>1, <3>2, PutApart, ProceedApart
  <2>4. CASE left[l] # << >> /\ ApplyPolicyMounts(l)
    <3>1. /\ mnts' = [mnts EXCEPT ![l] = MountedOver(mnts[l], Head(left[l]))]
          /\ left' = [left EXCEPT ![l] = Tail(left[l])]
          /\ disk' = disk \/ Put(l, {"root", "dirs"})
          /\ UNCHANGED <<pc, par, marks, status, pidOf, conf, byte, seen, fds>>
      BY <1>3, <2>4, PolicyShape
    <3>2. \A k \in Launches \ {l} : mnts'[k] = mnts[k] /\ left'[k] = left[k]
      BY <1>0, <3>1
    <3>3. \A k \in Launches \ {l} : NameOf(k) # NameOf(l) => disk'[NameOf(k)] = disk[NameOf(k)]
      BY <3>1, PutApart
    <3> QED BY <3>1, <3>2, <3>3 DEF Apart
  <2>5. CASE PivotRoot(l)
    <3>1. CASE \E new : /\ Proceed(l, new) /\ UNCHANGED <<conf, left, mnts, byte, seen, fds>>
                        /\ \/ disk' = [disk EXCEPT ![NameOf(l)] = disk[NameOf(l)] \ {"putold"}]
                           \/ UNCHANGED disk
      <4>1. \A k \in Launches \ {l} : NameOf(k) # NameOf(l) => disk'[NameOf(k)] = disk[NameOf(k)]
        BY <1>0, <3>1
      <4> QED BY <3>1, <4>1, ProceedApart
    <3>2. CASE /\ marks' = [marks EXCEPT ![l] = @ \cup {"leftold"}]
               /\ Over(l, "refused") /\ UNCHANGED disk
      BY <1>0, <3>2, OverApart
    <3> QED BY <1>3, <2>5, <3>1, <3>2, Places DEF PivotRoot, Fails, Blocked, Refuse, own
  <2>6. CASE \/ IsShell(l) /\ DeliverDaemonSidePolicies(l)
             \/ conf[l].sock # "none" /\ ConnectMonitorSocket(l)
    <3>1. PICK new, files : /\ Proceed(l, new) /\ fds' = Opened(l, "P", files)
                            /\ UNCHANGED <<conf, left, mnts, byte, seen, disk>>
      BY <1>3, <2>6, Places
         DEF DeliverDaemonSidePolicies, ConnectMonitorSocket, Fails, Blocked, Refuse, own
    <3>2. \A k \in Launches \ {l} : fds'[k] = fds[k]
      BY <1>0, <3>1 DEF Opened
    <3> QED BY <3>1, <3>2, ProceedApart
  <2>7. CASE ForkAfterUnshare(l) \/ ChildAfterFork(l) \/ ExecuteCommand(l)
    <3>1. UNCHANGED <<conf, left, mnts, byte, seen, marks, status, disk, pidOf>>
      BY <1>3, <2>7, Places
         DEF ForkAfterUnshare, ChildAfterFork, ExecuteCommand, Fails, Blocked, Refuse, own
    <3>2. \A k \in Launches \ {l} : pc'[k] = pc[k] /\ par'[k] = par[k] /\ fds'[k] = fds[k]
      <4>1. CASE ForkAfterUnshare(l)
        BY <1>0, <1>3, <4>1, Places DEF ForkAfterUnshare, Fails
      <4>2. CASE ChildAfterFork(l)
        BY <1>0, <4>2 DEF ChildAfterFork
      <4>3. CASE ExecuteCommand(l)
        BY <1>0, <1>3, <4>3, Places DEF ExecuteCommand, Fails, Blocked, Refuse
      <4> QED BY <2>7, <4>1, <4>2, <4>3
    <3> QED BY <3>1, <3>2 DEF Apart
  <2>8. CASE WaitForStartGate(l)
    <3>1. CASE /\ byte' = [byte EXCEPT ![l] = FALSE]
               /\ fds' = [fds EXCEPT ![l] = @ \ {<<"C", "gateR">>}]
               /\ Proceed(l, {}) /\ UNCHANGED <<conf, left, mnts, seen, disk>>
      <4>1. \A k \in Launches \ {l} : fds'[k] = fds[k] /\ byte'[k] = byte[k]
        BY <1>0, <3>1
      <4> QED BY <3>1, <4>1, ProceedApart
    <3>2. CASE Over(l, "unwatched") /\ UNCHANGED <<marks, disk>>
      BY <3>2, OverApart
    <3> QED BY <2>8, <3>1, <3>2 DEF WaitForStartGate
  <2>9. CASE conf[l].pidns /\ MountProcFs(l)
    <3>1. PICK new, mt : /\ Proceed(l, new) /\ mnts' = [mnts EXCEPT ![l] = mt]
                         /\ UNCHANGED <<conf, left, byte, seen, fds, disk>>
      BY <1>3, <2>9, Places DEF MountProcFs, Fails
    <3>2. \A k \in Launches \ {l} : mnts'[k] = mnts[k]
      BY <1>0, <3>1
    <3> QED BY <3>1, <3>2, ProceedApart
  <2>10. CASE ApplyEnvironment(l)
    <3>1. PICK p, ms : /\ pc' = [pc EXCEPT ![l] = p] /\ marks' = [marks EXCEPT ![l] = ms]
                       /\ UNCHANGED <<par, status, pidOf, conf, left, mnts, byte, seen, fds, disk>>
      BY <1>3, <2>10, Places DEF ApplyEnvironment, Fails, own
    <3> QED BY <1>0, <3>1 DEF Apart
  <2> QED BY <1>3, <2>1, <2>2, <2>3, <2>4, <2>5, <2>6, <2>7, <2>8, <2>9, <2>10 DEF Special
<1> QED BY <1>1, <1>2, <1>3, Kinds

(* The template's mounts are there once the step is done.                     *)
LEMMA SourcedAll ==
  ASSUME NEW i \in {16, 18}, NEW mt \in [Targets -> {"none", "rw", "ro", "own", "covered"}], NEW rest,
         NEW c, NEW b, NEW mt2, Sourced(i, mt, rest, c),
         mt2 = [t \in Targets |-> IF t \in DOMAIN b THEN b[t] ELSE mt[t]],
         i = 16 => /\ DOMAIN b = SystemMounts \cup (IF c.pidns THEN {} ELSE {"proc"})
                   /\ \A t \in DOMAIN b : b[t] = "rw",
         i = 18 => b = AppMounts
  PROVE  Sourced(i + 1, mt2, rest, c)
<1>0. /\ Template \subseteq Targets
      /\ \A t \in DOMAIN AppMounts : AppMounts[t] \in {"rw", "ro"}
  BY LaunchAssumption, Zenon
<1>1. /\ "proc" \in Targets /\ SystemMounts \subseteq Targets /\ DOMAIN AppMounts \subseteq Targets
      /\ \A t \in DOMAIN AppMounts : AppMounts[t] \in {"rw", "ro"}
  BY <1>0 DEF Template
<1>2. \A t \in Targets : mt2[t] = IF t \in DOMAIN b THEN b[t] ELSE mt[t]
  OBVIOUS
<1>3. /\ DOMAIN b \subseteq Template
      /\ \A t \in DOMAIN b : b[t] \in {"rw", "ro"}
      /\ \A t \in DOMAIN b : b[t] = "ro" => t \in DOMAIN AppMounts /\ AppMounts[t] = "ro"
  <2>1. CASE i = 16
    BY <2>1 DEF Template
  <2>2. CASE i = 18
    BY <1>1, <2>2 DEF Template
  <2> QED BY <2>1, <2>2
<1>4. PICK all, k : all = c.mounts /\ k = Len(c.mounts) - Len(rest)
  OBVIOUS
<1>5. Traced(mt2, all, k)
  <2> SUFFICES ASSUME NEW t \in Targets
               PROVE  /\ mt2[t] = "ro" =>
                           \/ t \in DOMAIN AppMounts /\ AppMounts[t] = "ro"
                           \/ \E j \in 1..k : Spot(all, j) = t /\ all[j].ro
                      /\ mt2[t] = "covered" =>
                           \E h \in 1..k : Spot(all, h) = t /\
                             \E j \in (h + 1)..k :
                               Spot(all, j) # t /\ <<t, Spot(all, j)>> \in Within
                      /\ mt2[t] # "none" => t \in Template \/ \E j \in 1..k : Spot(all, j) = t
    BY Zenon DEF Traced
  <2>1. Traced(mt, all, k)
    BY <1>4 DEF Sourced
  <2>2. CASE t \in DOMAIN b
    BY <1>2, <1>3, <2>2
  <2>3. CASE t \notin DOMAIN b
    <3>1. mt2[t] = mt[t]
      BY <1>2, <2>3
    <3> QED BY <2>1, <3>1, Zenon DEF Traced
  <2> QED BY <2>2, <2>3
<1>6. \A t \in Targets : mt[t] # "none" => mt2[t] # "none"
  BY <1>2, <1>3
<1>7. /\ i = 16 => /\ \A t \in SystemMounts : mt2[t] # "none"
                   /\ ~c.pidns => mt2["proc"] # "none"
      /\ i = 18 => \A t \in DOMAIN AppMounts : mt2[t] # "none"
  BY <1>1, <1>2, <1>3
<1>8. CASE i = 16
  BY <1>4, <1>5, <1>7, <1>8 DEF Sourced
<1>9. CASE i = 18
  BY <1>1, <1>4, <1>5, <1>6, <1>7, <1>9 DEF Sourced
<1> QED BY <1>8, <1>9

(* A policy mount accounts for what it makes read-only and for what it hides. *)
LEMMA TracedOn ==
  ASSUME NEW mt \in [Targets -> {"none", "rw", "ro", "own", "covered"}],
         NEW all, NEW k \in Nat, Traced(mt, all, k),
         NEW p \in PolicyMounts, p = all[k + 1],
         mt[p.target] # "none" =>
           /\ mt[p.target] # "covered" /\ Location[p.target] = p.target
           /\ mt[p.target] = "ro" => Mode(p) = "ro",
         mt[p.target] = "none" =>
           \E r \in DOMAIN Conditional :
             <<p.target, r>> \in Within /\ <<Location[p.target], r>> \in Within
  PROVE  Traced(MountedOver(mt, p), all, k + 1)
<1> DEFINE v == Location[p.target]
           mt2 == MountedOver(mt, p)
<1>1. /\ p.target \in Targets /\ v \in Targets /\ p.ro \in BOOLEAN
      /\ mt[p.target] # "none" =>
              \A t \in Targets : mt2[t] = IF t = p.target THEN Mode(p) ELSE mt[t]
      /\ mt[p.target] = "none" =>
              \A t \in Targets : mt2[t] =
                IF t = v THEN Mode(p)
                ELSE IF mt[t] # "none" /\ <<t, v>> \in Within THEN "covered" ELSE mt[t]
  BY MountedPoints
<1>2. /\ Mode(p) \in {"rw", "ro"} /\ (Mode(p) = "ro" => p.ro)
      /\ Spot(all, k + 1) = v /\ k + 1 \in 1..(k + 1)
  BY <1>1 DEF Mode, Spot
<1> HIDE DEF mt2
<1>3. mt2[v] = Mode(p)
  BY <1>1
<1> HIDE DEF v
<1>4. \A j \in 1..k : j \in 1..(k + 1) /\ k + 1 \in (j + 1)..(k + 1)
  OBVIOUS
<1>5. \A h \in 1..k : \A j \in (h + 1)..k : j \in (h + 1)..(k + 1)
  OBVIOUS
<1> SUFFICES ASSUME NEW t \in Targets
             PROVE  /\ mt2[t] = "ro" =>
                         \/ t \in DOMAIN AppMounts /\ AppMounts[t] = "ro"
                         \/ \E j \in 1..(k + 1) : Spot(all, j) = t /\ all[j].ro
                    /\ mt2[t] = "covered" =>
                         \E h \in 1..(k + 1) : Spot(all, h) = t /\
                           \E j \in (h + 1)..(k + 1) :
                             Spot(all, j) # t /\ <<t, Spot(all, j)>> \in Within
                    /\ mt2[t] # "none" =>
                         t \in Template \/ \E j \in 1..(k + 1) : Spot(all, j) = t
  BY Zenon DEF Traced, mt2
<1>6. CASE t = v
  <2>1. mt2[t] \in {"rw", "ro"} /\ (mt2[t] = "ro" => all[k + 1].ro) /\ Spot(all, k + 1) = t
    BY <1>2, <1>3, <1>6
  <2>2. mt2[t] # "covered"
    BY <2>1
  <2> QED BY <1>2, <2>1, <2>2, Zenon
<1>7. CASE mt2[t] = mt[t]
  BY <1>4, <1>5, <1>7, Zenon DEF Traced
<1>8. CASE t # v /\ mt2[t] # mt[t]
  <2>1. mt[p.target] = "none"
    BY <1>1, <1>8 DEF v
  <2>2. mt2[t] = "covered" /\ mt[t] # "none" /\ <<t, v>> \in Within
    BY <1>1, <1>8, <2>1
  <2>3. t \notin Template
    <3>1. PICK r \in DOMAIN Conditional : <<v, r>> \in Within
      BY <2>1 DEF v
    <3> QED BY <1>1, <2>2, <3>1, TemplateApart
  <2>4. PICK h \in 1..k : Spot(all, h) = t
    BY <2>2, <2>3 DEF Traced
  <2>5. Spot(all, k + 1) # t /\ <<t, Spot(all, k + 1)>> \in Within
    BY <1>2, <1>8, <2>2
  <2>6. mt2[t] # "ro"
    BY <2>2
  <2> QED BY <1>4, <2>4, <2>5, <2>6, Zenon
<1> QED BY <1>6, <1>7, <1>8

(* So it does in its launch.                                                  *)
LEMMA SourcedPolicy ==
  ASSUME TypeOK, NEW l \in Launches, left[l] # << >>, Permitted(l, Head(left[l])),
         Mounted(20, mnts[l], left[l], conf[l]), Sourced(20, mnts[l], left[l], conf[l])
  PROVE  Sourced(20, MountedOver(mnts[l], Head(left[l])), Tail(left[l]), conf[l])
<1>1. /\ conf[l] \in Configurations /\ left[l] \in Seq(PolicyMounts)
      /\ mnts[l] \in [Targets -> {"none", "rw", "ro", "own", "covered"}]
  BY ConfTyped DEF TypeOK
<1>2. PICK p, rest, all, mt, tl :
        /\ p = Head(left[l]) /\ rest = left[l] /\ all = conf[l].mounts /\ mt = mnts[l]
        /\ tl = Tail(left[l])
  OBVIOUS
<1> DEFINE mt2 == MountedOver(mt, p)
<1>3. /\ all \in Seq(PolicyMounts) /\ rest \in Seq(PolicyMounts) /\ rest # << >>
      /\ Applied(mt, rest, all) /\ Rooted(mt)
      /\ mt \in [Targets -> {"none", "rw", "ro", "own", "covered"}]
  BY <1>1, <1>2, MountsTyped DEF Mounted
<1>4. PICK n \in Nat, m \in Nat : n = Len(all) /\ m = Len(rest)
  BY <1>3
<1>5. p = rest[1] /\ Len(tl) = m - 1
  <2>1. p = Head(rest) /\ tl = Tail(rest)
    BY <1>2
  <2> QED BY <1>3, <1>4, <2>1
<1>6. m >= 1 /\ m <= n /\ p = all[(n - m) + 1] /\ p \in PolicyMounts
  BY <1>3, <1>4, <1>5 DEF Applied
<1>7. PICK k \in Nat : k = n - m /\ k + 1 = n - (m - 1)
  <2>1. n \in Nat /\ m \in Nat /\ m <= n
    BY <1>6
  <2>2. n - m \in Nat /\ (n - m) + 1 = n - (m - 1)
    BY ONLY <2>1
  <2> QED BY ONLY <2>2
<1>8. Traced(mt, all, k)
  BY <1>2, <1>4, <1>7 DEF Sourced
<1>9. /\ mt[p.target] # "none" =>
           /\ mt[p.target] # "covered" /\ Location[p.target] = p.target
           /\ mt[p.target] = "ro" => Mode(p) = "ro"
      /\ mt[p.target] = "none" =>
           \E r \in DOMAIN Conditional :
             <<p.target, r>> \in Within /\ <<Location[p.target], r>> \in Within
  BY <1>2, <1>3, <1>6, PermittedPlace, Zenon
<1>10. Traced(mt2, all, k + 1)
  BY <1>3, <1>6, <1>7, <1>8, <1>9, TracedOn
<1>11. Mode(p) \in {"rw", "ro"}
  BY DEF Mode
<1>12. /\ mt[p.target] # "none" =>
            \A t \in Targets : mt2[t] = IF t = p.target THEN Mode(p) ELSE mt[t]
       /\ mt[p.target] = "none" =>
            \A t \in Targets : mt2[t] =
              IF t = Location[p.target] THEN Mode(p)
              ELSE IF mt[t] # "none" /\ <<t, Location[p.target]>> \in Within THEN "covered"
              ELSE mt[t]
  BY <1>3, <1>6, MountedPoints
<1> HIDE DEF mt2
<1>13. \A t \in Targets : mt[t] # "none" => mt2[t] # "none"
  <2>1. CASE mt[p.target] # "none"
    BY <1>11, <1>12, <2>1
  <2>2. CASE mt[p.target] = "none"
    BY <1>11, <1>12, <2>2
  <2> QED BY <2>1, <2>2
<1>14. Template \subseteq Targets
  BY LaunchAssumption, Zenon
<1>15. /\ \A t \in SystemMounts : mt2[t] # "none"
       /\ ~conf[l].pidns => mt2["proc"] # "none"
       /\ \A t \in DOMAIN AppMounts : mt2[t] # "none"
  BY <1>2, <1>13, <1>14 DEF Sourced, Template
<1>16. Len(conf[l].mounts) - Len(tl) = k + 1 /\ conf[l].mounts = all
  BY <1>2, <1>4, <1>5, <1>7
<1>17. Sourced(20, mt2, tl, conf[l])
  BY <1>10, <1>15, <1>16 DEF Sourced
<1> QED BY <1>2, <1>17 DEF mt2

(* Every other step leaves its launch ready for the next one, too.            *)
LEMMA SpecialReady ==
  ASSUME TypeOK, GuardInv, ClearInv, NEW l \in Launches, Blameless(l), troubles = 0,
         troubles' = 0, Special(l), ~Fails(l)
  PROVE  /\ status'[l] \notin {"refused", "unwatched"}
         /\ Ready(pc'[l], par'[l], marks'[l], mnts'[l], left'[l], fds'[l], byte'[l], seen'[l],
                  disk'[NameOf(l)], conf[l])
<1>0. /\ DOMAIN pc = Launches /\ DOMAIN marks = Launches /\ DOMAIN mnts = Launches
      /\ DOMAIN left = Launches /\ DOMAIN fds = Launches /\ DOMAIN byte = Launches
      /\ DOMAIN seen = Launches /\ DOMAIN par = Launches /\ DOMAIN disk = Names
      /\ NameOf(l) \in Names
  BY ConfTyped DEF TypeOK
<1>1. /\ pc[l] # "over" =>
           /\ Ready(pc[l], par[l], marks[l], mnts[l], left[l], fds[l], byte[l], seen[l],
                    disk[NameOf(l)], conf[l])
           /\ Mounted(At(pc[l]), mnts[l], left[l], conf[l])
      /\ status[l] \notin {"refused", "unwatched"} /\ pidOf[l] = "caller"
  BY DEF ClearInv, GuardInv, Behind
<1>2. /\ seen[l] \in [label: Seen, proc: Seen, target: Seen, ns: Seen]
      /\ mnts[l] \in [Targets -> {"none", "rw", "ro", "own", "covered"}]
  BY DEF TypeOK
<1>3. ~Fault
  BY FaultCounts
\* A step that goes on with measures that no later step minds.
<1>4. ASSUME NEW step \in StepNames \ {"ExecuteCommand", "ForkAfterUnshare", "ChildAfterFork"},
             NEW new \in SUBSET (Measures \ {"uid", "seccomp"}), pc[l] = step, Proceed(l, new),
             LET i == At(step)
             IN  /\ Facing(i, seen[l]) => Facing(i + 1, seen'[l])
                 /\ Built(i, disk[NameOf(l)], marks[l]) => Built(i + 1, disk'[NameOf(l)], marks'[l])
                 /\ Sourced(i, mnts[l], left[l], conf[l])
                      => Sourced(i + 1, mnts'[l], left'[l], conf[l])
      PROVE  /\ status'[l] \notin {"refused", "unwatched"}
             /\ Ready(pc'[l], par'[l], marks'[l], mnts'[l], left'[l], fds'[l], byte'[l], seen'[l],
                      disk'[NameOf(l)], conf[l])
  <2>1. /\ pc'[l] = Onward[pc[l]] /\ marks'[l] = marks[l] \cup new /\ status' = status
    BY <1>0, <1>4 DEF Proceed
  <2>2. \A m \in {"uid", "seccomp"} : m \in marks'[l] => m \in marks[l]
    BY <1>4, <2>1
  <2>3. PICK i : i = At(pc[l])
    OBVIOUS
  <2>4. /\ Facing(i, seen[l]) => Facing(i + 1, seen'[l])
        /\ Built(i, disk[NameOf(l)], marks[l]) => Built(i + 1, disk'[NameOf(l)], marks'[l])
        /\ Sourced(i, mnts[l], left[l], conf[l]) => Sourced(i + 1, mnts'[l], left'[l], conf[l])
    BY <1>4, <2>3
  <2>5. Ready(pc'[l], par'[l], marks'[l], mnts'[l], left'[l], fds'[l], byte'[l], seen'[l],
              disk'[NameOf(l)], conf[l])
    BY <1>4, <2>1, <2>2, <2>3, <2>4, ProceedReady
  <2> QED BY <1>1, <2>1, <2>5
<1>5. CASE SetSelinuxMCS(l) \/ SetNs(l)
  <2>1. PICK step \in {"SetSelinuxMCS", "SetNs"}, new \in SUBSET {"label", "ns"} :
          /\ pc[l] = step /\ Proceed(l, new) /\ UNCHANGED <<left, mnts, disk>>
          /\ \/ seen' = [seen EXCEPT ![l] = [@ EXCEPT !.label = pidOf[l]]]
             \/ seen' = [seen EXCEPT ![l] = [@ EXCEPT !.ns = seen[l].proc]]
    BY <1>5, Places DEF SetSelinuxMCS, SetNs, Fails, Refuse, Blocked
  <2>2. seen'[l].proc = seen[l].proc /\ seen'[l].target = seen[l].target
    BY <1>0, <1>2, <2>1
  <2>3. PICK i \in {5, 11} : i = At(step)
    BY Numbers
  <2>4. marks'[l] = marks[l] \cup new
    BY <1>0, <2>1 DEF Proceed
  <2>5. /\ Facing(i, seen[l]) => Facing(i + 1, seen'[l])
        /\ Built(i, disk[NameOf(l)], marks[l]) => Built(i + 1, disk'[NameOf(l)], marks'[l])
        /\ Sourced(i, mnts[l], left[l], conf[l]) => Sourced(i + 1, mnts'[l], left'[l], conf[l])
    <3>1. Facing(i, seen[l]) => Facing(i + 1, seen'[l])
      BY <2>2 DEF Facing
    <3>2. /\ disk'[NameOf(l)] = disk[NameOf(l)] /\ mnts'[l] = mnts[l] /\ left'[l] = left[l]
          /\ marks[l] \subseteq marks'[l] /\ i \in Nat
      BY <2>1, <2>4
    <3> QED BY <3>1, <3>2, ReadyOnward
  <2>6. /\ step \in StepNames \ {"ExecuteCommand", "ForkAfterUnshare", "ChildAfterFork"}
        /\ new \in SUBSET (Measures \ {"uid", "seccomp"})
    BY Places DEF Measures
  <2> QED BY <1>4, <2>1, <2>3, <2>5, <2>6
<1>6. CASE OpenCallerProcDir(l) \/ ReadNamespaceId(l)
  <2>1. PICK step \in {"OpenCallerProcDir", "ReadNamespaceId"} :
          /\ pc[l] = step /\ Proceed(l, {}) /\ UNCHANGED <<left, mnts, disk>>
          /\ step = "OpenCallerProcDir" => seen' = [seen EXCEPT ![l] = [@ EXCEPT !.proc = pidOf[l]]]
          /\ step = "ReadNamespaceId" => seen' = [seen EXCEPT ![l] = [@ EXCEPT !.target = pidOf[l]]]
    BY <1>6, Places DEF OpenCallerProcDir, ReadNamespaceId, Fails, Refuse, Blocked
  <2>2. /\ step = "OpenCallerProcDir" => seen'[l].proc = "caller" /\ seen'[l].target = seen[l].target
        /\ step = "ReadNamespaceId" => seen'[l].proc = seen[l].proc /\ seen'[l].target = "caller"
    BY <1>0, <1>1, <1>2, <2>1
  <2>3. PICK i \in {8, 10} : /\ i = At(step) /\ (i = 8 => step = "OpenCallerProcDir")
                             /\ (i = 10 => step = "ReadNamespaceId")
    BY Numbers
  <2>4. marks'[l] = marks[l]
    BY <1>0, <2>1 DEF Proceed
  <2>5. /\ Facing(i, seen[l]) => Facing(i + 1, seen'[l])
        /\ Built(i, disk[NameOf(l)], marks[l]) => Built(i + 1, disk'[NameOf(l)], marks'[l])
        /\ Sourced(i, mnts[l], left[l], conf[l]) => Sourced(i + 1, mnts'[l], left'[l], conf[l])
    <3>1. Facing(i, seen[l]) => Facing(i + 1, seen'[l])
      BY <2>2, <2>3 DEF Facing
    <3>2. /\ disk'[NameOf(l)] = disk[NameOf(l)] /\ mnts'[l] = mnts[l] /\ left'[l] = left[l]
          /\ marks[l] \subseteq marks'[l] /\ i \in Nat
      BY <2>1, <2>4
    <3> QED BY <3>1, <3>2, ReadyOnward, SMTT(30)
  <2>6. step \in StepNames \ {"ExecuteCommand", "ForkAfterUnshare", "ChildAfterFork"}
    BY Places
  <2> QED BY <1>4, <2>1, <2>3, <2>5, <2>6
<1>7. CASE CreateSandboxDir(l) \/ MkdirPutOld(l) \/ MountSymLinks(l)
  <2>1. PICK step \in {"CreateSandboxDir", "MkdirPutOld", "MountSymLinks"},
             e \in {{"root"}, {"putold"}, {"root", "links"}} :
          /\ pc[l] = step /\ Proceed(l, {}) /\ UNCHANGED <<left, mnts, seen>>
          /\ disk' = [disk EXCEPT ![NameOf(l)] = @ \cup e]
          /\ step = "CreateSandboxDir" => e = {"root"}
          /\ step = "MkdirPutOld" => e = {"putold"}
          /\ step = "MountSymLinks" => e = {"root", "links"}
    <3>1. CASE CreateSandboxDir(l)
      <4>1. /\ pc[l] = "CreateSandboxDir" /\ Proceed(l, {}) /\ UNCHANGED <<left, mnts, seen>>
            /\ disk' = [disk EXCEPT ![NameOf(l)] = @ \cup {"root"}]
        BY <1>7, <3>1, Places DEF CreateSandboxDir, Fails, Refuse, Blocked, Put, own
      <4> QED BY <4>1
    <3>2. CASE MkdirPutOld(l)
      <4>1. /\ pc[l] = "MkdirPutOld" /\ Proceed(l, {}) /\ UNCHANGED <<left, mnts, seen>>
            /\ disk' = [disk EXCEPT ![NameOf(l)] = @ \cup {"putold"}]
        BY <1>7, <3>2, Places DEF MkdirPutOld, Fails, Refuse, Blocked, Put, own
      <4> QED BY <4>1
    <3>3. CASE MountSymLinks(l)
      <4>1. /\ pc[l] = "MountSymLinks" /\ Proceed(l, {}) /\ UNCHANGED <<left, mnts, seen>>
            /\ disk' = [disk EXCEPT ![NameOf(l)] = @ \cup {"root", "links"}]
        BY <1>7, <3>3, Places DEF MountSymLinks, Fails, Refuse, Blocked, Put, own
      <4> QED BY <4>1
    <3> QED BY <1>7, <3>1, <3>2, <3>3
  <2>2. disk'[NameOf(l)] = disk[NameOf(l)] \cup e
    BY <1>0, <2>1
  <2>3. PICK i \in {12, 13, 17} : /\ i = At(step) /\ (i = 12 => step = "CreateSandboxDir")
                                  /\ (i = 13 => step = "MkdirPutOld")
                                  /\ (i = 17 => step = "MountSymLinks")
    BY <2>1, Numbers
  <2>4. marks'[l] = marks[l]
    BY <1>0, <2>1 DEF Proceed
  <2>5. /\ Facing(i, seen[l]) => Facing(i + 1, seen'[l])
        /\ Built(i, disk[NameOf(l)], marks[l]) => Built(i + 1, disk'[NameOf(l)], marks'[l])
        /\ Sourced(i, mnts[l], left[l], conf[l]) => Sourced(i + 1, mnts'[l], left'[l], conf[l])
    <3>1. Built(i, disk[NameOf(l)], marks[l]) => Built(i + 1, disk'[NameOf(l)], marks'[l])
      <4>1. CASE i = 12
        BY <2>1, <2>2, <2>3, <2>4, <4>1 DEF Built
      <4>2. CASE i = 13
        BY <2>1, <2>2, <2>3, <2>4, <4>2 DEF Built
      <4>3. CASE i = 17
        BY <2>1, <2>2, <2>3, <2>4, <4>3 DEF Built
      <4> QED BY <4>1, <4>2, <4>3
    <3>2. /\ seen'[l] = seen[l] /\ mnts'[l] = mnts[l] /\ left'[l] = left[l]
          /\ marks[l] \subseteq marks'[l] /\ i \in Nat
      BY <2>1, <2>4
    <3> QED BY <3>1, <3>2, ReadyOnward
  <2>6. step \in StepNames \ {"ExecuteCommand", "ForkAfterUnshare", "ChildAfterFork"}
    BY <2>1, Places
  <2> QED BY <1>4, <2>1, <2>3, <2>5, <2>6
<1>8. CASE MountSystemDirs(l) \/ MountAppDirs(l)
  <2>1. PICK step, b :
          /\ step \in {"MountSystemDirs", "MountAppDirs"}
          /\ pc[l] = step /\ Proceed(l, {}) /\ UNCHANGED <<left, seen>>
          /\ disk' = [disk EXCEPT ![NameOf(l)] = @ \cup {"root", "dirs"}]
          /\ mnts' = [mnts EXCEPT ![l] =
                [t \in Targets |-> IF t \in DOMAIN b THEN b[t] ELSE mnts[l][t]]]
          /\ step = "MountSystemDirs" => b = BoundSystem(l)
          /\ step = "MountAppDirs" => b = AppMounts
    BY <1>8, MountsWhatItShould
  <2>2. disk'[NameOf(l)] = disk[NameOf(l)] \cup {"root", "dirs"} /\ left'[l] = left[l]
    BY <1>0, <2>1
  <2>3. PICK i \in {16, 18} : /\ i = At(step) /\ (i = 16 => step = "MountSystemDirs")
                              /\ (i = 18 => step = "MountAppDirs")
    BY <2>1, Numbers
  <2>4. marks'[l] = marks[l]
    BY <1>0, <2>1 DEF Proceed
  <2>5. i = 16 => /\ DOMAIN b = SystemMounts \cup (IF conf[l].pidns THEN {} ELSE {"proc"})
                  /\ \A t \in DOMAIN b : b[t] = "rw"
    BY <2>1, <2>3 DEF BoundSystem
  <2>6. i = 18 => b = AppMounts
    BY <2>1, <2>3
  <2>7. PICK mt2 : mt2 = [t \in Targets |-> IF t \in DOMAIN b THEN b[t] ELSE mnts[l][t]]
    OBVIOUS
  <2>8. mnts'[l] = mt2
    <3>1. mnts' = [mnts EXCEPT ![l] = mt2]
      BY <2>1, <2>7
    <3> QED BY <1>0, <3>1
  <2>9. Sourced(i, mnts[l], left[l], conf[l]) => Sourced(i + 1, mnts'[l], left'[l], conf[l])
    <3>1. mnts[l] \in [Targets -> {"none", "rw", "ro", "own", "covered"}]
      BY <1>2
    <3>2. Sourced(i, mnts[l], left[l], conf[l]) => Sourced(i + 1, mt2, left[l], conf[l])
      BY <2>5, <2>6, <2>7, <3>1, SourcedAll
    <3> QED BY <2>2, <2>8, <3>2
  <2>10. Facing(i, seen[l]) => Facing(i + 1, seen'[l])
    BY <2>1 DEF Facing
  <2>11. Built(i, disk[NameOf(l)], marks[l]) => Built(i + 1, disk'[NameOf(l)], marks'[l])
    BY <2>2, <2>4 DEF Built
  <2>12. step \in StepNames \ {"ExecuteCommand", "ForkAfterUnshare", "ChildAfterFork"}
    BY <2>1, Places
  <2> QED BY <1>4, <2>1, <2>3, <2>9, <2>10, <2>11, <2>12
<1>9. CASE left[l] # << >> /\ ApplyPolicyMounts(l)
  <2>1. /\ pc[l] = "ApplyPolicyMounts" /\ Permitted(l, Head(left[l]))
        /\ left' = [left EXCEPT ![l] = Tail(left[l])]
        /\ mnts' = [mnts EXCEPT ![l] = MountedOver(mnts[l], Head(left[l]))]
        /\ disk' = disk \/ Put(l, {"root", "dirs"})
        /\ UNCHANGED <<pc, par, marks, status, conf, byte, seen, fds>>
    BY <1>9, PolicyShape
  <2>2. PICK mt2 : mt2 = MountedOver(mnts[l], Head(left[l]))
    OBVIOUS
  <2>3. mnts'[l] = mt2 /\ left'[l] = Tail(left[l])
    <3>1. mnts' = [mnts EXCEPT ![l] = mt2] /\ left' = [left EXCEPT ![l] = Tail(left[l])]
      BY <2>1, <2>2
    <3> QED BY <1>0, <3>1
  <2>4. At(pc[l]) = 20 /\ pc[l] # "over"
    BY <2>1, Numbers
  <2>5. Sourced(20, mt2, Tail(left[l]), conf[l])
    <3>1. Mounted(20, mnts[l], left[l], conf[l]) /\ Sourced(20, mnts[l], left[l], conf[l])
      BY <1>1, <2>4 DEF Ready
    <3> QED BY <1>9, <2>1, <2>2, <3>1, SourcedPolicy
  <2>6. Awaited(pc'[l], par'[l], fds'[l], byte'[l], conf[l])
    BY <2>1 DEF Awaited
  <2>7. Built(20, disk'[NameOf(l)], marks[l])
    <3>1. Built(20, disk[NameOf(l)], marks[l])
      BY <1>1, <2>4 DEF Ready
    <3>2. disk[NameOf(l)] \subseteq disk'[NameOf(l)]
      <4>1. DOMAIN disk = Names /\ NameOf(l) \in Names
        BY ConfTyped DEF TypeOK
      <4> QED BY <2>1, <4>1 DEF Put
    <3> QED BY <3>1, <3>2 DEF Built
  <2> QED BY <1>1, <2>1, <2>3, <2>4, <2>5, <2>6, <2>7 DEF Ready
<1>10. CASE PivotRoot(l)
  <2>1. /\ pc[l] = "PivotRoot" /\ Proceed(l, {"pivot"}) /\ UNCHANGED <<left, mnts, seen>>
    BY <1>3, <1>10, Places DEF PivotRoot, Fails, Refuse, Blocked, own
  <2>2. PICK i : i = 21 /\ i = At("PivotRoot")
    BY Numbers
  <2>3. /\ Facing(i, seen[l]) => Facing(i + 1, seen'[l])
        /\ Built(i, disk[NameOf(l)], marks[l]) => Built(i + 1, disk'[NameOf(l)], marks'[l])
        /\ Sourced(i, mnts[l], left[l], conf[l]) => Sourced(i + 1, mnts'[l], left'[l], conf[l])
    <3>1. /\ i > 8 /\ i + 1 > 8 /\ i > 10 /\ i + 1 > 10 /\ i > 16 /\ i + 1 > 16
          /\ i > 18 /\ i + 1 > 18
          /\ ~(i + 1 <= 12) /\ ~(i + 1 <= 21) /\ ~(i + 1 <= 13) /\ ~(i + 1 <= 17)
      BY <2>2
    <3>2. seen'[l] = seen[l] /\ left'[l] = left[l] /\ mnts'[l] = mnts[l]
      BY <2>1
    <3> QED BY <3>1, <3>2, Zenon DEF Facing, Built, Sourced
  <2>4. /\ "PivotRoot" \in StepNames \ {"ExecuteCommand", "ForkAfterUnshare", "ChildAfterFork"}
        /\ {"pivot"} \in SUBSET (Measures \ {"uid", "seccomp"})
    BY Places DEF Measures
  <2> QED BY <1>4, <2>1, <2>2, <2>3, <2>4
<1>11. ASSUME NEW step \in {"DeliverDaemonSidePolicies", "ConnectMonitorSocket", "WaitForStartGate"},
              NEW new \in SUBSET {"policy"}, pc[l] = step, Proceed(l, new),
              UNCHANGED <<left, mnts, seen, disk>>
       PROVE  /\ status'[l] \notin {"refused", "unwatched"}
              /\ Ready(pc'[l], par'[l], marks'[l], mnts'[l], left'[l], fds'[l], byte'[l], seen'[l],
                       disk'[NameOf(l)], conf[l])
  <2>1. PICK i \in {23, 24, 27} : i = At(step)
    BY Numbers
  <2>2. /\ Facing(i, seen[l]) => Facing(i + 1, seen'[l])
        /\ Built(i, disk[NameOf(l)], marks[l]) => Built(i + 1, disk'[NameOf(l)], marks'[l])
        /\ Sourced(i, mnts[l], left[l], conf[l]) => Sourced(i + 1, mnts'[l], left'[l], conf[l])
    <3>1. i \in Nat /\ i + 1 \in Nat /\ i > 18
      OBVIOUS
    <3>2. Sourced(i, mnts[l], left[l], conf[l]) => Sourced(i + 1, mnts[l], left[l], conf[l])
      BY <3>1, SourcedLater
    <3>3. mnts'[l] = mnts[l] /\ left'[l] = left[l]
      BY <1>11
    <3> QED BY <1>11, <3>2, <3>3 DEF Facing, Built
  <2>3. /\ step \in StepNames \ {"ExecuteCommand", "ForkAfterUnshare", "ChildAfterFork"}
        /\ new \in SUBSET (Measures \ {"uid", "seccomp"})
    BY Places DEF Measures
  <2> QED BY <1>4, <1>11, <2>1, <2>2, <2>3
<1>12. CASE \/ IsShell(l) /\ DeliverDaemonSidePolicies(l)
            \/ conf[l].sock # "none" /\ ConnectMonitorSocket(l)
  <2>1. PICK step \in {"DeliverDaemonSidePolicies", "ConnectMonitorSocket"},
             new \in SUBSET {"policy"} :
          pc[l] = step /\ Proceed(l, new) /\ UNCHANGED <<left, mnts, seen, disk>>
    BY <1>12, Places
       DEF DeliverDaemonSidePolicies, ConnectMonitorSocket, Fails, Blocked, Refuse, own
  <2> QED BY <1>11, <2>1
<1>13. ASSUME NEW next \in {"ChildAfterFork", "WaitForStartGate", "MountProcFs"},
              pc[l] \in {"ForkAfterUnshare", "ChildAfterFork"}, pc'[l] = next,
              UNCHANGED <<left, mnts, seen, marks, disk, status>>,
              Awaited(next, par'[l], fds'[l], byte'[l], conf[l])
       PROVE  /\ status'[l] \notin {"refused", "unwatched"}
              /\ Ready(pc'[l], par'[l], marks'[l], mnts'[l], left'[l], fds'[l], byte'[l], seen'[l],
                       disk'[NameOf(l)], conf[l])
  <2>1. PICK i \in {25, 26}, j \in {26, 27, 28} : i = At(pc[l]) /\ j = At(next)
    BY <1>13, Numbers
  <2>2. /\ Fit(i, marks[l]) /\ Facing(i, seen[l]) /\ Sourced(i, mnts[l], left[l], conf[l])
    BY <1>1, <1>13, <2>1 DEF Ready
  <2>3. /\ Fit(j, marks[l]) /\ Facing(j, seen[l]) /\ Sourced(j, mnts[l], left[l], conf[l])
    <3>1. i \in Nat /\ j \in Nat /\ i > 18
      OBVIOUS
    <3>2. Sourced(j, mnts[l], left[l], conf[l])
      BY <2>2, <3>1, SourcedLater
    <3> QED BY <2>2, <3>2 DEF Fit, Facing
  <2>4. Built(j, disk[NameOf(l)], marks[l])
    BY DEF Built
  <2> QED BY <1>1, <1>13, <2>1, <2>3, <2>4 DEF Ready
<1>14. CASE ForkAfterUnshare(l)
  <2>1. /\ pc[l] = "ForkAfterUnshare" /\ UNCHANGED <<left, mnts, seen, marks, disk, status>>
        /\ \/ /\ par' = [par EXCEPT ![l] = "fresh"] /\ pc' = [pc EXCEPT ![l] = "ChildAfterFork"]
              /\ fds' = [fds EXCEPT ![l] = {"P", "C"} \X ({f[2] : f \in fds[l]}
                           \cup IF NeedsStartGate(l) THEN {"gateR", "gateW"} ELSE {})]
           \/ pc' = [pc EXCEPT ![l] = "MountProcFs"]
    BY <1>3, <1>14 DEF ForkAfterUnshare, own
  <2>2. CASE pc' = [pc EXCEPT ![l] = "MountProcFs"]
    BY <1>0, <1>13, <2>1, <2>2 DEF Awaited
  <2>3. CASE /\ par' = [par EXCEPT ![l] = "fresh"] /\ pc' = [pc EXCEPT ![l] = "ChildAfterFork"]
             /\ fds' = [fds EXCEPT ![l] = {"P", "C"} \X ({f[2] : f \in fds[l]}
                          \cup IF NeedsStartGate(l) THEN {"gateR", "gateW"} ELSE {})]
    <3>1. PICK files : /\ files = {f[2] : f \in fds[l]}
                            \cup IF NeedsStartGate(l) THEN {"gateR", "gateW"} ELSE {}
                       /\ fds' = [fds EXCEPT ![l] = {"P", "C"} \X files]
      BY <2>3
    <3>2. conf[l].type = "shell" => "gateR" \in files /\ "gateW" \in files
      BY <3>1 DEF NeedsStartGate, IsShell
    <3>3. fds'[l] = {"P", "C"} \X files /\ par'[l] = "fresh" /\ pc'[l] = "ChildAfterFork"
      BY <1>0, <2>3, <3>1
    <3>4. Awaited("ChildAfterFork", par'[l], fds'[l], byte'[l], conf[l])
      BY <3>2, <3>3 DEF Awaited
    <3> QED BY <1>13, <2>1, <3>3, <3>4
  <2> QED BY <2>1, <2>2, <2>3
<1>15. CASE ChildAfterFork(l)
  <2>1. /\ pc[l] = "ChildAfterFork"
        /\ fds'[l] = {f \in fds[l] : f[1] = "P" \/ f \in {<<"C", "gateR">>}}
        /\ pc'[l] \in {"WaitForStartGate", "MountProcFs"}
        /\ pc'[l] = "WaitForStartGate" => conf[l].type = "shell"
        /\ UNCHANGED <<left, mnts, seen, marks, disk, status, par, byte>>
    BY <1>0, <1>15 DEF ChildAfterFork, KeptByChild, own, NeedsStartGate, IsShell
  <2>2. Awaited("ChildAfterFork", par[l], fds[l], byte[l], conf[l])
    BY <1>1, <2>1 DEF Ready
  <2>3. Awaited(pc'[l], par'[l], fds'[l], byte'[l], conf[l])
    BY <2>1, <2>2 DEF Awaited
  <2> QED BY <1>13, <2>1, <2>3
<1>16. CASE WaitForStartGate(l)
  <2>1. CASE pc[l] = "WaitForStartGate" /\ Proceed(l, {}) /\ UNCHANGED <<left, mnts, seen, disk>>
    BY <1>11, <2>1
  <2>2. CASE /\ pc[l] = "WaitForStartGate" /\ ~byte[l] /\ {"P", "C"} \X {"gateW"} \cap fds[l] = {}
    <3>1. pc[l] # "over"
      BY <2>2
    <3>2. Awaited("WaitForStartGate", par[l], fds[l], byte[l], conf[l])
      BY <1>1, <2>2, <3>1 DEF Ready
    <3>3. byte[l] \/ <<"P", "gateW">> \in fds[l]
      BY <3>2 DEF Awaited
    <3>4. <<"P", "gateW">> \in {"P", "C"} \X {"gateW"}
      OBVIOUS
    <3> QED BY <2>2, <3>3, <3>4
  <2> QED BY <1>16, <2>1, <2>2 DEF WaitForStartGate
<1>17. CASE conf[l].pidns /\ MountProcFs(l)
  <2>1. /\ pc[l] = "MountProcFs" /\ Proceed(l, {}) /\ UNCHANGED <<left, seen, disk>>
        /\ mnts' = [mnts EXCEPT ![l] = [@ EXCEPT !["proc"] = "own"]]
    BY <1>17, Places DEF MountProcFs, Fails
  <2>2. PICK mt2 : mt2 = [mnts[l] EXCEPT !["proc"] = "own"]
    OBVIOUS
  <2>3. mnts'[l] = mt2 /\ left'[l] = left[l]
    <3>1. mnts' = [mnts EXCEPT ![l] = mt2]
      BY <2>1, <2>2
    <3> QED BY <1>0, <2>1, <3>1
  <2>4. /\ \A t \in Targets : t # "proc" => mt2[t] = mnts[l][t]
        /\ "proc" \in Targets => mt2["proc"] = "own"
    BY <1>2, <2>2
  <2>5. Template \subseteq Targets /\ "proc" \in Template
    BY LaunchAssumption, Zenon DEF Template
  <2>6. Sourced(28, mnts[l], left[l], conf[l]) => Sourced(29, mt2, left[l], conf[l])
    <3> SUFFICES ASSUME Sourced(28, mnts[l], left[l], conf[l])
                 PROVE  Sourced(29, mt2, left[l], conf[l])
      OBVIOUS
    <3>1. PICK all, k : all = conf[l].mounts /\ k = Len(conf[l].mounts) - Len(left[l])
      OBVIOUS
    <3>2. Traced(mnts[l], all, k)
      BY <3>1 DEF Sourced
    <3>3. mt2["proc"] = "own"
      BY <2>4, <2>5
    <3>4. Traced(mt2, all, k)
      <4>1. mt2["proc"] # "ro" /\ mt2["proc"] # "covered"
        BY <3>3
      <4> QED BY <2>4, <2>5, <3>2, <4>1, Zenon DEF Traced
    <3>5. /\ \A t \in SystemMounts : mt2[t] # "none"
          /\ ~conf[l].pidns => mt2["proc"] # "none"
          /\ \A t \in DOMAIN AppMounts : mt2[t] # "none"
      BY <2>4, <2>5, <3>3 DEF Sourced, Template
    <3> QED BY <3>1, <3>4, <3>5 DEF Sourced
  <2>7. PICK i : i = 28 /\ i = At("MountProcFs") /\ i + 1 = 29
    BY Numbers
  <2>8. /\ Facing(i, seen[l]) => Facing(i + 1, seen'[l])
        /\ Built(i, disk[NameOf(l)], marks[l]) => Built(i + 1, disk'[NameOf(l)], marks'[l])
    BY <2>1, <2>7 DEF Facing, Built
  <2>9. Sourced(i, mnts[l], left[l], conf[l]) => Sourced(i + 1, mnts'[l], left'[l], conf[l])
    BY <2>3, <2>6, <2>7
  <2>10. "MountProcFs" \in StepNames \ {"ExecuteCommand", "ForkAfterUnshare", "ChildAfterFork"}
    BY Places
  <2> QED BY <1>4, <2>1, <2>7, <2>8, <2>9, <2>10
<1>18. CASE ApplyEnvironment(l)
  <2>1. /\ pc[l] = "ApplyEnvironment" /\ pc'[l] = Onward[pc[l]]
        /\ marks'[l] = (marks[l] \ {"credenv"}) \cup {"env"}
        /\ UNCHANGED <<status, left, mnts, seen, disk>>
    BY <1>0, <1>18, Places DEF ApplyEnvironment, Fails, own
  <2>2. PICK i : i = 37 /\ i = At(pc[l])
    BY <2>1, Numbers
  <2>3. /\ Facing(i, seen[l]) => Facing(i + 1, seen'[l])
        /\ Built(i, disk[NameOf(l)], marks[l]) => Built(i + 1, disk'[NameOf(l)], marks'[l])
        /\ Sourced(i, mnts[l], left[l], conf[l]) => Sourced(i + 1, mnts'[l], left'[l], conf[l])
    <3>1. i \in Nat /\ i + 1 \in Nat /\ i > 18
      BY <2>2
    <3>2. Sourced(i, mnts[l], left[l], conf[l]) => Sourced(i + 1, mnts[l], left[l], conf[l])
      BY <3>1, SourcedLater
    <3>3. mnts'[l] = mnts[l] /\ left'[l] = left[l]
      BY <2>1
    <3> QED BY <2>1, <2>2, <3>2, <3>3 DEF Facing, Built
  <2>4. /\ pc[l] \in StepNames \ {"ExecuteCommand", "ForkAfterUnshare", "ChildAfterFork"}
        /\ \A m \in {"uid", "seccomp"} : m \in marks'[l] => m \in marks[l]
    BY <2>1, Places
  <2> QED BY <1>1, <2>1, <2>2, <2>3, <2>4, ProceedReady
<1>19. CASE ExecuteCommand(l)
  <2>1. /\ pc[l] = "ExecuteCommand" /\ pc'[l] = "running"
        /\ UNCHANGED <<left, mnts, byte, seen, par, marks, status, disk>>
    BY <1>0, <1>19, Places DEF ExecuteCommand, Fails, Blocked, Refuse, own
  <2>2. At(pc[l]) = 44 /\ At(pc'[l]) = 45
    BY <2>1, Numbers, AtSteps
  <2>3. Ready(pc[l], par[l], marks[l], mnts[l], left[l], fds[l], byte[l], seen[l],
              disk[NameOf(l)], conf[l])
    BY <1>1, <2>1
  <2>4. /\ Fit(45, marks[l]) /\ Facing(45, seen[l]) /\ Built(45, disk[NameOf(l)], marks[l])
        /\ Sourced(45, mnts[l], left[l], conf[l])
    <3>1. Sourced(44, mnts[l], left[l], conf[l])
      BY <2>2, <2>3 DEF Ready
    <3>2. Sourced(45, mnts[l], left[l], conf[l])
      BY <3>1, SourcedLater
    <3> QED BY <2>2, <2>3, <3>2 DEF Ready, Fit, Facing, Built
  <2>5. Awaited(pc'[l], par'[l], fds'[l], byte'[l], conf[l])
    BY <2>1 DEF Awaited
  <2> QED BY <1>1, <2>1, <2>2, <2>4, <2>5 DEF Ready
<1> QED BY <1>5, <1>6, <1>7, <1>8, <1>9, <1>10, <1>12, <1>14, <1>15, <1>16, <1>17, <1>18,
           <1>19 DEF Special

(* A step of a launch counts its fault, if it has one, and nothing else.      *)
LEMMA ExecuteTroubles ==
  ASSUME NEW l \in Launches, Execute(l)
  PROVE  Fault \/ UNCHANGED troubles
<1>1. CASE Fails(l)
  BY <1>1 DEF Fails
<1>2. CASE Passes(l)
  BY <1>2 DEF Passes
<1>3. CASE Special(l) /\ ~Fails(l)
  <2>1. CASE SetSelinuxMCS(l) \/ OpenCallerProcDir(l) \/ ReadNamespaceId(l) \/ SetNs(l)
    BY <2>1 DEF SetSelinuxMCS, OpenCallerProcDir, ReadNamespaceId, SetNs, Refuse
  <2>2. CASE CreateSandboxDir(l) \/ MkdirPutOld(l) \/ MountSymLinks(l)
    BY <2>2 DEF CreateSandboxDir, MkdirPutOld, MountSymLinks, Refuse
  <2>3. CASE MountSystemDirs(l) \/ MountAppDirs(l)
    BY <2>3 DEF MountSystemDirs, MountAppDirs, MountAll
  <2>4. CASE left[l] # << >> /\ ApplyPolicyMounts(l)
    BY <2>4 DEF ApplyPolicyMounts, Refuse
  <2>5. CASE PivotRoot(l)
    BY <2>5 DEF PivotRoot, Refuse
  <2>6. CASE \/ IsShell(l) /\ DeliverDaemonSidePolicies(l)
             \/ conf[l].sock # "none" /\ ConnectMonitorSocket(l)
    BY <2>6 DEF DeliverDaemonSidePolicies, ConnectMonitorSocket, Refuse
  <2>7. CASE ForkAfterUnshare(l) \/ ChildAfterFork(l) \/ ExecuteCommand(l)
    BY <2>7 DEF ForkAfterUnshare, ChildAfterFork, ExecuteCommand, Refuse
  <2>8. CASE WaitForStartGate(l)
    BY <2>8 DEF WaitForStartGate
  <2>9. CASE conf[l].pidns /\ MountProcFs(l)
    BY <2>9 DEF MountProcFs
  <2>10. CASE ApplyEnvironment(l)
    BY <2>10 DEF ApplyEnvironment
  <2> QED BY <1>3, <2>1, <2>2, <2>3, <2>4, <2>5, <2>6, <2>7, <2>8, <2>9, <2>10 DEF Special
<1> QED BY <1>1, <1>2, <1>3, Kinds

(* Without a fault a launch that is not to blame goes on.                     *)
LEMMA ExecuteClear ==
  ASSUME TypeOK, GuardInv, ClearInv, NEW l \in Launches, Execute(l)
  PROVE  ClearInv'
<1>1. Apart(l) /\ UNCHANGED <<conf, pidOf>>
  BY ExecuteApart
<1>2. troubles' = 0 => troubles = 0 /\ ~Fault
  BY ExecuteTroubles, FaultCounts
<1>3. ASSUME troubles' = 0, Blameless(l)
      PROVE  /\ status'[l] \notin {"refused", "unwatched"}
             /\ Ready(pc'[l], par'[l], marks'[l], mnts'[l], left'[l], fds'[l], byte'[l],
                      seen'[l], disk'[NameOf(l)], conf[l])
  <2>1. troubles = 0 /\ ~Fault
    BY <1>2, <1>3
  <2>2. ~Fails(l)
    BY <1>3, <2>1, Unblocked DEF Fails
  <2>3. CASE Passes(l)
    BY <1>3, <2>1, <2>3, PassesReady
  <2>4. CASE Special(l)
    BY <1>3, <2>1, <2>2, <2>4, SpecialReady
  <2> QED BY <2>2, <2>3, <2>4, Kinds
<1> QED BY <1>1, <1>2, <1>3, ClearFrame

(* Without a fault the parent of a waiting child opens the gate.              *)
LEMMA ParentClear ==
  ASSUME TypeOK, EndsInv, ClearInv, NEW l \in Launches, Parent(l) \/ KillParent(l)
  PROVE  ClearInv'
<1>0. /\ DOMAIN par = Launches /\ DOMAIN marks = Launches /\ DOMAIN fds = Launches
      /\ DOMAIN byte = Launches
  BY DEF TypeOK
<1>1. Fault \/ UNCHANGED troubles
  BY DEF Parent, ParentAfterFork, MonitorInit, ReleaseStartGate, MonitorRun, WaitForChildExit,
         KillParent
<1>2. troubles' = 0 => troubles = 0 /\ ~Fault
  BY <1>1, FaultCounts
<1>3. PICK from, to : ParentStep(l, from, to)
  BY DEF Parent, ParentAfterFork, MonitorInit, ReleaseStartGate, MonitorRun, WaitForChildExit,
         KillParent
<1>4. /\ UNCHANGED <<conf, left, mnts, seen, pc, status, disk, pidOf>>
      /\ marks'[l] = marks[l] \/ marks'[l] = marks[l] \cup {"watched"}
      /\ \A k \in Launches \ {l} : par'[k] = par[k] /\ marks'[k] = marks[k]
  BY <1>0, <1>3 DEF ParentStep
<1>5. \A k \in Launches \ {l} : fds'[k] = fds[k] /\ byte'[k] = byte[k]
  BY <1>0 DEF Parent, ParentAfterFork, MonitorInit, CloseStartGate, ReleaseStartGate, MonitorRun,
              WaitForChildExit, KillParent
<1>6. Apart(l)
  BY <1>4, <1>5 DEF Apart
<1>7. ASSUME troubles' = 0, Blameless(l)
      PROVE  /\ status'[l] \notin {"refused", "unwatched"}
             /\ pc'[l] # "over" =>
                  Ready(pc'[l], par'[l], marks'[l], mnts'[l], left'[l], fds'[l], byte'[l],
                        seen'[l], disk'[NameOf(l)], conf[l])
  <2>1. /\ status[l] \notin {"refused", "unwatched"}
        /\ pc[l] # "over" =>
             Ready(pc[l], par[l], marks[l], mnts[l], left[l], fds[l], byte[l], seen[l],
                   disk[NameOf(l)], conf[l])
    BY <1>2, <1>7 DEF ClearInv
  <2>2. CASE pc[l] = "over"
    BY <1>4, <2>1, <2>2
  <2>3. ASSUME pc[l] # "over"
        PROVE  Awaited(pc[l], par'[l], fds'[l], byte'[l], conf[l])
    <3>1. Awaited(pc[l], par[l], fds[l], byte[l], conf[l]) /\ status[l] = "none"
      BY <2>1, <2>3 DEF Ready, EndsInv, Settled
    <3>2. CASE ParentAfterFork(l)
      <4>1. /\ par'[l] = IF conf[l].type = "shell" THEN "init" ELSE "wait"
            /\ par[l] = "fresh" /\ byte'[l] = byte[l] /\ fds'[l] = fds[l] \ {<<"P", "gateR">>}
        BY <1>0, <3>2 DEF ParentAfterFork, ParentStep, IsShell
      <4> QED BY <3>1, <4>1 DEF Awaited
    <3>3. CASE MonitorInit(l)
      <4>1. par'[l] = "release" /\ par[l] = "init" /\ UNCHANGED <<fds, byte>>
        BY <1>0, <1>2, <1>7, <3>3 DEF MonitorInit, ParentStep
      <4> QED BY <3>1, <4>1 DEF Awaited
    <3>4. CASE ReleaseStartGate(l)
      <4>1. /\ par'[l] = "watch" /\ par[l] = "release" /\ fds'[l] = fds[l] \ {<<"P", "gateW">>}
            /\ <<"C", "gateR">> \in fds[l] => byte'[l] = TRUE
        BY <1>0, <1>2, <1>7, <3>4 DEF ReleaseStartGate, ParentStep
      <4> QED BY <3>1, <4>1 DEF Awaited
    <3>5. ~MonitorRun(l) /\ ~WaitForChildExit(l) /\ ~KillParent(l)
      BY <1>2, <1>7, <3>1 DEF MonitorRun, WaitForChildExit, Reapable, KillParent
    <3> QED BY <3>2, <3>3, <3>4, <3>5 DEF Parent
  <2>4. ASSUME pc[l] # "over"
        PROVE  Ready(pc[l], par'[l], marks'[l], mnts[l], left[l], fds'[l], byte'[l], seen[l],
                     disk[NameOf(l)], conf[l])
    <3>1. Fit(At(pc[l]), marks'[l]) /\ Built(At(pc[l]), disk[NameOf(l)], marks'[l])
      <4>1. PICK i : i = At(pc[l])
        OBVIOUS
      <4>2. Fit(i, marks[l]) /\ Built(i, disk[NameOf(l)], marks[l])
        BY <2>1, <2>4, <4>1 DEF Ready
      <4>3. Fit(i, marks'[l])
        BY <1>4, <4>2 DEF Fit
      <4>4. Built(i, disk[NameOf(l)], marks'[l])
        BY <1>4, <4>2 DEF Built
      <4> QED BY <4>1, <4>3, <4>4
    <3> QED BY <2>1, <2>3, <2>4, <3>1 DEF Ready
  <2> QED BY <1>4, <2>1, <2>4
<1> QED BY <1>2, <1>4, <1>6, <1>7, ClearFrame

(* Every step keeps the blameless launches ready.                             *)
LEMMA ClearStep ==
  ASSUME TypeOK, EndsInv, GuardInv, ClearInv, [Next]_vars
  PROVE  ClearInv'
<1>1. CASE UNCHANGED vars
  <2>1. \A k \in Launches : (Blameless(k)' <=> Blameless(k)) /\ NameOf(k)' = NameOf(k)
    BY <1>1, BlamelessStays DEF vars
  <2> QED BY <1>1, <2>1 DEF vars, ClearInv
<1>2. ASSUME NEW l \in Launches, Execute(l)
      PROVE  ClearInv'
  BY <1>2, ExecuteClear
<1>3. ASSUME NEW l \in Launches, Parent(l) \/ KillParent(l)
      PROVE  ClearInv'
  BY <1>3, ParentClear
<1>4. ASSUME NEW l \in Launches, CommandExits(l)
      PROVE  ClearInv'
  <2>1. Over(l, "exit") /\ UNCHANGED <<marks, disk, troubles>>
    BY <1>4 DEF CommandExits
  <2>2. Apart(l) /\ UNCHANGED <<conf, pidOf>>
    BY <2>1, OverApart
  <2>3. pc'[l] = "over" /\ status'[l] = "exit"
    BY <2>1 DEF Over, TypeOK
  <2> QED BY <2>1, <2>2, <2>3, ClearFrame
<1>5. ASSUME Fault
      PROVE  ClearInv'
  BY <1>5, FaultCounts DEF ClearInv
<1>6. ASSUME NEW l \in Launches, KillStepper(l) \/ PidReused(l)
      PROVE  ClearInv'
  BY <1>5, <1>6 DEF KillStepper, PidReused
<1>7. ASSUME NEW n \in Names, DeleteSandboxDir(n)
      PROVE  ClearInv'
  BY <1>5, <1>7 DEF DeleteSandboxDir
<1> QED BY <1>1, <1>2, <1>3, <1>4, <1>6, <1>7 DEF Next, Environment

(* Every launch is ready for the first step.                                  *)
LEMMA ClearInit == Init => ClearInv
<1> SUFFICES ASSUME Init, NEW l \in Launches
             PROVE  /\ pidOf[l] = "caller" /\ status[l] \notin {"refused", "unwatched"}
                    /\ Ready(pc[l], par[l], marks[l], mnts[l], left[l], fds[l], byte[l], seen[l],
                             disk[NameOf(l)], conf[l])
  BY DEF ClearInv
<1>1. NameOf(l) \in Names
  <2>1. conf[l] \in Configurations /\ AutoName[l] \in Names
    BY LaunchAssumption DEF Init
  <2>2. conf[l].name \in Names \cup {""}
    BY <2>1 DEF Configurations
  <2> QED BY <2>1, <2>2 DEF NameOf
<1>2. /\ pc[l] = "ParseArguments" /\ par[l] = "none" /\ marks[l] = {}
      /\ \A t \in Targets : mnts[l][t] = "none"
      /\ pidOf[l] = "caller" /\ status[l] = "none" /\ disk[NameOf(l)] = {}
  BY <1>1, StepLists DEF Init
<1>3. At("ParseArguments") = 1
  BY Numbers
<1>4. Fit(1, marks[l]) /\ Facing(1, seen[l]) /\ Built(1, disk[NameOf(l)], marks[l])
  BY <1>2 DEF Fit, Facing, Built
<1>5. Sourced(1, mnts[l], left[l], conf[l])
  BY <1>2 DEF Sourced, Traced
<1>6. Awaited(pc[l], par[l], fds[l], byte[l], conf[l])
  BY <1>2 DEF Awaited
<1> QED BY <1>2, <1>3, <1>4, <1>5, <1>6 DEF Ready

(* RefusalHasCause for every number of launches, every template and every     *)
(* configuration: a launch that met no fault and whose configuration and name *)
(* give no reason is never refused, nor given up at the start gate.           *)
THEOREM RefusalsAreDeserved == Spec => []RefusalHasCause
<1>1. Init => GuardInv /\ ClearInv
  BY GuardInit, ClearInit
<1>2. TypeOK /\ EndsInv /\ GuardInv /\ ClearInv /\ [Next]_vars => GuardInv' /\ ClearInv'
  BY GuardStep, ClearStep
<1>3. TypeOK /\ ClearInv => RefusalHasCause
  <2> SUFFICES ASSUME TypeOK, ClearInv, NEW l \in Launches,
                      status[l] \in {"refused", "unwatched"}
               PROVE  Deserved(l)
    BY DEF RefusalHasCause
  <2>1. troubles = 0 => ~Blameless(l)
    BY DEF ClearInv
  <2>2. troubles \in 0..MaxTroubles /\ MaxTroubles \in Nat
    BY LaunchAssumption DEF TypeOK
  <2>3. troubles = 0 \/ troubles > 0
    BY <2>2
  <2> QED BY <2>1, <2>3 DEF Blameless, Deserved
<1> QED BY <1>1, <1>2, <1>3, EndsAlways, PTL DEF Spec
-----------------------------------------------------------------------------
(***************************************************************************)
(* The system call filter SetSeccomp installs, for every allow list and    *)
(* every call.  A run of the kernel's machine is a function from step      *)
(* numbers to states; Visits says that it comes to an instruction with a   *)
(* value loaded.  The head decides about the architecture, the allow list  *)
(* about the calls it has, by the least place of one, the section behind   *)
(* it about the calls that change the user, wherever it stands.            *)
(***************************************************************************)

(* A nonempty set of numbers has a least one.                                *)
LEMMA LeastNat ==
  ASSUME NEW T, T \subseteq Nat, T # {}
  PROVE  \E x \in T : \A y \in T : x <= y
<1> DEFINE R == OpToRel(<, Nat)
<1>1. IsWellFoundedOn(R, Nat)
  BY NatLessThanWellFounded
<1>2. \A x, y \in Nat : y < x => <<y, x>> \in R
  BY DEF OpToRel
<1> HIDE DEF R
<1>3. PICK x \in T : \A y \in T : ~ (<<y, x>> \in R)
  BY <1>1, WFMin
<1>4. ASSUME NEW y \in T PROVE x <= y
  <2>1. x \in Nat /\ y \in Nat
    OBVIOUS
  <2>2. ~ (y < x)
    BY <1>2, <1>3, <2>1, Zenon
  <2> QED BY <2>1, <2>2
<1> QED BY <1>4

(* The states the machine goes through.                                      *)
RunTo(program, call, n, f) ==
  f = [i \in 0..n |-> IF i = 0 THEN MachineStart ELSE Advance(program, call, f[i - 1])]

(* A run of the machine, of any length, exists.                              *)
LEMMA RunExists ==
  ASSUME NEW program, NEW call, NEW l \in Nat
  PROVE  \E f : RunTo(program, call, l, f)
<1> DEFINE T == {n \in Nat : ~ \E f : RunTo(program, call, n, f)}
<1> SUFFICES ASSUME T # {} PROVE FALSE
  OBVIOUS
<1>1. PICK x \in T : \A y \in T : x <= y
  BY LeastNat
<1>2. CASE x = 0
  <2> DEFINE g == [i \in 0..0 |-> MachineStart]
  <2>1. RunTo(program, call, 0, g)
    BY DEF RunTo
  <2> QED
    BY <1>2, <2>1
<1>3. CASE x # 0
  <2>1. x - 1 \in Nat /\ ~ (x <= x - 1) /\ x \in Nat
    BY <1>3
  <2>2. PICK g : RunTo(program, call, x - 1, g)
    BY <1>1, <2>1
  <2> DEFINE f == [i \in 0..x |-> IF i = x THEN Advance(program, call, g[x - 1]) ELSE g[i]]
  <2>3. \A i \in 0..x : f[i] = IF i = 0 THEN MachineStart ELSE Advance(program, call, f[i - 1])
    <3> SUFFICES ASSUME NEW i \in 0..x
                 PROVE f[i] = IF i = 0 THEN MachineStart ELSE Advance(program, call, f[i - 1])
      OBVIOUS
    <3>1. CASE i = x
      <4>1. i - 1 \in 0..x /\ i - 1 # x /\ i # 0
        BY <2>1, <3>1, <1>3
      <4>2. f[i - 1] = g[x - 1]
        BY <4>1, <3>1
      <4>3. f[i] = Advance(program, call, g[x - 1])
        BY <3>1
      <4> QED
        BY <4>1, <4>2, <4>3, Zenon
    <3>2. CASE i # x
      <4>1. i \in 0..(x - 1)
        BY <2>1, <3>2
      <4>2. f[i] = g[i]
        BY <3>2
      <4>3. g[i] = IF i = 0 THEN MachineStart ELSE Advance(program, call, g[i - 1])
        BY <2>2, <4>1, Zenon DEF RunTo
      <4>4. CASE i = 0
        BY <4>2, <4>3, <4>4, Zenon
      <4>5. CASE i # 0
        <5>1. i - 1 \in 0..x /\ i - 1 # x
          BY <4>1, <4>5, <2>1
        <5>2. f[i - 1] = g[i - 1]
          BY <5>1
        <5> QED
          BY <4>2, <4>3, <4>5, <5>2, Zenon
      <4> QED
        BY <4>4, <4>5
    <3> QED
      BY <3>1, <3>2
  <2>4. f = [i \in 0..x |-> f[i]]
    OBVIOUS
  <2> HIDE DEF f
  <2>5. RunTo(program, call, x, f)
    BY <2>3, <2>4, Zenon DEF RunTo
  <2> QED
    BY <2>5
<1> QED
  BY <1>2, <1>3

(* RunFilter is where such a run of the length of the program ends.          *)
LEMMA FilterRuns ==
  ASSUME NEW program, NEW call, Len(program) \in Nat
  PROVE  \E f : /\ f[0] = MachineStart
                /\ \A n \in 1..Len(program) : f[n] = Advance(program, call, f[n - 1])
                /\ RunFilter(program, call) = f[Len(program)].verdict
<1> DEFINE f == CHOOSE g : RunTo(program, call, Len(program), g)
<1>1. RunTo(program, call, Len(program), f)
  BY RunExists, Zenon
<1>2. RunFilter(program, call) = f[Len(program)].verdict
  BY DEF RunFilter, RunTo
<1> HIDE DEF f
<1>3. f[0] = MachineStart
  BY <1>1 DEF RunTo
<1>4. ASSUME NEW n \in 1..Len(program) PROVE f[n] = Advance(program, call, f[n - 1])
  <2>1. n \in 0..Len(program) /\ n # 0
    OBVIOUS
  <2> QED
    BY <1>1, <2>1, Zenon DEF RunTo
<1> QED
  BY <1>2, <1>3, <1>4

(* A run of the machine, as its states are named below.                      *)
Runs(program, call, f) ==
  /\ f[0] = MachineStart
  /\ \A n \in 1..Len(program) : f[n] = Advance(program, call, f[n - 1])

(* The run comes to an instruction with a value in its register.             *)
Visits(program, f, at, acc) ==
  \E n \in 0..Len(program) : n < at /\ f[n] = [pc |-> at, acc |-> acc, verdict |-> "none"]

(* A run starts at the first instruction, with nothing loaded.               *)
LEMMA Starts ==
  ASSUME NEW program, NEW call, NEW f, Len(program) \in Nat, Runs(program, call, f)
  PROVE  Visits(program, f, 1, 0)
<1>1. 0 \in 0..Len(program) /\ 0 < 1
  OBVIOUS
<1>2. f[0] = [pc |-> 1, acc |-> 0, verdict |-> "none"]
  BY Zenon DEF Runs, MachineStart
<1> QED
  BY <1>1, <1>2, Zenon DEF Visits

(* What the step from an instruction leads to, is visited.                   *)
LEMMA LeadsOn ==
  ASSUME NEW program, NEW call, NEW f, Len(program) \in Nat, Runs(program, call, f),
         NEW at \in 1..Len(program), NEW acc, Visits(program, f, at, acc),
         NEW to \in Nat, NEW val, at < to,
         Advance(program, call, [pc |-> at, acc |-> acc, verdict |-> "none"])
           = [pc |-> to, acc |-> val, verdict |-> "none"]
  PROVE  Visits(program, f, to, val)
<1>1. PICK n \in 0..Len(program) :
        n < at /\ f[n] = [pc |-> at, acc |-> acc, verdict |-> "none"]
  BY Zenon DEF Visits
<1>2. n + 1 \in 1..Len(program) /\ n + 1 < to /\ (n + 1) - 1 = n /\ n + 1 \in 0..Len(program)
  BY <1>1
<1>3. f[n + 1] = [pc |-> to, acc |-> val, verdict |-> "none"]
  BY <1>1, <1>2, Zenon DEF Runs
<1> QED
  BY <1>2, <1>3, Zenon DEF Visits

(* A load goes on with the field of the call in the register.                *)
LEMMA Loads ==
  ASSUME NEW program, NEW call, NEW f, Len(program) \in Nat, Runs(program, call, f),
         NEW at \in 1..Len(program), NEW acc, Visits(program, f, at, acc),
         NEW field, program[at] = Fetch(field)
  PROVE  Visits(program, f, at + 1, call[field])
<1>1. Advance(program, call, [pc |-> at, acc |-> acc, verdict |-> "none"])
        = [pc |-> at + 1, acc |-> call[field], verdict |-> "none"]
  <2> DEFINE m == [pc |-> at, acc |-> acc, verdict |-> "none"]
  <2>1. program[at].op = "ld" /\ program[at].k = field
    BY DEF Fetch
  <2>2. m.pc = at /\ m.verdict = "none" /\ ~ (m.pc > Len(program))
    OBVIOUS
  <2>3. Advance(program, call, m) = [pc |-> m.pc + 1, acc |-> call[field], verdict |-> "none"]
    <3>1. "ld" # "ret"
      OBVIOUS
    <3> HIDE DEF m
    <3> QED
      BY <2>1, <2>2, <3>1, Zenon DEF Advance
  <2> QED
    BY <2>2, <2>3, Zenon
<1>2. at + 1 \in Nat /\ at < at + 1
  OBVIOUS
<1> QED
  BY <1>1, <1>2, LeadsOn

(* A comparison for equality goes on behind one of its two distances.        *)
LEMMA Equals ==
  ASSUME NEW program, NEW call, NEW f, Len(program) \in Nat, Runs(program, call, f),
         NEW at \in 1..Len(program), NEW acc, Visits(program, f, at, acc),
         NEW k, NEW jt \in Nat, NEW jf \in Nat, program[at] = Jump("jeq", k, jt, jf)
  PROVE  /\ acc = k => Visits(program, f, at + 1 + jt, acc)
         /\ acc # k => Visits(program, f, at + 1 + jf, acc)
<1>1. ASSUME acc = k PROVE Visits(program, f, at + 1 + jt, acc)
  <2>1. Advance(program, call, [pc |-> at, acc |-> acc, verdict |-> "none"])
          = [pc |-> at + 1 + jt, acc |-> acc, verdict |-> "none"]
    BY <1>1 DEF Advance, Jump
  <2>2. at + 1 + jt \in Nat /\ at < at + 1 + jt
    OBVIOUS
  <2> QED
    BY <2>1, <2>2, LeadsOn
<1>2. ASSUME acc # k PROVE Visits(program, f, at + 1 + jf, acc)
  <2>1. Advance(program, call, [pc |-> at, acc |-> acc, verdict |-> "none"])
          = [pc |-> at + 1 + jf, acc |-> acc, verdict |-> "none"]
    BY <1>2 DEF Advance, Jump
  <2>2. at + 1 + jf \in Nat /\ at < at + 1 + jf
    OBVIOUS
  <2> QED
    BY <2>1, <2>2, LeadsOn
<1> QED
  BY <1>1, <1>2

(* The same, with names for the two places.                                  *)
LEMMA Forks ==
  ASSUME NEW program, NEW call, NEW f, Len(program) \in Nat, Runs(program, call, f),
         NEW at \in 1..Len(program), NEW acc, Visits(program, f, at, acc),
         NEW k, NEW jf \in Nat, program[at] = Jump("jeq", k, 0, jf),
         NEW on, NEW skip, on = at + 1 + 0, skip = at + 1 + jf
  PROVE  /\ acc = k => Visits(program, f, on, acc)
         /\ acc # k => Visits(program, f, skip, acc)
<1>1. 0 \in Nat
  OBVIOUS
<1>2. /\ acc = k => Visits(program, f, at + 1 + 0, acc)
      /\ acc # k => Visits(program, f, at + 1 + jf, acc)
  BY <1>1, Equals
<1> QED
  BY <1>2

(* So does a comparison with a limit.                                        *)
LEMMA AtLeast ==
  ASSUME NEW program, NEW call, NEW f, Len(program) \in Nat, Runs(program, call, f),
         NEW at \in 1..Len(program), NEW acc \in Nat, Visits(program, f, at, acc),
         NEW k \in Nat, NEW jt \in Nat, NEW jf \in Nat, program[at] = Jump("jge", k, jt, jf)
  PROVE  /\ acc >= k => Visits(program, f, at + 1 + jt, acc)
         /\ acc < k => Visits(program, f, at + 1 + jf, acc)
<1>1. ASSUME acc >= k PROVE Visits(program, f, at + 1 + jt, acc)
  <2>1. Advance(program, call, [pc |-> at, acc |-> acc, verdict |-> "none"])
          = [pc |-> at + 1 + jt, acc |-> acc, verdict |-> "none"]
    BY <1>1 DEF Advance, Jump
  <2>2. at + 1 + jt \in Nat /\ at < at + 1 + jt
    OBVIOUS
  <2> QED
    BY <2>1, <2>2, LeadsOn
<1>2. ASSUME acc < k PROVE Visits(program, f, at + 1 + jf, acc)
  <2>0. ~ (acc >= k)
    BY <1>2
  <2>1. Advance(program, call, [pc |-> at, acc |-> acc, verdict |-> "none"])
          = [pc |-> at + 1 + jf, acc |-> acc, verdict |-> "none"]
    BY <2>0 DEF Advance, Jump
  <2>2. at + 1 + jf \in Nat /\ at < at + 1 + jf
    OBVIOUS
  <2> QED
    BY <2>1, <2>2, LeadsOn
<1> QED
  BY <1>1, <1>2

(* A return that is visited is the verdict, whatever follows it.             *)
LEMMA Returns ==
  ASSUME NEW program, NEW call, NEW f, Len(program) \in Nat, Runs(program, call, f),
         NEW at \in 1..Len(program), NEW acc, Visits(program, f, at, acc),
         NEW v, v # "none", program[at] = Ret(v)
  PROVE  f[Len(program)].verdict = v
<1>1. PICK n \in 0..Len(program) :
        n < at /\ f[n] = [pc |-> at, acc |-> acc, verdict |-> "none"]
  BY Zenon DEF Visits
<1> DEFINE T == {i \in (n + 1)..Len(program) : f[i].verdict # v}
<1> SUFFICES ASSUME T # {} PROVE FALSE
  BY <1>1
<1>2. PICK x \in T : \A y \in T : x <= y
  <2>1. T \subseteq Nat
    BY <1>1
  <2> QED
    BY <2>1, LeastNat
<1>3. x \in 1..Len(program) /\ f[x].verdict # v /\ x \in Nat /\ n \in Nat /\ n < x
  BY <1>2
<1>4. f[x] = Advance(program, call, f[x - 1])
  BY <1>3, Zenon DEF Runs
<1>5. CASE x = n + 1
  <2>1. x - 1 = n
    BY <1>5, <1>3
  <2> QED
    BY <1>1, <1>3, <1>4, <2>1 DEF Advance, Ret
<1>6. CASE x # n + 1
  <2>1. x - 1 \in (n + 1)..Len(program) /\ ~ (x <= x - 1)
    BY <1>3, <1>6
  <2>2. f[x - 1].verdict = v
    BY <1>2, <2>1
  <2> QED
    BY <1>3, <1>4, <2>2 DEF Advance
<1> QED
  BY <1>5, <1>6

(* One check of an argument.                                                 *)
CheckAt(program, at, field) ==
  /\ program[at] = Fetch(field)
  /\ program[at + 1] = Jump("jge", UidMinLimit, 1, 0)
  /\ program[at + 2] = Ret("kill")

(* A check kills, or is passed with the argument in the register.            *)
LEMMA Checks ==
  ASSUME NEW program, NEW call, NEW f, Len(program) \in Nat, Runs(program, call, f),
         NEW at \in 1..Len(program), at + 2 \in 1..Len(program),
         NEW acc, Visits(program, f, at, acc),
         NEW field, CheckAt(program, at, field), call[field] \in Nat
  PROVE  /\ call[field] >= UidMinLimit => Visits(program, f, at + 3, call[field])
         /\ call[field] < UidMinLimit => f[Len(program)].verdict = "kill"
<1>1. PICK a : a = call[field] /\ a \in Nat
  OBVIOUS
<1>2. Visits(program, f, at + 1, a)
  BY <1>1, Loads DEF CheckAt
<1>3. at + 1 \in 1..Len(program) /\ UidMinLimit \in Nat /\ (a >= UidMinLimit \/ a < UidMinLimit)
  BY <1>1, FilterAssumption DEF FilterAssumption
<1>4. /\ a >= UidMinLimit => Visits(program, f, (at + 1) + 1 + 1, a)
      /\ a < UidMinLimit => Visits(program, f, (at + 1) + 1 + 0, a)
  <2>1. 1 \in Nat /\ 0 \in Nat
    OBVIOUS
  <2> QED
    BY <1>1, <1>2, <1>3, <2>1, AtLeast DEF CheckAt
<1>5. (at + 1) + 1 + 1 = at + 3 /\ (at + 1) + 1 + 0 = at + 2
  OBVIOUS
<1>6. ASSUME a < UidMinLimit PROVE f[Len(program)].verdict = "kill"
  <2>1. Visits(program, f, at + 2, a)
    BY <1>4, <1>5, <1>6
  <2> QED
    BY <2>1, Returns DEF CheckAt
<1> QED
  BY <1>1, <1>4, <1>5, <1>6

(* The register holds an argument that is an application's user.             *)
Passed(program, f, at) == \E acc \in Nat : acc >= UidMinLimit /\ Visits(program, f, at, acc)

(* The argument of a call is checked, or the next ones are.                  *)
LEMMA ChecksOn ==
  ASSUME NEW program, NEW call, NEW f, Len(program) \in Nat, Runs(program, call, f),
         NEW at \in 1..Len(program), at + 2 \in 1..Len(program),
         NEW acc, Visits(program, f, at, acc),
         NEW field, CheckAt(program, at, field), call[field] \in Nat
  PROVE  \/ call[field] < UidMinLimit /\ f[Len(program)].verdict = "kill"
         \/ ~ (call[field] < UidMinLimit) /\ Passed(program, f, at + 3)
<1>1. PICK a \in Nat : a = call[field]
  OBVIOUS
<1>2. UidMinLimit \in Nat
  BY FilterAssumption DEF FilterAssumption
<1>3. a >= UidMinLimit \/ a < UidMinLimit
  BY <1>2
<1>4. a >= UidMinLimit => ~ (a < UidMinLimit)
  BY <1>2
<1> QED
  BY <1>1, <1>3, <1>4, Checks, Zenon DEF Passed

(* An argument that passed is no number of a call, and meets no filter.      *)
LEMMA PassedSkips ==
  ASSUME NEW program, NEW call, NEW f, Len(program) \in Nat, Runs(program, call, f),
         NEW at \in 1..Len(program), Passed(program, f, at),
         NEW nr \in Nat, nr < UidMinLimit, NEW jf \in Nat, program[at] = Jump("jeq", nr, 0, jf)
  PROVE  Passed(program, f, at + 1 + jf)
<1>1. PICK acc \in Nat : acc >= UidMinLimit /\ Visits(program, f, at, acc)
  BY DEF Passed
<1>2. acc # nr /\ 0 \in Nat
  BY <1>1, FilterAssumption DEF FilterAssumption
<1>3. Visits(program, f, at + 1 + jf, acc)
  BY <1>1, <1>2, Equals
<1> QED
  BY <1>1, <1>3 DEF Passed

(* The filters of calls that change the user, behind the allow list.         *)
UidSectionAt(program, b) ==
  /\ program[b + 1] = Jump("jeq", Resolve["setuid"], 0, 3)
  /\ CheckAt(program, b + 2, "a0")
  /\ program[b + 5] = Jump("jeq", Resolve["setreuid"], 0, 6)
  /\ CheckAt(program, b + 6, "a0")
  /\ CheckAt(program, b + 9, "a1")
  /\ program[b + 12] = Jump("jeq", Resolve["setresuid"], 0, 9)
  /\ CheckAt(program, b + 13, "a0")
  /\ CheckAt(program, b + 16, "a1")
  /\ CheckAt(program, b + 19, "a2")
  /\ program[b + 22] = Jump("jeq", Resolve["setfsuid"], 0, 3)
  /\ CheckAt(program, b + 23, "a0")

(* The places in the section, one after the other.                           *)
LEMMA SectionPlaces ==
  ASSUME NEW b \in Nat, NEW l \in Nat, l = b + 26
  PROVE  /\ \A i \in 1..26 : b + i \in 1..l
         /\ \A i, j \in Nat : (b + i) + j = b + (i + j)
  OBVIOUS

(* From its first instruction on, the section gives the verdict it should.   *)
LEMMA UidSectionDecides ==
  ASSUME NEW program, NEW call, NEW f, NEW b \in Nat, Len(program) = b + 26,
         Runs(program, call, f), UidSectionAt(program, b),
         NEW default, default # "none", program[b + 26] = Ret(default),
         call.nr \in Nat, call["a0"] \in Nat, call["a1"] \in Nat, call["a2"] \in Nat,
         Visits(program, f, b + 1, call.nr)
  PROVE  f[Len(program)].verdict =
           IF \E a \in UserArguments(call.nr) : call[a] < UidMinLimit THEN "kill" ELSE default
<1> DEFINE Kills == f[Len(program)].verdict = "kill"
<1>1. Len(program) \in Nat
  OBVIOUS
<1>2. \A i \in 1..26 : b + i \in 1..Len(program)
  BY <1>1, SectionPlaces
<1>3. PICK nr \in Nat : nr = call.nr
  OBVIOUS
<1>4. /\ Resolve["setuid"] \in Nat /\ Resolve["setuid"] < UidMinLimit
      /\ Resolve["setreuid"] \in Nat /\ Resolve["setreuid"] < UidMinLimit
      /\ Resolve["setresuid"] \in Nat /\ Resolve["setresuid"] < UidMinLimit
      /\ Resolve["setfsuid"] \in Nat /\ Resolve["setfsuid"] < UidMinLimit
  BY FilterAssumption DEF FilterAssumption, UidCalls
<1>5. PICK r1, r2, r3, r4 \in Nat :
        /\ r1 = Resolve["setuid"] /\ r2 = Resolve["setreuid"]
        /\ r3 = Resolve["setresuid"] /\ r4 = Resolve["setfsuid"]
  BY <1>4
<1>6. /\ r1 < UidMinLimit /\ r2 < UidMinLimit /\ r3 < UidMinLimit /\ r4 < UidMinLimit
      /\ r1 # r2 /\ r1 # r3 /\ r1 # r4 /\ r2 # r3 /\ r2 # r4 /\ r3 # r4
  <2>1. /\ "setuid" \in DOMAIN Resolve /\ "setreuid" \in DOMAIN Resolve
        /\ "setresuid" \in DOMAIN Resolve /\ "setfsuid" \in DOMAIN Resolve
    BY FilterAssumption DEF FilterAssumption, UidCalls
  <2>2. /\ "setuid" # "setreuid" /\ "setuid" # "setresuid" /\ "setuid" # "setfsuid"
        /\ "setreuid" # "setresuid" /\ "setreuid" # "setfsuid" /\ "setresuid" # "setfsuid"
    OBVIOUS
  <2> QED
    BY <1>4, <1>5, <2>1, <2>2, FilterAssumption, Zenon DEF FilterAssumption
<1>7. (* from each filter on, a register that passed a check meets no other filter *)
      /\ Passed(program, f, b + 5) => Passed(program, f, b + 12)
      /\ Passed(program, f, b + 12) => Passed(program, f, b + 22)
      /\ Passed(program, f, b + 22) => Passed(program, f, b + 26)
  <2>1. /\ (b + 5) + 1 + 6 = b + 12 /\ (b + 12) + 1 + 9 = b + 22 /\ (b + 22) + 1 + 3 = b + 26
        /\ 3 \in Nat /\ 6 \in Nat /\ 9 \in Nat /\ 0 \in Nat
    OBVIOUS
  <2>2. b + 5 \in 1..Len(program) /\ b + 12 \in 1..Len(program) /\ b + 22 \in 1..Len(program)
    BY <1>2
  <2>3. /\ program[b + 5] = Jump("jeq", r2, 0, 6) /\ program[b + 12] = Jump("jeq", r3, 0, 9)
        /\ program[b + 22] = Jump("jeq", r4, 0, 3)
    BY <1>5, Zenon DEF UidSectionAt
  <2>4. ASSUME Passed(program, f, b + 5) PROVE Passed(program, f, b + 12)
    <3>1. Passed(program, f, (b + 5) + 1 + 6)
      BY <1>1, <1>6, <2>1, <2>2, <2>3, <2>4, PassedSkips
    <3> QED
      BY <2>1, <3>1
  <2>5. ASSUME Passed(program, f, b + 12) PROVE Passed(program, f, b + 22)
    <3>1. Passed(program, f, (b + 12) + 1 + 9)
      BY <1>1, <1>6, <2>1, <2>2, <2>3, <2>5, PassedSkips
    <3> QED
      BY <2>1, <3>1
  <2>6. ASSUME Passed(program, f, b + 22) PROVE Passed(program, f, b + 26)
    <3>1. Passed(program, f, (b + 22) + 1 + 3)
      BY <1>1, <1>6, <2>1, <2>2, <2>3, <2>6, PassedSkips
    <3> QED
      BY <2>1, <3>1
  <2> QED
    BY <2>4, <2>5, <2>6
<1>8. ASSUME NEW acc, Visits(program, f, b + 26, acc) PROVE f[Len(program)].verdict = default
  <2>1. b + 26 \in 1..Len(program)
    BY <1>2
  <2> QED
    BY <1>1, <1>8, <2>1, Returns
<1>9. Passed(program, f, b + 26) => f[Len(program)].verdict = default
  BY <1>8 DEF Passed
<1>10. (* where a call goes that is not the one of a filter, or is *)
      /\ nr # r1 => Visits(program, f, b + 5, nr)
      /\ nr = r1 => Visits(program, f, b + 2, nr)
  <2>1. b + 1 \in 1..Len(program) /\ b + 5 = (b + 1) + 1 + 3 /\ b + 2 = (b + 1) + 1 + 0 /\ 3 \in Nat
    BY <1>2
  <2>2. program[b + 1] = Jump("jeq", r1, 0, 3) /\ Visits(program, f, b + 1, nr)
    BY <1>3, <1>5, Zenon DEF UidSectionAt
  <2> QED
    BY ONLY <1>1, Runs(program, call, f), <2>1, <2>2, Forks
<1>11. Visits(program, f, b + 5, nr) =>
      /\ nr # r2 => Visits(program, f, b + 12, nr)
      /\ nr = r2 => Visits(program, f, b + 6, nr)
  <2> SUFFICES ASSUME Visits(program, f, b + 5, nr)
               PROVE /\ nr # r2 => Visits(program, f, b + 12, nr)
                     /\ nr = r2 => Visits(program, f, b + 6, nr)
    OBVIOUS
  <2>1. b + 5 \in 1..Len(program) /\ b + 12 = (b + 5) + 1 + 6 /\ b + 6 = (b + 5) + 1 + 0 /\ 6 \in Nat
    BY <1>2
  <2>2. program[b + 5] = Jump("jeq", r2, 0, 6)
    BY <1>5, Zenon DEF UidSectionAt
  <2> QED
    BY ONLY <1>1, Runs(program, call, f), Visits(program, f, b + 5, nr), <2>1, <2>2, Forks
<1>12. Visits(program, f, b + 12, nr) =>
      /\ nr # r3 => Visits(program, f, b + 22, nr)
      /\ nr = r3 => Visits(program, f, b + 13, nr)
  <2> SUFFICES ASSUME Visits(program, f, b + 12, nr)
               PROVE /\ nr # r3 => Visits(program, f, b + 22, nr)
                     /\ nr = r3 => Visits(program, f, b + 13, nr)
    OBVIOUS
  <2>1. b + 12 \in 1..Len(program) /\ b + 22 = (b + 12) + 1 + 9 /\ b + 13 = (b + 12) + 1 + 0 /\ 9 \in Nat
    BY <1>2
  <2>2. program[b + 12] = Jump("jeq", r3, 0, 9)
    BY <1>5, Zenon DEF UidSectionAt
  <2> QED
    BY ONLY <1>1, Runs(program, call, f), Visits(program, f, b + 12, nr), <2>1, <2>2, Forks
<1>13. Visits(program, f, b + 22, nr) =>
      /\ nr # r4 => Visits(program, f, b + 26, nr)
      /\ nr = r4 => Visits(program, f, b + 23, nr)
  <2> SUFFICES ASSUME Visits(program, f, b + 22, nr)
               PROVE /\ nr # r4 => Visits(program, f, b + 26, nr)
                     /\ nr = r4 => Visits(program, f, b + 23, nr)
    OBVIOUS
  <2>1. b + 22 \in 1..Len(program) /\ b + 26 = (b + 22) + 1 + 3 /\ b + 23 = (b + 22) + 1 + 0 /\ 3 \in Nat
    BY <1>2
  <2>2. program[b + 22] = Jump("jeq", r4, 0, 3)
    BY <1>5, Zenon DEF UidSectionAt
  <2> QED
    BY ONLY <1>1, Runs(program, call, f), Visits(program, f, b + 22, nr), <2>1, <2>2, Forks
<1> DEFINE Low(a) == call[a] < UidMinLimit
<1>14. ASSUME NEW i \in 1..23, NEW acc, Visits(program, f, b + i, acc),
              NEW a \in {"a0", "a1", "a2"}, CheckAt(program, b + i, a)
       PROVE  (Low(a) /\ Kills) \/ (~ Low(a) /\ Passed(program, f, b + (i + 3)))
  <2>1. i \in 1..26 /\ i + 2 \in 1..26 /\ (b + i) + 2 = b + (i + 2) /\ (b + i) + 3 = b + (i + 3)
    OBVIOUS
  <2>2. b + i \in 1..Len(program) /\ (b + i) + 2 \in 1..Len(program)
    BY <1>2, <2>1
  <2>3. call[a] \in Nat
    BY <1>14
  <2> QED
    BY <1>1, <1>14, <2>1, <2>2, <2>3, ChecksOn
<1>15. ASSUME NEW i \in 1..23, Passed(program, f, b + i),
              NEW a \in {"a0", "a1", "a2"}, CheckAt(program, b + i, a)
       PROVE  (Low(a) /\ Kills) \/ (~ Low(a) /\ Passed(program, f, b + (i + 3)))
  BY <1>14, <1>15 DEF Passed
<1> HIDE DEF Low, Kills
<1>16. 2 + 3 = 5 /\ 6 + 3 = 9 /\ 9 + 3 = 12 /\ 13 + 3 = 16 /\ 16 + 3 = 19 /\ 19 + 3 = 22 /\ 23 + 3 = 26
       /\ 2 \in 1..23 /\ 6 \in 1..23 /\ 9 \in 1..23 /\ 13 \in 1..23 /\ 16 \in 1..23
       /\ 19 \in 1..23 /\ 23 \in 1..23
  OBVIOUS
<1>17. CASE nr = r1
  <2>1. UserArguments(call.nr) = {"a0"}
    BY <1>3, <1>5, <1>17 DEF UserArguments
  <2>2. (Low("a0") /\ Kills) \/ (~ Low("a0") /\ Passed(program, f, b + 5))
    BY <1>10, <1>14, <1>16, <1>17 DEF UidSectionAt
  <2>3. (Low("a0") /\ Kills) \/ (~ Low("a0") /\ f[Len(program)].verdict = default)
    BY <1>7, <1>9, <2>2
  <2> QED
    BY <2>1, <2>3 DEF Low, Kills
<1>18. CASE nr = r2
  <2>1. UserArguments(call.nr) = {"a0", "a1"}
    BY <1>3, <1>5, <1>6, <1>18 DEF UserArguments
  <2>2. (Low("a0") /\ Kills) \/ (~ Low("a0") /\ Passed(program, f, b + 9))
    BY <1>6, <1>10, <1>11, <1>14, <1>16, <1>18 DEF UidSectionAt
  <2>3. ~ Low("a0") => (Low("a1") /\ Kills) \/ (~ Low("a1") /\ Passed(program, f, b + 12))
    BY <1>15, <1>16, <2>2 DEF UidSectionAt
  <2>4. \/ (Low("a0") \/ Low("a1")) /\ Kills
        \/ ~ Low("a0") /\ ~ Low("a1") /\ f[Len(program)].verdict = default
    BY <1>7, <1>9, <2>2, <2>3
  <2> QED
    BY <2>1, <2>4 DEF Low, Kills
<1>19. CASE nr = r3
  <2>1. UserArguments(call.nr) = {"a0", "a1", "a2"}
    BY <1>3, <1>5, <1>6, <1>19 DEF UserArguments
  <2>2. (Low("a0") /\ Kills) \/ (~ Low("a0") /\ Passed(program, f, b + 16))
    BY <1>6, <1>10, <1>11, <1>12, <1>14, <1>16, <1>19 DEF UidSectionAt
  <2>3. ~ Low("a0") => (Low("a1") /\ Kills) \/ (~ Low("a1") /\ Passed(program, f, b + 19))
    BY <1>15, <1>16, <2>2 DEF UidSectionAt
  <2>4. ~ Low("a0") /\ ~ Low("a1") => (Low("a2") /\ Kills) \/ (~ Low("a2") /\ Passed(program, f, b + 22))
    BY <1>15, <1>16, <2>3 DEF UidSectionAt
  <2>5. \/ (Low("a0") \/ Low("a1") \/ Low("a2")) /\ Kills
        \/ ~ Low("a0") /\ ~ Low("a1") /\ ~ Low("a2") /\ f[Len(program)].verdict = default
    BY <1>7, <1>9, <2>2, <2>3, <2>4
  <2> QED
    BY <2>1, <2>5 DEF Low, Kills
<1>20. CASE nr = r4
  <2>1. UserArguments(call.nr) = {"a0"}
    BY <1>3, <1>5, <1>6, <1>20 DEF UserArguments
  <2>2. (Low("a0") /\ Kills) \/ (~ Low("a0") /\ Passed(program, f, b + 26))
    BY <1>6, <1>10, <1>11, <1>12, <1>13, <1>14, <1>16, <1>20 DEF UidSectionAt
  <2>3. (Low("a0") /\ Kills) \/ (~ Low("a0") /\ f[Len(program)].verdict = default)
    BY <1>9, <2>2
  <2> QED
    BY <2>1, <2>3 DEF Low, Kills
<1>21. CASE nr # r1 /\ nr # r2 /\ nr # r3 /\ nr # r4
  <2>1. UserArguments(call.nr) = {}
    BY <1>3, <1>5, <1>21 DEF UserArguments
  <2>2. f[Len(program)].verdict = default
    BY <1>8, <1>10, <1>11, <1>12, <1>13, <1>21
  <2> QED
    BY <2>1, <2>2
<1> QED
  BY <1>17, <1>18, <1>19, <1>20, <1>21
(* The prefixes of a flattened sequence.                                     *)
FlattenTo(seqs, n, g) ==
  g = [i \in 1..n |-> IF i = 1 THEN seqs[i] ELSE g[i - 1] \o seqs[i]]

(* FlattenSeq is where such a sequence of prefixes ends.                     *)
LEMMA FlattenExists ==
  ASSUME NEW seqs, NEW l \in Nat
  PROVE  \E g : FlattenTo(seqs, l, g)
<1> DEFINE T == {n \in Nat : ~ \E g : FlattenTo(seqs, n, g)}
<1> SUFFICES ASSUME T # {} PROVE FALSE
  OBVIOUS
<1>1. PICK x \in T : \A y \in T : x <= y
  BY LeastNat
<1>2. CASE x = 0
  <2> DEFINE g == [i \in 1..0 |-> seqs[i]]
  <2>1. FlattenTo(seqs, 0, g)
    BY DEF FlattenTo
  <2> QED
    BY <1>2, <2>1
<1>3. CASE x # 0
  <2>1. x - 1 \in Nat /\ ~ (x <= x - 1) /\ x \in Nat
    BY <1>3
  <2>2. PICK g : FlattenTo(seqs, x - 1, g)
    BY <1>1, <2>1
  <2> DEFINE f == [i \in 1..x |-> IF i # x THEN g[i] ELSE IF x = 1 THEN seqs[x]
                                  ELSE g[x - 1] \o seqs[x]]
  <2>3. \A i \in 1..x : f[i] = IF i = 1 THEN seqs[i] ELSE f[i - 1] \o seqs[i]
    <3> SUFFICES ASSUME NEW i \in 1..x
                 PROVE f[i] = IF i = 1 THEN seqs[i] ELSE f[i - 1] \o seqs[i]
      OBVIOUS
    <3>1. CASE i = x /\ x = 1
      BY <3>1
    <3>2. CASE i = x /\ x # 1
      <4>1. i - 1 \in 1..x /\ i - 1 # x /\ i # 1
        BY <2>1, <3>2, <1>3
      <4>2. f[i - 1] = g[x - 1]
        BY <4>1, <3>2
      <4>3. f[i] = g[x - 1] \o seqs[x]
        BY <3>2
      <4> QED
        BY <3>2, <4>1, <4>2, <4>3, Zenon
    <3>3. CASE i # x
      <4>1. i \in 1..(x - 1)
        BY <2>1, <3>3
      <4>2. f[i] = g[i]
        BY <3>3
      <4>3. g[i] = IF i = 1 THEN seqs[i] ELSE g[i - 1] \o seqs[i]
        BY <2>2, <4>1, Zenon DEF FlattenTo
      <4>4. CASE i = 1
        BY <4>2, <4>3, <4>4, Zenon
      <4>5. CASE i # 1
        <5>1. i - 1 \in 1..x /\ i - 1 # x
          BY <4>1, <4>5, <2>1
        <5>2. f[i - 1] = g[i - 1]
          BY <5>1
        <5> QED
          BY <4>2, <4>3, <4>5, <5>2, Zenon
      <4> QED
        BY <4>4, <4>5
    <3> QED
      BY <3>1, <3>2, <3>3
  <2>4. f = [i \in 1..x |-> f[i]]
    OBVIOUS
  <2> HIDE DEF f
  <2>5. FlattenTo(seqs, x, f)
    BY <2>3, <2>4, Zenon DEF FlattenTo
  <2> QED
    BY <2>5
<1> QED
  BY <1>2, <1>3

(* FlattenSeq grows by one part at a time.                                   *)
LEMMA FlattenGrows ==
  ASSUME NEW S, NEW seqs \in Seq(Seq(S))
  PROVE  \E g : /\ g[0] = <<>> /\ g[Len(seqs)] = FlattenSeq(seqs)
                /\ \A i \in 0..Len(seqs) : g[i] \in Seq(S)
                /\ \A i \in 1..Len(seqs) : g[i] = g[i - 1] \o seqs[i]
<1> DEFINE l == Len(seqs)
           h == CHOOSE q : FlattenTo(seqs, l, q)
           g == [i \in 0..l |-> IF i = 0 THEN <<>> ELSE h[i]]
<1>1. l \in Nat /\ DOMAIN seqs = 1..l /\ \A i \in 1..l : seqs[i] \in Seq(S)
  BY LenProperties
<1>2. FlattenTo(seqs, l, h)
  BY <1>1, FlattenExists, Zenon
<1>3. l # 0 => FlattenSeq(seqs) = h[l]
  <2> SUFFICES ASSUME l # 0 PROVE FlattenSeq(seqs) = h[l]
    OBVIOUS
  <2> QED
    BY Zenon DEF FlattenSeq, FlattenTo
<1>4. l = 0 => FlattenSeq(seqs) = <<>>
  <2> SUFFICES ASSUME l = 0 PROVE FlattenSeq(seqs) = <<>>
    OBVIOUS
  <2>1. seqs = <<>>
    BY EmptySeq
  <2> QED
    BY <2>1 DEF FlattenSeq
<1> HIDE DEF h, l
<1>5. g[0] = <<>> /\ g[l] = FlattenSeq(seqs)
  BY <1>1, <1>3, <1>4
<1>6. ASSUME NEW i \in 1..l PROVE g[i] = g[i - 1] \o seqs[i]
  <2>1. h[i] = IF i = 1 THEN seqs[i] ELSE h[i - 1] \o seqs[i]
    BY <1>2, Zenon DEF FlattenTo
  <2>2. g[i] = h[i]
    BY <1>1
  <2>3. CASE i = 1
    <3>1. g[i - 1] = <<>>
      BY <1>1, <2>3
    <3>2. seqs[i] \in Seq(S)
      BY <1>1
    <3>3. <<>> \o seqs[i] = seqs[i]
      BY <3>2, ConcatEmptySeq
    <3> QED
      BY <2>1, <2>2, <2>3, <3>1, <3>3, Zenon
  <2>4. CASE i # 1
    <3>1. g[i - 1] = h[i - 1]
      BY <1>1, <2>4
    <3> QED
      BY <2>1, <2>2, <2>4, <3>1, Zenon
  <2> QED
    BY <2>3, <2>4
<1>7. ASSUME NEW i \in 0..l PROVE g[i] \in Seq(S)
  <2> HIDE DEF g
  <2> DEFINE T == {n \in 0..l : g[n] \notin Seq(S)}
  <2> SUFFICES ASSUME T # {} PROVE FALSE
    OBVIOUS
  <2>1. PICK x \in T : \A y \in T : x <= y
    <3>1. T \subseteq Nat
      BY <1>1
    <3> QED
      BY <3>1, LeastNat
  <2>2. CASE x = 0
    <3>1. g[x] = <<>>
      BY <1>5, <2>2
    <3> QED
      BY <2>1, <3>1, EmptySeq
  <2>3. CASE x # 0
    <3>1. x - 1 \in 0..l /\ ~ (x <= x - 1) /\ x \in 1..l
      BY <1>1, <2>3
    <3>2. g[x - 1] \in Seq(S) /\ seqs[x] \in Seq(S)
      BY <1>1, <2>1, <3>1
    <3>3. g[x - 1] \o seqs[x] \in Seq(S)
      BY <3>2, ConcatProperties
    <3>4. g[x] = g[x - 1] \o seqs[x]
      BY <1>6, <3>1
    <3> QED
      BY <2>1, <3>3, <3>4
  <2> QED
    BY <2>2, <2>3
<1> QED
  BY <1>5, <1>6, <1>7, Zenon DEF l

(* The instructions, as far as their shape goes.                             *)
Words == {"arch", "nr", "a0", "a1", "a2", "allow", "kill"}
Insn == [op : {"ld", "jeq", "jge", "ret"}, k : Nat \cup Words, jt : Nat, jf : Nat]

(* Every statement the filter is written with is an instruction.             *)
LEMMA InsnsAre ==
  /\ \A field \in Words : Fetch(field) \in Insn
  /\ \A v \in Words : Ret(v) \in Insn
  /\ \A t \in {"jeq", "jge"}, k, jt, jf \in Nat : Jump(t, k, jt, jf) \in Insn
  BY DEF Fetch, Ret, Jump, Insn

(* Pieces of up to four instructions.                                        *)
LEMMA TwoLong ==
  ASSUME NEW S, NEW a \in S, NEW b \in S
  PROVE  <<a, b>> \in Seq(S) /\ Len(<<a, b>>) = 2 /\ <<a, b>>[1] = a /\ <<a, b>>[2] = b
  OBVIOUS

LEMMA OneLong ==
  ASSUME NEW S, NEW a \in S
  PROVE  <<a>> \in Seq(S) /\ Len(<<a>>) = 1 /\ <<a>>[1] = a
  OBVIOUS

LEMMA ThreeLong ==
  ASSUME NEW S, NEW a \in S, NEW b \in S, NEW c \in S
  PROVE  /\ <<a, b, c>> \in Seq(S) /\ Len(<<a, b, c>>) = 3
         /\ <<a, b, c>>[1] = a /\ <<a, b, c>>[2] = b /\ <<a, b, c>>[3] = c
  OBVIOUS

LEMMA FourLong ==
  ASSUME NEW S, NEW a \in S, NEW b \in S, NEW c \in S, NEW d \in S
  PROVE  /\ <<a, b, c, d>> \in Seq(S) /\ Len(<<a, b, c, d>>) = 4
         /\ <<a, b, c, d>>[1] = a /\ <<a, b, c, d>>[2] = b
         /\ <<a, b, c, d>>[3] = c /\ <<a, b, c, d>>[4] = d
  OBVIOUS

(* One after the other, element by element.                                  *)
LEMMA JoinedLong ==
  ASSUME NEW S, NEW s \in Seq(S), NEW t \in Seq(S)
  PROVE  /\ s \o t \in Seq(S) /\ Len(s) \in Nat /\ Len(t) \in Nat
         /\ Len(s \o t) = Len(s) + Len(t)
         /\ \A i \in 1..Len(s) : (s \o t)[i] = s[i]
         /\ \A i \in 1..Len(t) : (s \o t)[Len(s) + i] = t[i]
<1>1. s \o t \in Seq(S) /\ Len(s) \in Nat /\ Len(t) \in Nat /\ Len(s \o t) = Len(s) + Len(t)
  BY LenProperties, ConcatProperties
<1>2. \A i \in 1..Len(s) + Len(t) : (s \o t)[i] = IF i <= Len(s) THEN s[i] ELSE t[i - Len(s)]
  BY ConcatProperties
<1>3. ASSUME NEW i \in 1..Len(s) PROVE (s \o t)[i] = s[i]
  BY <1>1, <1>2
<1>4. ASSUME NEW i \in 1..Len(t) PROVE (s \o t)[Len(s) + i] = t[i]
  <2>1. Len(s) + i \in 1..Len(s) + Len(t) /\ ~ (Len(s) + i <= Len(s)) /\ (Len(s) + i) - Len(s) = i
    BY <1>1
  <2> QED
    BY <1>2, <2>1, Zenon
<1> QED
  BY <1>1, <1>3, <1>4

(* The parts of the allow list.                                              *)
PartOf(name) == IF name \in DOMAIN Resolve THEN AppendAllowFilter(Resolve[name]) ELSE <<>>

(* A part is a piece of two instructions at most.                            *)
LEMMA PartIs ==
  ASSUME NEW name
  PROVE  /\ PartOf(name) \in Seq(Insn)
         /\ Len(PartOf(name)) \in Nat /\ Len(PartOf(name)) <= 2
         /\ name \in DOMAIN Resolve =>
              /\ Len(PartOf(name)) = 2 /\ Resolve[name] \in Nat
              /\ PartOf(name)[1] = Jump("jeq", Resolve[name], 0, 1)
              /\ PartOf(name)[2] = Ret("allow")
         /\ name \notin DOMAIN Resolve => Len(PartOf(name)) = 0
<1>1. CASE name \in DOMAIN Resolve
  <2>1. PICK n \in Nat : n = Resolve[name]
    BY <1>1, FilterAssumption DEF FilterAssumption
  <2>2. Jump("jeq", n, 0, 1) \in Insn /\ Ret("allow") \in Insn
    <3>1. 0 \in Nat /\ 1 \in Nat
      OBVIOUS
    <3>2. "jeq" \in {"jeq", "jge"}
      OBVIOUS
    <3>3. "allow" \in Words
      BY DEF Words
    <3> QED
      BY <3>1, <3>2, <3>3, InsnsAre, Zenon
  <2>3. PartOf(name) = <<Jump("jeq", n, 0, 1), Ret("allow")>>
    BY <1>1, <2>1, Zenon DEF PartOf, AppendAllowFilter
  <2>4. PICK a \in Insn, b \in Insn : a = Jump("jeq", n, 0, 1) /\ b = Ret("allow")
    BY <2>2, Zenon
  <2>5. PartOf(name) = <<a, b>>
    BY <2>3, <2>4, Zenon
  <2>6. /\ PartOf(name) \in Seq(Insn) /\ Len(PartOf(name)) = 2
        /\ PartOf(name)[1] = a /\ PartOf(name)[2] = b
    <3>1. /\ <<a, b>> \in Seq(Insn) /\ Len(<<a, b>>) = 2
          /\ <<a, b>>[1] = a /\ <<a, b>>[2] = b
      BY ONLY a \in Insn, b \in Insn, TwoLong
    <3> QED
      BY <2>5, <3>1, Zenon
  <2>7. \A l : l = 2 => l \in Nat /\ l <= 2
    OBVIOUS
  <2> QED
    BY <1>1, <2>1, <2>4, <2>6, <2>7, Zenon
<1>2. CASE name \notin DOMAIN Resolve
  <2>1. PartOf(name) = <<>>
    BY <1>2 DEF PartOf
  <2> QED
    BY <1>2, <2>1, EmptySeq
<1> QED
  BY <1>1, <1>2, Zenon

(* The allow list, name by name.                                             *)
ListGrows(names, g) ==
  /\ g[0] = <<>> /\ g[Len(names)] = AppendAllowList(names)
  /\ \A i \in 0..Len(names) : g[i] \in Seq(Insn)
  /\ \A i \in 1..Len(names) : g[i] = g[i - 1] \o PartOf(names[i])

(* The allow list of any length grows so.                                    *)
LEMMA AllowListGrows ==
  ASSUME NEW names, Len(names) \in Nat
  PROVE  \E g : ListGrows(names, g)
<1> DEFINE parts == [i \in 1..Len(names) |-> PartOf(names[i])]
<1>1. parts \in Seq(Seq(Insn)) /\ Len(parts) = Len(names)
  <2>1. \A i \in 1..Len(names) : PartOf(names[i]) \in Seq(Insn)
    BY PartIs
  <2> QED
    BY <2>1, IsASeq
<1>2. \A i \in 1..Len(names) : parts[i] = PartOf(names[i])
  OBVIOUS
<1>3. AppendAllowList(names) = FlattenSeq(parts)
  BY Zenon DEF AppendAllowList, PartOf
<1> HIDE DEF parts
<1>4. PICK g : /\ g[0] = <<>> /\ g[Len(parts)] = FlattenSeq(parts)
               /\ \A i \in 0..Len(parts) : g[i] \in Seq(Insn)
               /\ \A i \in 1..Len(parts) : g[i] = g[i - 1] \o parts[i]
  BY <1>1, FlattenGrows, Zenon
<1>5. ListGrows(names, g)
  BY <1>1, <1>2, <1>3, <1>4, Zenon DEF ListGrows
<1> QED
  BY <1>5, Zenon

(* What comes first stays where it is.                                       *)
LEMMA ListPrefixes ==
  ASSUME NEW names, Len(names) \in Nat, NEW g, ListGrows(names, g), NEW i \in 0..Len(names)
  PROVE  /\ Len(g[i]) \in Nat /\ Len(g[i]) <= 2 * i
         /\ Len(g[i]) <= Len(AppendAllowList(names)) /\ Len(AppendAllowList(names)) \in Nat
         /\ \A m \in 1..Len(g[i]) : AppendAllowList(names)[m] = g[i][m]
<1> DEFINE l == Len(names)
           Good(j) == Len(g[i]) <= Len(g[j]) /\ \A m \in 1..Len(g[i]) : g[j][m] = g[i][m]
           Short(j) == Len(g[j]) <= 2 * j
<1>1. l \in Nat /\ i \in Nat /\ \A j \in 0..l : Len(g[j]) \in Nat
  BY LenProperties DEF ListGrows
<1>2. ASSUME NEW j \in 1..l
      PROVE  /\ j - 1 \in 0..l /\ j \in 0..l
             /\ Len(g[j]) = Len(g[j - 1]) + Len(PartOf(names[j]))
             /\ Len(PartOf(names[j])) \in 0..2
             /\ \A m \in 1..Len(g[j - 1]) : g[j][m] = g[j - 1][m]
  <2>1. j - 1 \in 0..l /\ j \in 0..l
    BY <1>1
  <2>2. g[j - 1] \in Seq(Insn) /\ PartOf(names[j]) \in Seq(Insn)
        /\ g[j] = g[j - 1] \o PartOf(names[j])
    BY <2>1, PartIs DEF ListGrows
  <2>3. Len(PartOf(names[j])) \in 0..2
    BY PartIs
  <2>4. PICK a \in Seq(Insn), c \in Seq(Insn) : a = g[j - 1] /\ c = PartOf(names[j])
    BY <2>2
  <2>5. Len(a \o c) = Len(a) + Len(c) /\ \A m \in 1..Len(a) : (a \o c)[m] = a[m]
    BY JoinedLong, Zenon
  <2> QED
    BY <2>1, <2>2, <2>3, <2>4, <2>5, Zenon
<1>3. Short(i)
  <2> DEFINE T == {j \in 0..l : ~ Short(j)}
  <2> SUFFICES ASSUME T # {} PROVE FALSE
    BY Zenon
  <2>1. PICK x \in T : \A y \in T : x <= y
    <3>1. T \subseteq Nat
      BY <1>1
    <3> QED
      BY <3>1, LeastNat
  <2>2. CASE x = 0
    <3>1. Len(g[0]) = 0
      BY EmptySeq DEF ListGrows
    <3> QED
      BY <2>1, <2>2, <3>1
  <2>3. CASE x # 0
    <3>1. x \in 1..l /\ x - 1 \in 0..l /\ ~ (x <= x - 1)
      BY <1>1, <2>3
    <3>2. Short(x - 1)
      BY <2>1, <3>1
    <3>3. Len(g[x]) = Len(g[x - 1]) + Len(PartOf(names[x])) /\ Len(PartOf(names[x])) \in 0..2
      BY <1>2, <3>1
    <3>4. Len(g[x - 1]) \in Nat
      BY <1>1, <3>1
    <3>5. Len(g[x]) <= 2 * x
      <4>1. PICK m \in Nat, d \in 0..2 : m = Len(g[x - 1]) /\ d = Len(PartOf(names[x]))
        BY <3>3, <3>4
      <4>2. m <= 2 * (x - 1) /\ x \in Nat
        BY <3>1, <3>2, <4>1
      <4>3. m + d <= 2 * x
        BY <4>2
      <4> QED
        BY <3>3, <4>1, <4>3, Zenon
    <3> QED
      BY <2>1, <3>5
  <2> QED
    BY <2>2, <2>3
<1>4. Good(l)
  <2> DEFINE T == {j \in i..l : ~ Good(j)}
  <2> SUFFICES ASSUME T # {} PROVE FALSE
    BY <1>1
  <2>1. PICK x \in T : \A y \in T : x <= y
    <3>1. T \subseteq Nat
      BY <1>1
    <3> QED
      BY <3>1, LeastNat
  <2>2. CASE x = i
    BY <1>1, <2>1, <2>2
  <2>3. CASE x # i
    <3>1. x \in 1..l /\ x - 1 \in i..l /\ ~ (x <= x - 1)
      BY <1>1, <2>3
    <3>2. Good(x - 1)
      BY <2>1, <3>1
    <3>3. /\ Len(g[x]) = Len(g[x - 1]) + Len(PartOf(names[x])) /\ Len(PartOf(names[x])) \in 0..2
          /\ \A m \in 1..Len(g[x - 1]) : g[x][m] = g[x - 1][m]
      BY <1>2, <3>1
    <3>4. Len(g[x - 1]) \in Nat /\ Len(g[i]) \in Nat
      BY <1>1, <3>1
    <3>5. Len(g[i]) <= Len(g[x])
      <4>1. PICK n \in Nat, m \in Nat, d \in 0..2 :
              n = Len(g[i]) /\ m = Len(g[x - 1]) /\ d = Len(PartOf(names[x]))
        BY <3>3, <3>4
      <4>2. n <= m
        BY <3>2, <4>1
      <4>3. n <= m + d
        BY <4>2
      <4> QED
        BY <3>3, <4>1, <4>3, Zenon
    <3>6. ASSUME NEW m \in 1..Len(g[i]) PROVE g[x][m] = g[i][m]
      <4>1. m \in 1..Len(g[x - 1])
        BY <3>2, <3>4
      <4> QED
        BY <3>2, <3>3, <4>1
    <3> QED
      BY <2>1, <3>5, <3>6
  <2> QED
    BY <2>2, <2>3
<1>5. g[l] = AppendAllowList(names) /\ l \in 0..l
  BY <1>1 DEF ListGrows
<1> QED
  BY <1>1, <1>3, <1>4, <1>5, Zenon

(* A part of a program with its length.                                      *)
Has(s, n) == s \in Seq(Insn) /\ Len(s) = n /\ n \in Nat
Plus(k, n, m) == k = n + m

(* Two pieces, one behind the other.                                         *)
Joins(s, t, n, m) ==
  /\ Has(s \o t, n + m)
  /\ \A i \in 1..n : (s \o t)[i] = s[i]
  /\ \A i \in 1..m : (s \o t)[n + i] = t[i]

(* Where the instructions of two joined pieces are.                          *)
LEMMA JoinedAt ==
  ASSUME NEW s, NEW t, NEW n, NEW m, Has(s, n), Has(t, m)
  PROVE  Joins(s, t, n, m)
<1>1. s \in Seq(Insn) /\ t \in Seq(Insn) /\ n = Len(s) /\ m = Len(t) /\ n \in Nat /\ m \in Nat
  BY DEF Has
<1>2. /\ s \o t \in Seq(Insn) /\ Len(s \o t) = n + m
      /\ \A i \in 1..n : (s \o t)[i] = s[i]
      /\ \A i \in 1..m : (s \o t)[n + i] = t[i]
  BY ONLY <1>1, JoinedLong
<1>3. n + m \in Nat
  BY <1>1
<1> QED
  BY <1>2, <1>3, Zenon DEF Has, Joins

(* The allow list decides about the calls it has, and passes the others on.  *)
LEMMA AllowListDecides ==
  ASSUME NEW names, Len(names) \in Nat, NEW program, NEW call, NEW f, NEW nr \in Nat,
         Len(program) \in Nat, Runs(program, call, f), Visits(program, f, 5, nr),
         4 + Len(AppendAllowList(names)) < Len(program),
         \A j \in 1..Len(AppendAllowList(names)) : program[4 + j] = AppendAllowList(names)[j]
  PROVE  \/ /\ \E i \in 1..Len(names) : names[i] \in DOMAIN Resolve /\ Resolve[names[i]] = nr
            /\ f[Len(program)].verdict = "allow"
         \/ /\ ~ \E i \in 1..Len(names) : names[i] \in DOMAIN Resolve /\ Resolve[names[i]] = nr
            /\ Visits(program, f, 5 + Len(AppendAllowList(names)), nr)
<1> DEFINE l == Len(names)
           list == AppendAllowList(names)
           Is(i) == names[i] \in DOMAIN Resolve /\ Resolve[names[i]] = nr
           Allowed == f[Len(program)].verdict = "allow"
<1>1. PICK g : ListGrows(names, g)
  BY AllowListGrows, Zenon
<1>2. \A i \in 0..l : /\ Len(g[i]) \in Nat /\ Len(g[i]) <= Len(list) /\ Len(list) \in Nat
                      /\ \A m \in 1..Len(g[i]) : list[m] = g[i][m]
  BY <1>1, ListPrefixes
<1> DEFINE Good(i) == \/ Allowed /\ \E j \in 1..i : Is(j)
                      \/ (~ \E j \in 1..i : Is(j)) /\ Visits(program, f, 5 + Len(g[i]), nr)
<1>3. Good(0)
  <2>1. Len(g[0]) = 0
    BY <1>1, EmptySeq, Zenon DEF ListGrows
  <2>2. 5 + Len(g[0]) = 5 /\ 1..0 = {}
    BY <2>1
  <2> QED
    BY <2>2
<1>4. ASSUME NEW i \in 1..l, Good(i - 1) PROVE Good(i)
  <2>1. i - 1 \in 0..l /\ i \in 0..l /\ i \in Nat /\ l \in Nat
        /\ \A j \in 1..(i - 1) : j \in 1..i
    OBVIOUS
  <2>2. CASE Allowed /\ \E j \in 1..(i - 1) : Is(j)
    BY <2>1, <2>2, Zenon
  <2>3. CASE (~ \E j \in 1..(i - 1) : Is(j)) /\ Visits(program, f, 5 + Len(g[i - 1]), nr)
    <3>1. \A j \in 1..i : j \in 1..(i - 1) \/ j = i
      BY <2>1
    <3>2. PICK n \in Nat : n = Len(g[i - 1])
      BY <1>2, <2>1
    <3>3. /\ g[i] = g[i - 1] \o PartOf(names[i])
          /\ g[i - 1] \in Seq(Insn) /\ PartOf(names[i]) \in Seq(Insn)
      BY <1>1, <2>1, PartIs DEF ListGrows
    <3>4. /\ Len(g[i]) = n + Len(PartOf(names[i]))
          /\ \A j \in 1..Len(PartOf(names[i])) : g[i][n + j] = PartOf(names[i])[j]
      <4>1. PICK a \in Seq(Insn), b \in Seq(Insn) : a = g[i - 1] /\ b = PartOf(names[i])
        BY <3>3, Zenon
      <4>2. Has(a, n) /\ Has(b, Len(b)) /\ g[i] = a \o b
        BY <3>2, <3>3, <4>1, PartIs, Zenon DEF Has
      <4>3. Joins(a, b, n, Len(b))
        BY <4>2, JoinedAt, Zenon
      <4> QED
        BY <4>1, <4>2, <4>3, Zenon DEF Has, Joins
    <3>5. CASE names[i] \notin DOMAIN Resolve
      <4>1. Len(g[i]) = n
        BY <3>4, <3>5, PartIs
      <4> QED
        BY <2>3, <3>1, <3>2, <3>5, <4>1, Zenon
    <3>6. CASE names[i] \in DOMAIN Resolve
      <4>1. PICK k \in Nat : k = Resolve[names[i]]
        BY <3>6, PartIs
      <4>2. /\ Len(PartOf(names[i])) = 2
            /\ PartOf(names[i])[1] = Jump("jeq", k, 0, 1) /\ PartOf(names[i])[2] = Ret("allow")
        BY <3>6, <4>1, PartIs, Zenon
      <4>3. Len(g[i]) = n + 2 /\ 1 \in 1..2 /\ 2 \in 1..2
        BY <3>4, <4>2
      <4>4. g[i][n + 1] = Jump("jeq", k, 0, 1) /\ g[i][n + 2] = Ret("allow")
        BY <3>4, <4>2, <4>3, Zenon
      <4>5. n + 2 <= Len(list) /\ n + 1 \in 1..Len(g[i]) /\ n + 2 \in 1..Len(g[i])
            /\ n + 1 \in 1..Len(list) /\ n + 2 \in 1..Len(list)
        BY <1>2, <2>1, <4>3
      <4>6. program[4 + (n + 1)] = Jump("jeq", k, 0, 1) /\ program[4 + (n + 2)] = Ret("allow")
        BY <1>2, <2>1, <4>4, <4>5, Zenon
      <4>7. /\ 4 + (n + 1) = n + 5 /\ 4 + (n + 2) = n + 6
            /\ (n + 5) + 1 + 0 = n + 6 /\ (n + 5) + 1 + 1 = n + 7
            /\ 5 + n = n + 5 /\ 5 + (n + 2) = n + 7 /\ 0 \in Nat /\ 1 \in Nat
        OBVIOUS
      <4>8. n + 5 \in 1..Len(program) /\ n + 6 \in 1..Len(program)
        <5>1. PICK m \in Nat : m = Len(list)
          BY <1>2, <2>1
        <5>2. n + 2 <= m /\ 4 + m < Len(program)
          BY <4>5, <5>1
        <5> QED
          BY <5>2
      <4>9. Visits(program, f, n + 5, nr) /\ program[n + 5] = Jump("jeq", k, 0, 1)
            /\ program[n + 6] = Ret("allow")
        BY <2>3, <3>2, <4>6, <4>7, Zenon
      <4>10. /\ nr = k => Visits(program, f, n + 6, nr)
             /\ nr # k => Visits(program, f, n + 7, nr)
        <5>1. /\ nr = k => Visits(program, f, (n + 5) + 1 + 0, nr)
              /\ nr # k => Visits(program, f, (n + 5) + 1 + 1, nr)
          BY <4>7, <4>8, <4>9, Equals
        <5> QED
          BY <4>7, <5>1, Zenon
      <4>11. CASE nr = k
        <5>1. Visits(program, f, n + 6, nr) /\ "allow" # "none"
          BY <4>10, <4>11
        <5>2. Allowed
          BY <4>8, <4>9, <5>1, Returns
        <5>3. Is(i) /\ i \in 1..i
          BY <2>1, <3>6, <4>1, <4>11
        <5> QED
          BY <5>2, <5>3, Zenon
      <4>12. CASE nr # k
        <5>1. Visits(program, f, 5 + Len(g[i]), nr)
          BY <4>3, <4>7, <4>10, <4>12, Zenon
        <5>2. ~ Is(i)
          BY <4>1, <4>12
        <5> QED
          BY <2>3, <3>1, <5>1, <5>2, Zenon
      <4> QED
        BY <4>11, <4>12
    <3> QED
      BY <3>5, <3>6
  <2> QED
    BY <1>4, <2>2, <2>3, Zenon
<1>5. Good(l)
  <2> DEFINE T == {i \in 0..l : ~ Good(i)}
  <2> HIDE DEF Good
  <2> SUFFICES ASSUME T # {} PROVE FALSE
    OBVIOUS
  <2>1. PICK x \in T : \A y \in T : x <= y
    <3>1. T \subseteq Nat
      OBVIOUS
    <3> QED
      BY <3>1, LeastNat
  <2>2. CASE x = 0
    BY <1>3, <2>1, <2>2
  <2>3. CASE x # 0
    <3>1. x \in 1..l /\ x - 1 \in 0..l /\ ~ (x <= x - 1)
      BY <2>3
    <3>2. Good(x - 1)
      BY <2>1, <3>1
    <3> QED
      BY <1>4, <2>1, <3>1, <3>2
  <2> QED
    BY <2>2, <2>3
<1>6. g[l] = list
  BY <1>1 DEF ListGrows
<1> QED
  BY <1>5, <1>6, Zenon

(* A check joined to a program is there, and what was there before is.       *)
LEMMA CheckJoins ==
  ASSUME NEW s, NEW n, NEW at, NEW l, NEW field \in Words,
         Has(s, n), Plus(at, n, 1), Plus(l, n, 3)
  PROVE  /\ Has(s \o CheckArgument(field), l)
         /\ \A i \in 1..n : (s \o CheckArgument(field))[i] = s[i]
         /\ CheckAt(s \o CheckArgument(field), at, field)
<1>1. PICK a \in Insn, b \in Insn, c \in Insn :
        a = Fetch(field) /\ b = Jump("jge", UidMinLimit, 1, 0) /\ c = Ret("kill")
  <2>1. UidMinLimit \in Nat /\ 1 \in Nat /\ 0 \in Nat
    BY FilterAssumption DEF FilterAssumption
  <2>2. "jge" \in {"jeq", "jge"} /\ "kill" \in Words
    BY DEF Words
  <2> QED
    BY <2>1, <2>2, InsnsAre, Zenon
<1>2. CheckArgument(field) = <<a, b, c>>
  BY <1>1, Zenon DEF CheckArgument
<1>3. PICK t : t = CheckArgument(field)
  OBVIOUS
<1>4. Has(t, 3) /\ t[1] = a /\ t[2] = b /\ t[3] = c
  <2>1. /\ <<a, b, c>> \in Seq(Insn) /\ Len(<<a, b, c>>) = 3
        /\ <<a, b, c>>[1] = a /\ <<a, b, c>>[2] = b /\ <<a, b, c>>[3] = c
    BY ONLY a \in Insn, b \in Insn, c \in Insn, ThreeLong
  <2>2. 3 \in Nat
    OBVIOUS
  <2> QED
    BY <1>2, <1>3, <2>1, <2>2, Zenon DEF Has
<1>50. Joins(s, t, n, 3)
  BY <1>4, JoinedAt, Zenon
<1>5. /\ Has(s \o t, n + 3)
      /\ \A i \in 1..n : (s \o t)[i] = s[i]
      /\ \A i \in 1..3 : (s \o t)[n + i] = t[i]
  BY <1>50, Zenon DEF Joins
<1>6. n \in Nat /\ at = n + 1 /\ l = n + 3
  BY Zenon DEF Has, Plus
<1>7. 1 \in 1..3 /\ 2 \in 1..3 /\ 3 \in 1..3 /\ n + 2 = at + 1 /\ n + 3 = at + 2
  BY <1>6
<1>8. CheckAt(s \o t, at, field)
  BY <1>1, <1>4, <1>5, <1>6, <1>7, Zenon DEF CheckAt
<1> QED
  BY <1>3, <1>5, <1>6, <1>8, Zenon

(* The jump that begins a filter.                                            *)
LEMMA JumpAlone ==
  ASSUME NEW nr \in Nat, NEW jf \in Nat
  PROVE  /\ Has(<<Jump("jeq", nr, 0, jf)>>, 1)
         /\ <<Jump("jeq", nr, 0, jf)>>[1] = Jump("jeq", nr, 0, jf)
<1>1. 0 \in Nat
  OBVIOUS
<1>2. "jeq" \in {"jeq", "jge"}
  OBVIOUS
<1>3. PICK a \in Insn : a = Jump("jeq", nr, 0, jf)
  BY <1>1, <1>2, InsnsAre, Zenon
<1>4. <<a>> \in Seq(Insn) /\ Len(<<a>>) = 1 /\ <<a>>[1] = a
  BY ONLY a \in Insn, OneLong
<1>5. 1 \in Nat
  OBVIOUS
<1> QED
  BY <1>3, <1>4, <1>5, Zenon DEF Has

(* The arguments are among the words.                                        *)
LEMMA WordsAre == "a0" \in Words /\ "a1" \in Words /\ "a2" \in Words
  BY DEF Words

(* The filters of calls with one, two and three arguments.                   *)
LEMMA OneArgument ==
  ASSUME NEW nr \in Nat
  PROVE  /\ Has(AppendUidRangeFilter(nr), 4)
         /\ AppendUidRangeFilter(nr)[1] = Jump("jeq", nr, 0, 3)
         /\ CheckAt(AppendUidRangeFilter(nr), 2, "a0")
<1> DEFINE s0 == <<Jump("jeq", nr, 0, 3)>>
           s1 == s0 \o CheckArgument("a0")
<1>1. AppendUidRangeFilter(nr) = s1
  <2>1. BpfPerUidSyscall(1) - 1 = 3
    BY DEF BpfPerUidSyscall
  <2> QED
    BY <2>1, Zenon DEF AppendUidRangeFilter
<1>2. Has(s0, 1) /\ s0[1] = Jump("jeq", nr, 0, 3)
  <2>1. 3 \in Nat
    OBVIOUS
  <2> QED
    BY <2>1, JumpAlone, Zenon
<1> HIDE DEF s0
<1>3. /\ Has(s1, 4) /\ s1[1] = Jump("jeq", nr, 0, 3)
      /\ CheckAt(s1, 2, "a0")
  <2>1. Plus(2, 1, 1) /\ Plus(4, 1, 3) /\ 1 \in 1..1
    BY DEF Plus
  <2>2. /\ Has(s1, 4) /\ CheckAt(s1, 2, "a0")
        /\ \A i \in 1..1 : s1[i] = s0[i]
    BY <1>2, <2>1, CheckJoins, WordsAre, Zenon
  <2> HIDE DEF s1
  <2> QED
    BY <1>2, <2>1, <2>2, Zenon DEF CheckAt
<1> HIDE DEF s1
<1> QED
  BY <1>1, <1>3, Zenon

(* setreuid.                                                                 *)
LEMMA TwoArguments ==
  ASSUME NEW nr \in Nat
  PROVE  /\ Has(AppendSetreuidRangeFilter(nr), 7)
         /\ AppendSetreuidRangeFilter(nr)[1] = Jump("jeq", nr, 0, 6)
         /\ CheckAt(AppendSetreuidRangeFilter(nr), 2, "a0")
         /\ CheckAt(AppendSetreuidRangeFilter(nr), 5, "a1")
<1> DEFINE s0 == <<Jump("jeq", nr, 0, 6)>>
           s1 == s0 \o CheckArgument("a0")
           s2 == s1 \o CheckArgument("a1")
<1>1. AppendSetreuidRangeFilter(nr) = s2
  <2>1. BpfPerUidSyscall(2) - 1 = 6
    BY DEF BpfPerUidSyscall
  <2> QED
    BY <2>1, Zenon DEF AppendSetreuidRangeFilter
<1>2. Has(s0, 1) /\ s0[1] = Jump("jeq", nr, 0, 6)
  <2>1. 6 \in Nat
    OBVIOUS
  <2> QED
    BY <2>1, JumpAlone, Zenon
<1> HIDE DEF s0
<1>3. /\ Has(s1, 4) /\ s1[1] = Jump("jeq", nr, 0, 6)
      /\ CheckAt(s1, 2, "a0")
  <2>1. Plus(2, 1, 1) /\ Plus(4, 1, 3) /\ 1 \in 1..1
    BY DEF Plus
  <2>2. /\ Has(s1, 4) /\ CheckAt(s1, 2, "a0")
        /\ \A i \in 1..1 : s1[i] = s0[i]
    BY <1>2, <2>1, CheckJoins, WordsAre, Zenon
  <2> HIDE DEF s1
  <2> QED
    BY <1>2, <2>1, <2>2, Zenon DEF CheckAt
<1> HIDE DEF s1
<1>4. /\ Has(s2, 7) /\ s2[1] = Jump("jeq", nr, 0, 6)
      /\ CheckAt(s2, 2, "a0")
      /\ CheckAt(s2, 5, "a1")
  <2>1. Plus(5, 4, 1) /\ Plus(7, 4, 3) /\ 1 \in 1..4
        /\ 2 \in 1..4 /\ 2 + 1 \in 1..4 /\ 2 + 2 \in 1..4
    BY DEF Plus
  <2>2. /\ Has(s2, 7) /\ CheckAt(s2, 5, "a1")
        /\ \A i \in 1..4 : s2[i] = s1[i]
    BY <1>3, <2>1, CheckJoins, WordsAre, Zenon
  <2> HIDE DEF s2
  <2> QED
    BY <1>3, <2>1, <2>2, Zenon DEF CheckAt
<1> HIDE DEF s2
<1> QED
  BY <1>1, <1>4, Zenon

(* setresuid.                                                                *)
LEMMA ThreeArguments ==
  ASSUME NEW nr \in Nat
  PROVE  /\ Has(AppendSetresuidRangeFilter(nr), 10)
         /\ AppendSetresuidRangeFilter(nr)[1] = Jump("jeq", nr, 0, 9)
         /\ CheckAt(AppendSetresuidRangeFilter(nr), 2, "a0")
         /\ CheckAt(AppendSetresuidRangeFilter(nr), 5, "a1")
         /\ CheckAt(AppendSetresuidRangeFilter(nr), 8, "a2")
<1> DEFINE s0 == <<Jump("jeq", nr, 0, 9)>>
           s1 == s0 \o CheckArgument("a0")
           s2 == s1 \o CheckArgument("a1")
           s3 == s2 \o CheckArgument("a2")
<1>1. AppendSetresuidRangeFilter(nr) = s3
  <2>1. BpfPerUidSyscall(3) - 1 = 9
    BY DEF BpfPerUidSyscall
  <2> QED
    BY <2>1, Zenon DEF AppendSetresuidRangeFilter
<1>2. Has(s0, 1) /\ s0[1] = Jump("jeq", nr, 0, 9)
  <2>1. 9 \in Nat
    OBVIOUS
  <2> QED
    BY <2>1, JumpAlone, Zenon
<1> HIDE DEF s0
<1>3. /\ Has(s1, 4) /\ s1[1] = Jump("jeq", nr, 0, 9)
      /\ CheckAt(s1, 2, "a0")
  <2>1. Plus(2, 1, 1) /\ Plus(4, 1, 3) /\ 1 \in 1..1
    BY DEF Plus
  <2>2. /\ Has(s1, 4) /\ CheckAt(s1, 2, "a0")
        /\ \A i \in 1..1 : s1[i] = s0[i]
    BY <1>2, <2>1, CheckJoins, WordsAre, Zenon
  <2> HIDE DEF s1
  <2> QED
    BY <1>2, <2>1, <2>2, Zenon DEF CheckAt
<1> HIDE DEF s1
<1>4. /\ Has(s2, 7) /\ s2[1] = Jump("jeq", nr, 0, 9)
      /\ CheckAt(s2, 2, "a0")
      /\ CheckAt(s2, 5, "a1")
  <2>1. Plus(5, 4, 1) /\ Plus(7, 4, 3) /\ 1 \in 1..4
        /\ 2 \in 1..4 /\ 2 + 1 \in 1..4 /\ 2 + 2 \in 1..4
    BY DEF Plus
  <2>2. /\ Has(s2, 7) /\ CheckAt(s2, 5, "a1")
        /\ \A i \in 1..4 : s2[i] = s1[i]
    BY <1>3, <2>1, CheckJoins, WordsAre, Zenon
  <2> HIDE DEF s2
  <2> QED
    BY <1>3, <2>1, <2>2, Zenon DEF CheckAt
<1> HIDE DEF s2
<1>5. /\ Has(s3, 10) /\ s3[1] = Jump("jeq", nr, 0, 9)
      /\ CheckAt(s3, 2, "a0")
      /\ CheckAt(s3, 5, "a1")
      /\ CheckAt(s3, 8, "a2")
  <2>1. Plus(8, 7, 1) /\ Plus(10, 7, 3) /\ 1 \in 1..7
        /\ 2 \in 1..7 /\ 2 + 1 \in 1..7 /\ 2 + 2 \in 1..7
        /\ 5 \in 1..7 /\ 5 + 1 \in 1..7 /\ 5 + 2 \in 1..7
    BY DEF Plus
  <2>2. /\ Has(s3, 10) /\ CheckAt(s3, 8, "a2")
        /\ \A i \in 1..7 : s3[i] = s2[i]
    BY <1>4, <2>1, CheckJoins, WordsAre, Zenon
  <2> HIDE DEF s3
  <2> QED
    BY <1>4, <2>1, <2>2, Zenon DEF CheckAt
<1> HIDE DEF s3
<1> QED
  BY <1>1, <1>5, Zenon

(* A program has a part, behind the first of its instructions.               *)
HasPart(u, s, d, n) == d \in Nat /\ n \in Nat /\ \A j \in 1..n : u[d + j] = s[j]

Fits(d, n, m) == d + n <= m
Equal(u, k, s, i) == u[k] = s[i]

(* Two joined pieces are both there.                                         *)
LEMMA JoinedHolds ==
  ASSUME NEW s, NEW t, NEW n, NEW m, Has(s, n), Has(t, m)
  PROVE  HasPart(s \o t, s, 0, n) /\ HasPart(s \o t, t, n, m) /\ Has(s \o t, n + m)
<1>1. Joins(s, t, n, m)
  BY JoinedAt, Zenon
<1>2. n \in Nat /\ m \in Nat /\ 0 \in Nat /\ \A j \in 1..n : 0 + j = j
  BY DEF Has
<1> QED
  BY <1>1, <1>2, Zenon DEF Joins, HasPart

(* A part of a part is a part.                                               *)
LEMMA HoldsWithin ==
  ASSUME NEW w, NEW u, NEW s, NEW e, NEW d, NEW m, NEW n, NEW k,
         HasPart(w, u, e, m), HasPart(u, s, d, n), Fits(d, n, m), Plus(k, e, d)
  PROVE  HasPart(w, s, k, n)
<1>1. e \in Nat /\ d \in Nat /\ m \in Nat /\ n \in Nat /\ k = e + d /\ d + n <= m
  BY DEF HasPart, Plus, Fits
<1>2. ASSUME NEW j \in 1..n PROVE w[k + j] = s[j]
  <2>1. d + j \in 1..m /\ e + (d + j) = k + j
    BY <1>1
  <2>2. w[e + (d + j)] = u[d + j] /\ u[d + j] = s[j]
    BY <2>1, Zenon DEF HasPart
  <2> QED
    BY <2>1, <2>2, Zenon
<1>3. k \in Nat
  BY <1>1
<1> QED
  BY <1>1, <1>2, <1>3, Zenon DEF HasPart

(* An instruction of a part is one of the program.                           *)
LEMMA InsnHeld ==
  ASSUME NEW u, NEW s, NEW d, NEW n, HasPart(u, s, d, n), NEW i \in 1..n, NEW k, Plus(k, d, i)
  PROVE  Equal(u, k, s, i)
  BY Zenon DEF HasPart, Plus, Equal

(* A check of a part is one of the program.                                  *)
LEMMA CheckHeld ==
  ASSUME NEW u, NEW s, NEW d, NEW n, HasPart(u, s, d, n), NEW i \in 1..n, Fits(i, 2, n),
         NEW k, Plus(k, d, i), NEW field, CheckAt(s, i, field)
  PROVE  CheckAt(u, k, field)
<1>1. d \in Nat /\ n \in Nat /\ k = d + i /\ i + 2 <= n
  BY DEF HasPart, Plus, Fits
<1>2. i + 1 \in 1..n /\ i + 2 \in 1..n /\ d + (i + 1) = k + 1 /\ d + (i + 2) = k + 2
  BY <1>1
<1>3. u[d + i] = s[i] /\ u[d + (i + 1)] = s[i + 1] /\ u[d + (i + 2)] = s[i + 2]
  BY <1>2, Zenon DEF HasPart
<1> QED
  BY <1>1, <1>2, <1>3, Zenon DEF CheckAt

(* The numbers of the calls that change the user.                            *)
LEMMA UidNumbers ==
  /\ Resolve["setuid"] \in Nat /\ Resolve["setreuid"] \in Nat
  /\ Resolve["setresuid"] \in Nat /\ Resolve["setfsuid"] \in Nat
  BY FilterAssumption DEF FilterAssumption, UidCalls

(* The section of these calls, wherever it stands.                           *)
LEMMA UidSectionHeld ==
  ASSUME NEW program, NEW b \in Nat, HasPart(program, AppendUidRangeSyscalls, b, 25)
  PROVE  UidSectionAt(program, b)
<1> DEFINE u1 == AppendUidRangeFilter(Resolve["setuid"])
           u2 == AppendSetreuidRangeFilter(Resolve["setreuid"])
           u3 == AppendSetresuidRangeFilter(Resolve["setresuid"])
           u4 == AppendUidRangeFilter(Resolve["setfsuid"])
           v2 == u1 \o u2
           v3 == v2 \o u3
           v4 == v3 \o u4
<1>1. /\ Has(u1, 4) /\ u1[1] = Jump("jeq", Resolve["setuid"], 0, 3) /\ CheckAt(u1, 2, "a0")
      /\ Has(u4, 4) /\ u4[1] = Jump("jeq", Resolve["setfsuid"], 0, 3) /\ CheckAt(u4, 2, "a0")
  BY UidNumbers, OneArgument, Zenon
<1>2. /\ Has(u2, 7) /\ u2[1] = Jump("jeq", Resolve["setreuid"], 0, 6)
      /\ CheckAt(u2, 2, "a0") /\ CheckAt(u2, 5, "a1")
  BY UidNumbers, TwoArguments, Zenon
<1>3. /\ Has(u3, 10) /\ u3[1] = Jump("jeq", Resolve["setresuid"], 0, 9)
      /\ CheckAt(u3, 2, "a0") /\ CheckAt(u3, 5, "a1") /\ CheckAt(u3, 8, "a2")
  BY UidNumbers, ThreeArguments, Zenon
<1>4. AppendUidRangeSyscalls = v4
  BY Zenon DEF AppendUidRangeSyscalls
<1> HIDE DEF u1, u2, u3, u4
<1>5. HasPart(v2, u1, 0, 4) /\ HasPart(v2, u2, 4, 7) /\ Has(v2, 11)
  <2>1. 4 + 7 = 11
    OBVIOUS
  <2> QED
    BY <1>1, <1>2, <2>1, JoinedHolds
<1> HIDE DEF v2
<1>6. HasPart(v3, v2, 0, 11) /\ HasPart(v3, u3, 11, 10) /\ Has(v3, 21)
  <2>1. 11 + 10 = 21
    OBVIOUS
  <2> QED
    BY <1>3, <1>5, <2>1, JoinedHolds
<1> HIDE DEF v3
<1>7. HasPart(v4, v3, 0, 21) /\ HasPart(v4, u4, 21, 4)
  BY <1>1, <1>6, JoinedHolds, Zenon
<1> HIDE DEF v4
<1>8. HasPart(program, v4, b, 25)
  BY <1>4, Zenon
<1>9. /\ Plus(b, b, 0) /\ Plus(b + 4, b, 4) /\ Plus(b + 11, b, 11) /\ Plus(b + 21, b, 21)
      /\ Fits(0, 4, 11) /\ Fits(4, 7, 11) /\ Fits(0, 11, 21) /\ Fits(11, 10, 21) /\ Fits(0, 21, 25) /\ Fits(21, 4, 25)
  BY DEF Plus, Fits
<1>10. HasPart(program, v3, b, 21) /\ HasPart(program, u4, b + 21, 4)
  <2>1. HasPart(program, v3, b, 21)
    BY ONLY <1>7, <1>8, <1>9, HoldsWithin
  <2>2. HasPart(program, u4, b + 21, 4)
    BY ONLY <1>7, <1>8, <1>9, HoldsWithin
  <2> QED
    BY <2>1, <2>2, Zenon
<1>11. HasPart(program, v2, b, 11) /\ HasPart(program, u3, b + 11, 10)
  <2>1. HasPart(program, v2, b, 11)
    BY ONLY <1>6, <1>9, <1>10, HoldsWithin
  <2>2. HasPart(program, u3, b + 11, 10)
    BY ONLY <1>6, <1>9, <1>10, HoldsWithin
  <2> QED
    BY <2>1, <2>2, Zenon
<1>12. HasPart(program, u1, b, 4) /\ HasPart(program, u2, b + 4, 7)
  <2>1. HasPart(program, u1, b, 4)
    BY ONLY <1>5, <1>9, <1>11, HoldsWithin
  <2>2. HasPart(program, u2, b + 4, 7)
    BY ONLY <1>5, <1>9, <1>11, HoldsWithin
  <2> QED
    BY <2>1, <2>2, Zenon
<1>13. /\ 1 \in 1..4 /\ 2 \in 1..4 /\ Fits(2, 2, 4)
       /\ 1 \in 1..7 /\ 2 \in 1..7 /\ 5 \in 1..7 /\ Fits(2, 2, 7) /\ Fits(5, 2, 7)
       /\ 1 \in 1..10 /\ 2 \in 1..10 /\ 5 \in 1..10 /\ 8 \in 1..10
       /\ Fits(2, 2, 10) /\ Fits(5, 2, 10) /\ Fits(8, 2, 10)
  BY DEF Fits
<1>14. program[b + 1] = Jump("jeq", Resolve["setuid"], 0, 3) /\ CheckAt(program, b + 2, "a0")
  <2>1. Plus(b + 1, b, 1) /\ Plus(b + 2, b, 2)
    BY DEF Plus
  <2>2. Equal(program, b + 1, u1, 1)
    BY ONLY <1>12, <1>13, <2>1, InsnHeld
  <2>3. CheckAt(program, b + 2, "a0")
    BY ONLY <1>1, <1>12, <1>13, <2>1, CheckHeld
  <2> QED
    BY <1>1, <2>2, <2>3, Zenon DEF Equal
<1>15. /\ program[b + 5] = Jump("jeq", Resolve["setreuid"], 0, 6)
       /\ CheckAt(program, b + 6, "a0") /\ CheckAt(program, b + 9, "a1")
  <2>1. Plus(b + 5, b + 4, 1) /\ Plus(b + 6, b + 4, 2) /\ Plus(b + 9, b + 4, 5)
    BY DEF Plus
  <2>2. Equal(program, b + 5, u2, 1)
    BY ONLY <1>12, <1>13, <2>1, InsnHeld
  <2>3. CheckAt(program, b + 6, "a0")
    BY ONLY <1>2, <1>12, <1>13, <2>1, CheckHeld
  <2>4. CheckAt(program, b + 9, "a1")
    BY ONLY <1>2, <1>12, <1>13, <2>1, CheckHeld
  <2> QED
    BY <1>2, <2>2, <2>3, <2>4, Zenon DEF Equal
<1>16. /\ program[b + 12] = Jump("jeq", Resolve["setresuid"], 0, 9)
       /\ CheckAt(program, b + 13, "a0") /\ CheckAt(program, b + 16, "a1")
       /\ CheckAt(program, b + 19, "a2")
  <2>1. /\ Plus(b + 12, b + 11, 1) /\ Plus(b + 13, b + 11, 2)
        /\ Plus(b + 16, b + 11, 5) /\ Plus(b + 19, b + 11, 8)
    BY DEF Plus
  <2>2. Equal(program, b + 12, u3, 1)
    BY ONLY <1>11, <1>13, <2>1, InsnHeld
  <2>3. CheckAt(program, b + 13, "a0")
    BY ONLY <1>3, <1>11, <1>13, <2>1, CheckHeld
  <2>4. CheckAt(program, b + 16, "a1")
    BY ONLY <1>3, <1>11, <1>13, <2>1, CheckHeld
  <2>5. CheckAt(program, b + 19, "a2")
    BY ONLY <1>3, <1>11, <1>13, <2>1, CheckHeld
  <2> QED
    BY <1>3, <2>2, <2>3, <2>4, <2>5, Zenon DEF Equal
<1>17. program[b + 22] = Jump("jeq", Resolve["setfsuid"], 0, 3) /\ CheckAt(program, b + 23, "a0")
  <2>1. Plus(b + 22, b + 21, 1) /\ Plus(b + 23, b + 21, 2)
    BY DEF Plus
  <2>2. Equal(program, b + 22, u4, 1)
    BY ONLY <1>10, <1>13, <2>1, InsnHeld
  <2>3. CheckAt(program, b + 23, "a0")
    BY ONLY <1>1, <1>10, <1>13, <2>1, CheckHeld
  <2> QED
    BY <1>1, <2>2, <2>3, Zenon DEF Equal
<1> QED
  BY <1>14, <1>15, <1>16, <1>17, Zenon DEF UidSectionAt

(* The section has 25 instructions.                                          *)
LEMMA UidSectionHas == Has(AppendUidRangeSyscalls, 25)
<1> DEFINE u1 == AppendUidRangeFilter(Resolve["setuid"])
           u2 == AppendSetreuidRangeFilter(Resolve["setreuid"])
           u3 == AppendSetresuidRangeFilter(Resolve["setresuid"])
           u4 == AppendUidRangeFilter(Resolve["setfsuid"])
<1>1. Has(u1, 4) /\ Has(u2, 7) /\ Has(u3, 10) /\ Has(u4, 4)
  BY UidNumbers, OneArgument, TwoArguments, ThreeArguments, Zenon
<1>2. AppendUidRangeSyscalls = ((u1 \o u2) \o u3) \o u4
  BY Zenon DEF AppendUidRangeSyscalls
<1> HIDE DEF u1, u2, u3, u4
<1>3. 4 + 7 = 11 /\ 11 + 10 = 21 /\ 21 + 4 = 25
  OBVIOUS
<1>4. Has(u1 \o u2, 11)
  BY <1>1, <1>3, JoinedHolds
<1>5. Has((u1 \o u2) \o u3, 21)
  BY <1>1, <1>3, <1>4, JoinedHolds
<1>6. Has(((u1 \o u2) \o u3) \o u4, 25)
  BY <1>1, <1>3, <1>5, JoinedHolds
<1> QED
  BY <1>2, <1>6, Zenon

(* The program has its parts in their places, and fits the room made for it. *)
LEMMA FilterIs ==
  ASSUME NEW names, Len(names) \in Nat, TotalLen(names) < ProgramLimit
  PROVE  \E l \in Nat :
           /\ l = Len(AppendAllowList(names))
           /\ Len(BuildSeccompFilter(names)) = l + 30
           /\ l + 30 <= TotalLen(names)
           /\ HasPart(BuildSeccompFilter(names), AppendArchCheck, 0, 4)
           /\ HasPart(BuildSeccompFilter(names), AppendAllowList(names), 4, l)
           /\ HasPart(BuildSeccompFilter(names), AppendUidRangeSyscalls, l + 4, 25)
           /\ BuildSeccompFilter(names)[l + 30] = Ret(DefaultAction(names))
<1> DEFINE a == AppendArchCheck
           list == AppendAllowList(names)
           u == AppendUidRangeSyscalls
           r == <<Ret(DefaultAction(names))>>
           l == Len(list)
           q == a \o list
           p == q \o u
           whole == p \o r
<1>1. Has(a, 4)
  <2>1. ArchAarch64 \in Nat /\ 1 \in Nat /\ 0 \in Nat
    BY DEF ArchAarch64
  <2>2. "jeq" \in {"jeq", "jge"} /\ "arch" \in Words /\ "nr" \in Words /\ "kill" \in Words
    BY DEF Words
  <2>3. PICK w \in Insn, x \in Insn, y \in Insn, z \in Insn :
          /\ w = Fetch("arch") /\ x = Jump("jeq", ArchAarch64, 1, 0)
          /\ y = Ret("kill") /\ z = Fetch("nr")
    BY <2>1, <2>2, InsnsAre, Zenon
  <2>4. a = <<w, x, y, z>>
    BY <2>3, Zenon DEF AppendArchCheck
  <2>5. <<w, x, y, z>> \in Seq(Insn) /\ Len(<<w, x, y, z>>) = 4
    BY ONLY w \in Insn, x \in Insn, y \in Insn, z \in Insn, FourLong
  <2>6. 4 \in Nat
    OBVIOUS
  <2> QED
    BY <2>4, <2>5, <2>6, Zenon DEF Has
<1>2. Has(list, l) /\ l <= 2 * Len(names)
  <2>1. PICK g : ListGrows(names, g)
    BY AllowListGrows, Zenon
  <2>2. Len(names) \in 0..Len(names)
    OBVIOUS
  <2>3. g[Len(names)] \in Seq(Insn) /\ g[Len(names)] = list
    BY <2>1, <2>2, Zenon DEF ListGrows
  <2>4. Len(g[Len(names)]) \in Nat /\ Len(g[Len(names)]) <= 2 * Len(names)
    BY <2>1, <2>2, ListPrefixes
  <2> QED
    BY <2>3, <2>4, Zenon DEF Has
<1>3. Has(r, 1) /\ r[1] = Ret(DefaultAction(names))
  <2>1. "allow" \in Words /\ "kill" \in Words
    BY DEF Words
  <2>2. PICK w \in Insn : w = Ret(DefaultAction(names))
    BY <2>1, InsnsAre, Zenon DEF DefaultAction
  <2>3. <<w>> \in Seq(Insn) /\ Len(<<w>>) = 1 /\ <<w>>[1] = w
    BY ONLY w \in Insn, OneLong
  <2>4. 1 \in Nat
    OBVIOUS
  <2> QED
    BY <2>2, <2>3, <2>4, Zenon DEF Has
<1>4. BuildSeccompFilter(names) = SubSeq(whole, 1, Len(whole) % ProgramLimit)
  BY Zenon DEF BuildSeccompFilter
<1>5. TotalLen(names) = 2 * Len(names) + 30
  BY DEF TotalLen, ArchCheckBpfCnt, BpfPerSyscall, BpfPerUidSyscall
<1> HIDE DEF a, list, u, r, l
<1>6. l \in Nat
  BY <1>2, Zenon DEF Has
<1>7. HasPart(q, a, 0, 4) /\ HasPart(q, list, 4, l) /\ Has(q, l + 4)
  <2>1. 4 + l = l + 4
    BY <1>6
  <2> QED
    BY <1>1, <1>2, <2>1, JoinedHolds
<1> HIDE DEF q
<1>8. HasPart(p, q, 0, l + 4) /\ HasPart(p, u, l + 4, 25) /\ Has(p, l + 29)
  <2>1. (l + 4) + 25 = l + 29
    BY <1>6
  <2> QED
    BY <1>7, <2>1, UidSectionHas, JoinedHolds DEF u
<1> HIDE DEF p
<1>9. HasPart(whole, p, 0, l + 29) /\ HasPart(whole, r, l + 29, 1) /\ Has(whole, l + 30)
  <2>1. (l + 29) + 1 = l + 30
    BY <1>6
  <2> QED
    BY <1>3, <1>8, <2>1, JoinedHolds
<1> HIDE DEF whole
<1>10. l + 30 <= TotalLen(names) /\ l + 30 < ProgramLimit /\ l + 30 \in Nat
  <2>1. PICK n, m, k : n \in Nat /\ n = Len(names) /\ m = TotalLen(names) /\ k = l
    OBVIOUS
  <2>2. k <= 2 * n /\ m = 2 * n + 30 /\ m < 65536 /\ k \in Nat /\ n \in Nat
    BY <1>2, <1>5, <1>6, <2>1 DEF ProgramLimit
  <2>3. k + 30 <= m /\ k + 30 < 65536 /\ k + 30 \in Nat
    BY ONLY <2>2
  <2>4. ProgramLimit = 65536
    BY DEF ProgramLimit
  <2> QED
    BY ONLY <2>1, <2>3, <2>4
<1>11. BuildSeccompFilter(names) = whole
  <2>1. whole \in Seq(Insn) /\ Len(whole) = l + 30
    BY <1>9, Zenon DEF Has
  <2>2. (l + 30) % ProgramLimit = l + 30
    BY <1>10 DEF ProgramLimit
  <2>3. SubSeq(whole, 1, Len(whole)) = whole
    BY <2>1, SubSeqFull
  <2> QED
    BY <1>4, <2>1, <2>2, <2>3, Zenon
<1>12. /\ Plus(0, 0, 0) /\ Plus(4, 0, 4) /\ Plus(l + 4, 0, l + 4) /\ Plus(l + 30, l + 29, 1)
       /\ 1 \in 1..1 /\ Fits(0, 4, l + 4) /\ Fits(4, l, l + 4)
       /\ Fits(0, l + 4, l + 29) /\ Fits(l + 4, 25, l + 29)
  BY <1>6 DEF Plus, Fits
<1>13. HasPart(whole, q, 0, l + 4) /\ HasPart(whole, u, l + 4, 25)
  <2>1. HasPart(whole, q, 0, l + 4)
    BY ONLY <1>8, <1>9, <1>12, HoldsWithin
  <2>2. HasPart(whole, u, l + 4, 25)
    BY ONLY <1>8, <1>9, <1>12, HoldsWithin
  <2> QED
    BY <2>1, <2>2, Zenon
<1>14. HasPart(whole, a, 0, 4) /\ HasPart(whole, list, 4, l)
  <2>1. HasPart(whole, a, 0, 4)
    BY ONLY <1>7, <1>12, <1>13, HoldsWithin
  <2>2. HasPart(whole, list, 4, l)
    BY ONLY <1>7, <1>12, <1>13, HoldsWithin
  <2> QED
    BY <2>1, <2>2, Zenon
<1>15. whole[l + 30] = Ret(DefaultAction(names))
  <2>1. Equal(whole, l + 30, r, 1)
    BY ONLY <1>9, <1>12, InsnHeld
  <2> QED
    BY <1>3, <2>1, Zenon DEF Equal
<1>16. Len(whole) = l + 30
  BY <1>9, Zenon DEF Has
<1> QED
  BY <1>6, <1>10, <1>11, <1>13, <1>14, <1>15, <1>16, Zenon DEF a, list, u, l

(* The check of the architecture, at the head of a program.                  *)
LEMMA HeadDecides ==
  ASSUME NEW program, NEW call, NEW f, Len(program) \in Nat, 5 <= Len(program),
         Runs(program, call, f), HasPart(program, AppendArchCheck, 0, 4)
  PROVE  /\ call["arch"] # ArchAarch64 => f[Len(program)].verdict = "kill"
         /\ call["arch"] = ArchAarch64 => Visits(program, f, 5, call["nr"])
<1>1. /\ program[1] = Fetch("arch") /\ program[2] = Jump("jeq", ArchAarch64, 1, 0)
      /\ program[3] = Ret("kill") /\ program[4] = Fetch("nr")
  <2>1. /\ AppendArchCheck[1] = Fetch("arch") /\ AppendArchCheck[2] = Jump("jeq", ArchAarch64, 1, 0)
        /\ AppendArchCheck[3] = Ret("kill") /\ AppendArchCheck[4] = Fetch("nr")
    <3> DEFINE i1 == Fetch("arch")
               i2 == Jump("jeq", ArchAarch64, 1, 0)
               i3 == Ret("kill")
               i4 == Fetch("nr")
    <3>1. AppendArchCheck = <<i1, i2, i3, i4>>
      BY Zenon DEF AppendArchCheck
    <3> HIDE DEF i1, i2, i3, i4
    <3>2. /\ <<i1, i2, i3, i4>>[1] = i1 /\ <<i1, i2, i3, i4>>[2] = i2
          /\ <<i1, i2, i3, i4>>[3] = i3 /\ <<i1, i2, i3, i4>>[4] = i4
      OBVIOUS
    <3> QED
      BY <3>1, <3>2, Zenon DEF i1, i2, i3, i4
  <2>2. /\ 1 \in 1..4 /\ 2 \in 1..4 /\ 3 \in 1..4 /\ 4 \in 1..4
        /\ 0 + 1 = 1 /\ 0 + 2 = 2 /\ 0 + 3 = 3 /\ 0 + 4 = 4
    OBVIOUS
  <2>3. \A j \in 1..4 : program[j] = AppendArchCheck[j]
    <3>1. \A j \in 1..4 : program[0 + j] = AppendArchCheck[j] /\ 0 + j = j
      BY DEF HasPart
    <3> QED
      BY <3>1, Zenon
  <2>4. /\ program[1] = AppendArchCheck[1] /\ program[2] = AppendArchCheck[2]
        /\ program[3] = AppendArchCheck[3] /\ program[4] = AppendArchCheck[4]
    BY <2>2, <2>3, Zenon
  <2> QED
    BY <2>1, <2>4, Zenon
<1>2. /\ 1 \in 1..Len(program) /\ 2 \in 1..Len(program)
      /\ 3 \in 1..Len(program) /\ 4 \in 1..Len(program)
      /\ 1 + 1 = 2 /\ 2 + 1 + 1 = 4 /\ 2 + 1 + 0 = 3 /\ 4 + 1 = 5 /\ 0 \in Nat /\ 1 \in Nat
  OBVIOUS
<1>3. Visits(program, f, 1, 0)
  BY Starts, Zenon
<1>4. Visits(program, f, 2, call["arch"])
  <2>1. Visits(program, f, 1 + 1, call["arch"])
    BY <1>1, <1>2, <1>3, Loads, Zenon
  <2> QED
    BY <1>2, <2>1, Zenon
<1>5. /\ call["arch"] = ArchAarch64 => Visits(program, f, 2 + 1 + 1, call["arch"])
      /\ call["arch"] # ArchAarch64 => Visits(program, f, 2 + 1 + 0, call["arch"])
  BY <1>1, <1>2, <1>4, Equals, Zenon
<1>6. ASSUME call["arch"] # ArchAarch64 PROVE f[Len(program)].verdict = "kill"
  <2>1. Visits(program, f, 3, call["arch"])
    BY <1>2, <1>5, <1>6, Zenon
  <2>2. "kill" # "none"
    OBVIOUS
  <2> QED
    BY <1>1, <1>2, <2>1, <2>2, Returns, Zenon
<1>7. ASSUME call["arch"] = ArchAarch64 PROVE Visits(program, f, 5, call["nr"])
  <2>1. Visits(program, f, 4, call["arch"])
    BY <1>2, <1>5, <1>7, Zenon
  <2>2. Visits(program, f, 4 + 1, call["nr"])
    BY <1>1, <1>2, <2>1, Loads, Zenon
  <2> QED
    BY <1>2, <2>2, Zenon
<1> QED
  BY <1>6, <1>7, Zenon

(* The verdict in the order of the program's tests.                           *)
OrderedVerdict(names, call) ==
  IF call.arch # ArchAarch64 THEN "kill"
  ELSE IF \E n \in ToSet(names) \cap DOMAIN Resolve : Resolve[n] = call.nr THEN "allow"
  ELSE IF \E a \in UserArguments(call.nr) : call[a] < UidMinLimit THEN "kill"
  ELSE DefaultAction(names)

(* It is the documented one, but for listed calls to become a system user.    *)
LEMMA OrderIsDocumented ==
  ASSUME NEW names \in Seq(STRING), NEW call
  PROVE  OrderedVerdict(names, call) =
           IF ListedSystemUser(names, call) THEN "allow" ELSE DocumentedVerdict(names, call)
<1>1. IsListed(names, call.nr) => names # <<>>
  BY DEF IsListed, ToSet
<1>2. OrderedVerdict(names, call) =
        IF call.arch # ArchAarch64 THEN "kill"
        ELSE IF IsListed(names, call.nr) THEN "allow"
        ELSE IF NamesSystemUser(call) THEN "kill"
        ELSE IF names = <<>> THEN "allow" ELSE "kill"
  BY Zenon DEF OrderedVerdict, IsListed, NamesSystemUser, DefaultAction
<1> QED
  BY <1>1, <1>2, Zenon DEF ListedSystemUser, DocumentedVerdict

(* The filter of every allow list gives every call its verdict.              *)
LEMMA FilterDecides ==
  ASSUME NEW names \in Seq(STRING), TotalLen(names) < ProgramLimit, NEW call \in [CallFields -> Nat]
  PROVE  /\ Len(BuildSeccompFilter(names)) <= TotalLen(names)
         /\ RunFilter(BuildSeccompFilter(names), call) = OrderedVerdict(names, call)
<1> DEFINE program == BuildSeccompFilter(names)
           Listed == \E n \in ToSet(names) \cap DOMAIN Resolve : Resolve[n] = call.nr
           Low == \E a \in UserArguments(call.nr) : call[a] < UidMinLimit
<1>1. Len(names) \in Nat /\ DOMAIN names = 1..Len(names)
  OBVIOUS
<1>2. PICK l \in Nat :
        /\ l = Len(AppendAllowList(names))
        /\ Len(program) = l + 30
        /\ l + 30 <= TotalLen(names)
        /\ HasPart(program, AppendArchCheck, 0, 4)
        /\ HasPart(program, AppendAllowList(names), 4, l)
        /\ HasPart(program, AppendUidRangeSyscalls, l + 4, 25)
        /\ program[l + 30] = Ret(DefaultAction(names))
  BY <1>1, FilterIs, Zenon
<1> HIDE DEF program
<1>3. /\ call.arch = call["arch"] /\ call.nr = call["nr"] /\ call.nr \in Nat
      /\ call["a0"] \in Nat /\ call["a1"] \in Nat /\ call["a2"] \in Nat
  BY DEF CallFields
<1>4. /\ Len(program) \in Nat /\ 5 <= Len(program) /\ 4 + l < Len(program)
      /\ l + 4 \in Nat /\ Len(program) = (l + 4) + 26 /\ (l + 4) + 26 = l + 30
      /\ 5 + l = (l + 4) + 1
  BY <1>2
<1>5. PICK f : /\ f[0] = MachineStart
               /\ \A n \in 1..Len(program) : f[n] = Advance(program, call, f[n - 1])
               /\ RunFilter(program, call) = f[Len(program)].verdict
  BY <1>4, FilterRuns, Zenon
<1>6. Runs(program, call, f)
  BY <1>5, Zenon DEF Runs
<1>7. /\ call["arch"] # ArchAarch64 => f[Len(program)].verdict = "kill"
      /\ call["arch"] = ArchAarch64 => Visits(program, f, 5, call["nr"])
  BY <1>2, <1>4, <1>6, HeadDecides, Zenon
<1>8. Listed <=> \E i \in 1..Len(names) : names[i] \in DOMAIN Resolve /\ Resolve[names[i]] = call.nr
  <2>1. ToSet(names) = {names[i] : i \in 1..Len(names)}
    BY <1>1, Zenon DEF ToSet
  <2> QED
    BY <2>1, Zenon
<1> HIDE DEF Listed
<1>9. f[Len(program)].verdict = OrderedVerdict(names, call)
  <2>1. CASE call["arch"] # ArchAarch64
    BY <1>3, <1>7, <2>1, Zenon DEF OrderedVerdict
  <2>2. CASE call["arch"] = ArchAarch64
    <3>1. Visits(program, f, 5, call.nr)
      BY <1>3, <1>7, <2>2, Zenon
    <3>2. \A j \in 1..l : program[4 + j] = AppendAllowList(names)[j]
      BY <1>2, Zenon DEF HasPart
    <3>3. \/ Listed /\ f[Len(program)].verdict = "allow"
          \/ ~ Listed /\ Visits(program, f, 5 + l, call.nr)
      BY <1>1, <1>2, <1>3, <1>4, <1>6, <1>8, <3>1, <3>2, AllowListDecides, Zenon
    <3>4. CASE Listed /\ f[Len(program)].verdict = "allow"
      BY <1>3, <2>2, <3>4, Zenon DEF OrderedVerdict, Listed
    <3>5. CASE ~ Listed /\ Visits(program, f, 5 + l, call.nr)
      <4>1. UidSectionAt(program, l + 4)
        BY <1>2, <1>4, UidSectionHeld, Zenon
      <4>2. program[(l + 4) + 26] = Ret(DefaultAction(names))
        BY <1>2, <1>4, Zenon
      <4>3. DefaultAction(names) # "none"
        BY DEF DefaultAction
      <4>4. Visits(program, f, (l + 4) + 1, call.nr)
        BY <1>4, <3>5, Zenon
      <4>5. f[Len(program)].verdict = IF Low THEN "kill" ELSE DefaultAction(names)
        <5>1. PICK b, d : b \in Nat /\ b = l + 4 /\ d = DefaultAction(names)
          BY <1>4
        <5>2. /\ Len(program) = b + 26 /\ UidSectionAt(program, b) /\ d # "none"
              /\ program[b + 26] = Ret(d) /\ Visits(program, f, b + 1, call.nr)
          BY <1>4, <4>1, <4>2, <4>3, <4>4, <5>1, Zenon
        <5>3. f[Len(program)].verdict = IF Low THEN "kill" ELSE d
          BY <1>3, <1>6, <5>1, <5>2, UidSectionDecides, ZenonT(30)
        <5> QED
          BY <5>1, <5>3, Zenon
      <4> QED
        BY <1>3, <2>2, <3>5, <4>5, Zenon DEF OrderedVerdict, Listed
    <3> QED
      BY <3>3, <3>4, <3>5, Zenon
  <2> QED
    BY <2>1, <2>2, Zenon
<1> QED
  BY <1>2, <1>5, <1>9, Zenon DEF program

(* FilterGivesVerdict for every table of system calls, every allow list the   *)
(* length of a program can count, and every call: the program of              *)
(* BuildSeccompFilter is within the room made for it, and the kernel's machine *)
(* gives the verdict the comments announce, but for a listed call to become a *)
(* system user, which passes.                                                 *)
THEOREM FilterIsRight == AnyInput => []FilterGivesVerdict
<1> DEFINE Known ==
      input.kind = "syscall" => /\ input.names \in Seq(STRING)
                                /\ TotalLen(input.names) < ProgramLimit
                                /\ input.call \in [CallFields -> Nat]
<1>1. NoInput => Known
  BY DEF NoInput
<1>2. Known /\ [TakeInput]_input => Known'
  <2> SUFFICES ASSUME Known, [TakeInput]_input PROVE Known'
    OBVIOUS
  <2>1. CASE SysCall
    <3>1. PICK names \in AllowLists, call \in SysCalls :
            input' = [kind |-> "syscall", names |-> names, call |-> call]
      BY <2>1 DEF SysCall
    <3>2. /\ names \in Seq(STRING) /\ TotalLen(names) < ProgramLimit
          /\ call \in [CallFields -> Nat]
      BY InputAssumption, Zenon DEF InputAssumption
    <3>3. input'.names = names /\ input'.call = call
      BY <3>1
    <3> QED
      BY <3>2, <3>3, Zenon
  <2>2. CASE Pattern \/ Profile \/ Json \/ Share
    BY <2>2 DEF Pattern, Profile, Json, Share
  <2>3. CASE UNCHANGED input
    BY <2>3
  <2> QED
    BY <2>1, <2>2, <2>3 DEF TakeInput
<1>3. Known => FilterGivesVerdict
  BY FilterDecides, OrderIsDocumented, Zenon DEF FilterGivesVerdict
<1> QED
  BY <1>1, <1>2, <1>3, PTL DEF AnyInput

-----------------------------------------------------------------------------
(* How CheckJsonDepth reads the text of a value.  What it does with a text    *)
(* depends on the state it is in when the text begins, so the lemmas say      *)
(* which states a text takes it between, and join texts.                      *)

(* A text takes the scan from one state to another.                           *)
Reads(text, s, t) ==
  \E r : /\ r[0] = s /\ r[Len(text)] = t
         /\ \A i \in 1..Len(text) : r[i] = Scan(r[i - 1], text[i])

(* CheckJsonDepth is where its text takes the scan from the start.            *)
LEMMA CheckReads ==
  ASSUME NEW text, Len(text) \in Nat, NEW t, Reads(text, ScanStart, t)
  PROVE  CheckJsonDepth(text) <=> ~t.refused
<1> DEFINE n == Len(text)
           To(g) == g = [i \in 0..n |-> IF i = 0 THEN ScanStart ELSE Scan(g[i - 1], text[i])]
           f == CHOOSE g : To(g)
<1>1. PICK r : /\ r[0] = ScanStart /\ r[n] = t
               /\ \A i \in 1..n : r[i] = Scan(r[i - 1], text[i])
  BY Zenon DEF Reads
<1>2. \E g : To(g)
  <2> DEFINE g == [i \in 0..n |-> r[i]]
  <2>1. \A i \in 0..n : g[i] = IF i = 0 THEN ScanStart ELSE Scan(g[i - 1], text[i])
    <3> SUFFICES ASSUME NEW i \in 0..n
                 PROVE  g[i] = IF i = 0 THEN ScanStart ELSE Scan(g[i - 1], text[i])
      OBVIOUS
    <3>1. CASE i = 0
      BY <1>1, <3>1
    <3>2. CASE i # 0
      <4>1. i \in 1..n /\ i - 1 \in 0..n
        BY <3>2
      <4>2. g[i] = r[i] /\ g[i - 1] = r[i - 1]
        BY <4>1
      <4> QED
        BY <1>1, <3>2, <4>1, <4>2, Zenon
    <3> QED
      BY <3>1, <3>2
  <2>2. g = [i \in 0..n |-> g[i]]
    OBVIOUS
  <2> HIDE DEF g
  <2>3. To(g)
    BY <2>1, <2>2, Zenon
  <2> QED
    BY <2>3
<1>3. To(f)
  BY <1>2, Zenon
<1>4. CheckJsonDepth(text) <=> ~f[n].refused
  BY DEF CheckJsonDepth
<1> HIDE DEF f
<1>5. \A i \in 0..n : f[i] = IF i = 0 THEN ScanStart ELSE Scan(f[i - 1], text[i])
  BY <1>3, Zenon
<1>6. f[n] = r[n]
  <2> DEFINE T == {i \in 0..n : f[i] # r[i]}
  <2> SUFFICES ASSUME T # {} PROVE FALSE
    OBVIOUS
  <2>1. PICK x \in T : \A y \in T : x <= y
    <3>1. T \subseteq Nat
      OBVIOUS
    <3> QED
      BY <3>1, LeastNat
  <2>2. x # 0
    BY <1>1, <1>5, <2>1
  <2>3. x \in 1..n /\ x - 1 \in 0..n /\ ~ (x <= x - 1)
    BY <2>1, <2>2
  <2>4. f[x - 1] = r[x - 1]
    BY <2>1, <2>3
  <2>5. f[x] = Scan(f[x - 1], text[x])
    BY <1>5, <2>2, <2>3, Zenon
  <2> QED
    BY <1>1, <2>1, <2>3, <2>4, <2>5, Zenon
<1> QED
  BY <1>1, <1>4, <1>6, Zenon

(* One character is read in one step.                                         *)
LEMMA ReadsOne ==
  ASSUME NEW c, NEW s, NEW t, t = Scan(s, c)
  PROVE  Reads(<<c>>, s, t)
<1> DEFINE r == [i \in 0..1 |-> IF i = 0 THEN s ELSE t]
<1>1. Len(<<c>>) = 1 /\ <<c>>[1] = c /\ r[0] = s /\ r[1] = t
  OBVIOUS
<1> HIDE DEF r
<1>2. \A i \in 1..1 : r[i] = Scan(r[i - 1], <<c>>[i])
  <2> SUFFICES ASSUME NEW i \in 1..1 PROVE r[i] = Scan(r[i - 1], <<c>>[i])
    OBVIOUS
  <2>1. i = 1 /\ i - 1 = 0
    OBVIOUS
  <2> QED
    BY <1>1, <2>1, Zenon
<1> QED
  BY <1>1, <1>2, Zenon DEF Reads

(* The empty text leaves the scan where it is.                                *)
LEMMA ReadsNone ==
  ASSUME NEW s PROVE Reads(<<>>, s, s)
<1> DEFINE r == [i \in 0..0 |-> s]
<1>1. Len(<<>>) = 0 /\ r[0] = s /\ 1..0 = {}
  OBVIOUS
<1> HIDE DEF r
<1> QED
  BY <1>1, Zenon DEF Reads

(* Once it gave up, nothing more is looked at.                                *)
LEMMA ReadsRefused ==
  ASSUME NEW text, Len(text) \in Nat, NEW s, s.refused = TRUE
  PROVE  Reads(text, s, s)
<1> DEFINE r == [i \in 0..Len(text) |-> s]
<1>1. \A c : Scan(s, c) = s
  BY Zenon DEF Scan
<1>2. \A i \in 0..Len(text) : r[i] = s
  OBVIOUS
<1>3. 0 \in 0..Len(text) /\ Len(text) \in 0..Len(text)
      /\ \A i \in 1..Len(text) : i \in 0..Len(text) /\ i - 1 \in 0..Len(text)
  OBVIOUS
<1> HIDE DEF r
<1> QED
  BY <1>1, <1>2, <1>3, Zenon DEF Reads

(* What two texts do one after the other, they do when they are joined.       *)
LEMMA ReadsJoin ==
  ASSUME NEW S, NEW a \in Seq(S), NEW b \in Seq(S), NEW s, NEW t, NEW u,
         Reads(a, s, t), Reads(b, t, u)
  PROVE  Reads(a \o b, s, u)
<1> DEFINE c == a \o b
<1>1. PICK n \in Nat, m \in Nat : n = Len(a) /\ m = Len(b)
  BY LenProperties
<1>2. /\ Len(c) = n + m
      /\ \A i \in 1..n : c[i] = a[i]
      /\ \A i \in 1..(n + m) : i > n => c[i] = b[i - n]
  <2>1. Len(c) = n + m
    BY <1>1
  <2>2. \A i \in 1..n : c[i] = a[i]
    BY <1>1
  <2>3. \A i \in 1..(n + m) : i > n => c[i] = b[i - n]
    BY <1>1
  <2> QED
    BY <2>1, <2>2, <2>3
<1> HIDE DEF c
<1>3. PICK p : /\ p[0] = s /\ p[n] = t
               /\ \A i \in 1..n : p[i] = Scan(p[i - 1], a[i])
  BY <1>1, Zenon DEF Reads
<1>4. PICK q : /\ q[0] = t /\ q[m] = u
               /\ \A i \in 1..m : q[i] = Scan(q[i - 1], b[i])
  BY <1>1, Zenon DEF Reads
<1> DEFINE r == [i \in 0..(n + m) |-> IF i <= n THEN p[i] ELSE q[i - n]]
<1>5. r[0] = s
  BY <1>3
<1>6. r[n + m] = u
  <2>1. CASE m = 0
    <3>1. n + m = n /\ n <= n /\ n \in 0..(n + m)
      BY <2>1
    <3>2. r[n + m] = p[n]
      BY <3>1
    <3> QED
      BY <1>3, <1>4, <2>1, <3>2
  <2>2. CASE m # 0
    <3>1. ~ (n + m <= n) /\ (n + m) - n = m /\ n + m \in 0..(n + m)
      BY <2>2
    <3> QED
      BY <1>4, <3>1
  <2> QED
    BY <2>1, <2>2
<1>7. ASSUME NEW i \in 1..(n + m) PROVE r[i] = Scan(r[i - 1], c[i])
  <2>1. CASE i <= n
    <3>1. i \in 1..n /\ i - 1 <= n /\ i - 1 \in 0..(n + m) /\ i \in 0..(n + m)
      BY <2>1
    <3>2. r[i] = p[i] /\ r[i - 1] = p[i - 1]
      BY <2>1, <3>1
    <3> QED
      BY <1>2, <1>3, <3>1, <3>2, Zenon
  <2>2. CASE i > n
    <3>1. i - n \in 1..m /\ (i - 1) - n = (i - n) - 1 /\ i \in 0..(n + m)
          /\ i - 1 \in 0..(n + m) /\ ~ (i <= n)
      BY <2>2
    <3>2. r[i] = q[i - n]
      BY <3>1
    <3>3. r[i - 1] = q[(i - n) - 1]
      <4>1. CASE i - 1 <= n
        <5>1. i - 1 = n /\ (i - n) - 1 = 0
          BY <2>2, <4>1
        <5>2. r[i - 1] = p[n]
          BY <3>1, <4>1, <5>1
        <5> QED
          BY <1>3, <1>4, <5>1, <5>2, Zenon
      <4>2. CASE ~ (i - 1 <= n)
        BY <3>1, <4>2
      <4> QED
        BY <4>1, <4>2
    <3>4. c[i] = b[i - n]
      BY <1>2, <2>2
    <3> QED
      BY <1>4, <3>1, <3>2, <3>3, <3>4, Zenon
  <2> QED
    BY <2>1, <2>2
<1> HIDE DEF r
<1> QED
  BY <1>2, <1>5, <1>6, <1>7, Zenon DEF Reads, c

(* Parts read one after the other are read when they are joined.              *)
LEMMA ReadsFlatten ==
  ASSUME NEW S, NEW parts \in Seq(Seq(S)), NEW q,
         \A i \in 1..Len(parts) : Reads(parts[i], q[i - 1], q[i])
  PROVE  Reads(FlattenSeq(parts), q[0], q[Len(parts)])
<1>1. PICK n \in Nat : n = Len(parts)
  BY LenProperties
<1>2. PICK g : /\ g[0] = <<>> /\ g[n] = FlattenSeq(parts)
               /\ \A i \in 0..n : g[i] \in Seq(S)
               /\ \A i \in 1..n : g[i] = g[i - 1] \o parts[i]
  <2>1. \E g : /\ g[0] = <<>> /\ g[Len(parts)] = FlattenSeq(parts)
               /\ \A i \in 0..Len(parts) : g[i] \in Seq(S)
               /\ \A i \in 1..Len(parts) : g[i] = g[i - 1] \o parts[i]
    BY FlattenGrows
  <2> QED
    BY <1>1, <2>1, Zenon
<1> DEFINE T == {i \in 0..n : ~Reads(g[i], q[0], q[i])}
<1>3. T = {}
  <2> SUFFICES ASSUME T # {} PROVE FALSE
    OBVIOUS
  <2>1. PICK x \in T : \A y \in T : x <= y
    <3>1. T \subseteq Nat
      OBVIOUS
    <3> QED
      BY <3>1, LeastNat
  <2>2. x # 0
    BY <1>2, <2>1, ReadsNone
  <2>3. x \in 1..n /\ x - 1 \in 0..n /\ ~ (x <= x - 1)
    BY <2>1, <2>2
  <2>4. Reads(g[x - 1], q[0], q[x - 1])
    BY <2>1, <2>3
  <2>5. g[x - 1] \in Seq(S) /\ parts[x] \in Seq(S) /\ Reads(parts[x], q[x - 1], q[x])
    BY <1>1, <1>2, <2>3
  <2>6. Reads(g[x - 1] \o parts[x], q[0], q[x])
    BY <2>4, <2>5, ReadsJoin, Zenon
  <2> QED
    BY <1>2, <2>1, <2>3, <2>6, Zenon
<1>4. n \in 0..n
  OBVIOUS
<1> QED
  BY <1>1, <1>2, <1>3, <1>4, Zenon

(* AtDepth strings and inside one, at a depth; and having given up.           *)
AtDepth(d) == [depth |-> d, inString |-> FALSE, escaped |-> FALSE, refused |-> FALSE]
InText(d) == [depth |-> d, inString |-> TRUE, escaped |-> FALSE, refused |-> FALSE]
AtEscape(d) == [depth |-> d, inString |-> TRUE, escaped |-> TRUE, refused |-> FALSE]
Abandoned == [depth |-> MaxJsonDepth + 1, inString |-> FALSE, escaped |-> FALSE, refused |-> TRUE]

(* The steps of the scan between these states.                                *)
LEMMA ScanSteps ==
  ASSUME NEW d \in Nat
  PROVE  /\ InText(d) = Scan(AtDepth(d), "\"")
         /\ AtDepth(d) = Scan(InText(d), "\"")
         /\ AtEscape(d) = Scan(InText(d), "\\")
         /\ \A c : InText(d) = Scan(AtEscape(d), c)
         /\ \A c : c \notin {"\"", "\\"} => InText(d) = Scan(InText(d), c)
         /\ AtDepth(d) = Scan(AtDepth(d), ",")
         /\ d < MaxJsonDepth => AtDepth(d + 1) = Scan(AtDepth(d), "[")
         /\ d = MaxJsonDepth => Abandoned = Scan(AtDepth(d), "[")
         /\ AtDepth(d) = Scan(AtDepth(d + 1), "]")
<1>1. MaxJsonDepth \in Nat
  BY DepthAssumption DEF DepthAssumption
<1>2. "\"" # "\\" /\ "\"" # "[" /\ "\"" # "]" /\ "\"" # "," /\ "[" # "]" /\ "," # "[" /\ "," # "]"
  OBVIOUS
<1>3. /\ InText(d) = Scan(AtDepth(d), "\"")
      /\ AtDepth(d) = Scan(InText(d), "\"")
      /\ AtEscape(d) = Scan(InText(d), "\\")
  BY <1>2 DEF Scan, AtDepth, InText, AtEscape
<1>4. /\ \A c : InText(d) = Scan(AtEscape(d), c)
      /\ \A c : c \notin {"\"", "\\"} => InText(d) = Scan(InText(d), c)
  BY <1>2 DEF Scan, InText, AtEscape
<1>5. AtDepth(d) = Scan(AtDepth(d), ",")
  BY <1>2 DEF Scan, AtDepth
<1>0. Scan(AtDepth(d), "[") = Deeper(AtDepth(d))
  <2>1. AtDepth(d).refused = FALSE /\ AtDepth(d).inString = FALSE
    BY DEF AtDepth
  <2> QED
    BY <1>2, <2>1, Zenon DEF Scan
<1>9. AtDepth(d).depth = d
  BY DEF AtDepth
<1>6. ASSUME d < MaxJsonDepth PROVE AtDepth(d + 1) = Scan(AtDepth(d), "[")
  <2>1. (d >= MaxJsonDepth) = FALSE
    BY <1>1, <1>6
  <2>2. Deeper(AtDepth(d)) = [depth |-> d + 1, inString |-> FALSE, escaped |-> FALSE, refused |-> FALSE]
    BY <1>9, <2>1, Zenon DEF Deeper
  <2> QED
    BY <1>0, <2>2, Zenon DEF AtDepth
<1>7. ASSUME d = MaxJsonDepth PROVE Abandoned = Scan(AtDepth(d), "[")
  <2>1. (d >= MaxJsonDepth) = TRUE
    BY <1>1, <1>7
  <2>2. Deeper(AtDepth(d)) = [depth |-> d + 1, inString |-> FALSE, escaped |-> FALSE, refused |-> TRUE]
    BY <1>9, <2>1, Zenon DEF Deeper
  <2> QED
    BY <1>0, <1>7, <2>2, Zenon DEF Abandoned
<1>8. AtDepth(d) = Scan(AtDepth(d + 1), "]")
  <2>1. d + 1 > 0 /\ (d + 1) - 1 = d
    OBVIOUS
  <2>2. Scan(AtDepth(d + 1), "]") = [AtDepth(d + 1) EXCEPT !.depth = @ - 1]
    BY <1>2, <2>1 DEF Scan, AtDepth
  <2> QED
    BY <2>1, <2>2 DEF AtDepth
<1> QED
  BY <1>3, <1>4, <1>5, <1>6, <1>7, <1>8

(* A sequence of one.                                                         *)
LEMMA OfOne ==
  ASSUME NEW S, NEW x \in Seq(S), Len(x) = 1
  PROVE  x = <<x[1]>>
  OBVIOUS

(* A sequence of two, taken apart.                                            *)
LEMMA OfTwo ==
  ASSUME NEW S, NEW x \in Seq(S), Len(x) = 2
  PROVE  /\ x = <<x[1]>> \o <<x[2]>>
         /\ <<x[1]>> \in Seq(S) /\ <<x[2]>> \in Seq(S)
  OBVIOUS

(* Making a sequence of one.                                                  *)
LEMMA SeqOfOne ==
  ASSUME NEW S, NEW c \in S
  PROVE  <<c>> \in Seq(S)
  OBVIOUS

(* Joining sequences.                                                         *)
LEMMA SeqJoin ==
  ASSUME NEW S, NEW a \in Seq(S), NEW b \in Seq(S)
  PROVE  a \o b \in Seq(S)
  OBVIOUS

(* What is joined from sequences is a sequence.                               *)
LEMMA FlattenIn ==
  ASSUME NEW S, NEW parts \in Seq(Seq(S))
  PROVE  FlattenSeq(parts) \in Seq(S)
<1>1. PICK n \in Nat : n = Len(parts)
  BY LenProperties
<1>2. \E g : /\ g[0] = <<>> /\ g[Len(parts)] = FlattenSeq(parts)
             /\ \A i \in 0..Len(parts) : g[i] \in Seq(S)
             /\ \A i \in 1..Len(parts) : g[i] = g[i - 1] \o parts[i]
  BY FlattenGrows
<1>3. n \in 0..n
  OBVIOUS
<1> QED
  BY <1>1, <1>2, <1>3, Zenon

(* A piece of a string leaves the scan inside of it.                          *)
LEMMA ReadsPiece ==
  ASSUME NEW piece, IsPiece(piece), NEW d \in Nat
  PROVE  Reads(piece, InText(d), InText(d))
<1>1. CASE piece \in Seq(STRING) /\ Len(piece) = 1 /\ piece[1] \notin {"\"", "\\"}
  <2>1. PICK c : c = piece[1] /\ c \notin {"\"", "\\"}
    BY <1>1, Zenon
  <2>2. piece = <<c>>
    BY <1>1, <2>1, OfOne, Zenon
  <2> QED
    BY <2>1, <2>2, ScanSteps, ReadsOne, ZenonT(30)
<1>2. CASE piece \in Seq(STRING) /\ Len(piece) = 2 /\ piece[1] = "\\"
  <2>1. /\ piece = <<piece[1]>> \o <<piece[2]>>
        /\ <<piece[1]>> \in Seq(STRING) /\ <<piece[2]>> \in Seq(STRING)
    BY <1>2, OfTwo, Zenon
  <2>2. AtEscape(d) = Scan(InText(d), piece[1]) /\ InText(d) = Scan(AtEscape(d), piece[2])
    BY <1>2, ScanSteps, Zenon
  <2>3. Reads(<<piece[1]>>, InText(d), AtEscape(d)) /\ Reads(<<piece[2]>>, AtEscape(d), InText(d))
    BY <2>2, ReadsOne, Zenon
  <2> QED
    BY <2>1, <2>3, ReadsJoin, Zenon
<1> QED
  BY <1>1, <1>2, Zenon DEF IsPiece

(* The places of a sequence and the ones before them.                         *)
LEMMA IndexBefore ==
  ASSUME NEW n \in Nat
  PROVE  /\ \A i \in 1..n : i \in 0..n /\ i - 1 \in 0..n
         /\ 0 \in 0..n /\ n \in 0..n
  OBVIOUS

(* A string changes nothing, at any depth.                                    *)
LEMMA ReadsString ==
  ASSUME NEW S, "\"" \in S, NEW pieces \in Seq(Seq(S)),
         \A i \in 1..Len(pieces) : IsPiece(pieces[i]), NEW d \in Nat
  PROVE  Reads(Str(pieces).text, AtDepth(d), AtDepth(d))
<1>1. PICK n \in Nat : n = Len(pieces)
  BY LenProperties
<1> DEFINE in == InText(d)
           q == [i \in 0..n |-> in]
           all == FlattenSeq(pieces)
<1> HIDE DEF in
<1>0. /\ \A i \in 1..n : i \in 0..n /\ i - 1 \in 0..n
      /\ 0 \in 0..n /\ n \in 0..n
  BY IndexBefore
<1>00. \A i \in 0..n : q[i] = in
  OBVIOUS
<1>2. /\ \A i \in 1..n : q[i - 1] = InText(d) /\ q[i] = InText(d)
      /\ q[0] = InText(d) /\ q[n] = InText(d)
  <2> HIDE DEF q
  <2> QED
    BY <1>0, <1>00, Zenon DEF in
<1> HIDE DEF q
<1>3. \A i \in 1..n : Reads(pieces[i], q[i - 1], q[i])
  BY <1>1, <1>2, ReadsPiece, Zenon
<1>4. Reads(all, InText(d), InText(d))
  BY <1>1, <1>2, <1>3, ReadsFlatten, Zenon
<1>5. all \in Seq(S)
  BY FlattenIn, Zenon
<1>6. Str(pieces).text = (<<"\"">> \o all) \o <<"\"">>
  BY DEF Str
<1> HIDE DEF all
<1>7. Reads(<<"\"">>, AtDepth(d), InText(d)) /\ Reads(<<"\"">>, InText(d), AtDepth(d))
  BY ScanSteps, ReadsOne, Zenon
<1>8. <<"\"">> \in Seq(S)
  BY SeqOfOne, Zenon
<1>9. <<"\"">> \o all \in Seq(S)
  BY <1>5, <1>8, SeqJoin, Zenon
<1>10. Reads(<<"\"">> \o all, AtDepth(d), InText(d))
  BY <1>4, <1>5, <1>7, <1>8, ReadsJoin, Zenon
<1>11. Reads((<<"\"">> \o all) \o <<"\"">>, AtDepth(d), AtDepth(d))
  BY <1>7, <1>8, <1>9, <1>10, ReadsJoin, Zenon
<1> QED
  BY <1>6, <1>11, Zenon

(* A sequence over a set is one over a larger set.                            *)
LEMMA SeqLarger ==
  ASSUME NEW A, NEW B, A \subseteq B, NEW s \in Seq(A)
  PROVE  s \in Seq(B)
OBVIOUS

(* The largest of zero and finitely many numbers.                             *)
LEMMA LargestOf ==
  ASSUME NEW n \in Nat, NEW h, \A i \in 1..n : h[i] \in Nat
  PROVE  LET m == Max({0} \cup {h[i] : i \in 1..n})
         IN m \in Nat /\ \A k \in Nat : m <= k <=> \A i \in 1..n : h[i] <= k
<1> DEFINE Top(k) == k \in Nat /\ (k = 0 \/ \E i \in 1..n : h[i] = k)
           Bounds(k, l) == \A i \in 1..l : h[i] <= k
           T == {l \in 0..n : ~ \E k : Top(k) /\ Bounds(k, l)}
<1>1. T = {}
  <2> SUFFICES ASSUME T # {} PROVE FALSE
    OBVIOUS
  <2>1. PICK x \in T : \A y \in T : x <= y
    <3>1. T \subseteq Nat
      OBVIOUS
    <3> QED
      BY <3>1, LeastNat
  <2>2. x # 0
    <3>1. Top(0) /\ Bounds(0, 0)
      OBVIOUS
    <3> QED
      BY <2>1, <3>1
  <2>3. x \in 1..n /\ x - 1 \in 0..n /\ ~ (x <= x - 1)
    BY <2>1, <2>2
  <2>4. PICK k : Top(k) /\ Bounds(k, x - 1)
    BY <2>1, <2>3
  <2>5. h[x] \in Nat /\ k \in Nat
    BY <2>3, <2>4
  <2>6. CASE h[x] <= k
    <3>1. Bounds(k, x)
      BY <2>3, <2>4, <2>6
    <3> QED
      BY <2>1, <2>4, <3>1
  <2>7. CASE ~ (h[x] <= k)
    <3>1. Top(h[x])
      BY <2>3, <2>5
    <3>2. Bounds(h[x], x)
      <4> SUFFICES ASSUME NEW i \in 1..x PROVE h[i] <= h[x]
        OBVIOUS
      <4>1. h[i] \in Nat
        BY <2>3
      <4>2. CASE i = x
        BY <2>5, <4>2
      <4>3. CASE i # x
        <5>1. i \in 1..(x - 1)
          BY <2>3, <4>3
        <5>2. h[i] <= k
          BY <2>4, <5>1
        <5> QED
          BY <2>5, <2>7, <4>1, <5>2
      <4> QED
        BY <4>2, <4>3
    <3> QED
      BY <2>1, <3>1, <3>2
  <2> QED
    BY <2>6, <2>7
<1>2. n \in 0..n
  OBVIOUS
<1>3. PICK t : Top(t) /\ Bounds(t, n)
  BY <1>1, <1>2
<1> DEFINE H == {0} \cup {h[i] : i \in 1..n}
           m == Max(H)
<1>4. H \subseteq Nat
  OBVIOUS
<1>5. t \in H /\ \A y \in H : t >= y
  BY <1>3
<1>6. m \in H /\ \A y \in H : m >= y
  <2> HIDE DEF H
  <2> QED
    BY <1>5, Zenon DEF Max
<1>7. \A k \in Nat : m <= k <=> \A i \in 1..n : h[i] <= k
  <2> HIDE DEF m
  <2> SUFFICES ASSUME NEW k \in Nat PROVE m <= k <=> \A i \in 1..n : h[i] <= k
    OBVIOUS
  <2>0. m \in Nat
    BY <1>4, <1>6
  <2>1. ASSUME m <= k, NEW i \in 1..n PROVE h[i] <= k
    <3>1. h[i] \in H /\ h[i] \in Nat
      OBVIOUS
    <3>2. m >= h[i]
      BY <1>6, <3>1
    <3> QED
      BY <2>0, <2>1, <3>1, <3>2
  <2>2. ASSUME \A i \in 1..n : h[i] <= k PROVE m <= k
    <3>1. CASE m = 0
      BY <3>1
    <3>2. CASE m # 0
      <4>1. PICK i \in 1..n : m = h[i]
        BY <1>6, <3>2
      <4> QED
        BY <2>2, <4>1
    <3> QED
      BY <3>1, <3>2
  <2> QED
    BY <2>1, <2>2
<1>8. m \in Nat
  <2> HIDE DEF H
  <2> QED
    BY <1>4, <1>6
<1> HIDE DEF m, H
<1> QED
  BY <1>7, <1>8, Zenon DEF m, H

(* Where a value of a height, met at a depth, leaves the scan.                *)
After(d, h) == IF d + h <= MaxJsonDepth THEN AtDepth(d) ELSE Abandoned

(* The text of an item of an array with the comma before it.                  *)
Item(items, i) == (IF i = 1 THEN <<>> ELSE <<",">>) \o items[i].text

(* The items of an array, one after the other.                                *)
LEMMA ReadsItems ==
  ASSUME NEW S, "," \in S, NEW n \in Nat, NEW items,
         \A i \in 1..n : items[i].height \in Nat /\ items[i].text \in Seq(S),
         NEW d \in Nat, d <= MaxJsonDepth,
         \A i \in 1..n : Reads(items[i].text, AtDepth(d), After(d, items[i].height)),
         NEW m \in Nat, \A k \in Nat : m <= k <=> \A i \in 1..n : items[i].height <= k
  PROVE  LET parts == [i \in 1..n |-> Item(items, i)]
         IN /\ FlattenSeq(parts) \in Seq(S)
            /\ Reads(FlattenSeq(parts), AtDepth(d), After(d, m))
<1> DEFINE parts == [i \in 1..n |-> Item(items, i)]
           FitTo(l) == \A i \in 1..l : d + items[i].height <= MaxJsonDepth
           q == [i \in 0..n |-> IF FitTo(i) THEN AtDepth(d) ELSE Abandoned]
<1>1. MaxJsonDepth \in Nat
  BY DepthAssumption DEF DepthAssumption
<1>2. \A i \in 1..n : parts[i] = Item(items, i)
  OBVIOUS
<1>3. \A i \in 1..n : Item(items, i) \in Seq(S)
  <2> SUFFICES ASSUME NEW i \in 1..n PROVE Item(items, i) \in Seq(S)
    OBVIOUS
  <2>1. (IF i = 1 THEN <<>> ELSE <<",">>) \in Seq(S)
    <3>1. <<",">> \in Seq(S)
      BY SeqOfOne, Zenon
    <3>2. <<>> \in Seq(S)
      BY EmptySeq, Zenon
    <3> QED
      BY <3>1, <3>2, Zenon
  <2>2. items[i].text \in Seq(S)
    OBVIOUS
  <2> QED
    BY <2>1, <2>2, SeqJoin, Zenon DEF Item
<1>4. parts \in Seq(Seq(S)) /\ Len(parts) = n
  <2> DEFINE P == Seq(S)
  <2>1. parts \in [1..n -> P]
    BY <1>3
  <2> HIDE DEF P, parts
  <2>2. parts \in Seq(P) /\ Len(parts) = n
    BY ONLY <2>1, n \in Nat, SMT
  <2> QED
    BY <2>2, Zenon DEF P
<1>5. \A i \in 0..n : q[i] = IF FitTo(i) THEN AtDepth(d) ELSE Abandoned
  OBVIOUS
<1> HIDE DEF parts, q
<1>6. ASSUME NEW i \in 1..n PROVE Reads(parts[i], q[i - 1], q[i])
  <2>1. i \in 0..n /\ i - 1 \in 0..n
    BY IndexBefore, Zenon
  <2>2. FitTo(i) <=> FitTo(i - 1) /\ d + items[i].height <= MaxJsonDepth
    <3>1. \A j : j \in 1..i <=> j \in 1..(i - 1) \/ j = i
      BY ONLY n \in Nat, i \in 1..n
    <3> QED
      BY <3>1, Zenon
  <2>3. CASE FitTo(i - 1)
    <3>1. q[i - 1] = AtDepth(d)
      BY <1>5, <2>1, <2>3, Zenon
    <3>2. q[i] = After(d, items[i].height)
      BY <1>5, <2>1, <2>2, <2>3, Zenon DEF After
    <3>3. Reads(IF i = 1 THEN <<>> ELSE <<",">>, AtDepth(d), AtDepth(d))
      <4>1. Reads(<<>>, AtDepth(d), AtDepth(d))
        BY ReadsNone, Zenon
      <4>2. Reads(<<",">>, AtDepth(d), AtDepth(d))
        BY ScanSteps, ReadsOne, Zenon
      <4> QED
        BY <4>1, <4>2, Zenon
    <3>4. (IF i = 1 THEN <<>> ELSE <<",">>) \in Seq(S)
      <4>1. <<",">> \in Seq(S)
        BY SeqOfOne, Zenon
      <4>2. <<>> \in Seq(S)
        BY EmptySeq, Zenon
      <4> QED
        BY <4>1, <4>2, Zenon
    <3>5. items[i].text \in Seq(S) /\ Reads(items[i].text, AtDepth(d), q[i])
      BY <3>2, Zenon
    <3>6. Reads(Item(items, i), AtDepth(d), q[i])
      BY <3>3, <3>4, <3>5, ReadsJoin, Zenon DEF Item
    <3> QED
      BY <1>2, <3>1, <3>6, Zenon
  <2>4. CASE ~FitTo(i - 1)
    <3>1. q[i - 1] = Abandoned /\ q[i] = Abandoned
      BY <1>5, <2>1, <2>2, <2>4, Zenon
    <3>2. Abandoned.refused = TRUE
      BY DEF Abandoned
    <3>3. Len(parts[i]) \in Nat
      <4>1. parts[i] \in Seq(S)
        BY <1>2, <1>3, Zenon
      <4> QED
        BY <4>1, LenProperties, Zenon
    <3> QED
      BY <3>1, <3>2, <3>3, ReadsRefused, Zenon
  <2> QED
    BY <2>3, <2>4
<1>7. Reads(FlattenSeq(parts), q[0], q[n])
  BY <1>4, <1>6, ReadsFlatten, Zenon
<1>8. q[0] = AtDepth(d)
  <2>1. 0 \in 0..n /\ 1..0 = {}
    BY ONLY n \in Nat
  <2>2. FitTo(0)
    BY <2>1, Zenon
  <2> QED
    BY <1>5, <2>1, <2>2, Zenon
<1>9. q[n] = After(d, m)
  <2>1. n \in 0..n
    BY IndexBefore, Zenon
  <2>2. PICK k \in Nat : k = MaxJsonDepth - d
    BY ONLY <1>1, d \in Nat, d <= MaxJsonDepth
  <2>3. FitTo(n) <=> d + m <= MaxJsonDepth
    <3>1. \A x \in Nat : x <= k <=> d + x <= MaxJsonDepth
      BY ONLY <1>1, <2>2, d \in Nat, k \in Nat
    <3>2. \A i \in 1..n : items[i].height <= k <=> d + items[i].height <= MaxJsonDepth
      BY <3>1, Zenon
    <3>3. m <= k <=> \A i \in 1..n : items[i].height <= k
      BY Zenon
    <3> QED
      BY <3>1, <3>2, <3>3, Zenon
  <2> QED
    BY <1>5, <2>1, <2>3, Zenon DEF After
<1>10. FlattenSeq(parts) \in Seq(S)
  BY <1>4, FlattenIn, Zenon
<1> QED
  BY <1>7, <1>8, <1>9, <1>10, Zenon DEF parts

(* The characters of a text: the ones the scan looks for among them.          *)
Alphabet == STRING \cup {"\"", "[", "]", ","}

(* An array whose items are read as they should be is read as it should.      *)
LEMMA ReadsArray ==
  ASSUME NEW items, NEW n \in Nat, n = Len(items),
         \A i \in 1..n : items[i].height \in Nat /\ items[i].text \in Seq(Alphabet),
         \A i \in 1..n, e \in 0..MaxJsonDepth :
           Reads(items[i].text, AtDepth(e), After(e, items[i].height)),
         NEW d \in 0..MaxJsonDepth
  PROVE  Reads(Arr(items).text, AtDepth(d), After(d, Arr(items).height))
<1> DEFINE h == [i \in 1..n |-> items[i].height]
           m == Max({0} \cup {h[i] : i \in 1..n})
           parts == [i \in 1..n |-> Item(items, i)]
           all == FlattenSeq(parts)
<1>1. MaxJsonDepth \in Nat
  BY DepthAssumption DEF DepthAssumption
<1>2. d \in Nat /\ d <= MaxJsonDepth
  BY ONLY <1>1, d \in 0..MaxJsonDepth
<1>3. \A i \in 1..n : h[i] = items[i].height
  OBVIOUS
<1>4. {items[i].height : i \in 1..n} = {h[i] : i \in 1..n}
  <2> HIDE DEF h
  <2> QED
    BY <1>3
<1>5. Arr(items).height = 1 + m
  <2> HIDE DEF h
  <2> QED
    BY <1>4, Zenon DEF Arr
<1>6. Arr(items).text = (<<"[">> \o all) \o <<"]">>
  <2>1. Arr(items).text = <<"[">> \o FlattenSeq([i \in 1..Len(items) |->
              (IF i = 1 THEN <<>> ELSE <<",">>) \o items[i].text]) \o <<"]">>
    BY Zenon DEF Arr
  <2> QED
    BY <2>1, Zenon DEF Item
<1> HIDE DEF h
<1>7. m \in Nat /\ \A k \in Nat : m <= k <=> \A i \in 1..n : h[i] <= k
  <2>1. \A i \in 1..n : h[i] \in Nat
    BY <1>3, Zenon
  <2> QED
    BY <2>1, LargestOf, Zenon
<1> HIDE DEF m
<1>8. \A k \in Nat : m <= k <=> \A i \in 1..n : items[i].height <= k
  BY <1>3, <1>7, Zenon
<1>9. \A c \in {"\"", "[", "]", ","} : c \in Alphabet /\ <<c>> \in Seq(Alphabet)
  <2>1. \A c \in {"\"", "[", "]", ","} : c \in Alphabet
    BY Zenon DEF Alphabet
  <2> QED
    BY <2>1, SeqOfOne, Zenon
<1>10. "[" \in {"\"", "[", "]", ","} /\ "]" \in {"\"", "[", "]", ","} /\ "," \in {"\"", "[", "]", ","}
  BY Zenon
<1>11. CASE d < MaxJsonDepth
  <2>1. PICK e \in Nat : e = d + 1 /\ e <= MaxJsonDepth /\ e \in 0..MaxJsonDepth
    BY ONLY <1>1, <1>2, <1>11
  <2>2. \A i \in 1..n : Reads(items[i].text, AtDepth(e), After(e, items[i].height))
    BY <2>1, Zenon
  <2>3. all \in Seq(Alphabet) /\ Reads(all, AtDepth(e), After(e, m))
    BY <1>7, <1>8, <1>9, <1>10, <2>1, <2>2, ReadsItems, Zenon
  <2> HIDE DEF all, parts
  <2>4. Reads(<<"[">>, AtDepth(d), AtDepth(e))
    BY <1>2, <1>11, <2>1, ScanSteps, ReadsOne, Zenon
  <2>5. e + m <= MaxJsonDepth <=> d + (1 + m) <= MaxJsonDepth
    BY ONLY <1>1, <1>2, <2>1, <1>7
  <2>6. Reads(<<"]">>, After(e, m), After(d, 1 + m))
    <3>1. CASE e + m <= MaxJsonDepth
      <4>1. After(e, m) = AtDepth(e) /\ After(d, 1 + m) = AtDepth(d)
        BY <2>5, <3>1, Zenon DEF After
      <4> QED
        BY <1>2, <2>1, <4>1, ScanSteps, ReadsOne, Zenon
    <3>2. CASE ~ (e + m <= MaxJsonDepth)
      <4>1. After(e, m) = Abandoned /\ After(d, 1 + m) = Abandoned
        BY <2>5, <3>2, Zenon DEF After
      <4>2. Abandoned.refused = TRUE
        BY DEF Abandoned
      <4>3. Len(<<"]">>) \in Nat
        OBVIOUS
      <4> QED
        BY <4>1, <4>2, <4>3, ReadsRefused, Zenon
    <3> QED
      BY <3>1, <3>2
  <2>7. Reads(<<"[">> \o all, AtDepth(d), After(e, m)) /\ <<"[">> \o all \in Seq(Alphabet)
    BY <1>9, <1>10, <2>3, <2>4, ReadsJoin, SeqJoin, Zenon
  <2>8. Reads((<<"[">> \o all) \o <<"]">>, AtDepth(d), After(d, 1 + m))
    BY <1>9, <1>10, <2>6, <2>7, ReadsJoin, Zenon
  <2> QED
    BY <1>5, <1>6, <2>8, Zenon
<1>12. CASE d = MaxJsonDepth
  <2>1. all \in Seq(Alphabet)
    <3>1. \A i \in 1..n : Reads(items[i].text, AtDepth(d), After(d, items[i].height))
      BY Zenon
    <3> QED
      BY <1>2, <1>7, <1>8, <1>9, <1>10, <3>1, ReadsItems, Zenon
  <2> HIDE DEF all, parts
  <2>2. Reads(<<"[">>, AtDepth(d), Abandoned)
    BY <1>2, <1>12, ScanSteps, ReadsOne, Zenon
  <2>3. Abandoned.refused = TRUE
    BY DEF Abandoned
  <2>4. Len(all) \in Nat /\ Len(<<"]">>) \in Nat
    <3>1. Len(all) \in Nat
      BY <2>1, LenProperties, Zenon
    <3>2. Len(<<"]">>) \in Nat
      BY <1>9, <1>10, LenProperties, Zenon
    <3> QED
      BY <3>1, <3>2
  <2>5. Reads(all, Abandoned, Abandoned) /\ Reads(<<"]">>, Abandoned, Abandoned)
    BY <2>3, <2>4, ReadsRefused, Zenon
  <2>6. Reads(<<"[">> \o all, AtDepth(d), Abandoned) /\ <<"[">> \o all \in Seq(Alphabet)
    BY <1>9, <1>10, <2>1, <2>2, <2>5, ReadsJoin, SeqJoin, Zenon
  <2>7. Reads((<<"[">> \o all) \o <<"]">>, AtDepth(d), Abandoned)
    BY <1>9, <1>10, <2>5, <2>6, ReadsJoin, Zenon
  <2>8. ~ (d + (1 + m) <= MaxJsonDepth)
    BY ONLY <1>1, <1>7, <1>12
  <2>9. After(d, 1 + m) = Abandoned
    BY <2>8, Zenon DEF After
  <2> QED
    BY <1>5, <1>6, <2>7, <2>9, Zenon
<1>13. d < MaxJsonDepth \/ d = MaxJsonDepth
  BY ONLY <1>1, <1>2
<1> QED
  BY <1>11, <1>12, <1>13

(* The height of an array is more than the heights of its items.              *)
LEMMA ItemsAreLower ==
  ASSUME NEW items, NEW n \in Nat, n = Len(items), \A i \in 1..n : items[i].height \in Nat
  PROVE  \A i \in 1..n : ~ (Arr(items).height <= items[i].height)
<1> DEFINE h == [i \in 1..n |-> items[i].height]
           m == Max({0} \cup {h[i] : i \in 1..n})
<1>3. \A i \in 1..n : h[i] = items[i].height
  OBVIOUS
<1> HIDE DEF h
<1>4. {items[i].height : i \in 1..n} = {h[i] : i \in 1..n}
  BY <1>3
<1>5. Arr(items).height = 1 + m
  BY <1>4, Zenon DEF Arr
<1>7. m \in Nat /\ \A k \in Nat : m <= k <=> \A i \in 1..n : h[i] <= k
  <2>1. \A i \in 1..n : h[i] \in Nat
    BY <1>3, Zenon
  <2> QED
    BY <2>1, LargestOf, Zenon
<1> HIDE DEF m
<1>8. \A i \in 1..n : h[i] <= m
  <2>1. m <= m
    BY ONLY <1>7
  <2> QED
    BY <1>7, <2>1, Zenon
<1>9. \A i \in 1..n : h[i] \in Nat /\ ~ (1 + m <= h[i])
  <2> SUFFICES ASSUME NEW i \in 1..n PROVE h[i] \in Nat /\ ~ (1 + m <= h[i])
    OBVIOUS
  <2>1. h[i] \in Nat /\ h[i] <= m /\ m \in Nat
    BY <1>3, <1>7, <1>8, Zenon
  <2> QED
    BY ONLY <2>1
<1> QED
  BY <1>3, <1>5, <1>9, Zenon

(* Every value is read as its height says, at every depth allowed.            *)
LEMMA ReadsValue ==
  ASSUME NEW values, AreJson(values),
         \A v \in values : v.height \in Nat /\ v.text \in Seq(STRING)
  PROVE  \A v \in values, d \in 0..MaxJsonDepth :
           Reads(v.text, AtDepth(d), After(d, v.height))
<1> DEFINE Right(v) == \A d \in 0..MaxJsonDepth : Reads(v.text, AtDepth(d), After(d, v.height))
           T == {v.height : v \in {w \in values : ~Right(w)}}
<1> SUFFICES ASSUME NEW w \in values, ~Right(w) PROVE FALSE
  BY Zenon
<1>1. MaxJsonDepth \in Nat
  BY DepthAssumption DEF DepthAssumption
<1>2. PICK x \in T : \A y \in T : x <= y
  <2> HIDE DEF Right
  <2>1. T \subseteq Nat /\ T # {}
    BY Zenon
  <2> QED
    BY <2>1, LeastNat, Zenon
<1>3. PICK v \in values : v.height = x /\ ~Right(v)
  BY <1>2, Zenon
<1>4. ASSUME NEW u \in values, ~ (v.height <= u.height) PROVE Right(u)
  <2> HIDE DEF Right
  <2> SUFFICES ASSUME ~Right(u) PROVE FALSE
    OBVIOUS
  <2>1. u.height \in T
    BY Zenon
  <2> QED
    BY <1>2, <1>3, <1>4, <2>1, Zenon
<1>5. ASSUME v = Str(v.pieces), v.pieces \in Seq(Seq(STRING)),
             \A i \in 1..Len(v.pieces) : IsPiece(v.pieces[i])
      PROVE  FALSE
  <2>1. v.height = 0
    <3>1. Str(v.pieces).height = 0
      BY DEF Str
    <3> QED
      BY <1>5, <3>1, Zenon
  <2>2. v.pieces \in Seq(Seq(Alphabet)) /\ "\"" \in Alphabet
    <3>1. STRING \subseteq Alphabet /\ "\"" \in Alphabet
      BY Zenon DEF Alphabet
    <3>2. \A s \in Seq(STRING) : s \in Seq(Alphabet)
      BY <3>1, SeqLarger, Zenon
    <3>3. Seq(STRING) \subseteq Seq(Alphabet)
      BY <3>2, Zenon
    <3> QED
      BY <1>5, <3>1, <3>3, SeqLarger, Zenon
  <2>3. ASSUME NEW d \in 0..MaxJsonDepth PROVE Reads(v.text, AtDepth(d), After(d, v.height))
    <3>1. d \in Nat /\ d + 0 <= MaxJsonDepth
      BY ONLY <1>1, d \in 0..MaxJsonDepth
    <3>2. Reads(Str(v.pieces).text, AtDepth(d), AtDepth(d))
      BY <1>5, <2>2, <3>1, ReadsString, Zenon
    <3>3. After(d, v.height) = AtDepth(d)
      BY <2>1, <3>1, Zenon DEF After
    <3> QED
      BY <1>5, <3>2, <3>3, Zenon
  <2> QED
    BY <1>3, <2>3, Zenon
<1>6. ASSUME v = Arr(v.items), v.items \in Seq(values)
      PROVE  FALSE
  <2>1. PICK n \in Nat : n = Len(v.items) /\ \A i \in 1..n : v.items[i] \in values
    <3>1. Len(v.items) \in Nat /\ \A i \in 1..Len(v.items) : v.items[i] \in values
      BY ONLY <1>6, LenProperties
    <3> QED
      BY <3>1, Zenon
  <2>2. \A i \in 1..n : v.items[i].height \in Nat /\ v.items[i].text \in Seq(Alphabet)
    <3>1. STRING \subseteq Alphabet
      BY Zenon DEF Alphabet
    <3>2. \A s \in Seq(STRING) : s \in Seq(Alphabet)
      BY <3>1, SeqLarger, Zenon
    <3> QED
      BY <2>1, <3>2, Zenon
  <2>3. \A i \in 1..n : ~ (v.height <= v.items[i].height)
    <3>1. \A i \in 1..n : ~ (Arr(v.items).height <= v.items[i].height)
      BY <2>1, <2>2, ItemsAreLower, Zenon
    <3> QED
      BY <1>6, <3>1, Zenon
  <2>4. \A i \in 1..n, e \in 0..MaxJsonDepth :
           Reads(v.items[i].text, AtDepth(e), After(e, v.items[i].height))
    BY <1>4, <2>1, <2>3, Zenon
  <2>5. ASSUME NEW d \in 0..MaxJsonDepth PROVE Reads(v.text, AtDepth(d), After(d, v.height))
    <3>1. Reads(Arr(v.items).text, AtDepth(d), After(d, Arr(v.items).height))
      BY <2>1, <2>2, <2>4, ReadsArray, Zenon
    <3> QED
      BY <1>6, <3>1, Zenon
  <2> QED
    BY <1>3, <2>5, Zenon
<1> QED
  BY <1>5, <1>6, Zenon DEF AreJson

(* A value is refused exactly when it is higher than the limit.               *)
LEMMA ValueIsJudged ==
  ASSUME NEW v \in JsonValues
  PROVE  CheckJsonDepth(v.text) <=> v.height <= MaxJsonDepth
<1>1. AreJson(JsonValues) /\ \A u \in JsonValues : u.height \in Nat /\ u.text \in Seq(STRING)
  BY InputAssumption, Zenon DEF InputAssumption
<1>2. MaxJsonDepth \in Nat
  BY DepthAssumption DEF DepthAssumption
<1>3. 0 \in 0..MaxJsonDepth
  BY ONLY <1>2
<1>4. Reads(v.text, AtDepth(0), After(0, v.height))
  BY <1>1, <1>3, ReadsValue, Zenon
<1>5. ScanStart = AtDepth(0)
  BY DEF ScanStart, AtDepth
<1>6. Len(v.text) \in Nat
  BY <1>1, LenProperties, Zenon
<1>7. CheckJsonDepth(v.text) <=> ~After(0, v.height).refused
  BY <1>4, <1>5, <1>6, CheckReads, Zenon
<1>8. 0 + v.height = v.height
  BY <1>1
<1>9. CASE v.height <= MaxJsonDepth
  <2>1. After(0, v.height) = AtDepth(0)
    BY <1>8, <1>9, Zenon DEF After
  <2>2. AtDepth(0).refused = FALSE
    BY DEF AtDepth
  <2> QED
    BY <1>7, <1>9, <2>1, <2>2, Zenon
<1>10. CASE ~ (v.height <= MaxJsonDepth)
  <2>1. After(0, v.height) = Abandoned
    BY <1>8, <1>10, Zenon DEF After
  <2>2. Abandoned.refused = TRUE
    BY DEF Abandoned
  <2> QED
    BY <1>7, <1>10, <2>1, <2>2, Zenon
<1> QED
  BY <1>9, <1>10

(* CheckJsonDepth refuses exactly the values nested deeper than the limit.    *)
THEOREM DepthIsCounted == AnyInput => []DepthIsHeight
<1> DEFINE Inv == input.kind = "json" => input.value \in JsonValues
<1>1. NoInput => Inv
  BY DEF NoInput
<1>2. Inv /\ [TakeInput]_input => Inv'
  <2> SUFFICES ASSUME Inv, [TakeInput]_input PROVE Inv'
    OBVIOUS
  <2>1. CASE TakeInput
    <3>1. CASE Json
      BY <3>1 DEF Json
    <3>2. CASE Pattern
      BY <3>2 DEF Pattern
    <3>3. CASE SysCall
      BY <3>3 DEF SysCall
    <3>4. CASE Profile
      BY <3>4 DEF Profile
    <3>5. CASE Share
      BY <3>5 DEF Share
    <3> QED
      BY <2>1, <3>1, <3>2, <3>3, <3>4, <3>5 DEF TakeInput
  <2>2. CASE UNCHANGED input
    BY <2>2
  <2> QED
    BY <2>1, <2>2
<1>3. Inv => DepthIsHeight
  BY ValueIsJudged, Zenon DEF DepthIsHeight
<1> QED
  BY <1>1, <1>2, <1>3, PTL DEF AnyInput

==============================================================================
