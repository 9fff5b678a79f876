--------------------------- MODULE MCSandboxLaunch ---------------------------
(***************************************************************************)
(* Two launches of one caller.  The first takes one of several             *)
(* configurations, the second competes for the same sandbox name.          *)
(***************************************************************************)
EXTENDS SandboxLaunch, TLC

Base == [type |-> "shell", name |-> "n", pidns |-> TRUE, mounts |-> << >>, perms |-> {},
         sock |-> "good", flaw |-> "", exec |-> TRUE, subject |-> FALSE]

Mount(t, r) == [target |-> t, ro |-> r]

Cli == [Base EXCEPT !.type = "cli", !.sock = "none", !.pidns = FALSE]
Flawed(step) == [Base EXCEPT !.name = "", !.flaw = step]

Against(c, rival) == [l1 |-> c, l2 |-> rival]

(* Policies over nested directories, writable and not, in every order.        *)
MCPolicies ==
  {<<p, q, r>> : p, q, r \in [target: {"home", "desk", "desk/"}, ro: BOOLEAN]}

(* The first launch meets a rival for its name, or one that ends at once.     *)
MCScenarios ==
  {Against(c, Cli) : c \in
     {Base,
      [Base EXCEPT !.mounts = <<Mount("data", TRUE), Mount("data", FALSE)>>],
      [Base EXCEPT !.mounts = <<Mount("home", TRUE)>>, !.perms = {"dir", "custom"},
                   !.sock = "none", !.subject = TRUE, !.pidns = FALSE]}}
  \cup {Against([Base EXCEPT !.mounts = <<Mount("home", FALSE)>>],
                Flawed("ParseArguments")),
        Against([Base EXCEPT !.mounts = <<Mount("data", TRUE), Mount("data", TRUE)>>,
                             !.sock = "bad"], Flawed("Initialize")),
        Against([Cli EXCEPT !.name = ""], Flawed("ValidateConfig")),
        Against([Cli EXCEPT !.name = "", !.pidns = TRUE], Flawed("LoadTemplate")),
        Against([Cli EXCEPT !.exec = FALSE], Flawed("ParseArguments")),
        Against([Base EXCEPT !.subject = TRUE], Flawed("ParseArguments")),
        Against([Cli EXCEPT !.mounts = <<Mount("proc", TRUE)>>], Flawed("ParseArguments")),
        Against([Base EXCEPT !.mounts = <<Mount("proc", TRUE)>>], Flawed("ParseArguments")),
        Against([Base EXCEPT !.mounts = <<Mount("misc", TRUE)>>], Flawed("ParseArguments"))}
  \cup {Against([Cli EXCEPT !.name = "", !.mounts = policy, !.perms = {"dir"}],
                Flawed("ParseArguments")) : policy \in MCPolicies}

MCAutoName == [l1 |-> "a1", l2 |-> "a2"]
MCAppMounts == [data |-> "rw", bundle |-> "ro"]

(* A user's directory by permission, and one in it for everybody, which a     *)
(* slash more spells in another way.                                          *)
MCConditional == [home |-> {"dir"}, desk |-> {}]
MCLocation == [t \in Targets |-> IF t = "desk/" THEN "desk" ELSE t]
MCWithin ==
  {<<t, t>> : t \in Targets}
  \cup {<<"desk", "home">>, <<"desk/", "desk">>, <<"desk/", "home">>}
=============================================================================
