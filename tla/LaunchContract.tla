---------------------------- MODULE LaunchContract ----------------------------
(***************************************************************************)
(* What the caller of claw_sandbox is promised about one launch: a launch  *)
(* that is being set up either runs its command or is refused, the status  *)
(* the caller gets is the status of that launch and comes after its end,   *)
(* and every end is reported.  Only a caller whose claw_sandbox process    *)
(* was killed learns nothing more.                                         *)
(***************************************************************************)
CONSTANTS
  Launches,    \* the launches
  Refusals,    \* statuses of a launch whose command never ran
  Endings,     \* statuses of a command that ran
  Unknown      \* reports that tell nothing: claw_sandbox killed, status lost

VARIABLES
  phase,       \* phase[l]: "setup", "running" or "over"
  status,      \* status[l]: how the launch ended, "none" before
  report       \* report[l]: what the caller was told, "none" before

vars == <<phase, status, report>>

Init ==
  /\ phase = [l \in Launches |-> "setup"]
  /\ status = [l \in Launches |-> "none"]
  /\ report = [l \in Launches |-> "none"]

(* The command is executed: never for a caller that has its status already.   *)
Run(l) ==
  /\ phase[l] = "setup"
  /\ report[l] \in {"none"} \cup Unknown
  /\ phase' = [phase EXCEPT ![l] = "running"]
  /\ UNCHANGED <<status, report>>

(* The launch ends.  A process that runs the command in place is its own     *)
(* report; otherwise the report comes later.                                  *)
End(l) ==
  /\ phase[l] # "over"
  /\ phase' = [phase EXCEPT ![l] = "over"]
  /\ \E s \in IF phase[l] = "setup" THEN Refusals ELSE Endings :
       /\ status' = [status EXCEPT ![l] = s]
       /\ \/ UNCHANGED report
          \/ report[l] = "none" /\ report' = [report EXCEPT ![l] = s]

Report(l) ==
  /\ phase[l] = "over" /\ report[l] = "none"
  /\ \E s \in {status[l]} \cup Unknown : report' = [report EXCEPT ![l] = s]
  /\ UNCHANGED <<phase, status>>

(* The process the caller waits for is killed while the launch goes on.       *)
Abandon(l) ==
  /\ report[l] = "none"
  /\ \E s \in Unknown : report' = [report EXCEPT ![l] = s]
  /\ UNCHANGED <<phase, status>>

Next == \E l \in Launches : Run(l) \/ End(l) \/ Report(l) \/ Abandon(l)

Safely == Init /\ [][Next]_vars

Spec == Safely /\ \A l \in Launches : WF_vars(Report(l))
=============================================================================
