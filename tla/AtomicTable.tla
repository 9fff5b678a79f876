----------------------------- MODULE AtomicTable ------------------------------
(***************************************************************************)
(* What the callers of SandboxManagerRdb rely on: an operation on a table  *)
(* takes effect at once and as a whole or not at all, it answers success   *)
(* exactly when it took effect, and a query returns the rows the table has *)
(* at one moment: all of them, unless the cursor failed, which no answer   *)
(* tells; then some may be missing, but none is wrong.  The only way for   *)
(* the table to lose rows is a damaged file that could not be restored.    *)
(***************************************************************************)
CONSTANTS
  Threads,   \* the callers
  Keys,      \* the rows a table may hold
  Ops        \* the operations: a kind and the keys it is about

VARIABLES
  table,     \* table[k]: "none", "new" or "changed"
  call       \* call[t]: the operation, how far it is, and what it found

vars == <<table, call>>

Empty == [k \in Keys |-> "none"]
NoOp == [kind |-> "none", keys |-> {}]
Nothing == [rows |-> Empty, cut |-> FALSE]
Idle == [op |-> NoOp, at |-> "idle", found |-> Nothing]

(* What a query finds; cut marks the one whose cursor failed.                 *)
Findings ==
  {[rows |-> table, cut |-> FALSE]}
    \cup {[rows |-> [k \in Keys |-> IF k \in S THEN table[k] ELSE "none"], cut |-> TRUE] :
            S \in SUBSET Keys}

(* The table after an operation.                                              *)
Applied(op) ==
  [k \in Keys |->
     IF k \notin op.keys THEN table[k]
     ELSE IF op.kind = "replace" \/ (op.kind = "add" /\ table[k] = "none") THEN "new"
     ELSE IF op.kind \in {"erase", "remove"} THEN "none"
     ELSE IF op.kind = "modify" /\ table[k] # "none" THEN "changed"
     ELSE table[k]]

Init == table \in [Keys -> {"none", "new"}] /\ call = [t \in Threads |-> Idle]

Ask(t) ==
  /\ call[t].at = "idle"
  /\ \E op \in Ops : call' = [call EXCEPT ![t] = [op |-> op, at |-> "asked", found |-> @.found]]
  /\ UNCHANGED table

Apply(t) ==
  /\ call[t].at = "asked"
  /\ table' = Applied(call[t].op)
  /\ \E found \in IF call[t].op.kind = "find" THEN Findings ELSE {call[t].found} :
       call' = [call EXCEPT ![t] = [op |-> @.op, at |-> "applied", found |-> found]]

(* A refused operation changed nothing, unless the file was lost under it.    *)
Refuse(t) ==
  /\ call[t].at = "asked"
  /\ table' \in {table, Empty}
  /\ call' = [call EXCEPT ![t] = [@ EXCEPT !.at = "refused"]]

Return(t) ==
  /\ call[t].at \in {"applied", "refused"}
  /\ call' = [call EXCEPT ![t] = Idle]
  /\ UNCHANGED table

(* The process ends; its callers learn nothing.                               *)
End ==
  /\ call' = [t \in Threads |-> Idle]
  /\ UNCHANGED table

(* A process that starts cannot restore the file.                             *)
Lose ==
  /\ \A t \in Threads : call[t] = Idle
  /\ table' = Empty
  /\ UNCHANGED call

Next == End \/ Lose \/ \E t \in Threads : Ask(t) \/ Apply(t) \/ Refuse(t) \/ Return(t)

Spec == Init /\ [][Next]_vars
=============================================================================
