---------------------------- MODULE MCServiceLife -----------------------------
(* Two threads and two rows: batches of two rows that add and erase, a         *)
(* statement that commits itself, and a query.  The other kinds take the same  *)
(* path as one of these.                                                       *)
EXTENDS ServiceLife

MCOps ==
  {[kind |-> "add", keys |-> {"a", "b"}], [kind |-> "erase", keys |-> {"a", "b"}],
   [kind |-> "modify", keys |-> {"b"}], [kind |-> "find", keys |-> {}]}
=============================================================================
