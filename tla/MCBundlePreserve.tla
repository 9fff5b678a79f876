--------------------------- MODULE MCBundlePreserve ---------------------------
(***************************************************************************)
(* Small instances of BundlePreserve: a preserved application over up to   *)
(* three installations, with a removed one or one of no known setting.     *)
(***************************************************************************)
EXTENDS BundlePreserve

TwoApps == [k \in Tokens |->
  CASE k \in {"k1", "k2", "k3"} -> "kept" [] k \in {"d1", "d2"} -> "dropped" [] OTHER -> "odd"]

Configs == [a \in Apps |->
  CASE a = "kept" -> "true" [] a = "dropped" -> "false" [] OTHER -> "missing"]
=============================================================================
