--------------------------- MODULE MCVolumePreserve ---------------------------
(***************************************************************************)
(* Small instances of VolumePreserve: two rows on two volumes.             *)
(***************************************************************************)
EXTENDS VolumePreserve, TLC

CONSTANTS t1, t2

MCVolumeOf == [r \in Rows |-> IF r = "r2" THEN "v2" ELSE "v1"]

Symmetry == Permutations({t1, t2})
=============================================================================
