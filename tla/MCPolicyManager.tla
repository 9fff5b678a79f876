--------------------------- MODULE MCPolicyManager ---------------------------
(***************************************************************************)
(* Small instances of PolicyManager: a directory, a file below it and the  *)
(* same file in another letter case.                                       *)
(***************************************************************************)
EXTENDS PolicyManager, TLC

CONSTANTS t1, t2

MCPaths == {"dir", "dir/f", "dir/F"}

MCAtOrAbove ==
  {<<p, p>> : p \in MCPaths}
    \cup {"dir"} \X MCPaths
    \cup {<<"dir/f", "dir/F">>, <<"dir/F", "dir/f">>}

Pol(path, mode) == [path |-> path, mode |-> mode]

ReadDir == Pol("dir", {"r"})
WriteDir == Pol("dir", {"w"})
BothLower == Pol("dir/f", {"r", "w"})
BothUpper == Pol("dir/F", {"r", "w"})

(* Two modes of one directory, whose rights add up for the file below it.    *)
ModePolicies == {ReadDir, WriteDir, BothLower}
ModeRequests == {{ReadDir, WriteDir}, {BothLower}}

(* A file in two letter cases.                                               *)
CasePolicies == {BothLower, BothUpper}
CaseRequests == {{BothLower, BothUpper}, {BothUpper}}

FileGranted == Tokens \X {"dir/f"}

Symmetry == Permutations({t1, t2})
=============================================================================
