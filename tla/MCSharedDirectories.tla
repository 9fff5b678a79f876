------------------------- MODULE MCSharedDirectories -------------------------
(***************************************************************************)
(* A small instance of SharedDirectories: two applications of one user     *)
(* that share a directory, one of them installed for another user, too,    *)
(* and a service.                                                          *)
(***************************************************************************)
EXTENDS SharedDirectories

CONSTANTS t1, t2

Symmetry == Permutations(Threads)

MCUserOf == [k \in Tokens |-> IF k \in {"guestApp", "native"} THEN 2 ELSE 1]
MCBundleOf == [k \in Haps |-> IF k = "noteApp" THEN "note" ELSE "mail"]

Doc == <<"", "doc">>
Dir == [path |-> Doc, mode |-> {"r"}]
File == [path |-> Doc \o <<"f">>, mode |-> {"r", "w"}]

MCPolicies == {Dir, File}
MCRequests == {{Dir, File}}
MCCleanPaths == {Doc}

Scope(path, permission) == [path |-> path, permission |-> permission]
BaseD == <<"", "base", "d">>
El2D == <<"", "el2", "base", "d">>
Outer == <<"", "tmp", "d">>
Sharing(path, permission) == [path |-> path, sub |-> <<"", "s">>, permission |-> permission]

\* two good scopes; a scope outside the data directory; no valid permission;
\* a scope too many; a shared directory beyond its scope
Good == [scopes |-> <<Scope(BaseD, "r+w"), Scope(<<"", "base", "e">>, "r")>>,
         sharing |-> Sharing(El2D, "r")]
Strays == [scopes |-> <<Scope(BaseD, "r"), Scope(Outer, "r")>>, sharing |-> Sharing(BaseD, "r")]
Odd == [scopes |-> <<Scope(BaseD, "x")>>, sharing |-> Sharing(BaseD, "x")]
Long == [scopes |-> <<Scope(BaseD, "r"), Scope(<<>>, "r"), Scope(<<"", "base", "e">>, "r"),
                      Scope(<<"", "base", "g">>, "r")>>,
         sharing |-> NoSharing]
Beyond == [scopes |-> <<Scope(<<"", "base", "e">>, "r")>>,
           sharing |-> Sharing(<<"", "base", "e">>, "r+w")]

MCProfiles == {Good, Strays, Odd, Long, Beyond}
MCUpdates == {Good, Strays}

RowOf(p, b) == ProcessShareFileInfo(p, b).row
NoRows == [k \in Tokens |-> NoRow]
BothShare == [NoRows EXCEPT !["mailApp"] = RowOf(Good, "mail"), !["noteApp"] = RowOf(Good, "note")]
OddRow == [NoRows EXCEPT !["mailApp"] = RowOf(Odd, "mail")]

Have(mail, note) == [b \in Bundles |-> [u \in Users |-> IF b = "mail" THEN mail ELSE note]]

Scenario(ops, R, S, P) == [ops |-> ops, rows |-> R, shared |-> S, profiles |-> P]
MCScenarios ==
  {Scenario({"grant", "revoke", "erase", "clean"},
            {"mailApp", "guestApp", "native"} \X {Dir}, {NoRows}, {Have(Good, Good)}),
   Scenario({"setshare", "update", "unshare", "gshare", "rshare"},
            {}, {NoRows, BothShare, OddRow}, {Have(Good, Good), Have(Strays, Beyond)}),
   Scenario({"gshare", "package", "removed", "added"},
            {}, {BothShare}, {Have(Good, Strays), Have(Long, Good), Have(Strays, Strays)}),
   Scenario({"removed", "erase"},
            {"mailApp", "guestApp"} \X {Dir}, {NoRows}, {Have(Good, Good)})}
=============================================================================
