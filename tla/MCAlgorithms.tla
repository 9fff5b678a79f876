----------------------------- MODULE MCAlgorithms -----------------------------
(* Every input up to a small length; the limits are 2 for the depth and 10 for *)
(* user ids, above the numbers of the system calls.                            *)
EXTENDS Algorithms

MaxPattern == 7
MCPatterns == UNION {[1..n -> {"/", "*", ".", "?", "a"}] : n \in 0..MaxPattern}

MCResolve ==
  [n \in {"read", "write", "setuid", "setreuid", "setresuid", "setfsuid"} |->
     CHOOSE i \in 1..6 : <<"read", "write", "setuid", "setreuid", "setresuid", "setfsuid">>[i] = n]
MCAllowLists ==
  UNION {[1..n -> {"read", "setuid", "setresuid", "unknown"}] : n \in 0..2}
MCSysCalls ==
  [arch : {ArchAarch64, 1001}, nr : 1..7, a0 : {3, 9, 10}, a1 : {9, 10}, a2 : {9, 10}]

Filter(cmp, item, text, suffix) ==
  [cmp |-> cmp, item |-> item, text |-> text, suffix |-> suffix,
   fd |-> IF item = "cmd" THEN "none" ELSE "f1"]
Filters ==
  {Filter("eq", "path", <<"d", "x">>, <<>>), Filter("suffix", "path", <<"d">>, <<"x">>),
   Filter("suffix", "path", <<"d">>, <<>>), Filter("ne", "path", <<"d">>, <<>>),
   Filter("eq", "cmd", <<"c">>, <<>>), Filter("prefix", "cmd", <<"c">>, <<>>),
   Filter("eq", "fd", <<>>, <<>>)}
Sections ==
  {<<>>} \cup {<<<<f>>>> : f \in Filters}
    \cup {<<<<f, g>>>> : f, g \in Filters} \cup {<<<<f>>, <<g>>>> : f, g \in Filters}
Rules(sections) ==
  [action : {"deny"}, event : {"open"}, subjects : sections, objects : sections]
Policies(rules) ==
  [operation : {"file"}, default : {"allow"}, timeout : {"deny"}, rules : rules]
Few == {<<>>, <<<<Filter("eq", "path", <<"d", "x">>, <<>>)>>>>, <<<<Filter("eq", "cmd", <<"c">>, <<>>)>>>>}
MCProfiles ==
  {<<p>> : p \in Policies({<<r>> : r \in Rules(Sections)})}
    \cup {<<p, q>> : p, q \in Policies({<<>>} \cup {<<r>> : r \in Rules(Few)})}
    \cup {<<p>> : p \in Policies({<<r, s>> : r, s \in Rules(Few)})}

Strings ==
  {Str(<<>>), Str(<<<<"[">>>>), Str(<<<<"\\", "\"">>, <<"[">>>>), Str(<<<<"\\", "\\">>>>)}
Nested(values) ==
  values \cup {Arr(<<>>)} \cup {Arr(<<v>>) : v \in values}
    \cup {Arr(<<v, s>>) : v \in values, s \in Strings}
    \cup {Arr(<<s, v>>) : v \in values, s \in Strings}
MCJsonValues == Nested(Nested(Nested(Strings)))

SharePaths ==
  {<<"", "base", "a">>, <<"", "el2", "base", "a">>, <<"", "el1", "base", "a">>,
   <<"", "base", "a", "b">>, <<"", "el2", "base", "a", "b">>, <<"", "base", "..", "a">>,
   <<"", "el2", "a">>, <<"", "other", "a">>, <<"base", "a">>, <<"", "base", "">>, <<"", "base">>}
ShareScopes == [path : SharePaths, permission : {"r", "r+w", "w"}]
MCShareConfigs ==
  [scopes : {<<>>} \cup {<<s>> : s \in ShareScopes} \cup
            {<<s, u>> : s \in ShareScopes, u \in [path : {<<"", "el2", "base", "a">>, <<"", "base", "a">>}, permission : {"r", "r+w"}]},
   sharing : [path : SharePaths, permission : {"r", "r+w"}, sub : {<<>>, <<"", "s">>, <<"", "..">>, <<"s">>}]]
=============================================================================
