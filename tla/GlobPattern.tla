----------------------------- MODULE GlobPattern ------------------------------
(***************************************************************************)
(* File path patterns of the operation control rules: which patterns       *)
(* ParseFilePattern accepts, and the path and the suffix it makes of one.  *)
(* A pattern is a sequence of characters; "?" stands for every character   *)
(* of the unsupported glob syntax, "a" for every ordinary one.             *)
(***************************************************************************)
EXTENDS Naturals, Sequences, SequencesExt, FiniteSetsExt

IsWildcardPattern(path) == "*" \in ToSet(path)

CheckPatternAbsolute(pattern) == pattern # <<>> /\ pattern[1] = "/"

GlobStars(pattern) == {i \in 1..Len(pattern) - 1 : pattern[i] = "*" /\ pattern[i + 1] = "*"}

(* The search for a second "**" begins behind the first.                      *)
FindSingleGlobStar(pattern) ==
  /\ GlobStars(pattern) # {}
  /\ \A i \in GlobStars(pattern) : i < Min(GlobStars(pattern)) + 2

CheckGlobStarStart(pattern, star) == star > 1 => pattern[star - 1] = "/"

CheckGlobStarBoundaries(pattern, star) ==
  /\ star > 1 /\ pattern[star - 1] = "/"
  /\ star + 2 <= Len(pattern) => pattern[star + 2] = "/"

CheckNoTrailingSlash(pattern) == pattern # <<>> => Last(pattern) # "/"

(* The component that begins at a position, up to the next slash.             *)
ComponentAt(path, i) ==
  SubSeq(path, i, Min({j \in i..Len(path) : path[j] = "/"} \cup {Len(path) + 1}) - 1)

CheckNoSpecialComponents(path) ==
  /\ \A i \in 1..Len(path) - 1 : ~(path[i] = "/" /\ path[i + 1] = "/")
  /\ \A i \in 1..Len(path) :
       i = 1 \/ path[i - 1] = "/" => ComponentAt(path, i) \notin {<<".">>, <<".", ".">>}

StarLed(suffix) == Len(suffix) >= 2 /\ suffix[2] = "*"

CheckPatternSuffix(suffix) ==
  IF StarLed(suffix)
  THEN {"/", "*"} \cap ToSet(SubSeq(suffix, 3, Len(suffix))) = {}
  ELSE "*" \notin ToSet(suffix) /\ CheckNoSpecialComponents(suffix)

CheckNoUnsupportedMetaChars(pattern) == "?" \notin ToSet(pattern)

CheckPatternPrefix(prefix) == "*" \notin ToSet(prefix) /\ CheckNoSpecialComponents(prefix)

NoPattern == [ok |-> FALSE, prefix |-> <<>>, suffix |-> <<>>]

ParseFilePattern(pattern) ==
  LET star == Min(GlobStars(pattern))
      prefix == SubSeq(pattern, 1, star - 1)
      suffix == SubSeq(pattern, star + 2, Len(pattern))
  IN IF /\ CheckPatternAbsolute(pattern)
        /\ FindSingleGlobStar(pattern)
        /\ CheckGlobStarBoundaries(pattern, star)
        /\ CheckNoTrailingSlash(pattern)
        /\ CheckPatternSuffix(suffix)
        /\ CheckNoUnsupportedMetaChars(pattern)
        /\ CheckPatternPrefix(prefix)
     THEN [ok |-> TRUE, prefix |-> prefix,
           suffix |-> IF StarLed(suffix) THEN SubSeq(suffix, 3, Len(suffix)) ELSE suffix]
     ELSE NoPattern

-----------------------------------------------------------------------------
(* The grammar, over the segments between the slashes.                        *)

Extended(segments, c) ==
  IF c = "/" THEN Append(segments, <<>>)
  ELSE Append(Front(segments), Append(Last(segments), c))

Segments(pattern) ==
  LET upTo[n \in 0..Len(pattern)] ==
        IF n = 0 THEN <<<<>>>> ELSE Extended(upTo[n - 1], pattern[n])
  IN upTo[Len(pattern)]

Plain(segment) ==
  /\ segment \notin {<<>>, <<".">>, <<".", ".">>}
  /\ {"*", "?"} \cap ToSet(segment) = {}

StarSegment(segment) ==
  segment # <<>> /\ segment[1] = "*" /\ {"*", "?"} \cap ToSet(Tail(segment)) = {}

(* "/", plain segments, "**", and then plain segments or one that a star      *)
(* leads.                                                                     *)
LegalPatternAt(segments, i) ==
  /\ segments[1] = <<>>
  /\ segments[i] = <<"*", "*">>
  /\ \A n \in 2..i - 1 : Plain(segments[n])
  /\ \/ \A n \in i + 1..Len(segments) : Plain(segments[n])
     \/ Len(segments) = i + 1 /\ StarSegment(segments[i + 1])

Path(segments) == FlattenSeq([k \in 1..Len(segments) |-> <<"/">> \o segments[k]])

(* The directory the rule is bound to, and what a name below it must end in.  *)
Meaning(segments, i) ==
  [ok |-> TRUE,
   prefix |-> Path(SubSeq(segments, 2, i - 1)) \o <<"/">>,
   suffix |-> IF i < Len(segments) /\ StarSegment(segments[i + 1])
              THEN Tail(segments[i + 1])
              ELSE Path(SubSeq(segments, i + 1, Len(segments)))]

GrammarOf(pattern) ==
  LET segments == Segments(pattern)
      at == {i \in 2..Len(segments) : LegalPatternAt(segments, i)}
  IN IF at = {} THEN NoPattern ELSE Meaning(segments, CHOOSE i \in at : TRUE)
=============================================================================
