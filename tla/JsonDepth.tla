------------------------------ MODULE JsonDepth -------------------------------
(***************************************************************************)
(* CheckJsonDepth scans the text of a command or a configuration before it *)
(* is parsed and refuses what is nested too deep.  It must not be misled   *)
(* by brackets, quotes and escapes inside strings.                         *)
(***************************************************************************)
EXTENDS Naturals, Sequences, SequencesExt, FiniteSetsExt

CONSTANT MaxJsonDepth  \* MAX_JSON_DEPTH

ASSUME DepthAssumption == MaxJsonDepth \in Nat

(* The scan: how deep it is, whether it is inside a string, whether the next   *)
(* character is escaped, and whether it gave up.                               *)
ScanStart == [depth |-> 0, inString |-> FALSE, escaped |-> FALSE, refused |-> FALSE]

Deeper(s) ==
  [depth |-> s.depth + 1, inString |-> FALSE, escaped |-> FALSE, refused |-> s.depth >= MaxJsonDepth]

ScanNoEscape(s, c) ==
  IF s.refused THEN s
  ELSE IF c = "\"" THEN [s EXCEPT !.inString = ~@]
  ELSE IF s.inString THEN s
  ELSE IF c = "[" THEN Deeper(s)
  ELSE IF c = "]" /\ s.depth > 0 THEN [s EXCEPT !.depth = @ - 1]
  ELSE s

Scan(s, c) ==
  IF s.refused THEN s
  ELSE IF s.inString
    THEN IF s.escaped THEN [s EXCEPT !.escaped = FALSE]
         ELSE IF c = "\\" THEN [s EXCEPT !.escaped = TRUE]
         ELSE IF c = "\"" THEN [s EXCEPT !.inString = FALSE] ELSE s
  ELSE IF c = "\"" THEN [s EXCEPT !.inString = TRUE]
  ELSE IF c = "[" THEN Deeper(s)
  ELSE IF c = "]" /\ s.depth > 0 THEN [s EXCEPT !.depth = @ - 1]
  ELSE s

CheckJsonDepth(text) ==
  LET after[i \in 0..Len(text)] == IF i = 0 THEN ScanStart ELSE Scan(after[i - 1], text[i])
  IN ~after[Len(text)].refused

-----------------------------------------------------------------------------
(* JSON values with their text and their height: a string of characters and   *)
(* escaped characters, or an array (an object nests the same way).            *)
IsPiece(piece) ==
  \/ piece \in Seq(STRING) /\ Len(piece) = 1 /\ piece[1] \notin {"\"", "\\"}
  \/ piece \in Seq(STRING) /\ Len(piece) = 2 /\ piece[1] = "\\"

Str(pieces) ==
  [pieces |-> pieces, items |-> <<>>, height |-> 0,
   text |-> <<"\"">> \o FlattenSeq(pieces) \o <<"\"">>]

Arr(items) ==
  [pieces |-> <<>>, items |-> items,
   height |-> 1 + Max({0} \cup {items[i].height : i \in 1..Len(items)}),
   text |-> <<"[">> \o FlattenSeq([i \in 1..Len(items) |->
              (IF i = 1 THEN <<>> ELSE <<",">>) \o items[i].text]) \o <<"]">>]

(* A set of values with the items of each.                                     *)
AreJson(values) ==
  \A v \in values :
    \/ v = Str(v.pieces) /\ v.pieces \in Seq(Seq(STRING)) /\ \A i \in 1..Len(v.pieces) : IsPiece(v.pieces[i])
    \/ v = Arr(v.items) /\ v.items \in Seq(values)
=============================================================================
