------------------------------ MODULE Algorithms ------------------------------
(***************************************************************************)
(* The pure algorithms against their reference definitions: a behaviour    *)
(* picks one input, and the properties compare what the code computes for  *)
(* it with what it should.                                                 *)
(***************************************************************************)
EXTENDS ShareProfile, GlobPattern, SeccompFilter, PolicyTlv, JsonDepth

CONSTANTS
  Patterns,      \* texts given as file path patterns
  AllowLists,    \* system calls a template lists
  SysCalls,      \* system calls a sandboxed process makes
  ControlProfiles, \* operation control profiles to serialize
  JsonValues,    \* JSON values in a configuration, with the items of each
  ShareConfigs   \* share_files profiles of a bundle

CallFields == {"arch", "nr", "a0", "a1", "a2"}

(* Patterns are sequences of characters, and allow lists as long as the       *)
(* length of a program can count; a call is numbers; profiles are lists of    *)
(* lists; paths are sequences of pieces.                                      *)
ASSUME InputAssumption ==
  /\ Patterns \subseteq Seq(STRING)
  /\ \A names \in AllowLists : names \in Seq(STRING) /\ TotalLen(names) < ProgramLimit
  /\ SysCalls \subseteq [CallFields -> Nat]
  /\ \A policies \in ControlProfiles : IsProfile(policies)
  /\ AreJson(JsonValues) /\ \A v \in JsonValues : v.height \in Nat /\ v.text \in Seq(STRING)
  /\ \A p \in ShareConfigs :
       /\ Len(p.scopes) \in Nat /\ DOMAIN p.scopes = 1..Len(p.scopes)
       /\ \A i \in DOMAIN p.scopes : p.scopes[i].path \in Seq(STRING)
       /\ p.sharing # NoSharing => p.sharing.path \in Seq(STRING) /\ p.sharing.sub \in Seq(STRING)

VARIABLE input

NoInput == input = [kind |-> "none"]

Pattern == \E p \in Patterns : input' = [kind |-> "pattern", pattern |-> p]
SysCall ==
  \E names \in AllowLists, call \in SysCalls :
    input' = [kind |-> "syscall", names |-> names, call |-> call]
Profile == \E ps \in ControlProfiles : input' = [kind |-> "profile", policies |-> ps]
Json == \E v \in JsonValues : input' = [kind |-> "json", value |-> v]
Share == \E c \in ShareConfigs : input' = [kind |-> "share", config |-> c]

TakeInput == input.kind = "none" /\ (Pattern \/ SysCall \/ Profile \/ Json \/ Share)

AnyInput == NoInput /\ [][TakeInput]_input

(* ParseFilePattern accepts the patterns of the grammar and no other, and      *)
(* gives the directory and the suffix the grammar gives them.                  *)
PatternsFollowGrammar ==
  input.kind = "pattern" => ParseFilePattern(input.pattern) = GrammarOf(input.pattern)

(* The filter BuildSeccompFilter writes gives every system call the verdict    *)
(* the comments announce, whatever the jumps pass over, and fits the room made *)
(* for it, unknown names in the allow list included.  One departure is the     *)
(* code's own: the comments would have "any attempt" to become a user below    *)
(* the limit blocked (sandbox_manager.cpp:91-93), the code lets the attempt    *)
(* pass when the allow list has the call; without such an entry none passes.   *)
FilterGivesVerdict ==
  input.kind = "syscall" =>
    LET program == BuildSeccompFilter(input.names)
    IN /\ Len(program) <= TotalLen(input.names)
       /\ RunFilter(program, input.call) =
            IF ListedSystemUser(input.names, input.call) THEN "allow"
            ELSE DocumentedVerdict(input.names, input.call)

(* The kernel reads from the stream of Serialize the rules of the profile, in  *)
(* their order, and nothing is left over; a profile with a comparison its item *)
(* does not allow is refused as a whole.                                       *)
StreamReadsBack ==
  input.kind = "profile" =>
    LET policies == input.policies
        stream == Serialize(policies)
    IN /\ stream.ok <=> \A i \in 1..Len(policies) : \A j \in 1..Len(policies[i].rules) :
                          /\ AllComparable(policies[i].rules[j].subjects)
                          /\ AllComparable(policies[i].rules[j].objects)
       /\ stream.ok => ReadPolicies(stream.out) =
            [at |-> Len(stream.out) + 1,
             got |-> [i \in 1..Len(policies) |-> WirePolicy(policies[i])]]

(* CheckJsonDepth refuses exactly the values nested deeper than the limit,     *)
(* whatever their strings hold.                                                *)
DepthIsHeight ==
  input.kind = "json" =>
    (CheckJsonDepth(input.value.text) <=> input.value.height <= MaxJsonDepth)

(* The directory a bundle shares with the other system lies in the directory   *)
(* of one of its scopes, however the two were written, with no more rights     *)
(* than that scope (ProcessShareFileInfo).  A path of the largest number of    *)
(* parts is left out: its long form is not a path PathCompose takes.           *)
SharedIsDeclared ==
  input.kind = "share" => SharingIsDeclared(input.config, "bundle")
=============================================================================
