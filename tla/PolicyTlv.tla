------------------------------ MODULE PolicyTlv -------------------------------
(***************************************************************************)
(* SandboxPolicyTlv::Serialize: the stream of tagged values the kernel     *)
(* gets for an operation control profile.  The stream has no brackets: the *)
(* reader relies on counts and on a size that are written before what they *)
(* count.  A tagged value is its tag, its value and the bytes it takes.    *)
(***************************************************************************)
EXTENDS Naturals, Sequences, SequencesExt

(* Numbers added up, one after the other.                                      *)
SumOf(counts) ==
  LET sum[i \in 0..Len(counts)] == IF i = 0 THEN 0 ELSE sum[i - 1] + counts[i]
  IN sum[Len(counts)]

TlvHeader == 8
TlvU32(tag, value) == [tag |-> tag, value |-> value, bytes |-> TlvHeader + 4]
TlvBytes(tag, value, len) == [tag |-> tag, value |-> value, bytes |-> TlvHeader + len]
Bytes(stream) == SumOf([i \in 1..Len(stream) |-> stream[i].bytes])

Refused == [ok |-> FALSE, out |-> <<>>]
Written(out) == [ok |-> TRUE, out |-> out]

(* One after the other; the first that fails ends it.                         *)
Then(first, second) ==
  IF first.ok /\ second.ok THEN Written(first.out \o second.out) ELSE Refused
InOrder(parts) ==
  IF \A i \in 1..Len(parts) : parts[i].ok
  THEN Written(FlattenSeq([i \in 1..Len(parts) |-> parts[i].out])) ELSE Refused

IsCmpTypeAllowed(cmp, item) ==
  IF item = "path" THEN cmp \in {"eq", "prefix", "suffix"}
  ELSE item \in {"cmd", "fd"} /\ cmp = "eq"

(* A filter rule has a comparison, a kind of item, a text (a path, a command, *)
(* empty for a descriptor), the suffix of a pattern, and a descriptor.        *)
ItemOf(rule) ==
  IF rule.item = "fd" THEN TlvBytes("item", <<rule.fd>>, 4)
  ELSE TlvBytes("item", rule.text, Len(rule.text) + 1)

AppendFilterRuleBlock(rule) ==
  IF ~IsCmpTypeAllowed(rule.cmp, rule.item) THEN Refused
  ELSE Written(<<TlvU32("cmp_type", rule.cmp), TlvU32("item_type", rule.item), ItemOf(rule)>>)

CountsRules(rule) == 1

GetFilterRuleWireEntityCnt(rule) == IF rule.item # "path" THEN 1 ELSE 2

FdRule(rule) == [cmp |-> "eq", item |-> "fd", text |-> <<>>, suffix |-> <<>>, fd |-> rule.fd]
SuffixRule(rule) ==
  [cmp |-> "suffix", item |-> "path", text |-> rule.suffix, suffix |-> <<>>, fd |-> 0]

AppendFilterRuleEntities(rule) ==
  IF rule.item # "path" THEN AppendFilterRuleBlock(rule)
  ELSE Then(AppendFilterRuleBlock(FdRule(rule)),
            IF rule.cmp \in {"eq", "prefix"} THEN AppendFilterRuleBlock(rule)
            ELSE IF rule.cmp = "suffix" THEN AppendFilterRuleBlock(SuffixRule(rule))
            ELSE Refused)

CountSectionWireEntities(entities) ==
  SumOf([i \in 1..Len(entities) |->
    SumOf([j \in 1..Len(entities[i]) |-> GetFilterRuleWireEntityCnt(entities[i][j])])])

AppendEntityRules(entity) == InOrder([i \in 1..Len(entity) |-> AppendFilterRuleEntities(entity[i])])

AppendRuleEntitySection(tag, entities) ==
  Then(Written(<<TlvU32(tag, CountSectionWireEntities(entities))>>),
       InOrder([i \in 1..Len(entities) |-> AppendEntityRules(entities[i])]))

AppendRuleBlock(rule) ==
  Then(Written(<<TlvU32("action", rule.action), TlvU32("event", rule.event)>>),
       Then(AppendRuleEntitySection("subject_cnt", rule.subjects),
            AppendRuleEntitySection("object_cnt", rule.objects)))

AppendScopeBlock == <<TlvBytes("scope", "body", 24)>>

PolicyHead(policy) ==
  <<TlvU32("operation_type", policy.operation), TlvU32("default_action", policy.default),
    TlvU32("ask_timeout_action", policy.timeout), TlvU32("rules_cnt", Len(policy.rules))>>

(* The size is taken before the content is appended.                          *)
SerializePolicy(policy) ==
  LET block == Then(Written(PolicyHead(policy)),
                    InOrder([i \in 1..Len(policy.rules) |-> AppendRuleBlock(policy.rules[i])]))
  IN Then(Written(<<TlvU32("operation_size", Bytes(block.out))>>), block)

Serialize(policies) ==
  Then(Written(AppendScopeBlock \o <<TlvU32("policy_cnt", Len(policies))>>),
       InOrder([i \in 1..Len(policies) |-> SerializePolicy(policies[i])]))

-----------------------------------------------------------------------------
(* The reader: counts tell how many blocks follow, and the size of a policy   *)
(* how far its content goes.  A reader says where it ended and what it got;   *)
(* a stream it cannot follow is unreadable.                                   *)
Unreadable == [at |-> 0, got |-> <<>>]

Tagged(s, at, tag) == at \in 1..Len(s) /\ s[at].tag = tag

ReadBlock(s, at) ==
  IF Tagged(s, at, "cmp_type") /\ Tagged(s, at + 1, "item_type") /\ Tagged(s, at + 2, "item")
  THEN [at |-> at + 3, got |-> <<<<s[at].value, s[at + 1].value, s[at + 2].value>>>>]
  ELSE Unreadable

(* One block after the other, each where the one before it ends.              *)
ReadNext(one, before) ==
  IF before.at \notin DOMAIN one THEN Unreadable
  ELSE LET next == one[before.at]
       IN IF next.at = 0 THEN Unreadable ELSE [at |-> next.at, got |-> before.got \o next.got]

ReadMany(one, at, n) ==
  LET read[i \in 0..n] == IF i = 0 THEN [at |-> at, got |-> <<>>] ELSE ReadNext(one, read[i - 1])
  IN read[n]

Blocks(s) == [at \in 1..Len(s) |-> ReadBlock(s, at)]

ReadSection(s, at, tag) ==
  IF Tagged(s, at, tag) THEN ReadMany(Blocks(s), at + 1, s[at].value) ELSE Unreadable

ReadRule(s, at) ==
  LET subjects == ReadSection(s, at + 2, "subject_cnt")
      objects == ReadSection(s, subjects.at, "object_cnt")
  IN IF Tagged(s, at, "action") /\ Tagged(s, at + 1, "event") /\ objects.at # 0
     THEN [at |-> objects.at,
           got |-> <<[action |-> s[at].value, event |-> s[at + 1].value,
                      subjects |-> subjects.got, objects |-> objects.got]>>]
     ELSE Unreadable

RuleBlocks(s) == [at \in 1..Len(s) |-> ReadRule(s, at)]

ReadPolicy(s, at) ==
  LET rules == ReadMany(RuleBlocks(s), at + 5, s[at + 4].value)
  IN IF /\ Tagged(s, at, "operation_size") /\ Tagged(s, at + 1, "operation_type")
        /\ Tagged(s, at + 2, "default_action") /\ Tagged(s, at + 3, "ask_timeout_action")
        /\ Tagged(s, at + 4, "rules_cnt") /\ rules.at # 0
        /\ Bytes(SubSeq(s, at + 1, rules.at - 1)) = s[at].value
     THEN [at |-> rules.at,
           got |-> <<[operation |-> s[at + 1].value, default |-> s[at + 2].value,
                      timeout |-> s[at + 3].value, rules |-> rules.got]>>]
     ELSE Unreadable

ReadPolicies(s) == ReadMany([at \in 1..Len(s) |-> ReadPolicy(s, at)], 3, s[2].value)

(* What the rules of a profile mean to the kernel: a path rule is bound to a  *)
(* descriptor and to one text, the path or the tail of the pattern.           *)
WireRules(rule) ==
  IF rule.item = "path"
  THEN <<<<"eq", "fd", <<rule.fd>>>>,
         <<rule.cmp, "path", IF rule.cmp = "suffix" THEN rule.suffix ELSE rule.text>>>>
  ELSE <<<<rule.cmp, rule.item, IF rule.item = "fd" THEN <<rule.fd>> ELSE rule.text>>>>

WireSection(entities) ==
  FlattenSeq([i \in 1..Len(entities) |->
    FlattenSeq([j \in 1..Len(entities[i]) |-> WireRules(entities[i][j])])])

WireRule(rule) ==
  [action |-> rule.action, event |-> rule.event,
   subjects |-> WireSection(rule.subjects), objects |-> WireSection(rule.objects)]

WirePolicy(policy) ==
  [operation |-> policy.operation, default |-> policy.default, timeout |-> policy.timeout,
   rules |-> [i \in 1..Len(policy.rules) |-> WireRule(policy.rules[i])]]

(* Every comparison is one its item allows.                                   *)
AllComparable(entities) ==
  \A i \in 1..Len(entities) : \A j \in 1..Len(entities[i]) :
    IsCmpTypeAllowed(entities[i][j].cmp, entities[i][j].item)

(* A profile is made of lists.                                                *)
IsSection(entities) ==
  Len(entities) \in Nat /\ \A i \in 1..Len(entities) : Len(entities[i]) \in Nat
IsProfile(policies) ==
  /\ Len(policies) \in Nat
  /\ \A i \in 1..Len(policies) :
       /\ Len(policies[i].rules) \in Nat
       /\ \A j \in 1..Len(policies[i].rules) :
            IsSection(policies[i].rules[j].subjects) /\ IsSection(policies[i].rules[j].objects)
=============================================================================
