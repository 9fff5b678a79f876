---------------------------- MODULE SeccompFilter -----------------------------
(***************************************************************************)
(* The system call filter of a sandbox: the program BuildSeccompFilter     *)
(* writes for an allow list, the machine of the kernel that runs it, and   *)
(* the verdict its comments announce.  Jumps are relative, so one wrong    *)
(* distance changes what follows.  An argument is its low word.            *)
(***************************************************************************)
EXTENDS Naturals, Sequences, SequencesExt

CONSTANTS
  Resolve,       \* SYSCALL_MAP: numbers of the names it has
  UidMinLimit    \* UID_MIN_LIMIT, above every system call number

UidCalls == {"setuid", "setreuid", "setresuid", "setfsuid"}

(* Every system call has a number of its own, and those that change the user  *)
(* are known.                                                                 *)
ASSUME FilterAssumption ==
  /\ UidCalls \subseteq DOMAIN Resolve
  /\ \A n \in DOMAIN Resolve : Resolve[n] \in Nat /\ Resolve[n] < UidMinLimit
  /\ \A n, m \in DOMAIN Resolve : Resolve[n] = Resolve[m] => n = m
  /\ UidMinLimit \in Nat

ProgramLimit == 65536
ArchCheckBpfCnt == 4
BpfPerSyscall == 2
BpfPerUidSyscall(args) == 3 * args + 1

Fetch(field) == [op |-> "ld", k |-> field, jt |-> 0, jf |-> 0]
Jump(test, k, jt, jf) == [op |-> test, k |-> k, jt |-> jt, jf |-> jf]
Ret(verdict) == [op |-> "ret", k |-> verdict, jt |-> 0, jf |-> 0]

ArchAarch64 == 1000

AppendArchCheck == <<Fetch("arch"), Jump("jeq", ArchAarch64, 1, 0), Ret("kill"), Fetch("nr")>>

AppendAllowFilter(nr) == <<Jump("jeq", nr, 0, 1), Ret("allow")>>

(* Names that are not known are left out.                                     *)
AppendAllowList(names) ==
  FlattenSeq([i \in 1..Len(names) |->
    IF names[i] \in DOMAIN Resolve THEN AppendAllowFilter(Resolve[names[i]]) ELSE <<>>])

CheckArgument(field) == <<Fetch(field), Jump("jge", UidMinLimit, 1, 0), Ret("kill")>>

AppendUidRangeFilter(nr) ==
  <<Jump("jeq", nr, 0, BpfPerUidSyscall(1) - 1)>> \o CheckArgument("a0")

AppendSetreuidRangeFilter(nr) ==
  <<Jump("jeq", nr, 0, BpfPerUidSyscall(2) - 1)>> \o CheckArgument("a0") \o CheckArgument("a1")

(* A skip of the two argument form, one check short.                          *)
SetresuidSkipsShort(nr) ==
  <<Jump("jeq", nr, 0, BpfPerUidSyscall(2) - 1)>>
    \o CheckArgument("a0") \o CheckArgument("a1") \o CheckArgument("a2")

AppendSetresuidRangeFilter(nr) ==
  <<Jump("jeq", nr, 0, BpfPerUidSyscall(3) - 1)>>
    \o CheckArgument("a0") \o CheckArgument("a1") \o CheckArgument("a2")

AppendUidRangeSyscalls ==
  AppendUidRangeFilter(Resolve["setuid"])
    \o AppendSetreuidRangeFilter(Resolve["setreuid"])
    \o AppendSetresuidRangeFilter(Resolve["setresuid"])
    \o AppendUidRangeFilter(Resolve["setfsuid"])

DefaultAction(names) == IF names = <<>> THEN "allow" ELSE "kill"

(* The length of a program is a number of 16 bits.                            *)
BuildSeccompFilter(names) ==
  LET filter == AppendArchCheck \o AppendAllowList(names) \o AppendUidRangeSyscalls
                  \o <<Ret(DefaultAction(names))>>
  IN SubSeq(filter, 1, Len(filter) % ProgramLimit)

(* The room BuildSeccompFilter makes before it writes.                        *)
TotalLen(names) ==
  ArchCheckBpfCnt + Len(names) * BpfPerSyscall
    + BpfPerUidSyscall(1) + BpfPerUidSyscall(2) + BpfPerUidSyscall(3) + BpfPerUidSyscall(1) + 1

-----------------------------------------------------------------------------
(* The machine: a step loads a field, compares and jumps forward, or gives    *)
(* the verdict. No run is longer than the program, since no jump goes back.   *)
MachineStart == [pc |-> 1, acc |-> 0, verdict |-> "none"]

Advance(program, call, m) ==
  IF m.verdict # "none" \/ m.pc > Len(program) THEN m
  ELSE LET insn == program[m.pc]
           taken == IF insn.op = "jeq" THEN m.acc = insn.k ELSE m.acc >= insn.k
       IN IF insn.op = "ret" THEN [m EXCEPT !.verdict = insn.k]
          ELSE IF insn.op = "ld" THEN [pc |-> m.pc + 1, acc |-> call[insn.k], verdict |-> "none"]
          ELSE [m EXCEPT !.pc = @ + 1 + (IF taken THEN insn.jt ELSE insn.jf)]

RunFilter(program, call) ==
  LET after[n \in 0..Len(program)] ==
        IF n = 0 THEN MachineStart ELSE Advance(program, call, after[n - 1])
  IN after[Len(program)].verdict

(* The users a call names.                                                     *)
UserArguments(nr) ==
  IF nr \in {Resolve["setuid"], Resolve["setfsuid"]} THEN {"a0"}
  ELSE IF nr = Resolve["setreuid"] THEN {"a0", "a1"}
  ELSE IF nr = Resolve["setresuid"] THEN {"a0", "a1", "a2"} ELSE {}

NamesSystemUser(call) == \E a \in UserArguments(call.nr) : call[a] < UidMinLimit
IsListed(names, nr) == \E n \in ToSet(names) \cap DOMAIN Resolve : Resolve[n] = nr

(* The verdict the comments of the code announce, whatever its order of tests: *)
(* another architecture is killed (sandbox_manager.cpp:1723), and so is "any   *)
(* attempt" to become a user below the limit (:91-93, :1521-1524); with an     *)
(* allow list "only listed syscalls" are allowed (:1697), without one all are  *)
(* that are not blocked (:1698).                                               *)
DocumentedVerdict(names, call) ==
  IF \/ call.arch # ArchAarch64
     \/ NamesSystemUser(call)
     \/ names # <<>> /\ ~IsListed(names, call.nr)
    THEN "kill" ELSE "allow"

(* Where the code departs from them: it tests the allow list first, so that a  *)
(* call to become a system user passes once its name is listed.                *)
ListedSystemUser(names, call) ==
  call.arch = ArchAarch64 /\ NamesSystemUser(call) /\ IsListed(names, call.nr)
=============================================================================
