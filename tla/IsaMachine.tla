------------------------------ MODULE IsaMachine ------------------------------
(***************************************************************************)
(* What the simulator promises: a sequential RV64I machine that retires    *)
(* the instruction its program counter points at, one after the other,     *)
(* until an ECALL.  It has no cache, no compiled code and no host stack.   *)
(*                                                                         *)
(* Program counters count instructions (bytes / 4) and wrap at PcSpace.    *)
(* Data is abstracted to what control depends on: the condition of a       *)
(* branch is a free choice, an indirect jump goes to one of the targets    *)
(* the instruction names, and `paging' stands for satp.mode # 0.  `calls'  *)
(* is the guest's own stack of return addresses (x1 and its spills).       *)
(***************************************************************************)
EXTENDS Integers, Sequences

CONSTANTS PcSpace,       \* number of distinct program counters
          Programs,      \* the guest programs: functions from Pcs to Instr
          Entry,         \* the ELF entry point
          CounterSpace,  \* modulus of the instruction counters (2^64 in the code)
          MaxCalls       \* bound on the depth of guest calls

Pcs == 0 .. (PcSpace - 1)

\* Mutant: the PC after the last one does not wrap.
IncUnwrapped(p) == p + 1

\* The next instruction, and the target of a PC-relative one.
Inc(p) == (p + 1) % PcSpace
Rel(p, imm) == (p + imm) % PcSpace

Tick(n) == (n + 1) % CounterSpace

\* One opcode per kind of control the engines distinguish: "mem" is every load
\* and store, "jump" JAL with rd = x0, "call" JAL with another rd, "ret" JALR
\* x0, 0(x1), "ijump" any other JALR with rd = x0, "icall" JALR with another
\* rd; "unknown" is a word that decodes to no instruction, "op" all the rest.
Ops == {"op", "mem", "csrw", "branch", "jump", "call", "ret", "ijump",
        "icall", "ecall", "unknown"}

Instr == [op : Ops, imm : Int, to : SUBSET Pcs]

\* What a module that instantiates this one assumes of these constants.
MachineConstants ==
  /\ PcSpace \in Nat \ {0}
  /\ CounterSpace \in Nat \ {0}
  /\ MaxCalls \in Nat
  /\ Programs \subseteq [Pcs -> Instr]
  /\ Entry \in Pcs

VARIABLES code,     \* the guest program, as loaded in memory
          pc,       \* Hart::pc_
          halt,     \* Hart::halt_
          paging,   \* whether satp selects a translation mode
          calls,    \* guest return addresses, innermost last
          instret   \* instructions retired (what instr_counter_ should count)

guest == <<code, pc, halt, paging, calls, instret>>

\* Where instruction i may send a hart that stands at pc.
Successors(i) ==
  CASE i.op = "branch" -> {Inc(pc), Rel(pc, i.imm)}
    [] i.op \in {"jump", "call"} -> {Rel(pc, i.imm)}
    [] i.op \in {"ijump", "icall"} -> i.to
    [] i.op = "ret" -> IF calls = <<>> THEN i.to ELSE {calls[Len(calls)]}
    [] OTHER -> {Inc(pc)}

CallsAfter(i) ==
  CASE i.op \in {"call", "icall"} -> Append(calls, Inc(pc))
    [] i.op = "ret" /\ calls # <<>> -> SubSeq(calls, 1, Len(calls) - 1)
    [] OTHER -> calls

\* Retire instruction i and go to p.
Execute(i, p) ==
  /\ i.op # "unknown"
  /\ i.op \in {"call", "icall"} => Len(calls) < MaxCalls
  /\ p \in Successors(i)
  /\ pc' = p
  /\ halt' = (halt \/ i.op = "ecall")
  /\ IF i.op = "csrw" THEN paging' \in BOOLEAN ELSE UNCHANGED paging
  /\ calls' = CallsAfter(i)
  /\ instret' = Tick(instret)
  /\ UNCHANGED code

Init ==
  /\ code \in Programs
  /\ pc = Entry
  /\ halt = FALSE
  /\ paging = FALSE
  /\ calls = <<>>
  /\ instret = 0

Next == ~halt /\ \E p \in Pcs : Execute(code[pc], p)

SafeSpec == Init /\ [][Next]_guest

\* The machine keeps going as long as there is an instruction to retire.
Spec == SafeSpec /\ WF_guest(Next)

GuestTypeOK ==
  /\ code \in [Pcs -> Instr]
  /\ pc \in Pcs
  /\ halt \in BOOLEAN
  /\ paging \in BOOLEAN
  /\ calls \in Seq(Pcs)
  /\ instret \in 0 .. (CounterSpace - 1)
==============================================================================
