---------------------------------- MODULE Boot ----------------------------------
(***************************************************************************)
(* From an assembler program to what the hart executes: the words of an    *)
(* ELF file are loaded, fetched and decoded.  file.asm says which          *)
(* instruction was assembled at a position; other words are not code, or   *)
(* code for another machine.                                               *)
(***************************************************************************)
EXTENDS Loader, Isa

ASSUME BootAssumption ==
  /\ Word = Word32
  /\ \A f \in Files : \A k \in DOMAIN f.asm :
       Instruction(f.asm[k]) /\ f.words[k] = Encode(f.asm[k])

VARIABLE fetched  \* the last word fetched, from where, and what it decodes to

vars == <<loading, fetched>>

Init == LoaderInit /\ fetched = [at |-> 0, word |-> {}, instr |-> Unknown]

\* decode(fetch(pc)), for any PC the guest may come to.
Fetch ==
  /\ phase = "ready"
  /\ \E a \in Address :
       fetched' = [at |-> a, word |-> memory[a], instr |-> decode(memory[a])]
  /\ UNCHANGED loading

Next == (LoaderNext /\ UNCHANGED fetched) \/ Fetch

Spec == Init /\ [][Next]_vars

-------------------------------------------------------------------------------
(* Properties. *)

TypeOK ==
  /\ LoaderTypeOK
  /\ fetched.at \in Nat /\ fetched.word \in Word32
  /\ fetched.instr.opcode \in Opcodes \cup {"unknown"}

\* Every instruction of the first loaded segment reaches the hart as it was
\* assembled, its operands and all bits of its immediate (load_elf, fetch, decode),
\* if it is the only segment load_elf comes to load.
AssembledIsExecuted ==
  LET k == Segment.offset + fetched.at - Segment.vaddr IN
  /\ phase = "ready" /\ Sound /\ Quiet /\ ~RunsOut
  /\ fetched.at \in Segment.vaddr .. (Segment.vaddr + Segment.filesz - 1)
  /\ fetched.word = memory[fetched.at] /\ k \in DOMAIN file.asm
  => Faithful(file.asm[k], fetched.instr)

\* Whatever a word decodes to, the registers its execute_* function reads and writes
\* are in regs_, but for the one CSRW writes.
OperandsInRange ==
  LET i == fetched.instr IN
  i.opcode # "unknown" =>
    \A r \in Used(i.opcode) :
      i[r] \in RegNumber <=> ~(i.opcode = "csrw" /\ r = "rd")

\* The instructions alone with their funct3 in the switch: their funct7 is not read.
Alone == {"sll", "slt", "sltu", "xor", "or", "and", "sllw", "slli", "slliw"}

\* Does a word have the bits the description fixes in these fields?
HasOpcode(op, w) == get_opcode(w) = Value(Description(op).opcode)
HasFunct3(op, w) ==
  op \in {"lui", "auipc", "jal"} \/ get_funct3(w) = Value(Description(op).funct3)
HasFunct7(op, w) ==
  op \notin Registers \cup ShiftImmediates \/ get_funct7(w) = Value(Description(op).funct7)

\* Is a word, as far as the switch looks at it, this instruction?
Described(op, w) ==
  /\ HasOpcode(op, w)
  /\ HasFunct3(op, w) \/ op = "jalr"
  /\ HasFunct7(op, w) \/ op \in Alone

\* decode knows every word of the description, and no other, except that it does not
\* look at funct7 where an instruction is alone with its funct3, nor at JALR's funct3.
DecodesTheDescription ==
  \A op \in Opcodes : fetched.instr.opcode = op <=> Described(op, fetched.word)
================================================================================
