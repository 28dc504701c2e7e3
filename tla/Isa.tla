----------------------------------- MODULE Isa -----------------------------------
(***************************************************************************)
(* The instructions as isa/rv64i_isa.yml describes them, and the words an  *)
(* assembler makes of them: what Decoder is held against.                  *)
(***************************************************************************)
EXTENDS Decoder

Fixed(format, opcode, funct3, funct7) ==
  [format |-> format, opcode |-> opcode, funct3 |-> funct3, funct7 |-> funct7]

\* The fixed bits of each instruction; a field its format lacks is empty.
Description(op) ==
  CASE op = "lb"    -> Fixed("I", {0, 1}, {}, {})
    [] op = "lh"    -> Fixed("I", {0, 1}, {0}, {})
    [] op = "lw"    -> Fixed("I", {0, 1}, {1}, {})
    [] op = "ld"    -> Fixed("I", {0, 1}, {0, 1}, {})
    [] op = "lbu"   -> Fixed("I", {0, 1}, {2}, {})
    [] op = "lhu"   -> Fixed("I", {0, 1}, {0, 2}, {})
    [] op = "lwu"   -> Fixed("I", {0, 1}, {1, 2}, {})
    [] op = "sb"    -> Fixed("S", {0, 1, 5}, {}, {})
    [] op = "sh"    -> Fixed("S", {0, 1, 5}, {0}, {})
    [] op = "sw"    -> Fixed("S", {0, 1, 5}, {1}, {})
    [] op = "sd"    -> Fixed("S", {0, 1, 5}, {0, 1}, {})
    [] op = "addiw" -> Fixed("I", {0, 1, 3, 4}, {}, {})
    [] op = "slliw" -> Fixed("I", {0, 1, 3, 4}, {0}, {})
    [] op = "srliw" -> Fixed("I", {0, 1, 3, 4}, {0, 2}, {})
    [] op = "sraiw" -> Fixed("I", {0, 1, 3, 4}, {0, 2}, {5})
    [] op = "addw"  -> Fixed("R", {0, 1, 3, 4, 5}, {}, {})
    [] op = "subw"  -> Fixed("R", {0, 1, 3, 4, 5}, {}, {5})
    [] op = "sllw"  -> Fixed("R", {0, 1, 3, 4, 5}, {0}, {})
    [] op = "srlw"  -> Fixed("R", {0, 1, 3, 4, 5}, {0, 2}, {})
    [] op = "sraw"  -> Fixed("R", {0, 1, 3, 4, 5}, {0, 2}, {5})
    [] op = "add"   -> Fixed("R", {0, 1, 4, 5}, {}, {})
    [] op = "sub"   -> Fixed("R", {0, 1, 4, 5}, {}, {5})
    [] op = "sll"   -> Fixed("R", {0, 1, 4, 5}, {0}, {})
    [] op = "slt"   -> Fixed("R", {0, 1, 4, 5}, {1}, {})
    [] op = "sltu"  -> Fixed("R", {0, 1, 4, 5}, {0, 1}, {})
    [] op = "xor"   -> Fixed("R", {0, 1, 4, 5}, {2}, {})
    [] op = "srl"   -> Fixed("R", {0, 1, 4, 5}, {0, 2}, {})
    [] op = "sra"   -> Fixed("R", {0, 1, 4, 5}, {0, 2}, {5})
    [] op = "or"    -> Fixed("R", {0, 1, 4, 5}, {1, 2}, {})
    [] op = "and"   -> Fixed("R", {0, 1, 4, 5}, {0, 1, 2}, {})
    [] op = "addi"  -> Fixed("I", {0, 1, 4}, {}, {})
    [] op = "slti"  -> Fixed("I", {0, 1, 4}, {1}, {})
    [] op = "sltiu" -> Fixed("I", {0, 1, 4}, {0, 1}, {})
    [] op = "xori"  -> Fixed("I", {0, 1, 4}, {2}, {})
    [] op = "ori"   -> Fixed("I", {0, 1, 4}, {1, 2}, {})
    [] op = "andi"  -> Fixed("I", {0, 1, 4}, {0, 1, 2}, {})
    [] op = "slli"  -> Fixed("I", {0, 1, 4}, {0}, {})
    [] op = "srli"  -> Fixed("I", {0, 1, 4}, {0, 2}, {})
    [] op = "srai"  -> Fixed("I", {0, 1, 4}, {0, 2}, {5})
    [] op = "jalr"  -> Fixed("I", {0, 1, 2, 5, 6}, {}, {})
    [] op = "beq"   -> Fixed("B", {0, 1, 5, 6}, {}, {})
    [] op = "bne"   -> Fixed("B", {0, 1, 5, 6}, {0}, {})
    [] op = "blt"   -> Fixed("B", {0, 1, 5, 6}, {2}, {})
    [] op = "bge"   -> Fixed("B", {0, 1, 5, 6}, {0, 2}, {})
    [] op = "bltu"  -> Fixed("B", {0, 1, 5, 6}, {1, 2}, {})
    [] op = "bgeu"  -> Fixed("B", {0, 1, 5, 6}, {0, 1, 2}, {})
    [] op = "lui"   -> Fixed("U", {0, 1, 2, 4, 5}, {}, {})
    [] op = "auipc" -> Fixed("U", {0, 1, 2, 4}, {}, {})
    [] op = "jal"   -> Fixed("J", {0, 1, 2, 3, 5, 6}, {}, {})
    [] op = "ecall" -> Fixed("J", {0, 1, 4, 5, 6}, {}, {})
    [] op = "csrw"  -> Fixed("I", {0, 1, 4, 5, 6}, {0}, {})

Loads == {"lb", "lh", "lw", "ld", "lbu", "lhu", "lwu"}
Stores == {"sb", "sh", "sw", "sd"}
Branches == {"beq", "bne", "blt", "bge", "bltu", "bgeu"}
ShiftImmediates == {"slli", "srli", "srai", "slliw", "srliw", "sraiw"}
Immediates == {"addi", "slti", "sltiu", "xori", "ori", "andi", "addiw", "jalr", "csrw"}
Registers == {"addw", "subw", "sllw", "srlw", "sraw", "add", "sub", "sll", "slt",
              "sltu", "xor", "srl", "sra", "or", "and"}
Opcodes == Loads \cup Stores \cup Branches \cup ShiftImmediates \cup Immediates
           \cup Registers \cup {"lui", "auipc", "jal", "ecall"}

\* The register fields of a format.
Operands(format) == CASE format = "R" -> {"rd", "rs1", "rs2"}
                      [] format = "I" -> {"rd", "rs1"}
                      [] format \in {"S", "B"} -> {"rs1", "rs2"}
                      [] format \in {"U", "J"} -> {"rd"}

\* Does an instruction take this immediate?  funct7 is the top of a shift's.
Takes(op, imm) ==
  LET d == Description(op)
      Width(n) == imm = SignExtend(imm \cap (0 .. (n - 1)), n) IN
  CASE op \in ShiftImmediates -> imm \ (0 .. 4) = Up(d.funct7, 5)
    [] d.format = "R" \/ op = "ecall" -> imm = {}
    [] d.format \in {"I", "S"} /\ op \notin ShiftImmediates -> Width(12)
    [] d.format = "B" -> 0 \notin imm /\ Width(13)
    [] d.format = "U" -> imm \subseteq 0 .. 19
    [] d.format = "J" /\ op # "ecall" -> 0 \notin imm /\ Width(21)

\* An instruction as it stands in an assembler program.
Instruction(i) ==
  LET Reg(r) == IF r \in Operands(i.format) THEN RegNumber ELSE {NoReg} IN
  /\ i.opcode \in Opcodes
  /\ i.format = Description(i.opcode).format
  /\ i.rd \in Reg("rd") /\ i.rs1 \in Reg("rs1") /\ i.rs2 \in Reg("rs2")
  /\ i.opcode = "ecall" => i.rd = {}
  /\ i.imm \in SUBSET (0 .. 31) /\ Takes(i.opcode, i.imm)

\* Its word.
Encode(i) ==
  LET d == Description(i.opcode)
      Part(s) == i.imm \cap s IN
  d.opcode \cup Up(d.funct3, 12) \cup
  CASE d.format = "R" -> Up(i.rd, 7) \cup Up(i.rs1, 15) \cup Up(i.rs2, 20)
                         \cup Up(d.funct7, 25)
    [] d.format = "I" -> Up(i.rd, 7) \cup Up(i.rs1, 15) \cup Up(Part(0 .. 11), 20)
    [] d.format = "S" -> Up(i.rs1, 15) \cup Up(i.rs2, 20)
                         \cup Up(Part(0 .. 4), 7) \cup Up(Part(5 .. 11), 20)
    [] d.format = "B" -> Up(i.rs1, 15) \cup Up(i.rs2, 20) \cup Up(Part({11}), -4)
                         \cup Up(Part(1 .. 4), 7) \cup Up(Part(5 .. 10), 20)
                         \cup Up(Part({12}), 19)
    [] d.format = "U" -> Up(i.rd, 7) \cup Up(i.imm, 12)
    [] d.format = "J" -> Up(i.rd, 7) \cup Part(12 .. 19) \cup Up(Part({11}), 9)
                         \cup Up(Part(1 .. 10), 20) \cup Up(Part({20}), 11)

\* What the executer needs of a decoded instruction: what was assembled.  CSRW's
\* rd is lost, and nothing but the register it would name is made up for it.
Faithful(i, d) ==
  /\ d.opcode = i.opcode /\ d.format = i.format /\ d.imm = i.imm
  /\ "rd" \in Operands(i.format) =>
       d.rd = IF i.opcode = "csrw" THEN NoReg ELSE i.rd
  /\ "rs1" \in Operands(i.format) => d.rs1 = i.rs1
  /\ "rs2" \in Operands(i.format) => d.rs2 = i.rs2

\* The registers the execute_* function of an instruction reads or writes.
Used(op) == IF op = "csrw" THEN {"rd", "rs1"} ELSE Operands(Description(op).format)
================================================================================
