-------------------------------- MODULE Decoder --------------------------------
(***************************************************************************)
(* decode(): 32-bit words to instructions, at full width.  A word, a       *)
(* register number and an immediate are the sets of their one bits, so an  *)
(* extraction is an intersection and a shift, and an immediate keeps all   *)
(* the bits of its int32_t.  What selects an instruction is a number, as   *)
(* in the switch.                                                          *)
(***************************************************************************)
EXTENDS Integers

Word32 == SUBSET (0 .. 31)
RegNumber == SUBSET (0 .. 4)
Byte == SUBSET (0 .. 7)

\* uint8_t rd(-1), rs1(-1), rs2(-1); int32_t imm(-1).
NoReg == 0 .. 7
NoImm == 0 .. 31

-------------------------------------------------------------------------------
(* Fields. *)

\* `width' bits from bit `first' on: "(instruction >> first) & mask".
Field(w, first, width) == {i \in 0 .. (width - 1) : first + i \in w}

\* Shifts of a set of bits.
Up(s, k) == {i + k : i \in s}

\* static_cast<int32_t>(imm << (32 - width)) >> (32 - width)
SignExtend(s, width) == IF width - 1 \in s THEN s \cup (width .. 31) ELSE s

Bit(s, i) == IF i \in s THEN 1 ELSE 0
Value(s) == Bit(s, 0) + 2 * Bit(s, 1) + 4 * Bit(s, 2) + 8 * Bit(s, 3)
            + 16 * Bit(s, 4) + 32 * Bit(s, 5) + 64 * Bit(s, 6)

get_opcode(w) == Value(Field(w, 0, 7))
get_rd(w) == Field(w, 7, 5)
get_rs1(w) == Field(w, 15, 5)
get_rs2(w) == Field(w, 20, 5)
get_funct3(w) == Value(Field(w, 12, 3))
get_funct7(w) == Value(Field(w, 25, 7))

get_imm_i(w) == SignExtend(Field(w, 20, 12), 12)

get_imm_s(w) == SignExtend(Up(Field(w, 25, 7), 5) \cup Field(w, 7, 5), 12)

\* Mutant: bits 7 and 31 keep their order.
get_imm_b_swapped(w) ==
  SignExtend(Up(Field(w, 31, 1), 11) \cup Up(Field(w, 25, 6), 5)
             \cup Up(Field(w, 8, 4), 1) \cup Up(Field(w, 7, 1), 12), 13)

get_imm_b(w) ==
  SignExtend(Up(Field(w, 31, 1), 12) \cup Up(Field(w, 25, 6), 5)
             \cup Up(Field(w, 8, 4), 1) \cup Up(Field(w, 7, 1), 11), 13)

\* An unsigned shift: 20 bits, not extended.
get_imm_u(w) == Field(w, 12, 20)

get_imm_j(w) ==
  SignExtend(Up(Field(w, 31, 1), 20) \cup Up(Field(w, 21, 10), 1)
             \cup Up(Field(w, 20, 1), 11) \cup Up(Field(w, 12, 8), 12), 21)

-------------------------------------------------------------------------------
(* The decode_* functions, by what they fill in. *)

Decoded(op, format, rd, rs1, rs2, imm) ==
  [opcode |-> op, format |-> format, rd |-> rd, rs1 |-> rs1, rs2 |-> rs2, imm |-> imm]

\* The default constructor: `format' is whatever was in memory.
Unknown == Decoded("unknown", "uninitialised", NoReg, NoReg, NoReg, NoImm)

I(op, w) == Decoded(op, "I", get_rd(w), get_rs1(w), NoReg, get_imm_i(w))
R(op, w) == Decoded(op, "R", get_rd(w), get_rs1(w), get_rs2(w), {})
B(op, w) == Decoded(op, "B", NoReg, get_rs1(w), get_rs2(w), get_imm_b(w))
U(op, w) == Decoded(op, "U", get_rd(w), NoReg, NoReg, get_imm_u(w))
J(op, w) == Decoded(op, "J", get_rd(w), NoReg, NoReg, get_imm_j(w))

\* Mutant: the second source of a store is not filled in.
SOneSource(op, w) ==
  Decoded(op, "S", IF op = "sw" THEN get_rd(w) ELSE NoReg, get_rs1(w), NoReg,
          get_imm_s(w))

\* decode_sw reads a destination, of which a store has none.
S(op, w) ==
  Decoded(op, "S", IF op = "sw" THEN get_rd(w) ELSE NoReg, get_rs1(w), get_rs2(w),
          get_imm_s(w))

\* decode_csrw reads none, though it writes one.
Csrw(w) == [I("csrw", w) EXCEPT !.rd = NoReg]

-------------------------------------------------------------------------------
(* The switch: one operator per case of the opcode. *)

Load(w) ==
  LET f3 == get_funct3(w) IN
  CASE f3 = 0 -> I("lb", w)  [] f3 = 1 -> I("lh", w)  [] f3 = 2 -> I("lw", w)
    [] f3 = 3 -> I("ld", w)  [] f3 = 4 -> I("lbu", w) [] f3 = 5 -> I("lhu", w)
    [] f3 = 6 -> I("lwu", w) [] OTHER -> Unknown

Store(w) ==
  LET f3 == get_funct3(w) IN
  CASE f3 = 0 -> S("sb", w) [] f3 = 1 -> S("sh", w)
    [] f3 = 2 -> S("sw", w) [] f3 = 3 -> S("sd", w) [] OTHER -> Unknown

OpImm32(w) ==
  LET f3 == get_funct3(w) f7 == get_funct7(w) IN
  CASE f3 = 0 -> I("addiw", w)
    [] f3 = 1 -> I("slliw", w)
    [] f3 = 5 /\ f7 = 0  -> I("srliw", w)
    [] f3 = 5 /\ f7 = 32 -> I("sraiw", w)
    [] OTHER -> Unknown

\* Mutant: an instruction alone with its funct3 is taken for its neighbour's.
Op32Loose(w) ==
  LET f3 == get_funct3(w) f7 == get_funct7(w) IN
  CASE f3 = 0 /\ f7 = 0  -> R("addw", w)
    [] f3 = 0 /\ f7 = 32 -> R("subw", w)
    [] f3 = 1 -> R("sllw", w)
    [] f3 = 5 /\ f7 # 32 -> R("srlw", w)
    [] f3 = 5 /\ f7 = 32 -> R("sraw", w)
    [] OTHER -> Unknown

Op32(w) ==
  LET f3 == get_funct3(w) f7 == get_funct7(w) IN
  CASE f3 = 0 /\ f7 = 0  -> R("addw", w)
    [] f3 = 0 /\ f7 = 32 -> R("subw", w)
    [] f3 = 1 -> R("sllw", w)
    [] f3 = 5 /\ f7 = 0  -> R("srlw", w)
    [] f3 = 5 /\ f7 = 32 -> R("sraw", w)
    [] OTHER -> Unknown

Op(w) ==
  LET f3 == get_funct3(w) f7 == get_funct7(w) IN
  CASE f3 = 0 /\ f7 = 0  -> R("add", w)
    [] f3 = 0 /\ f7 = 32 -> R("sub", w)
    [] f3 = 1 -> R("sll", w) [] f3 = 2 -> R("slt", w) [] f3 = 3 -> R("sltu", w)
    [] f3 = 4 -> R("xor", w)
    [] f3 = 5 /\ f7 = 0  -> R("srl", w)
    [] f3 = 5 /\ f7 = 32 -> R("sra", w)
    [] f3 = 6 -> R("or", w)  [] f3 = 7 -> R("and", w)
    [] OTHER -> Unknown

\* funct7 holds bit 5 of a shift amount, so SRLI and SRAI by 32 and more are unknown.
OpImm(w) ==
  LET f3 == get_funct3(w) f7 == get_funct7(w) IN
  CASE f3 = 0 -> I("addi", w)  [] f3 = 1 -> I("slli", w)
    [] f3 = 2 -> I("slti", w)  [] f3 = 3 -> I("sltiu", w)
    [] f3 = 4 -> I("xori", w)
    [] f3 = 5 /\ f7 = 0  -> I("srli", w)
    [] f3 = 5 /\ f7 = 32 -> I("srai", w)
    [] f3 = 6 -> I("ori", w)   [] f3 = 7 -> I("andi", w)
    [] OTHER -> Unknown

Branch(w) ==
  LET f3 == get_funct3(w) IN
  CASE f3 = 0 -> B("beq", w) [] f3 = 1 -> B("bne", w)  [] f3 = 4 -> B("blt", w)
    [] f3 = 5 -> B("bge", w) [] f3 = 6 -> B("bltu", w) [] f3 = 7 -> B("bgeu", w)
    [] OTHER -> Unknown

\* EBREAK, MRET and all else with funct3 = 0 is an ECALL.
System(w) ==
  LET f3 == get_funct3(w) IN
  CASE f3 = 0 -> J("ecall", w) [] f3 = 1 -> Csrw(w) [] OTHER -> Unknown

decode(w) ==
  LET opcode == get_opcode(w) IN
  CASE opcode = 3   -> Load(w)
    [] opcode = 35  -> Store(w)
    [] opcode = 27  -> OpImm32(w)
    [] opcode = 59  -> Op32(w)
    [] opcode = 51  -> Op(w)
    [] opcode = 19  -> OpImm(w)
    [] opcode = 103 -> I("jalr", w)
    [] opcode = 99  -> Branch(w)
    [] opcode = 55  -> U("lui", w)
    [] opcode = 23  -> U("auipc", w)
    [] opcode = 111 -> J("jal", w)
    [] opcode = 115 -> System(w)
    [] OTHER -> Unknown
================================================================================
