--------------------------------- MODULE JitA64 ---------------------------------
(***************************************************************************)
(* The compiled code of one guest instruction on AArch64: compile() of     *)
(* that backend.  It is chosen where the host is not an x86-64, has no     *)
(* compiled control flow of its own (compile_function_block falls back to  *)
(* compile_bb), and differs from the x86-64 one in most families.          *)
(***************************************************************************)
EXTENDS Rv64

\* ldr and str at regs_beg_ + r * 8: x0 is read and written like the others.
RegAtA64(g, r) == g.regs[r]
StoreReg(g, rd, v) == [g EXCEPT !.regs[rd] = v]

\* increase_pc
IncreasePcA64(g) == [g EXCEPT !.pc = Wrap(@ + 4)]

\* mov sign-extends the int32_t immediate.
Mov(i) == Wrap(i.imm)

MemAddressA64(i, g) == Wrap(RegAtA64(g, i.rs1) + Mov(i))

\* What the trampoline returns is stored as it is.
LoadA64(i, g) == StoreReg(g, i.rd, ReadMem(g, MemAddressA64(i, g), Size(i.op)))

StoreA64(i, g) == WriteMem(g, MemAddressA64(i, g), RegAtA64(g, i.rs2), Size(i.op))

\* SUBW, SRL and SRA take the immediate, which is 0 in their format.
SecondSource(i, g) ==
  IF i.op \in Immediates \cup {"subw", "srl", "sra"} THEN Mov(i) ELSE RegAtA64(g, i.rs2)

AddA64(op, a, b) == IF op = "sub" THEN Wrap(a - b) ELSE Wrap(a + b)

\* Mutant: SLTU and SLTIU compare with kLT.
CompareSignedA64(op, a, b) == IF Signed(a, XLEN) < Signed(b, XLEN) THEN 1 ELSE 0

\* cset with kLT and kLO
CompareA64(op, a, b) ==
  LET less == IF op \in {"slt", "slti"} THEN Signed(a, XLEN) < Signed(b, XLEN)
                                        ELSE a < b
  IN  IF less THEN 1 ELSE 0

\* eor, orn (which complements its second operand) and and
LogicA64(op, a, b) == CASE op \in {"xor", "xori"} -> Xor(a, b)
                        [] op \in {"or", "ori"}   -> Or(a, Not(b))
                        [] op \in {"and", "andi"} -> And(a, b)

\* lsl and lsr of a 64-bit register, asr for SRA; SRAI is not compiled.
ShiftA64(op, a, b) ==
  CASE op \in {"sll", "slli"} -> ShiftLeft(a, b, XLEN)
    [] op \in {"srl", "srli"} -> ShiftRight(a, b, XLEN)
    [] op = "sra"             -> ShiftRightSigned(a, b, XLEN)

\* The operands are masked to 32 bits, the 64-bit result is not.
WordAddA64(op, a, b) ==
  IF op = "subw" THEN Wrap(Low(a, WLEN) - Low(b, WLEN)) ELSE Low(a, WLEN) + Low(b, WLEN)

\* 64-bit shifts of a masked operand; SRLIW and SRAIW mask their amount with 31.
WordShiftA64(op, a, b) ==
  CASE op \in {"sllw", "slliw"} -> ShiftLeft(Low(a, WLEN), b, XLEN)
    [] op = "srlw"  -> ShiftRight(Low(a, WLEN), b, XLEN)
    [] op = "srliw" -> ShiftRight(Low(a, WLEN), b % WLEN, XLEN)
    [] op = "sraiw" -> ShiftRightSigned(Low(a, WLEN), b % WLEN, XLEN)

ComputedA64(op, a, b) ==
  CASE op \in {"add", "addi", "sub"} -> AddA64(op, a, b)
    [] op \in {"slt", "slti", "sltu", "sltiu"} -> CompareA64(op, a, b)
    [] op \in {"xor", "xori", "or", "ori", "and", "andi"} -> LogicA64(op, a, b)
    [] op \in {"sll", "slli", "srl", "srli", "sra"} -> ShiftA64(op, a, b)
    [] op \in {"addw", "addiw", "subw"} -> WordAddA64(op, a, b)
    [] op \in WordShifts -> WordShiftA64(op, a, b)

ComputeA64(i, g) ==
  StoreReg(g, i.rd, ComputedA64(i.op, RegAtA64(g, i.rs1), SecondSource(i, g)))

\* csel after cmp
TakenA64(op, a, b) ==
  CASE op = "beq"  -> a = b
    [] op = "bne"  -> a # b
    [] op = "blt"  -> Signed(a, XLEN) < Signed(b, XLEN)
    [] op = "bge"  -> Signed(a, XLEN) >= Signed(b, XLEN)
    [] op = "bltu" -> a < b
    [] op = "bgeu" -> a >= b

\* The immediate of an AArch64 add is unsigned: asmjit refuses a negative one, its
\* error is not looked at, no add is emitted, and the target is what x4 happens to
\* hold.
BranchA64(i, g, x4) ==
  LET target == IF i.imm < 0 THEN x4 ELSE Wrap(g.pc + i.imm)
  IN  IF TakenA64(i.op, RegAtA64(g, i.rs1), RegAtA64(g, i.rs2)) THEN target
                                                         ELSE Wrap(g.pc + 4)

UpperA64(i, g) ==
  LET imm == Wrap(Mov(i) * 2 ^ UpperShift)
  IN  StoreReg(g, i.rd, IF i.op = "lui" THEN imm ELSE Wrap(imm + g.pc))

\* The sums with the PC are computed and not used: the PC becomes the bare
\* immediate, or the bare register.
JalA64(i, g)  == [StoreReg(g, i.rd, Wrap(g.pc + 4)) EXCEPT !.pc = Mov(i)]
JalrA64(i, g) == [StoreReg(g, i.rd, Wrap(g.pc + 4)) EXCEPT !.pc = RegAtA64(g, i.rs1)]

\* Hart::do_ecall is called, then the PC moves.
EcallA64(g) == IncreasePcA64([g EXCEPT !.halt = TRUE])

\* compile(): what its switch does not list is compiled to nothing.
NotListed == {"srai", "sraw", "csrw"}

EmittedA64(i, g, x4) ==
  CASE i.op \in NotListed -> g
    [] i.op \in Loads     -> IncreasePcA64(LoadA64(i, g))
    [] i.op \in Stores    -> IncreasePcA64(StoreA64(i, g))
    [] i.op \in (Immediates \cup Registers) \ NotListed -> IncreasePcA64(ComputeA64(i, g))
    [] i.op \in Branches  -> [g EXCEPT !.pc = BranchA64(i, g, x4)]
    [] i.op \in {"lui", "auipc"} -> IncreasePcA64(UpperA64(i, g))
    [] i.op = "jal"   -> JalA64(i, g)
    [] i.op = "jalr"  -> JalrA64(i, g)
    [] i.op = "ecall" -> EcallA64(g)
================================================================================
