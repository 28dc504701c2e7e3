--------------------------------- MODULE JitX86 ---------------------------------
(***************************************************************************)
(* The compiled code of one guest instruction: compile() of the x86-64     *)
(* instruction factory, one operator per family of emitters.  Guest        *)
(* registers are read where the register file lies in memory, results go   *)
(* through write_reg_x86, and each emitter moves the PC itself.            *)
(*                                                                         *)
(* Control flow inside a compiled function is Hart's; here is what the     *)
(* code of one instruction does to the guest.                              *)
(***************************************************************************)
EXTENDS Rv64

\* ptr(regs_beg_x86_, r * 8): x0 is read from memory like the others.
RegAt(g, r) == g.regs[r]

\* Mutant: x0 is written like the others.
WriteAnyReg(g, rd, v) == [g EXCEPT !.regs[rd] = v]

\* write_reg_x86
WriteReg(g, rd, v) == IF rd = 0 THEN g ELSE [g EXCEPT !.regs[rd] = v]

\* Mutant: the PC outgrows its register.
IncreasePcUnwrapped(g) == [g EXCEPT !.pc = @ + 4]

\* increase_pc
IncreasePc(g) == [g EXCEPT !.pc = Wrap(@ + 4)]

MemAddress(i, g) == Wrap(RegAt(g, i.rs1) + i.imm)

\* movsx and movsxd for LB, LH and LW, movzx for the unsigned ones.
LoadX86(i, g) ==
  LET v == ReadMem(g, MemAddress(i, g), Size(i.op)) IN
  WriteReg(g, i.rd, IF i.op \in {"lb", "lh", "lw"}
                      THEN SignExtended(v, ByteBits * Size(i.op)) ELSE v)

StoreX86(i, g) == WriteMem(g, MemAddress(i, g), RegAt(g, i.rs2), Size(i.op))

\* rdx or the sign-extended imm32.
Source(i, g) == IF i.op \in Immediates THEN Wrap(i.imm) ELSE RegAt(g, i.rs2)

AddX86(op, a, b) == IF op = "sub" THEN Wrap(a - b) ELSE Wrap(a + b)

\* setl and setb
CompareX86(op, a, b) ==
  LET less == IF op \in {"slt", "slti"} THEN Signed(a, XLEN) < Signed(b, XLEN)
                                        ELSE a < b
  IN  IF less THEN 1 ELSE 0

LogicX86(op, a, b) == CASE op \in {"xor", "xori"} -> Xor(a, b)
                        [] op \in {"or", "ori"}   -> Or(a, b)
                        [] op \in {"and", "andi"} -> And(a, b)

\* shl, shr and sar of a 64-bit register
ShiftX86(op, a, b) ==
  CASE op \in {"sll", "slli"} -> ShiftLeft(a, b, XLEN)
    [] op \in {"srl", "srli"} -> ShiftRight(a, b, XLEN)
    [] op \in {"sra", "srai"} -> ShiftRightSigned(a, b, XLEN)

\* add and sub of 32-bit registers, movsxd
WordAddX86(op, a, b) ==
  SignExtended(IF op = "subw" THEN Low(a, WLEN) - Low(b, WLEN)
                              ELSE Low(a, WLEN) + Low(b, WLEN), WLEN)

\* shl, shr and sar of a 32-bit register; all but shr are followed by movsxd.
WordShiftX86(op, a, b) ==
  CASE op \in {"sllw", "slliw"} -> SignExtended(ShiftLeft(a, b, WLEN), WLEN)
    [] op \in {"srlw", "srliw"} -> ShiftRight(a, b, WLEN)
    [] op \in {"sraw", "sraiw"} -> SignExtended(ShiftRightSigned(a, b, WLEN), WLEN)

ComputedX86(op, a, b) ==
  CASE op \in {"add", "addi", "sub"} -> AddX86(op, a, b)
    [] op \in {"slt", "slti", "sltu", "sltiu"} -> CompareX86(op, a, b)
    [] op \in {"xor", "xori", "or", "ori", "and", "andi"} -> LogicX86(op, a, b)
    [] op \in {"sll", "slli", "srl", "srli", "sra", "srai"} -> ShiftX86(op, a, b)
    [] op \in {"addw", "addiw", "subw"} -> WordAddX86(op, a, b)
    [] op \in WordShifts -> WordShiftX86(op, a, b)

ComputeX86(i, g) ==
  WriteReg(g, i.rd, ComputedX86(i.op, RegAt(g, i.rs1), Source(i, g)))

\* The condition under which the cmov does not replace the target.
TakenX86(op, a, b) ==
  CASE op = "beq"  -> a = b
    [] op = "bne"  -> a # b
    [] op = "blt"  -> Signed(a, XLEN) < Signed(b, XLEN)
    [] op = "bge"  -> Signed(a, XLEN) >= Signed(b, XLEN)
    [] op = "bltu" -> a < b
    [] op = "bgeu" -> a >= b

BranchX86(i, g) ==
  IF TakenX86(i.op, RegAt(g, i.rs1), RegAt(g, i.rs2)) THEN Wrap(g.pc + i.imm)
                                                     ELSE Wrap(g.pc + 4)

\* The immediate of an x86 add has 32 bits and is sign-extended: asmjit refuses a
\* larger one, its error is not looked at, and no add is emitted.
UpperX86(i, g) ==
  LET imm == Wrap(i.imm * 2 ^ UpperShift)
      sum == IF imm < 2 ^ (WLEN - 1) THEN Wrap(g.pc + imm) ELSE g.pc
  IN  WriteReg(g, i.rd, IF i.op = "lui" THEN imm ELSE sum)

JalX86(i, g) == [WriteReg(g, i.rd, Wrap(g.pc + 4)) EXCEPT !.pc = Wrap(g.pc + i.imm)]

\* The link is written before rs1 is read, and bit 0 of the target is cleared.
JalrX86(i, g) ==
  LET h == WriteReg(g, i.rd, Wrap(g.pc + 4))
      target == Wrap(RegAt(h, i.rs1) + i.imm)
  IN  [h EXCEPT !.pc = target - (target % 2)]

\* The PC moves before Hart::do_ecall is called.
EcallX86(g) == [IncreasePc(g) EXCEPT !.halt = TRUE]

\* csrw_trampoline: where get_csr throws, increase_pc is not reached.
CsrwX86(i, g) ==
  LET h == SetCsr(g, i.imm, RegAt(g, i.rs1)) IN IF h.thrown THEN h ELSE IncreasePc(h)

\* compile()
Emitted(i, g) ==
  CASE i.op \in Loads    -> IncreasePc(LoadX86(i, g))
    [] i.op \in Stores   -> IncreasePc(StoreX86(i, g))
    [] i.op \in Immediates \cup Registers -> IncreasePc(ComputeX86(i, g))
    [] i.op \in Branches -> [g EXCEPT !.pc = BranchX86(i, g)]
    [] i.op \in {"lui", "auipc"} -> IncreasePc(UpperX86(i, g))
    [] i.op = "jal"   -> JalX86(i, g)
    [] i.op = "jalr"  -> JalrX86(i, g)
    [] i.op = "ecall" -> EcallX86(g)
    [] i.op = "csrw"  -> CsrwX86(i, g)
================================================================================
