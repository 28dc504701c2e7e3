-------------------------------- MODULE Executer --------------------------------
(***************************************************************************)
(* The interpreter: execute() of the generated executer, one operator per  *)
(* family of execute_* functions.  Each function reads its operands,       *)
(* computes, sets next_pc_ or memory and at last writes rd; Hart::step and *)
(* Hart::execute_cached_block then make next_pc_ the PC.                   *)
(*                                                                         *)
(* The hooks of ENABLE_MODULES around each function are left out.  So is   *)
(* the register CSRW writes: decode leaves rd at 255, outside regs_.       *)
(***************************************************************************)
EXTENDS Rv64

\* get_reg and set_reg: x0 reads as zero and is not written.
Reg(g, r) == IF r = 0 THEN 0 ELSE g.regs[r]
SetReg(g, r, v) == IF r = 0 THEN g ELSE [g EXCEPT !.regs[r] = v]

\* static_cast<uint64_t>(instr.imm)
Imm(i) == Wrap(i.imm)

Address(i, g) == Wrap(Reg(g, i.rs1) + Imm(i))

\* hart.load zero-extends, for LB, LH and LW too.
Load(i, g) == SetReg(g, i.rd, ReadMem(g, Address(i, g), Size(i.op)))

Store(i, g) == WriteMem(g, Address(i, g), Reg(g, i.rs2), Size(i.op))

\* The second operand: an immediate or a register.
Operand(i, g) == IF i.op \in Immediates THEN Imm(i) ELSE Reg(g, i.rs2)

Arith(op, a, b) == IF op = "sub" THEN Wrap(a - b) ELSE Wrap(a + b)

Compare(op, a, b) ==
  IF \/ op \in {"slt", "slti"} /\ Signed(a, XLEN) < Signed(b, XLEN)
     \/ op \in {"sltu", "sltiu"} /\ a < b
    THEN 1 ELSE 0

Logic(op, a, b) == CASE op \in {"xor", "xori"} -> Xor(a, b)
                     [] op \in {"or", "ori"}   -> Or(a, b)
                     [] op \in {"and", "andi"} -> And(a, b)

\* `a << b' and `a >> b' on 64 bits: an x86 build shifts by b modulo 64.
Shift(op, a, b) == CASE op \in {"sll", "slli"} -> ShiftLeft(a, b, XLEN)
                     [] op \in {"srl", "srli"} -> ShiftRight(a, b, XLEN)
                     [] op \in {"sra", "srai"} -> ShiftRightSigned(a, b, XLEN)

\* int32_t arithmetic, sign-extended.
WordArith(op, a, b) ==
  SignExtended(IF op = "subw" THEN a - b ELSE a + b, WLEN)

\* SLLW and SRLW zero-extend their uint32_t, SRAW sign-extends its int32_t.
WordShift(op, a, b) ==
  CASE op \in {"sllw", "slliw"} -> ShiftLeft(a, b, WLEN)
    [] op \in {"srlw", "srliw"} -> ShiftRight(a, b, WLEN)
    [] op \in {"sraw", "sraiw"} -> SignExtended(ShiftRightSigned(a, b, WLEN), WLEN)

Computed(op, a, b) ==
  CASE op \in {"add", "addi", "sub"} -> Arith(op, a, b)
    [] op \in {"slt", "slti", "sltu", "sltiu"} -> Compare(op, a, b)
    [] op \in {"xor", "xori", "or", "ori", "and", "andi"} -> Logic(op, a, b)
    [] op \in {"sll", "slli", "srl", "srli", "sra", "srai"} -> Shift(op, a, b)
    [] op \in {"addw", "addiw", "subw"} -> WordArith(op, a, b)
    [] op \in WordShifts -> WordShift(op, a, b)

Compute(i, g) == SetReg(g, i.rd, Computed(i.op, Reg(g, i.rs1), Operand(i, g)))

Taken(op, a, b) ==
  CASE op = "beq"  -> a = b
    [] op = "bne"  -> a # b
    [] op = "blt"  -> Signed(a, XLEN) < Signed(b, XLEN)
    [] op = "bge"  -> ~(Signed(a, XLEN) < Signed(b, XLEN))
    [] op = "bltu" -> a < b
    [] op = "bgeu" -> ~(a < b)

Branch(i, g) ==
  IF Taken(i.op, Reg(g, i.rs1), Reg(g, i.rs2)) THEN Wrap(g.pc + Imm(i))
                                              ELSE Wrap(g.pc + 4)

Upper(i, g) ==
  LET imm == Wrap(Imm(i) * 2 ^ UpperShift)
  IN  SetReg(g, i.rd, IF i.op = "lui" THEN imm ELSE Wrap(g.pc + imm))

Jump(i, g) == [SetReg(g, i.rd, Wrap(g.pc + 4)) EXCEPT !.pc = Wrap(g.pc + Imm(i))]

\* Mutant: rd is written before rs1 is read.
JumpRegisterLate(i, g) ==
  LET h == SetReg(g, i.rd, Wrap(g.pc + 4)) IN [h EXCEPT !.pc = Address(i, h)]

\* rs1 is read first and rd written last.
JumpRegister(i, g) ==
  [SetReg(g, i.rd, Wrap(g.pc + 4)) EXCEPT !.pc = Address(i, g)]

\* do_ecall sets halt_; rd, which is x0 in an ECALL proper, takes the PC.
Ecall(i, g) == [SetReg(g, i.rd, g.pc) EXCEPT !.halt = TRUE]

\* Where set_csr throws, next_pc_ does not become the PC.
Csrw(i, g) ==
  LET h == SetCsr(g, i.imm, Reg(g, i.rs1))
  IN  IF h.thrown THEN h ELSE [h EXCEPT !.pc = Wrap(g.pc + 4)]

\* One instruction, and next_pc_ becomes the PC.
Interpret(i, g) ==
  LET next == [g EXCEPT !.pc = Wrap(g.pc + 4)] IN
  CASE i.op \in Loads    -> [Load(i, g) EXCEPT !.pc = next.pc]
    [] i.op \in Stores   -> [Store(i, g) EXCEPT !.pc = next.pc]
    [] i.op \in Immediates \cup Registers -> [Compute(i, g) EXCEPT !.pc = next.pc]
    [] i.op \in Branches -> [g EXCEPT !.pc = Branch(i, g)]
    [] i.op \in {"lui", "auipc"} -> [Upper(i, g) EXCEPT !.pc = next.pc]
    [] i.op = "jal"   -> Jump(i, g)
    [] i.op = "jalr"  -> JumpRegister(i, g)
    [] i.op = "ecall" -> [Ecall(i, g) EXCEPT !.pc = next.pc]
    [] i.op = "csrw"  -> Csrw(i, g)
================================================================================
