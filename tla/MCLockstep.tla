------------------------------- MODULE MCLockstep -------------------------------
(* Instances of Lockstep for TLC: bytes of one bit, registers of eight. *)
EXTENDS Lockstep

In(op, rd, rs1, rs2, imm) ==
  [op |-> op, rd |-> rd, rs1 |-> rs1, rs2 |-> rs2, imm |-> imm]

\* Immediates: small ones, negative ones, and shift amounts with the funct7 bits
\* an I-format shift carries in its immediate.
FullMenu ==
       {In(op, rd, 1, rs2, 0) : op \in Registers, rd \in {0, 2}, rs2 \in {0, 2}}
  \cup {In(op, rd, 1, 0, imm) : op \in Immediates, rd \in {0, 2}, imm \in {-1, 3, 67}}
  \cup {In(op, rd, 1, 0, imm) : op \in Loads, rd \in {0, 2}, imm \in {-1, 0}}
  \cup {In(op, 0, 1, 2, imm) : op \in Stores, imm \in {-1, 0}}
  \cup {In(op, 0, 1, 2, imm) : op \in Branches, imm \in {-8, 12}}
  \cup {In("jalr", rd, 1, 0, imm) : rd \in {0, 1, 2}, imm \in {-1, 0, 4}}
  \cup {In(op, rd, 0, 0, imm) : op \in {"lui", "auipc"}, rd \in {0, 2}, imm \in {1, 3}}
  \cup {In("jal", rd, 0, 0, -4) : rd \in {0, 1}}
  \cup {In("ecall", 0, 0, 0, 0), In("ecall", 2, 0, 0, 0),
          In("csrw", 0, 2, 0, 1), In("csrw", 0, 2, 0, -1)}

JalrMenu == {i \in FullMenu : i.op = "jalr"}

AnyHost == {"x86", "a64"}
X86Only == {"x86"}
LeftOver == {0, 100}

Values == {0, 1, 2, 7, 8, 15, 16, 100, 127, 128, 200, 255}

AllStarts ==
  {[regs |-> [r \in Regs |-> CASE r = 0 -> 0 [] r = 1 -> x [] OTHER -> y],
    pc |-> IF x = 0 THEN 252 ELSE 96, mem |-> [a \in Addresses |-> IF a % 3 = 0 THEN 1 ELSE 0],
    satp |-> 0, halt |-> FALSE, thrown |-> FALSE] : x \in Values, y \in Values}
================================================================================
