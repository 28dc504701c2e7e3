-------------------------------- MODULE Lockstep --------------------------------
(***************************************************************************)
(* The interpreter and the compiled code side by side.  The hart runs some *)
(* of the guest's instructions in one and some in the other, as blocks     *)
(* warm up, are evicted or lie outside compiled functions; that is right   *)
(* only where the two do the same.  Here both execute the same             *)
(* instructions from the same start, on a host of either kind.             *)
(***************************************************************************)
EXTENDS Executer, JitX86, JitA64

CONSTANTS Menu,      \* the decoded instructions the guest may execute
          Starts,    \* the guests to start from
          Hosts,     \* the kinds of host, of "x86" and "a64"
          X4,        \* what an AArch64 host may have left in its register x4
          MaxSteps   \* bound on the instructions executed

VARIABLES host,      \* the kind of host the program was built for
          interp,    \* the guest the interpreter runs
          jit,       \* the guest the compiled code runs
          last,      \* the instruction both executed last
          steps

vars == <<host, interp, jit, last, steps>>

\* What decode fills in: U immediates are not signed and the R format has none.  A
\* register field that decode leaves alone is read by neither engine.
Instruction(i) ==
  /\ i \in [op : Loads \cup Stores \cup Branches \cup Immediates \cup Registers
                  \cup {"lui", "auipc", "jal", "jalr", "ecall", "csrw"},
            rd : Regs, rs1 : Regs, rs2 : Regs,
            imm : -(2 ^ (XLEN - 1)) .. (2 ^ (XLEN - 1) - 1)]
  /\ i.op \in {"lui", "auipc"} => i.imm \in 0 .. (2 ^ (WLEN - UpperShift) - 1)
  /\ i.op \in Registers => i.imm = 0

ASSUME LockstepAssumption ==
  /\ ByteBits \in Nat \ {0}
  /\ UpperShift \in 0 .. (WLEN - 1)
  /\ NRegs \in Nat \ {0, 1}
  /\ MemSize \in Nat \ {0}
  /\ SatpNumber \in Nat
  /\ \A i \in Menu : Instruction(i)
  /\ Starts \subseteq Guest /\ \A g \in Starts : g.regs[0] = 0
  /\ Hosts \subseteq {"x86", "a64"}
  /\ X4 \subseteq Word
  /\ MaxSteps \in Nat

NoInstr == [op |-> "none", rd |-> 0, rs1 |-> 0, rs2 |-> 0, imm |-> 0]

\* Memory accesses lie inside memory and, here, are not translated.
Executable(i, g) ==
  i.op \in Loads \cup Stores =>
    /\ g.satp = 0
    /\ Address(i, g) + Size(i.op) <= MemSize

\* JITImpl::compile_bb: the preprocessor picks the backend.
Compiled(i, g) ==
  IF host = "x86" THEN {Emitted(i, g)} ELSE {EmittedA64(i, g, x4) : x4 \in X4}

Init ==
  /\ host \in Hosts
  /\ interp \in Starts
  /\ jit = interp
  /\ last = NoInstr
  /\ steps = 0

Next ==
  /\ steps < MaxSteps
  /\ interp = jit /\ ~interp.halt /\ ~interp.thrown
  /\ \E i \in Menu :
       /\ Executable(i, interp)
       /\ interp' = Interpret(i, interp)
       /\ jit' \in Compiled(i, jit)
       /\ last' = i
  /\ steps' = steps + 1
  /\ UNCHANGED host

Spec == Init /\ [][Next]_vars

-------------------------------------------------------------------------------
(* Properties. *)

TypeOK ==
  /\ host \in Hosts
  /\ interp \in Guest
  /\ jit \in Guest
  /\ last \in Menu \cup {NoInstr}
  /\ steps \in 0 .. MaxSteps

\* Neither the interpreter nor x86-64 code ever leaves a value in x0: compiled code
\* reads it as memory.
ZeroRegister == interp.regs[0] = 0 /\ (host = "x86" => jit.regs[0] = 0)

\* The value an instruction leaves in rd is negative as one of n bits.
Negative(g, i, n) == i.rd # 0 /\ (g.regs[i.rd] \div 2 ^ (n - 1)) % 2 = 1

\* The target of a JALR, and the one compiled code computes when rd is rs1.
Target(i, g) == Wrap(g.regs[i.rs1] + i.imm)
Relinked(i, g) == Wrap(g.pc + 4 + i.imm)

\* An ECALL whose rd is not x0: the interpreter writes the PC there.
Named(i, g) == i.rd # 0 /\ g.regs[i.rd] # g.pc

\* Where the engines differ, g being the guest before and h after instruction i
\* was interpreted: signed loads and left shifts of words that leave a negative
\* value, AUIPC with its top bit set, jumps to odd addresses, calls through the
\* register they link, and words taken for ECALL that have a destination.
Diverges(i, g, h) ==
  \/ i.op \in {"lb", "lh", "lw"} /\ Negative(h, i, ByteBits * Size(i.op))
  \/ i.op \in {"sllw", "slliw"} /\ Negative(h, i, WLEN)
  \/ i.op = "auipc" /\ i.rd # 0 /\ Signed(i.imm, WLEN - UpperShift) < 0
  \/ i.op = "ecall" /\ Named(i, g)
  \/ /\ i.op = "jalr"
     /\ \/ Target(i, g) % 2 = 1
        \/ /\ i.rd = i.rs1 /\ i.rd # 0
           /\ Target(i, g) # Relinked(i, g) - (Relinked(i, g) % 2)

\* On x86-64 the engines agree on everything else, and on nothing of that.
DivergesExactly ==
  [][ host = "x86" => ((interp' # jit') <=> Diverges(last', interp, interp')) ]_vars

\* The guest after i if x0 were a register like the others.
Unguarded(i, g) ==
  LET h == Interpret(i, g)
      writes == Loads \cup Immediates \cup Registers
                  \cup {"lui", "auipc", "jal", "jalr"}
  IN  IF i.op \in writes /\ i.rd = 0
        THEN [h EXCEPT !.regs[0] = Interpret([i EXCEPT !.rd = 1], g).regs[1]] ELSE h

\* Where AArch64 code differs from that guest h: a and b are the operands.
DivergesA64(i, g, h) ==
  LET a == g.regs[i.rs1]
      b == Operand(i, g)
      top == 2 ^ (WLEN - 1)
  IN  \/ i.op \in {"srai", "sraw", "csrw"}
      \/ i.op \in {"or", "ori"} /\ a # 2 ^ XLEN - 1
      \/ i.op \in {"addw", "addiw"} /\ Low(a, WLEN) + Low(b, WLEN) >= top
      \/ i.op = "subw" /\ ~(Low(a, WLEN) < top /\ Low(b, WLEN) = 0)
      \/ i.op \in {"srl", "sra"} /\ h.regs[i.rd] # a
      \/ /\ i.op \in {"sllw", "slliw"}
         /\ ShiftLeft(Low(a, WLEN), b, XLEN) >= 2 ^ WLEN
      \/ i.op = "srlw" /\ b % XLEN >= WLEN /\ h.regs[i.rd] # 0
      \/ i.op = "sraiw" /\ Low(a, WLEN) >= top
      \/ i.op = "ecall" /\ Named(i, g)
      \/ i.op = "jal" /\ g.pc # 0
      \/ i.op = "jalr" /\ i.imm # 0

\* A taken branch backwards, which on AArch64 goes to whatever x4 holds.
Backwards(i, g, h) == i.op \in Branches /\ i.imm < 0 /\ h.pc # Wrap(g.pc + 4)

\* AArch64 code writes x0 like any register and, taken backward branches aside,
\* agrees with the interpreter on everything else and on nothing of that.
DivergesExactlyA64 ==
  [][ host = "a64" /\ ~Backwards(last', interp, interp') =>
        LET h == Unguarded(last', interp)
        IN  (jit' # h) <=> DivergesA64(last', interp, h) ]_vars

\* Compiled JALR goes where rs1 pointed (jit_instruction_factory.hpp: "Set PC to
\* rs1 + imm"), bit 0 aside.
JalrTarget ==
  [][ last'.op = "jalr" =>
        jit'.pc = Target(last', jit) - (Target(last', jit) % 2) ]_vars
================================================================================
