---------------------------------- MODULE Rv64 ----------------------------------
(***************************************************************************)
(* What the two engines share: the guest's registers and memory, decoded   *)
(* instructions and arithmetic on words.  Widths are parameters: a byte    *)
(* has ByteBits bits (8 in the code), a register eight bytes, a W          *)
(* instruction works on four.                                              *)
(***************************************************************************)
EXTENDS Integers

CONSTANTS ByteBits,   \* 8
          UpperShift, \* 12, the shift of LUI and AUIPC
          NRegs,      \* 32
          SatpNumber, \* 0x180, the number of the one CSR there is
          MemSize     \* bytes of guest memory

XLEN == 8 * ByteBits
WLEN == 4 * ByteBits

Word == 0 .. (2 ^ XLEN - 1)
Regs == 0 .. (NRegs - 1)
Addresses == 0 .. (MemSize - 1)

Wrap(v) == v % 2 ^ XLEN
Low(v, n) == v % 2 ^ n
Signed(v, n) == IF Low(v, n) < 2 ^ (n - 1) THEN Low(v, n) ELSE Low(v, n) - 2 ^ n
SignExtended(v, n) == Wrap(Signed(v, n))

\* Shifts of an n-bit value; x86-64 and AArch64 take the count modulo n.
ShiftLeft(v, k, n) == Low(v * 2 ^ (k % n), n)
ShiftRight(v, k, n) == Low(v, n) \div 2 ^ (k % n)
ShiftRightSigned(v, k, n) == Low(Signed(v, n) \div 2 ^ (k % n), n)

\* The bits of a word, and the word that has some.
Bits == [v \in Word |-> {k \in 0 .. (XLEN - 1) : (v \div 2 ^ k) % 2 = 1}]
FromBits(ks) == CHOOSE v \in Word : Bits[v] = ks

And(a, b) == FromBits(Bits[a] \cap Bits[b])
Or(a, b)  == FromBits(Bits[a] \cup Bits[b])
Xor(a, b) == FromBits((Bits[a] \ Bits[b]) \cup (Bits[b] \ Bits[a]))
Not(a)    == FromBits((0 .. (XLEN - 1)) \ Bits[a])

Loads == {"lb", "lh", "lw", "ld", "lbu", "lhu", "lwu"}
Stores == {"sb", "sh", "sw", "sd"}
Branches == {"beq", "bne", "blt", "bge", "bltu", "bgeu"}
WordShifts == {"sllw", "srlw", "sraw", "slliw", "srliw", "sraiw"}
Immediates == {"addi", "slti", "sltiu", "xori", "ori", "andi", "slli", "srli",
               "srai", "addiw", "slliw", "srliw", "sraiw"}
Registers == {"add", "sub", "sll", "slt", "sltu", "xor", "srl", "sra", "or",
              "and", "addw", "subw", "sllw", "srlw", "sraw"}

\* hart.load and hart.store with these sizes.
Size(op) == CASE op \in {"lb", "lbu", "sb"} -> 1
              [] op \in {"lh", "lhu", "sh"} -> 2
              [] op \in {"lw", "lwu", "sw"} -> 4
              [] op \in {"ld", "sd"} -> 8

\* A guest: register file, PC, memory, satp, the halt flag, and whether an exception
\* has ended its run.
Guest == [regs : [Regs -> Word], pc : Word, mem : [Addresses -> 0 .. (2 ^ ByteBits - 1)],
          satp : Word, halt : BOOLEAN, thrown : BOOLEAN]

\* Memory is little-endian; Memory::read zero-extends.
ReadTwo(g, a)  == g.mem[a] + 2 ^ ByteBits * g.mem[a + 1]
ReadFour(g, a) == ReadTwo(g, a) + 2 ^ (2 * ByteBits) * ReadTwo(g, a + 2)

ReadMem(g, a, size) ==
  CASE size = 1 -> g.mem[a]
    [] size = 2 -> ReadTwo(g, a)
    [] size = 4 -> ReadFour(g, a)
    [] size = 8 -> ReadFour(g, a) + 2 ^ WLEN * ReadFour(g, a + 4)

WriteMem(g, a, v, size) ==
  [g EXCEPT !.mem = [x \in Addresses |->
     IF x \in a .. (a + size - 1) THEN Low(v \div 2 ^ (ByteBits * (x - a)), ByteBits)
                                  ELSE @[x]]]

\* Hart::set_csr and get_csr: the number is a uint16_t, and any but satp's throws.
SetCsr(g, imm, v) ==
  IF Low(Wrap(imm), 2 * ByteBits) = SatpNumber THEN [g EXCEPT !.satp = v]
                                               ELSE [g EXCEPT !.thrown = TRUE]
================================================================================
