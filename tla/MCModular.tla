-------------------------------- MODULE MCModular --------------------------------
(* An instance of ModularHart for TLC. *)
EXTENDS ModularHart

CONSTANT fault

I(op, rd, rs1, rs2, imm) == [op |-> op, rd |-> rd, rs1 |-> rs1, rs2 |-> rs2, imm |-> imm]

\* Ten words, addresses and values, so that stores, loads and jumps reach code and data.
Ten ==
  <<I("addi", 1, 1, 0, 1),     \* 0: x1 += 1
    I("add", 2, 1, 1, 0),      \* 1: x2 = 2 * x1
    I("sw", 0, 1, 2, 1),       \* 2: mem[x1 + 1] = x2
    I("lw", 1, 2, 0, 0),       \* 3: x1 = mem[x2]
    I("beq", 0, 1, 2, 8),      \* 4: to pc - 2 if x1 = x2
    I("jal", 0, 0, 0, 7),      \* 5: to pc - 3
    I("csrw", 0, 1, 0, 0),     \* 6: satp = x1
    I("ecall", 0, 0, 0, 0),    \* 7
    I("unknown", 0, 0, 0, 0),  \* 8
    I("csrw", 0, 1, 0, 1)>>    \* 9: not satp
Meaning == [w \in 0 .. 9 |-> Ten[w + 1]]

\* Two pages change places, one is not mapped.
Mapping == [va \in 0 .. 9 |-> CASE va \in 0 .. 2 -> va + 3 [] va \in 3 .. 5 -> va - 3
                                [] va = 8 -> fault [] OTHER -> va]

\* Four instructions, then loops of two lengths, or CSRW, and data.
Tails == {<<4, 5, 8, 7, 9, 7>>, <<3, 4, 5, 8, 9, 7>>, <<6, 4, 5, 8, 9, 7>>}
Heads == ({0} \X {0, 1} \X (0 .. 6) \X (0 .. 6)) \cup ({6} \X {3} \X {1, 2} \X (4 .. 6))
Memories == {[a \in 0 .. 9 |-> (h \o t)[a + 1]] : h \in Heads, t \in Tails}

AllSettings == {<<0, 4>>, <<1, 20>>, <<2, 20>>, <<3, 20>>}
================================================================================
