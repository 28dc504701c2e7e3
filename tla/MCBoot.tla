--------------------------------- MODULE MCBoot ---------------------------------
(* An instance of Boot for TLC: files of one segment with many words, and files *)
(* with few words and many segments.                                            *)
EXTENDS Boot

Seqs == INSTANCE SequencesExt

Bits(n, width) == {i \in 0 .. (width - 1) : (n \div 2 ^ i) % 2 = 1}
Number(w, low, width) == Value({i \in 0 .. (width - 1) : low + i \in w})

\* In these files a header has two words: p_type, and the other fields side by side.
LoadWord == {0}
Ph(exec, offset, vaddr, filesz, memsz) ==
  <<LoadWord, Bits(offset, 6) \cup Up(Bits(vaddr, 6), 6) \cup Up(Bits(filesz, 6), 12)
          \cup Up(Bits(memsz, 6), 18) \cup (IF exec THEN {24} ELSE {})>>
Note == <<{2}, {0, 3}>>

Saying(type, fields) ==
  [load |-> type = LoadWord, exec |-> 24 \in fields, offset |-> Number(fields, 0, 6),
   vaddr |-> Number(fields, 6, 6), filesz |-> Number(fields, 12, 6),
   memsz |-> Number(fields, 18, 6)]

\* A file of a word, its headers and what is behind them.
File(phdrs, behind, asm) ==
  LET content == <<{}>> \o Seqs!FlattenSeq(phdrs) \o behind
      size    == Len(content)
      At(k)   == IF k < size THEN content[k + 1] ELSE {}
  IN  [valid |-> TRUE, entry |-> 2, phoff |-> 1, phnum |-> Len(phdrs), size |-> size,
       words |-> [k \in 0 .. (size - 1) |-> At(k)],
       says |-> [k \in 0 .. (size - 1) |-> Saying(At(k), At(k + 1))],
       asm |-> asm]

-------------------------------------------------------------------------------
(* Many words: every opcode and funct3, and every funct7 that is told apart. *)

Funct7s == <<{}, {5}, {0}, {0, 5}>>
Rests == {{}, {7, 9, 15, 19, 20, 23}, (7 .. 11) \cup (15 .. 24)}

Raw(opcode, rest) ==
  File(<<Ph(TRUE, 3, 2, 32, 32)>>,
       [k \in 1 .. 32 |-> opcode \cup rest \cup Up(Bits((k - 1) % 8, 3), 12)
                          \cup Up(Funct7s[1 + (k - 1) \div 8], 25)], <<>>)

\* Every instruction, with registers and immediates at their bounds.
Numbers == <<{}, {0}, {4}, 0 .. 4>>
Amounts == <<{}, {0}, {4}, 0 .. 4, {1, 2}>>
Values == <<{}, {0}, 0 .. 31, 11 .. 31, 0 .. 10, {2, 3, 7, 10}, {1, 4, 5, 8}>>
Offsets == <<{}, {1}, 1 .. 31, 12 .. 31, 1 .. 11, {11}, {2, 3, 7, 10}, {1, 4, 5, 8}>>
Uppers == <<{}, {0}, {19}, 0 .. 19, {3, 11, 12}>>
Jumps == <<{}, {1}, 1 .. 31, 20 .. 31, 1 .. 19, {11}, {12, 19}, {1, 10}, {2, 12, 17}>>

ImmediatesOf(op) ==
  LET d == Description(op) IN
  CASE op \in ShiftImmediates -> [k \in DOMAIN Amounts |-> Amounts[k] \cup Up(d.funct7, 5)]
    [] op = "ecall" \/ d.format = "R" -> <<{}>>
    [] d.format \in {"I", "S"} /\ op \notin ShiftImmediates -> Values
    [] d.format = "B" -> Offsets
    [] d.format = "U" -> Uppers
    [] d.format = "J" /\ op # "ecall" -> Jumps

\* The k-th use of an instruction, all three registers different from one another.
Use(op, k) ==
  LET d == Description(op)
      Reg(r, n) == IF r \notin Operands(d.format) THEN NoReg
                   ELSE IF op = "ecall" THEN {} ELSE Numbers[1 + ((k + n) % 4)] IN
  Decoded(op, d.format, Reg("rd", 0), Reg("rs1", 1), Reg("rs2", 2),
          ImmediatesOf(op)[1 + (k % Len(ImmediatesOf(op)))])

Assembled(op) ==
  File(<<Ph(TRUE, 3, 2, 9, 9)>>, [k \in 1 .. 9 |-> Encode(Use(op, k))],
       [k \in 3 .. 11 |-> Use(op, k - 2)])

-------------------------------------------------------------------------------
(* Many segments. *)

\* From position 11 on, the words of the segments: code, then other bytes.
Text == Ph(TRUE, 11, 2, 3, 3)
Data0 == Ph(FALSE, 14, 8, 2, 4)
Bss == Ph(FALSE, 0, 8, 0, 3)
High == Ph(TRUE, 11, 30, 3, 9)
HighBss == Ph(FALSE, 11, 30, 3, 20)
Wrapping == Ph(TRUE, 11, 62, 3, 3)

Lists == {<<>>, <<Text>>, <<Note, Text>>, <<Text, Note>>, <<Text, Data0>>, <<Data0, Text>>,
          <<Note, Text, Bss, Note>>, <<Bss, Text>>, <<Text, Text>>, <<Note, Data0, Note>>,
          <<Text, Bss>>, <<High>>, <<HighBss, Text>>, <<Wrapping>>}

Words == <<{0, 1, 4}, {0, 1, 4, 7}, {0, 1, 5}, {0, 1, 4, 5, 6}, {3}, {1, 2}, {3}, {4, 5}>>

\* Behind .text, bytes that read like a header: of a segment that overwrites it, of
\* one outside memory, of one that sends the stream back.
Lookalikes == {Ph(FALSE, 11, 3, 2, 2), Ph(FALSE, 11, 50, 2, 2), Ph(TRUE, 1, 0, 0, 0)}
Code == SubSeq(Words, 1, 3)

\* A file may end with its segment, or in the middle of what is read as a header.
Small(phdrs, n) ==
  File(phdrs, [k \in 1 .. (10 - 2 * Len(phdrs)) |-> {}] \o SubSeq(Words, 1, n), <<>>)

Misread(phdrs, likely, n) ==
  File(phdrs, [k \in 1 .. (10 - 2 * Len(phdrs)) |-> {}] \o Code \o SubSeq(likely, 1, n), <<>>)

Cut(f, size) == [f EXCEPT !.size = size,
                          !.words = [k \in 0 .. (size - 1) |-> @[k]],
                          !.says = [k \in 0 .. (size - 1) |-> @[k]]]

AllFiles ==
  {Raw(Bits(o, 7), rest) : o \in 0 .. 127, rest \in Rests}
  \cup {Assembled(op) : op \in Opcodes}
  \cup {Small(phdrs, n) : phdrs \in Lists, n \in {3, 4, 5, 8}}
  \cup {Misread(phdrs, likely, n) : phdrs \in {<<Text, Note>>, <<Text, Data0, Note>>},
                                    likely \in Lookalikes, n \in {1, 2}}
  \cup {Cut(Small(<<Text, Data0>>, 3), size) : size \in {1, 2, 4}}
  \cup {[Small(<<Text>>, 3) EXCEPT !.valid = FALSE]}

\* Files of more than one segment.
SegmentFiles == {Small(phdrs, 8) : phdrs \in Lists}
================================================================================
