------------------------------ MODULE BootProofs ------------------------------
(***************************************************************************)
(* Theorems about decode, for all 2^32 words and all operands, and about   *)
(* load_elf, for all files.                                                *)
(***************************************************************************)
EXTENDS Boot, WellFoundedInduction, TLAPS

-------------------------------------------------------------------------------
(* Which instruction a word is. *)

\* The numbers of the switch are the bits of the description.
LEMMA Values ==
  /\ Value({}) = 0 /\ Value({0}) = 1 /\ Value({1}) = 2 /\ Value({0, 1}) = 3
  /\ Value({2}) = 4 /\ Value({0, 2}) = 5 /\ Value({1, 2}) = 6 /\ Value({0, 1, 2}) = 7
  /\ Value({5}) = 32
  /\ Value({0, 1, 5}) = 35 /\ Value({0, 1, 3, 4}) = 27 /\ Value({0, 1, 3, 4, 5}) = 59
  /\ Value({0, 1, 4, 5}) = 51 /\ Value({0, 1, 4}) = 19 /\ Value({0, 1, 2, 5, 6}) = 103
  /\ Value({0, 1, 5, 6}) = 99 /\ Value({0, 1, 2, 4, 5}) = 55 /\ Value({0, 1, 2, 4}) = 23
  /\ Value({0, 1, 2, 3, 5, 6}) = 111 /\ Value({0, 1, 4, 5, 6}) = 115
BY DEF Value, Bit

\* Opcode 3.
LEMMA DescribedLoad ==
  ASSUME NEW w, NEW op \in {"lb", "lh", "lw", "ld", "lbu", "lhu", "lwu"}
  PROVE  decode(w).opcode = op <=> Described(op, w)
<1>1. HasOpcode(op, w) <=> get_opcode(w) = 3
  BY Values DEF HasOpcode, Description, Fixed
<1>2. HasFunct3(op, w) <=> get_funct3(w) = (CASE op = "lb" -> 0 [] op = "lh" -> 1 []
                  op = "lw" -> 2 [] op = "ld" -> 3 [] op = "lbu" -> 4 [] op = "lhu"
                  -> 5 [] op = "lwu" -> 6)
  BY Values DEF HasFunct3, Description, Fixed
<1>3. HasFunct7(op, w)
  BY DEF HasFunct7, Registers, ShiftImmediates
<1>4. CASE get_opcode(w) = 3
  <2>1. decode(w) = Load(w)
    BY <1>4 DEF decode
  <2> QED BY <2>1, <1>1, <1>2, <1>3, <1>4
          DEF Described, Load, I, R, S, B, J, Csrw, Decoded, Unknown
<1>5. CASE get_opcode(w) # 3
  <2>1. decode(w).opcode # op
    BY <1>5 DEF decode, Load, Store, OpImm32, Op32, Op, OpImm, Branch, System, Csrw,
                I, R, S, B, U, J, Decoded, Unknown
  <2> QED BY <2>1, <1>1, <1>5 DEF Described
<1> QED BY <1>4, <1>5

\* Opcode 35.
LEMMA DescribedStore ==
  ASSUME NEW w, NEW op \in {"sb", "sh", "sw", "sd"}
  PROVE  decode(w).opcode = op <=> Described(op, w)
<1>1. HasOpcode(op, w) <=> get_opcode(w) = 35
  BY Values DEF HasOpcode, Description, Fixed
<1>2. HasFunct3(op, w) <=> get_funct3(w) = (CASE op = "sb" -> 0 [] op = "sh" -> 1 []
                  op = "sw" -> 2 [] op = "sd" -> 3)
  BY Values DEF HasFunct3, Description, Fixed
<1>3. HasFunct7(op, w)
  BY DEF HasFunct7, Registers, ShiftImmediates
<1>4. CASE get_opcode(w) = 35
  <2>1. decode(w) = Store(w)
    BY <1>4 DEF decode
  <2> QED BY <2>1, <1>1, <1>2, <1>3, <1>4
          DEF Described, Store, I, R, S, B, J, Csrw, Decoded, Unknown
<1>5. CASE get_opcode(w) # 35
  <2>1. decode(w).opcode # op
    BY <1>5 DEF decode, Load, Store, OpImm32, Op32, Op, OpImm, Branch, System, Csrw,
                I, R, S, B, U, J, Decoded, Unknown
  <2> QED BY <2>1, <1>1, <1>5 DEF Described
<1> QED BY <1>4, <1>5

\* Opcode 27.
LEMMA DescribedOpImm32 ==
  ASSUME NEW w, NEW op \in {"addiw", "slliw", "srliw", "sraiw"}
  PROVE  decode(w).opcode = op <=> Described(op, w)
<1>1. HasOpcode(op, w) <=> get_opcode(w) = 27
  BY Values DEF HasOpcode, Description, Fixed
<1>2. HasFunct3(op, w) <=> get_funct3(w) = (CASE op = "addiw" -> 0 [] op = "slliw"
                  -> 1 [] op = "srliw" -> 5 [] op = "sraiw" -> 5)
  BY Values DEF HasFunct3, Description, Fixed
<1>3. HasFunct7(op, w) \/ op \in Alone <=> (CASE op = "srliw" -> get_funct7(w) = 0
                  [] op = "sraiw" -> get_funct7(w) = 32 [] OTHER -> TRUE)
  BY Values DEF HasFunct7, Alone, Registers, ShiftImmediates, Description, Fixed
<1>4. CASE get_opcode(w) = 27
  <2>1. decode(w) = OpImm32(w)
    BY <1>4 DEF decode
  <2> QED BY <2>1, <1>1, <1>2, <1>3, <1>4
          DEF Described, OpImm32, I, R, S, B, J, Csrw, Decoded, Unknown
<1>5. CASE get_opcode(w) # 27
  <2>1. decode(w).opcode # op
    BY <1>5 DEF decode, Load, Store, OpImm32, Op32, Op, OpImm, Branch, System, Csrw,
                I, R, S, B, U, J, Decoded, Unknown
  <2> QED BY <2>1, <1>1, <1>5 DEF Described
<1> QED BY <1>4, <1>5

\* Opcode 59.
LEMMA DescribedOp32 ==
  ASSUME NEW w, NEW op \in {"addw", "subw", "sllw", "srlw", "sraw"}
  PROVE  decode(w).opcode = op <=> Described(op, w)
<1>1. HasOpcode(op, w) <=> get_opcode(w) = 59
  BY Values DEF HasOpcode, Description, Fixed
<1>2. HasFunct3(op, w) <=> get_funct3(w) = (CASE op = "addw" -> 0 [] op = "subw" ->
                  0 [] op = "sllw" -> 1 [] op = "srlw" -> 5 [] op = "sraw" -> 5)
  BY Values DEF HasFunct3, Description, Fixed
<1>3. HasFunct7(op, w) \/ op \in Alone <=> (CASE op = "addw" -> get_funct7(w) = 0 []
                  op = "subw" -> get_funct7(w) = 32 [] op = "srlw" -> get_funct7(w)
                  = 0 [] op = "sraw" -> get_funct7(w) = 32 [] OTHER -> TRUE)
  BY Values DEF HasFunct7, Alone, Registers, ShiftImmediates, Description, Fixed
<1>4. CASE get_opcode(w) = 59
  <2>1. decode(w) = Op32(w)
    BY <1>4 DEF decode
  <2> QED BY <2>1, <1>1, <1>2, <1>3, <1>4
          DEF Described, Op32, I, R, S, B, J, Csrw, Decoded, Unknown
<1>5. CASE get_opcode(w) # 59
  <2>1. decode(w).opcode # op
    BY <1>5 DEF decode, Load, Store, OpImm32, Op32, Op, OpImm, Branch, System, Csrw,
                I, R, S, B, U, J, Decoded, Unknown
  <2> QED BY <2>1, <1>1, <1>5 DEF Described
<1> QED BY <1>4, <1>5

\* Opcode 51.
LEMMA DescribedOp ==
  ASSUME NEW w, NEW op \in {"add", "sub", "sll", "slt", "sltu", "xor", "srl", "sra",
                             "or", "and"}
  PROVE  decode(w).opcode = op <=> Described(op, w)
<1>1. HasOpcode(op, w) <=> get_opcode(w) = 51
  BY Values DEF HasOpcode, Description, Fixed
<1>2. HasFunct3(op, w) <=> get_funct3(w) = (CASE op = "add" -> 0 [] op = "sub" -> 0
                  [] op = "sll" -> 1 [] op = "slt" -> 2 [] op = "sltu" -> 3 [] op =
                  "xor" -> 4 [] op = "srl" -> 5 [] op = "sra" -> 5 [] op = "or" -> 6
                  [] op = "and" -> 7)
  BY Values DEF HasFunct3, Description, Fixed
<1>3. HasFunct7(op, w) \/ op \in Alone <=> (CASE op = "add" -> get_funct7(w) = 0 []
                  op = "sub" -> get_funct7(w) = 32 [] op = "srl" -> get_funct7(w) =
                  0 [] op = "sra" -> get_funct7(w) = 32 [] OTHER -> TRUE)
  BY Values DEF HasFunct7, Alone, Registers, ShiftImmediates, Description, Fixed
<1>4. CASE get_opcode(w) = 51
  <2>1. decode(w) = Op(w)
    BY <1>4 DEF decode
  <2> QED BY <2>1, <1>1, <1>2, <1>3, <1>4
          DEF Described, Op, I, R, S, B, J, Csrw, Decoded, Unknown
<1>5. CASE get_opcode(w) # 51
  <2>1. decode(w).opcode # op
    BY <1>5 DEF decode, Load, Store, OpImm32, Op32, Op, OpImm, Branch, System, Csrw,
                I, R, S, B, U, J, Decoded, Unknown
  <2> QED BY <2>1, <1>1, <1>5 DEF Described
<1> QED BY <1>4, <1>5

\* Opcode 19.
LEMMA DescribedOpImm ==
  ASSUME NEW w, NEW op \in {"addi", "slti", "sltiu", "xori", "ori", "andi", "slli",
                             "srli", "srai"}
  PROVE  decode(w).opcode = op <=> Described(op, w)
<1>1. HasOpcode(op, w) <=> get_opcode(w) = 19
  BY Values DEF HasOpcode, Description, Fixed
<1>2. HasFunct3(op, w) <=> get_funct3(w) = (CASE op = "addi" -> 0 [] op = "slti" ->
                  2 [] op = "sltiu" -> 3 [] op = "xori" -> 4 [] op = "ori" -> 6 []
                  op = "andi" -> 7 [] op = "slli" -> 1 [] op = "srli" -> 5 [] op =
                  "srai" -> 5)
  BY Values DEF HasFunct3, Description, Fixed
<1>3. HasFunct7(op, w) \/ op \in Alone <=> (CASE op = "srli" -> get_funct7(w) = 0 []
                  op = "srai" -> get_funct7(w) = 32 [] OTHER -> TRUE)
  BY Values DEF HasFunct7, Alone, Registers, ShiftImmediates, Description, Fixed
<1>4. CASE get_opcode(w) = 19
  <2>1. decode(w) = OpImm(w)
    BY <1>4 DEF decode
  <2> QED BY <2>1, <1>1, <1>2, <1>3, <1>4
          DEF Described, OpImm, I, R, S, B, J, Csrw, Decoded, Unknown
<1>5. CASE get_opcode(w) # 19
  <2>1. decode(w).opcode # op
    BY <1>5 DEF decode, Load, Store, OpImm32, Op32, Op, OpImm, Branch, System, Csrw,
                I, R, S, B, U, J, Decoded, Unknown
  <2> QED BY <2>1, <1>1, <1>5 DEF Described
<1> QED BY <1>4, <1>5

\* Opcode 99.
LEMMA DescribedBranch ==
  ASSUME NEW w, NEW op \in {"beq", "bne", "blt", "bge", "bltu", "bgeu"}
  PROVE  decode(w).opcode = op <=> Described(op, w)
<1>1. HasOpcode(op, w) <=> get_opcode(w) = 99
  BY Values DEF HasOpcode, Description, Fixed
<1>2. HasFunct3(op, w) <=> get_funct3(w) = (CASE op = "beq" -> 0 [] op = "bne" -> 1
                  [] op = "blt" -> 4 [] op = "bge" -> 5 [] op = "bltu" -> 6 [] op =
                  "bgeu" -> 7)
  BY Values DEF HasFunct3, Description, Fixed
<1>3. HasFunct7(op, w)
  BY DEF HasFunct7, Registers, ShiftImmediates
<1>4. CASE get_opcode(w) = 99
  <2>1. decode(w) = Branch(w)
    BY <1>4 DEF decode
  <2> QED BY <2>1, <1>1, <1>2, <1>3, <1>4
          DEF Described, Branch, I, R, S, B, J, Csrw, Decoded, Unknown
<1>5. CASE get_opcode(w) # 99
  <2>1. decode(w).opcode # op
    BY <1>5 DEF decode, Load, Store, OpImm32, Op32, Op, OpImm, Branch, System, Csrw,
                I, R, S, B, U, J, Decoded, Unknown
  <2> QED BY <2>1, <1>1, <1>5 DEF Described
<1> QED BY <1>4, <1>5

\* Opcode 115.
LEMMA DescribedSystem ==
  ASSUME NEW w, NEW op \in {"ecall", "csrw"}
  PROVE  decode(w).opcode = op <=> Described(op, w)
<1>1. HasOpcode(op, w) <=> get_opcode(w) = 115
  BY Values DEF HasOpcode, Description, Fixed
<1>2. HasFunct3(op, w) <=> get_funct3(w) = (CASE op = "ecall" -> 0 [] op = "csrw" ->
                  1)
  BY Values DEF HasFunct3, Description, Fixed
<1>3. HasFunct7(op, w)
  BY DEF HasFunct7, Registers, ShiftImmediates
<1>4. CASE get_opcode(w) = 115
  <2>1. decode(w) = System(w)
    BY <1>4 DEF decode
  <2> QED BY <2>1, <1>1, <1>2, <1>3, <1>4
          DEF Described, System, I, R, S, B, J, Csrw, Decoded, Unknown
<1>5. CASE get_opcode(w) # 115
  <2>1. decode(w).opcode # op
    BY <1>5 DEF decode, Load, Store, OpImm32, Op32, Op, OpImm, Branch, System, Csrw,
                I, R, S, B, U, J, Decoded, Unknown
  <2> QED BY <2>1, <1>1, <1>5 DEF Described
<1> QED BY <1>4, <1>5

\* The instructions alone with their opcode.
LEMMA DescribedAlone ==
  ASSUME NEW w, NEW op \in {"jalr", "lui", "auipc", "jal"}
  PROVE  decode(w).opcode = op <=> Described(op, w)
<1>1. HasOpcode(op, w) <=>
        get_opcode(w) = (CASE op = "jalr" -> 103 [] op = "lui" -> 55
                           [] op = "auipc" -> 23 [] op = "jal" -> 111)
  BY Values DEF HasOpcode, Description, Fixed
<1>2. (HasFunct3(op, w) \/ op = "jalr") /\ HasFunct7(op, w)
  BY DEF HasFunct3, HasFunct7, Registers, ShiftImmediates
<1> QED BY <1>1, <1>2
        DEF Described, decode, Load, Store, OpImm32, Op32, Op, OpImm, Branch, System,
            Csrw, I, R, S, B, U, J, Decoded, Unknown

\* A word decodes to an instruction exactly if it is described as that one.
LEMMA DecodeDescribed ==
  ASSUME NEW w, NEW op \in Opcodes
  PROVE  decode(w).opcode = op <=> Described(op, w)
BY DescribedLoad, DescribedStore, DescribedOpImm32, DescribedOp32, DescribedOp,
   DescribedOpImm, DescribedBranch, DescribedSystem, DescribedAlone
   DEF Opcodes, Loads, Stores, Branches, ShiftImmediates, Immediates, Registers

\* What was fetched has been decoded.
FetchedDecoded == fetched.instr = decode(fetched.word)

\* No opcode is 0: the hart starts with nothing fetched.
LEMMA FetchedInit == Init => FetchedDecoded
<1>1. get_opcode({}) = 0
  BY DEF get_opcode, Field, Value, Bit
<1> QED BY <1>1 DEF Init, FetchedDecoded, decode

LEMMA FetchedStep == ASSUME FetchedDecoded, [Next]_vars PROVE FetchedDecoded'
BY DEF FetchedDecoded, Next, Fetch, vars

\* decode accepts the words of isa/rv64i_isa.yml and, beyond them, those that differ
\* only in a funct7 or in JALR's funct3 that it does not look at.
THEOREM DescriptionDecoded == Spec => []DecodesTheDescription
<1>1. FetchedDecoded => DecodesTheDescription
  BY DecodeDescribed DEF FetchedDecoded, DecodesTheDescription
<1> QED BY <1>1, FetchedInit, FetchedStep, PTL DEF Spec

-------------------------------------------------------------------------------
(* What decode fills in. *)

\* The fields of an instruction are those of its format.
Shape(op, w) ==
  CASE op = "csrw" -> Csrw(w)
    [] op \in Loads \cup ShiftImmediates \cup (Immediates \ {"csrw"}) -> I(op, w)
    [] op \in Stores -> S(op, w)
    [] op \in Branches -> B(op, w)
    [] op \in Registers -> R(op, w)
    [] op \in {"lui", "auipc"} -> U(op, w)
    [] op \in {"jal", "ecall"} -> J(op, w)

\* One of the twelve cases of the switch, or none.
LEMMA DecodeShape ==
  ASSUME NEW w
  PROVE  \/ decode(w) = Unknown
         \/ decode(w).opcode \in Opcodes /\ decode(w) = Shape(decode(w).opcode, w)
<1> DEFINE Right(d) == d = Unknown \/ (d.opcode \in Opcodes /\ d = Shape(d.opcode, w))
<1>1. /\ \A op \in Loads \cup ShiftImmediates \cup (Immediates \ {"csrw"}) : Right(I(op, w))
      /\ \A op \in Registers : Right(R(op, w))
      /\ \A op \in Stores : Right(S(op, w))
      /\ \A op \in Branches : Right(B(op, w))
      /\ \A op \in {"lui", "auipc"} : Right(U(op, w))
      /\ \A op \in {"jal", "ecall"} : Right(J(op, w))
      /\ Right(Csrw(w)) /\ Right(Unknown)
  BY DEF Csrw, I, R, S, B, U, J, Shape, Decoded, Opcodes,
         Loads, Stores, Branches, ShiftImmediates, Immediates, Registers
<1> HIDE DEF Right
<1> USE DEF Loads, Stores, Branches, ShiftImmediates, Immediates, Registers
<1>2. Right(Load(w)) /\ Right(Store(w)) /\ Right(Branch(w)) /\ Right(System(w))
  BY <1>1 DEF Load, Store, Branch, System
<1>3. Right(OpImm32(w)) /\ Right(OpImm(w))
  BY <1>1 DEF OpImm32, OpImm
<1>4. Right(Op32(w)) /\ Right(Op(w))
  BY <1>1 DEF Op32, Op
<1>5. Right(I("jalr", w)) /\ Right(U("lui", w)) /\ Right(U("auipc", w)) /\ Right(J("jal", w))
  BY <1>1
<1>6. Right(decode(w))
  BY <1>1, <1>2, <1>3, <1>4, <1>5 DEF decode
<1> QED BY <1>6 DEF Right

\* The formats of the description.
LEMMA Formats ==
  ASSUME NEW op \in Opcodes
  PROVE  Description(op).format =
           (CASE op \in Loads \cup ShiftImmediates \cup Immediates -> "I"
              [] op \in Stores -> "S"
              [] op \in Branches -> "B"
              [] op \in Registers -> "R"
              [] op \in {"lui", "auipc"} -> "U"
              [] op \in {"jal", "ecall"} -> "J")
BY DEF Opcodes, Loads, Stores, Branches, ShiftImmediates, Immediates, Registers,
       Description, Fixed

\* A register field has five bits; the default has eight.
LEMMA RegisterFields ==
  /\ \A w : get_rd(w) \in RegNumber /\ get_rs1(w) \in RegNumber /\ get_rs2(w) \in RegNumber
  /\ NoReg \notin RegNumber
BY DEF get_rd, get_rs1, get_rs2, Field, RegNumber, NoReg

\* The executer is never given a register outside regs_, except by CSRW.
LEMMA DecodedOperands ==
  ASSUME NEW w, decode(w).opcode # "unknown", NEW r \in Used(decode(w).opcode)
  PROVE  decode(w)[r] \in RegNumber <=> ~(decode(w).opcode = "csrw" /\ r = "rd")
<1> DEFINE op == decode(w).opcode
<1>1. op \in Opcodes /\ decode(w) = Shape(op, w)
  BY DecodeShape DEF Unknown, Decoded
<1>2. Description(op).format =
           (CASE op \in Loads \cup ShiftImmediates \cup Immediates -> "I"
              [] op \in Stores -> "S"
              [] op \in Branches -> "B"
              [] op \in Registers -> "R"
              [] op \in {"lui", "auipc"} -> "U"
              [] op \in {"jal", "ecall"} -> "J")
  BY <1>1, Formats
<1> HIDE DEF op
<1> QED BY <1>1, <1>2, RegisterFields
        DEF Used, Operands, Shape, Csrw, I, S, B, R, U, J, Decoded, Opcodes, op,
            Loads, Stores, Branches, ShiftImmediates, Immediates, Registers

\* For every word: no load, store, branch or computation of the guest leaves regs_
\* (decode, the execute_* functions); CSRW does.
THEOREM OperandsDecoded == Spec => []OperandsInRange
<1>1. FetchedDecoded => OperandsInRange
  BY DecodedOperands DEF FetchedDecoded, OperandsInRange
<1> QED BY <1>1, FetchedInit, FetchedStep, PTL DEF Spec

-------------------------------------------------------------------------------
(* Assembled words. *)

\* Shifting bits.
LEMMA UpMember ==
  ASSUME NEW s \in SUBSET Int, NEW k \in Int, NEW x \in Int
  PROVE  x \in Up(s, k) <=> x - k \in s
BY DEF Up

\* A set of n bits, shown by a word from bit a on.
Below(s, n) == \A x \in s : x \in Int /\ 0 <= x /\ x < n
Shows(w, a, n, s) == \A x \in Int : 0 <= x /\ x < n => (a + x \in w <=> x \in s)

\* Such a set is the field there.
LEMMA FieldIs ==
  ASSUME NEW w, NEW a \in Int, NEW n \in Nat, NEW s, Below(s, n), Shows(w, a, n, s)
  PROVE  Field(w, a, n) = s
BY DEF Field, Below, Shows

\* The layouts of the formats: each field is found where it was put.
WordI(oc, f3, rd, rs1, imm) ==
  oc \cup Up(f3, 12) \cup (Up(rd, 7) \cup Up(rs1, 15) \cup Up(imm, 20))

\* Its fields are where decode looks for them.
LEMMA LayoutI ==
  ASSUME NEW oc \in SUBSET (0 .. 6), NEW f3 \in SUBSET (0 .. 2), NEW rd \in RegNumber,
         NEW rs1 \in RegNumber, NEW imm \in SUBSET (0 .. 11), NEW w,
         w = WordI(oc, f3, rd, rs1, imm)
  PROVE  /\ Field(w, 0, 7) = oc /\ Field(w, 12, 3) = f3
         /\ get_rd(w) = rd /\ get_rs1(w) = rs1 /\ Field(w, 20, 12) = imm
<1>1. \A x \in Int : x \in w <=> \/ x \in oc \/ x - 12 \in f3 \/ x - 7 \in rd
                                \/ x - 15 \in rs1 \/ x - 20 \in imm
  BY UpMember DEF RegNumber, WordI
<1>2. Below(oc, 7) /\ Below(f3, 3) /\ Below(rd, 5) /\ Below(rs1, 5) /\ Below(imm, 12)
  BY DEF RegNumber, Below
<1>3. /\ Shows(w, 0, 7, oc) /\ Shows(w, 12, 3, f3) /\ Shows(w, 7, 5, rd)
      /\ Shows(w, 15, 5, rs1) /\ Shows(w, 20, 12, imm)
  BY <1>1, <1>2 DEF Below, Shows
<1> QED BY <1>2, <1>3, FieldIs DEF get_rd, get_rs1

\* R: no immediate, but funct7.
WordR(oc, f3, f7, rd, rs1, rs2) ==
  oc \cup Up(f3, 12)
  \cup (Up(rd, 7) \cup Up(rs1, 15) \cup Up(rs2, 20) \cup Up(f7, 25))

\* Its fields are where decode looks for them.
LEMMA LayoutR ==
  ASSUME NEW oc \in SUBSET (0 .. 6), NEW f3 \in SUBSET (0 .. 2), NEW rd \in RegNumber,
         NEW rs1 \in RegNumber, NEW rs2 \in RegNumber, NEW f7 \in SUBSET (0 .. 6), NEW w,
         w = WordR(oc, f3, f7, rd, rs1, rs2)
  PROVE  /\ Field(w, 0, 7) = oc /\ Field(w, 12, 3) = f3 /\ Field(w, 25, 7) = f7
         /\ get_rd(w) = rd /\ get_rs1(w) = rs1 /\ get_rs2(w) = rs2
<1>1. \A x \in Int : x \in w <=> \/ x \in oc \/ x - 12 \in f3 \/ x - 7 \in rd
                                \/ x - 15 \in rs1 \/ x - 20 \in rs2 \/ x - 25 \in f7
  BY UpMember DEF RegNumber, WordR
<1>2. /\ Below(oc, 7) /\ Below(f3, 3) /\ Below(rd, 5) /\ Below(rs1, 5)
      /\ Below(rs2, 5) /\ Below(f7, 7)
  BY DEF RegNumber, Below
<1>3. /\ Shows(w, 0, 7, oc) /\ Shows(w, 12, 3, f3) /\ Shows(w, 7, 5, rd)
      /\ Shows(w, 15, 5, rs1) /\ Shows(w, 20, 5, rs2) /\ Shows(w, 25, 7, f7)
  BY <1>1, <1>2 DEF Below, Shows
<1> QED BY <1>2, <1>3, FieldIs DEF get_rd, get_rs1, get_rs2

\* A part of an immediate: bits k to k + n - 1, found in a word from bit a on.
Piece(p, k, n) == \A x \in p : x \in Int /\ k <= x /\ x < k + n
Put(w, a, p, k, n) == \A x \in Int : k <= x /\ x < k + n => (x - k + a \in w <=> x \in p)

\* And that is where the immediate gets it from.
LEMMA PartIs ==
  ASSUME NEW w, NEW a \in Int, NEW n \in Nat, NEW k \in Int, NEW p,
         Piece(p, k, n), Put(w, a, p, k, n)
  PROVE  Up(Field(w, a, n), k) = p
<1>1. \A x \in Int : x \in Up(Field(w, a, n), k) <=> x - k \in Field(w, a, n)
  BY UpMember DEF Field
<1>2. \A x \in Int : x - k \in Field(w, a, n) <=> x - k \in 0 .. (n - 1) /\ a + (x - k) \in w
  BY DEF Field
<1>3. \A x \in Int : x - k \in Field(w, a, n) <=> x \in p
  BY <1>2 DEF Piece, Put
<1>4. (\A x \in Up(Field(w, a, n), k) : x \in Int) /\ (\A x \in p : x \in Int)
  BY DEF Up, Field, Piece
<1> QED BY <1>1, <1>3, <1>4

\* S: bits 0 to 4 of the immediate go to 7, bits 5 to 11 to 25.
WordS(oc, f3, rs1, rs2, lo, hi) ==
  oc \cup Up(f3, 12)
  \cup (Up(rs1, 15) \cup Up(rs2, 20) \cup Up(lo, 7) \cup Up(hi, 20))

\* Its fields are where decode looks for them.
LEMMA LayoutS ==
  ASSUME NEW oc \in SUBSET (0 .. 6), NEW f3 \in SUBSET (0 .. 2), NEW rs1 \in RegNumber,
         NEW rs2 \in RegNumber, NEW lo \in SUBSET (0 .. 4), NEW hi \in SUBSET (5 .. 11), NEW w,
         w = WordS(oc, f3, rs1, rs2, lo, hi)
  PROVE  /\ Field(w, 0, 7) = oc /\ Field(w, 12, 3) = f3
         /\ get_rs1(w) = rs1 /\ get_rs2(w) = rs2
         /\ get_imm_s(w) = SignExtend(hi \cup lo, 12)
<1>1. \A x \in Int : x \in w <=> \/ x \in oc \/ x - 12 \in f3 \/ x - 15 \in rs1
                                \/ x - 20 \in rs2 \/ x - 7 \in lo \/ x - 20 \in hi
  BY UpMember DEF RegNumber, WordS
<1>2. /\ Below(oc, 7) /\ Below(f3, 3) /\ Below(rs1, 5) /\ Below(rs2, 5)
      /\ Below(lo, 5) /\ Piece(hi, 5, 7)
  BY DEF RegNumber, Below, Piece
<1>3. /\ Shows(w, 0, 7, oc) /\ Shows(w, 12, 3, f3)
      /\ Shows(w, 15, 5, rs1) /\ Shows(w, 20, 5, rs2)
      /\ Shows(w, 7, 5, lo) /\ Put(w, 25, hi, 5, 7)
  BY <1>1, <1>2 DEF Below, Shows, Piece, Put
<1>4. /\ Field(w, 0, 7) = oc /\ Field(w, 12, 3) = f3 /\ Field(w, 15, 5) = rs1
      /\ Field(w, 20, 5) = rs2 /\ Field(w, 7, 5) = lo
  BY <1>2, <1>3, FieldIs
<1>5. Up(Field(w, 25, 7), 5) = hi
  BY <1>2, <1>3, PartIs
<1> QED BY <1>4, <1>5 DEF get_rs1, get_rs2, get_imm_s

\* B: bit 11 goes to 7, bits 1 to 4 to 8, 5 to 10 to 25, 12 to 31.
WordB(oc, f3, rs1, rs2, p11, p1, p5, p12) ==
  oc \cup Up(f3, 12)
  \cup (Up(rs1, 15) \cup Up(rs2, 20) \cup Up(p11, -4) \cup Up(p1, 7)
  \cup Up(p5, 20) \cup Up(p12, 19))

\* Its fields are where decode looks for them.
LEMMA LayoutB ==
  ASSUME NEW oc \in SUBSET (0 .. 6), NEW f3 \in SUBSET (0 .. 2), NEW rs1 \in RegNumber,
         NEW rs2 \in RegNumber, NEW p11 \in SUBSET {11}, NEW p1 \in SUBSET (1 .. 4),
         NEW p5 \in SUBSET (5 .. 10), NEW p12 \in SUBSET {12}, NEW w,
         w = WordB(oc, f3, rs1, rs2, p11, p1, p5, p12)
  PROVE  /\ Field(w, 0, 7) = oc /\ Field(w, 12, 3) = f3
         /\ get_rs1(w) = rs1 /\ get_rs2(w) = rs2
         /\ get_imm_b(w) = SignExtend(p12 \cup p5 \cup p1 \cup p11, 13)
<1>1. \A x \in Int : x \in w <=> \/ x \in oc \/ x - 12 \in f3 \/ x - 15 \in rs1
                                \/ x - 20 \in rs2 \/ x - (-4) \in p11 \/ x - 7 \in p1
                                \/ x - 20 \in p5 \/ x - 19 \in p12
  BY UpMember DEF RegNumber, WordB
<1>2. /\ Below(oc, 7) /\ Below(f3, 3) /\ Below(rs1, 5) /\ Below(rs2, 5)
      /\ Piece(p11, 11, 1) /\ Piece(p1, 1, 4) /\ Piece(p5, 5, 6) /\ Piece(p12, 12, 1)
  BY DEF RegNumber, Below, Piece
<1>3. /\ Shows(w, 0, 7, oc) /\ Shows(w, 12, 3, f3)
      /\ Shows(w, 15, 5, rs1) /\ Shows(w, 20, 5, rs2)
      /\ Put(w, 7, p11, 11, 1) /\ Put(w, 8, p1, 1, 4)
      /\ Put(w, 25, p5, 5, 6) /\ Put(w, 31, p12, 12, 1)
  BY <1>1, <1>2 DEF Below, Shows, Piece, Put
<1>4. /\ Field(w, 0, 7) = oc /\ Field(w, 12, 3) = f3
      /\ Field(w, 15, 5) = rs1 /\ Field(w, 20, 5) = rs2
  BY <1>2, <1>3, FieldIs
<1>5. /\ Up(Field(w, 7, 1), 11) = p11 /\ Up(Field(w, 8, 4), 1) = p1
      /\ Up(Field(w, 25, 6), 5) = p5 /\ Up(Field(w, 31, 1), 12) = p12
  BY <1>2, <1>3, PartIs
<1> QED BY <1>4, <1>5 DEF get_rs1, get_rs2, get_imm_b

\* U: 20 bits go to 12, where funct3 would be.
WordU(oc, rd, imm) ==
  oc \cup Up({}, 12) \cup (Up(rd, 7) \cup Up(imm, 12))

\* Its fields are where decode looks for them.
LEMMA LayoutU ==
  ASSUME NEW oc \in SUBSET (0 .. 6), NEW rd \in RegNumber, NEW imm \in SUBSET (0 .. 19),
         NEW w, w = WordU(oc, rd, imm)
  PROVE  Field(w, 0, 7) = oc /\ get_rd(w) = rd /\ get_imm_u(w) = imm
<1>1. \A x \in Int : x \in w <=> x \in oc \/ x - 7 \in rd \/ x - 12 \in imm
  BY UpMember DEF RegNumber, WordU
<1>2. Below(oc, 7) /\ Below(rd, 5) /\ Below(imm, 20)
  BY DEF RegNumber, Below
<1>3. Shows(w, 0, 7, oc) /\ Shows(w, 7, 5, rd) /\ Shows(w, 12, 20, imm)
  BY <1>1, <1>2 DEF Below, Shows
<1> QED BY <1>2, <1>3, FieldIs DEF get_rd, get_imm_u

\* J: bits 12 to 19 stay, 11 goes to 20, 1 to 10 to 21, 20 to 31.
WordJ(oc, rd, p12, p11, p1, p20) ==
  oc \cup Up({}, 12)
  \cup (Up(rd, 7) \cup p12 \cup Up(p11, 9) \cup Up(p1, 20) \cup Up(p20, 11))

\* Its fields are where decode looks for them.
LEMMA LayoutJ ==
  ASSUME NEW oc \in SUBSET (0 .. 6), NEW rd \in RegNumber, NEW p12 \in SUBSET (12 .. 19),
         NEW p11 \in SUBSET {11}, NEW p1 \in SUBSET (1 .. 10), NEW p20 \in SUBSET {20}, NEW w,
         w = WordJ(oc, rd, p12, p11, p1, p20)
  PROVE  /\ Field(w, 0, 7) = oc /\ get_rd(w) = rd
         /\ get_imm_j(w) = SignExtend(p20 \cup p1 \cup p11 \cup p12, 21)
<1>1. \A x \in Int : x \in w <=> \/ x \in oc \/ x - 7 \in rd \/ x \in p12
                                \/ x - 9 \in p11 \/ x - 20 \in p1 \/ x - 11 \in p20
  BY UpMember DEF RegNumber, WordJ
<1>2. /\ Below(oc, 7) /\ Below(rd, 5)
      /\ Piece(p12, 12, 8) /\ Piece(p11, 11, 1) /\ Piece(p1, 1, 10) /\ Piece(p20, 20, 1)
  BY DEF RegNumber, Below, Piece
<1>3. /\ Shows(w, 0, 7, oc) /\ Shows(w, 7, 5, rd)
      /\ Put(w, 12, p12, 12, 8) /\ Put(w, 20, p11, 11, 1)
      /\ Put(w, 21, p1, 1, 10) /\ Put(w, 31, p20, 20, 1)
  BY <1>1, <1>2 DEF Below, Shows, Piece, Put
<1>4. Field(w, 0, 7) = oc /\ Field(w, 7, 5) = rd
  BY <1>2, <1>3, FieldIs
<1>5. /\ Up(Field(w, 12, 8), 12) = p12 /\ Up(Field(w, 20, 1), 11) = p11
      /\ Up(Field(w, 21, 10), 1) = p1 /\ Up(Field(w, 31, 1), 20) = p20
  BY <1>2, <1>3, PartIs
<1> QED BY <1>4, <1>5 DEF get_rd, get_imm_j

\* The fixed bits that occur are bits of their fields.
LEMMA SmallSets ==
  /\ {} \in SUBSET (0 .. 6) /\ {} \in SUBSET (0 .. 2) /\ {} \in SUBSET {5} /\ {5} \in SUBSET {5}
  /\ {0} \in SUBSET (0 .. 2) /\ {1} \in SUBSET (0 .. 2) /\ {0, 1} \in SUBSET (0 .. 2)
  /\ {2} \in SUBSET (0 .. 2) /\ {0, 2} \in SUBSET (0 .. 2) /\ {1, 2} \in SUBSET (0 .. 2)
  /\ {0, 1, 2} \in SUBSET (0 .. 2)
  /\ {0, 1} \in SUBSET (0 .. 6) /\ {0, 1, 5} \in SUBSET (0 .. 6)
  /\ {0, 1, 3, 4} \in SUBSET (0 .. 6) /\ {0, 1, 3, 4, 5} \in SUBSET (0 .. 6)
  /\ {0, 1, 4, 5} \in SUBSET (0 .. 6) /\ {0, 1, 4} \in SUBSET (0 .. 6)
  /\ {0, 1, 2, 5, 6} \in SUBSET (0 .. 6) /\ {0, 1, 5, 6} \in SUBSET (0 .. 6)
  /\ {0, 1, 2, 4, 5} \in SUBSET (0 .. 6) /\ {0, 1, 2, 4} \in SUBSET (0 .. 6)
  /\ {0, 1, 2, 3, 5, 6} \in SUBSET (0 .. 6) /\ {0, 1, 4, 5, 6} \in SUBSET (0 .. 6)
OBVIOUS

\* So those of every instruction are.
LEMMA FixedBits ==
  ASSUME NEW op \in Opcodes
  PROVE  /\ Description(op).opcode \in SUBSET (0 .. 6)
         /\ Description(op).funct3 \in SUBSET (0 .. 2)
         /\ Description(op).funct7 \in SUBSET {5}
         /\ op \in {"lui", "auipc", "jal", "ecall"} => Description(op).funct3 = {}
<1> USE SmallSets
<1>1. CASE op \in Loads \cup Stores
  BY <1>1 DEF Loads, Stores, Description, Fixed
<1>2. CASE op \in Branches
  BY <1>2 DEF Branches, Description, Fixed
<1>3. CASE op \in ShiftImmediates
  BY <1>3 DEF ShiftImmediates, Description, Fixed
<1>4. CASE op \in Immediates
  BY <1>4 DEF Immediates, Description, Fixed
<1>5. CASE op \in Registers
  BY <1>5 DEF Registers, Description, Fixed
<1>6. CASE op \in {"lui", "auipc", "jal", "ecall"}
  BY <1>6 DEF Description, Fixed
<1> QED BY <1>1, <1>2, <1>3, <1>4, <1>5, <1>6 DEF Opcodes

\* Which instructions a format has.
LEMMA OfFormat ==
  ASSUME NEW op \in Opcodes
  PROVE  LET f == Description(op).format IN
         /\ f = "I" => op \in Loads \cup ShiftImmediates \cup Immediates
         /\ f = "S" => op \in Stores
         /\ f = "B" => op \in Branches
         /\ f = "R" => op \in Registers
         /\ f = "U" => op \in {"lui", "auipc"}
         /\ f = "J" => op \in {"jal", "ecall"}
         /\ f \in {"I", "R", "S", "B", "U", "J"}
<1>1. op \in Loads \cup ShiftImmediates \cup Immediates => Description(op).format = "I"
  BY DEF Loads, ShiftImmediates, Immediates, Description, Fixed
<1>2. op \in Stores => Description(op).format = "S"
  BY DEF Stores, Description, Fixed
<1>3. op \in Branches => Description(op).format = "B"
  BY DEF Branches, Description, Fixed
<1>4. op \in Registers => Description(op).format = "R"
  BY DEF Registers, Description, Fixed
<1>5. op \in {"lui", "auipc"} => Description(op).format = "U"
  BY DEF Description, Fixed
<1>6. op \in {"jal", "ecall"} => Description(op).format = "J"
  BY DEF Description, Fixed
<1> QED BY <1>1, <1>2, <1>3, <1>4, <1>5, <1>6 DEF Opcodes

\* What decode finds in a word of the I format: in a shift, funct7 above the amount.
LEMMA EncodedI ==
  ASSUME NEW i, Instruction(i), i.format = "I"
  PROVE  /\ Described(i.opcode, Encode(i))
         /\ get_rd(Encode(i)) = i.rd /\ get_rs1(Encode(i)) = i.rs1
         /\ get_imm_i(Encode(i)) = i.imm
<1> DEFINE op == i.opcode
           d == Description(op)
           w == Encode(i)
           imm == i.imm \cap (0 .. 11)
<1>1. /\ op \in Opcodes /\ d.format = "I" /\ i.rd \in RegNumber /\ i.rs1 \in RegNumber
      /\ i.imm \in SUBSET (0 .. 31) /\ Takes(op, i.imm)
  BY DEF Instruction, Operands
<1>2. /\ d.opcode \in SUBSET (0 .. 6) /\ d.funct3 \in SUBSET (0 .. 2)
      /\ d.funct7 \in SUBSET {5}
  BY <1>1, FixedBits
<1>3. imm \in SUBSET (0 .. 11)
  OBVIOUS
<1>4. w = WordI(d.opcode, d.funct3, i.rd, i.rs1, imm)
  BY <1>1 DEF Encode, WordI
<1> HIDE DEF w, d, imm
<1>5. /\ Field(w, 0, 7) = d.opcode /\ Field(w, 12, 3) = d.funct3
      /\ get_rd(w) = i.rd /\ get_rs1(w) = i.rs1 /\ Field(w, 20, 12) = imm
  BY <1>1, <1>2, <1>3, <1>4, LayoutI
<1>6. HasOpcode(op, w) /\ HasFunct3(op, w)
  BY <1>5 DEF HasOpcode, HasFunct3, get_opcode, get_funct3, d
<1>7. CASE op \notin ShiftImmediates
  <2>1. i.imm = SignExtend(i.imm \cap (0 .. (12 - 1)), 12)
    BY <1>1, <1>7 DEF Takes, d
  <2>2. i.imm = SignExtend(imm, 12)
    BY <2>1 DEF imm
  <2>3. op \in Loads \cup ShiftImmediates \cup Immediates
    BY <1>1, OfFormat DEF d
  <2> QED BY <1>5, <1>6, <1>7, <2>2, <2>3
           DEF Described, HasFunct7, get_imm_i, Loads, Immediates, Registers, w
<1>8. CASE op \in ShiftImmediates
  <2>1. i.imm \ (0 .. 4) = Up(d.funct7, 5)
    BY <1>1, <1>8 DEF Takes, d, ShiftImmediates
  <2>2. \A x \in Int : x \in Up(d.funct7, 5) <=> x - 5 \in d.funct7
    BY <1>2, UpMember
  <2>3. \A x \in Int : x - 5 \in d.funct7 => x = 10
    BY <1>2
  <2>4. \A x \in i.imm : x \in 0 .. 4 \/ x = 10
    <3> TAKE x \in i.imm
    <3>1. x \in Int
      BY <1>1
    <3>2. x \in 0 .. 4 \/ x \in Up(d.funct7, 5)
      BY <2>1
    <3> QED BY <2>2, <2>3, <3>1, <3>2
  <2>5. i.imm = imm /\ 11 \notin imm
    BY <1>1, <2>4 DEF imm
  <2>6. get_imm_i(w) = i.imm
    BY <1>5, <2>5 DEF get_imm_i, SignExtend
  <2>7. \A x \in 0 .. 11 : 20 + x \in w <=> x \in imm
    BY <1>5 DEF Field
  <2>8. \A x \in Int : x \in d.funct7 => x = 5
    BY <1>2
  <2>9. \A x \in Int : 0 <= x /\ x < 7 => (25 + x \in w <=> x \in d.funct7)
    <3> TAKE x \in Int
    <3> HAVE 0 <= x /\ x < 7
    <3>1. x + 5 \in 0 .. 11 /\ 20 + (x + 5) = 25 + x
      OBVIOUS
    <3>2. 25 + x \in w <=> x + 5 \in i.imm
      BY <2>5, <2>7, <3>1
    <3>3. x + 5 \in i.imm <=> x + 5 \in Up(d.funct7, 5)
      BY <2>1, <3>1
    <3>4. x + 5 \in Up(d.funct7, 5) <=> x \in d.funct7
      BY <2>2
    <3> QED BY <3>2, <3>3, <3>4
  <2>10. Below(d.funct7, 7) /\ Shows(w, 25, 7, d.funct7)
    BY <1>2, <2>9 DEF Below, Shows
  <2>11. Field(w, 25, 7) = d.funct7
    BY <2>10, FieldIs
  <2>12. HasFunct7(op, w)
    BY <2>11 DEF HasFunct7, get_funct7, d
  <2> QED BY <1>5, <1>6, <2>6, <2>12 DEF Described, w
<1> QED BY <1>7, <1>8

\* R: an operation on two registers.
LEMMA EncodedR ==
  ASSUME NEW i, Instruction(i), i.format = "R"
  PROVE  /\ Described(i.opcode, Encode(i))
         /\ get_rd(Encode(i)) = i.rd /\ get_rs1(Encode(i)) = i.rs1
         /\ get_rs2(Encode(i)) = i.rs2 /\ i.imm = {}
<1> DEFINE d == Description(i.opcode)
           w == Encode(i)
<1>1. /\ i.opcode \in Opcodes /\ d.format = "R" /\ i.rd \in RegNumber
      /\ i.rs1 \in RegNumber /\ i.rs2 \in RegNumber /\ Takes(i.opcode, i.imm)
  BY DEF Instruction, Operands
<1>2. /\ d.opcode \in SUBSET (0 .. 6) /\ d.funct3 \in SUBSET (0 .. 2)
      /\ d.funct7 \in SUBSET (0 .. 6)
  BY <1>1, FixedBits
<1>3. w = WordR(d.opcode, d.funct3, d.funct7, i.rd, i.rs1, i.rs2)
  BY <1>1 DEF Encode, WordR
<1>4. i.imm = {}
  <2>1. i.opcode \notin ShiftImmediates
    BY <1>1, OfFormat DEF ShiftImmediates, Registers
  <2> QED BY <1>1, <2>1 DEF Takes
<1> HIDE DEF w, d
<1>5. /\ Field(w, 0, 7) = d.opcode /\ Field(w, 12, 3) = d.funct3
      /\ Field(w, 25, 7) = d.funct7
      /\ get_rd(w) = i.rd /\ get_rs1(w) = i.rs1 /\ get_rs2(w) = i.rs2
  BY <1>1, <1>2, <1>3, LayoutR
<1> QED BY <1>4, <1>5 DEF Described, HasOpcode, HasFunct3, HasFunct7, get_opcode,
                          get_funct3, get_funct7, d, w

\* S: a store.
LEMMA EncodedS ==
  ASSUME NEW i, Instruction(i), i.format = "S"
  PROVE  /\ Described(i.opcode, Encode(i))
         /\ get_rs1(Encode(i)) = i.rs1 /\ get_rs2(Encode(i)) = i.rs2
         /\ get_imm_s(Encode(i)) = i.imm
<1> DEFINE d == Description(i.opcode)
           w == Encode(i)
           lo == i.imm \cap (0 .. 4)
           hi == i.imm \cap (5 .. 11)
<1>1. /\ i.opcode \in Opcodes /\ d.format = "S"
      /\ i.rs1 \in RegNumber /\ i.rs2 \in RegNumber /\ Takes(i.opcode, i.imm)
  BY DEF Instruction, Operands
<1>2. d.opcode \in SUBSET (0 .. 6) /\ d.funct3 \in SUBSET (0 .. 2)
  BY <1>1, FixedBits
<1>3. w = WordS(d.opcode, d.funct3, i.rs1, i.rs2, lo, hi)
  BY <1>1 DEF Encode, WordS
<1>4. i.opcode \in Stores
  BY <1>1, OfFormat
<1>5. i.imm = SignExtend(i.imm \cap (0 .. (12 - 1)), 12)
  BY <1>1, <1>4 DEF Takes, ShiftImmediates, Stores
<1>6. lo \in SUBSET (0 .. 4) /\ hi \in SUBSET (5 .. 11) /\ hi \cup lo = i.imm \cap (0 .. 11)
  OBVIOUS
<1> HIDE DEF w, d, lo, hi
<1>7. /\ Field(w, 0, 7) = d.opcode /\ Field(w, 12, 3) = d.funct3
      /\ get_rs1(w) = i.rs1 /\ get_rs2(w) = i.rs2
      /\ get_imm_s(w) = SignExtend(hi \cup lo, 12)
  BY <1>1, <1>2, <1>3, <1>6, LayoutS
<1> QED BY <1>4, <1>5, <1>6, <1>7
        DEF Described, HasOpcode, HasFunct3, HasFunct7, get_opcode, get_funct3,
            Stores, Registers, ShiftImmediates, d, w

\* B: a branch.
LEMMA EncodedB ==
  ASSUME NEW i, Instruction(i), i.format = "B"
  PROVE  /\ Described(i.opcode, Encode(i))
         /\ get_rs1(Encode(i)) = i.rs1 /\ get_rs2(Encode(i)) = i.rs2
         /\ get_imm_b(Encode(i)) = i.imm
<1> DEFINE d == Description(i.opcode)
           w == Encode(i)
           p11 == i.imm \cap {11}
           p1 == i.imm \cap (1 .. 4)
           p5 == i.imm \cap (5 .. 10)
           p12 == i.imm \cap {12}
<1>1. /\ i.opcode \in Opcodes /\ d.format = "B" /\ i.imm \in SUBSET (0 .. 31)
      /\ i.rs1 \in RegNumber /\ i.rs2 \in RegNumber /\ Takes(i.opcode, i.imm)
  BY DEF Instruction, Operands
<1>2. d.opcode \in SUBSET (0 .. 6) /\ d.funct3 \in SUBSET (0 .. 2)
  BY <1>1, FixedBits
<1>3. w = WordB(d.opcode, d.funct3, i.rs1, i.rs2, p11, p1, p5, p12)
  BY <1>1 DEF Encode, WordB
<1>4. i.opcode \in Branches
  BY <1>1, OfFormat
<1>5. 0 \notin i.imm /\ i.imm = SignExtend(i.imm \cap (0 .. (13 - 1)), 13)
  <2>1. i.opcode \notin ShiftImmediates /\ i.opcode # "ecall"
    BY <1>4 DEF ShiftImmediates, Branches
  <2> QED BY <1>1, <2>1 DEF Takes
<1>6. /\ p11 \in SUBSET {11} /\ p1 \in SUBSET (1 .. 4)
      /\ p5 \in SUBSET (5 .. 10) /\ p12 \in SUBSET {12}
  OBVIOUS
<1>7. p12 \cup p5 \cup p1 \cup p11 = i.imm \cap (0 .. 12)
  <2>1. \A x \in i.imm : x \in Int /\ x # 0
    BY <1>1, <1>5
  <2> QED BY <2>1
<1> HIDE DEF w, d, p11, p1, p5, p12
<1>8. /\ Field(w, 0, 7) = d.opcode /\ Field(w, 12, 3) = d.funct3
      /\ get_rs1(w) = i.rs1 /\ get_rs2(w) = i.rs2
      /\ get_imm_b(w) = SignExtend(p12 \cup p5 \cup p1 \cup p11, 13)
  <2> USE <1>1, <1>2, <1>3, <1>6
  <2> QED BY LayoutB, SMTT(30)
<1> QED BY <1>4, <1>5, <1>7, <1>8
        DEF Described, HasOpcode, HasFunct3, HasFunct7, get_opcode, get_funct3,
            Branches, Registers, ShiftImmediates, d, w

\* U: an upper immediate.
LEMMA EncodedU ==
  ASSUME NEW i, Instruction(i), i.format = "U"
  PROVE  /\ Described(i.opcode, Encode(i))
         /\ get_rd(Encode(i)) = i.rd /\ get_imm_u(Encode(i)) = i.imm
<1> DEFINE d == Description(i.opcode)
           w == Encode(i)
<1>1. /\ i.opcode \in Opcodes /\ d.format = "U"
      /\ i.rd \in RegNumber /\ Takes(i.opcode, i.imm)
  BY DEF Instruction, Operands
<1>2. i.opcode \in {"lui", "auipc"}
  BY <1>1, OfFormat
<1>3. d.opcode \in SUBSET (0 .. 6) /\ d.funct3 = {}
  BY <1>1, <1>2, FixedBits
<1>4. i.imm \in SUBSET (0 .. 19)
  BY <1>1, <1>2 DEF Takes, ShiftImmediates
<1>5. w = WordU(d.opcode, i.rd, i.imm)
  BY <1>1, <1>3 DEF Encode, WordU
<1> HIDE DEF w, d
<1>6. Field(w, 0, 7) = d.opcode /\ get_rd(w) = i.rd /\ get_imm_u(w) = i.imm
  BY <1>1, <1>3, <1>4, <1>5, LayoutU
<1> QED BY <1>2, <1>6
        DEF Described, HasOpcode, HasFunct3, HasFunct7, get_opcode,
            Registers, ShiftImmediates, d, w

\* J: JAL, and ECALL with nothing in it.
LEMMA EncodedJ ==
  ASSUME NEW i, Instruction(i), i.format = "J"
  PROVE  /\ Described(i.opcode, Encode(i))
         /\ get_rd(Encode(i)) = i.rd /\ get_imm_j(Encode(i)) = i.imm
<1> DEFINE d == Description(i.opcode)
           w == Encode(i)
           p12 == i.imm \cap (12 .. 19)
           p11 == i.imm \cap {11}
           p1 == i.imm \cap (1 .. 10)
           p20 == i.imm \cap {20}
<1>1. /\ i.opcode \in Opcodes /\ d.format = "J" /\ i.imm \in SUBSET (0 .. 31)
      /\ i.rd \in RegNumber /\ Takes(i.opcode, i.imm)
      /\ i.opcode = "ecall" => i.rd = {}
  BY DEF Instruction, Operands
<1>2. i.opcode \in {"jal", "ecall"}
  BY <1>1, OfFormat
<1>3. d.opcode \in SUBSET (0 .. 6) /\ d.funct3 = {}
  BY <1>1, <1>2, FixedBits
<1>4. /\ i.opcode = "ecall" => i.imm = {}
      /\ i.opcode = "jal" => 0 \notin i.imm /\ i.imm = SignExtend(i.imm \cap (0 .. (21 - 1)), 21)
  BY <1>1, <1>2 DEF Takes, ShiftImmediates
<1>5. 0 \notin i.imm /\ i.imm = SignExtend(i.imm \cap (0 .. 20), 21)
  BY <1>2, <1>4 DEF SignExtend
<1>6. w = WordJ(d.opcode, i.rd, p12, p11, p1, p20)
  BY <1>1, <1>3 DEF Encode, WordJ
<1>7. /\ p12 \in SUBSET (12 .. 19) /\ p11 \in SUBSET {11}
      /\ p1 \in SUBSET (1 .. 10) /\ p20 \in SUBSET {20}
  OBVIOUS
<1>8. p20 \cup p1 \cup p11 \cup p12 = i.imm \cap (0 .. 20)
  <2>1. \A x \in i.imm : x \in Int /\ x # 0
    BY <1>1, <1>5
  <2> QED BY <2>1
<1>9. i.opcode = "ecall" => w = d.opcode
  BY <1>1, <1>3, <1>4, <1>6 DEF WordJ, Up
<1> HIDE DEF w, d, p12, p11, p1, p20
<1>10. /\ Field(w, 0, 7) = d.opcode /\ get_rd(w) = i.rd
       /\ get_imm_j(w) = SignExtend(p20 \cup p1 \cup p11 \cup p12, 21)
  BY <1>1, <1>3, <1>6, <1>7, LayoutJ
<1>11. i.opcode = "ecall" => Field(w, 12, 3) = {}
  BY <1>3, <1>9 DEF Field
<1>12. HasFunct3(i.opcode, w)
  BY <1>2, <1>3, <1>11 DEF HasFunct3, get_funct3, d
<1> QED BY <1>2, <1>5, <1>8, <1>10, <1>12
        DEF Described, HasOpcode, HasFunct7, get_opcode, Registers, ShiftImmediates, d, w

\* Every instruction an assembler may write comes out of decode as it went in.
THEOREM AssembledDecoded ==
  ASSUME NEW i, Instruction(i)
  PROVE  Faithful(i, decode(Encode(i)))
<1> DEFINE w == Encode(i)
<1>1. i.opcode \in Opcodes /\ i.format = Description(i.opcode).format
  BY DEF Instruction
<1>2. i.format \in {"I", "R", "S", "B", "U", "J"}
  BY <1>1, OfFormat
<1>3. Described(i.opcode, w)
  BY <1>2, EncodedI, EncodedR, EncodedS, EncodedB, EncodedU, EncodedJ
<1>4. decode(w).opcode = i.opcode
  BY <1>1, <1>3, DecodeDescribed
<1>5. i.opcode # "unknown"
  BY <1>1 DEF Opcodes, Loads, Stores, Branches, ShiftImmediates, Immediates, Registers
<1>6. decode(w) = Shape(i.opcode, w)
  BY <1>4, <1>5, DecodeShape DEF Unknown, Decoded
<1> HIDE DEF w
<1>7. CASE i.format = "I"
  <2>1. get_rd(w) = i.rd /\ get_rs1(w) = i.rs1 /\ get_imm_i(w) = i.imm
    BY <1>7, EncodedI DEF w
  <2>2. i.opcode \in Loads \cup ShiftImmediates \cup Immediates
    BY <1>1, <1>7, OfFormat
  <2>3. decode(w) = IF i.opcode = "csrw" THEN Csrw(w) ELSE I(i.opcode, w)
    BY <1>6, <2>2 DEF Shape, Registers, Loads, Stores, Branches, ShiftImmediates, Immediates
  <2>4. CASE i.opcode = "csrw"
    <3>1. /\ Csrw(w).opcode = "csrw" /\ Csrw(w).format = "I" /\ Csrw(w).rd = NoReg
          /\ Csrw(w).rs1 = get_rs1(w) /\ Csrw(w).imm = get_imm_i(w)
      BY DEF Csrw, I, Decoded
    <3> QED BY <1>7, <2>1, <2>3, <2>4, <3>1 DEF Faithful, Operands, w
  <2>5. CASE i.opcode # "csrw"
    <3>1. LET d == I(i.opcode, w) IN
          /\ d.opcode = i.opcode /\ d.format = "I" /\ d.rd = get_rd(w)
          /\ d.rs1 = get_rs1(w) /\ d.imm = get_imm_i(w)
      BY DEF I, Decoded
    <3> QED BY <1>7, <2>1, <2>3, <2>5, <3>1 DEF Faithful, Operands, w
  <2> QED BY <2>4, <2>5
<1>8. CASE i.format = "R"
  <2>1. get_rd(w) = i.rd /\ get_rs1(w) = i.rs1 /\ get_rs2(w) = i.rs2 /\ i.imm = {}
    BY <1>8, EncodedR DEF w
  <2>2. i.opcode \in Registers
    BY <1>1, <1>8, OfFormat
  <2>3. decode(w) = R(i.opcode, w)
    BY <1>6, <2>2 DEF Shape, Registers, Loads, Stores, Branches, ShiftImmediates, Immediates
  <2> QED BY <1>8, <2>1, <2>2, <2>3 DEF Faithful, Operands, Registers, R, Decoded, w
<1>9. CASE i.format = "S"
  <2>1. get_rs1(w) = i.rs1 /\ get_rs2(w) = i.rs2 /\ get_imm_s(w) = i.imm
    BY <1>9, EncodedS DEF w
  <2>2. i.opcode \in Stores
    BY <1>1, <1>9, OfFormat
  <2>3. decode(w) = S(i.opcode, w)
    BY <1>6, <2>2 DEF Shape, Registers, Loads, Stores, Branches, ShiftImmediates, Immediates
  <2> QED BY <1>9, <2>1, <2>3 DEF Faithful, Operands, S, Decoded, w
<1>10. CASE i.format = "B"
  <2>1. get_rs1(w) = i.rs1 /\ get_rs2(w) = i.rs2 /\ get_imm_b(w) = i.imm
    BY <1>10, EncodedB DEF w
  <2>2. i.opcode \in Branches
    BY <1>1, <1>10, OfFormat
  <2>3. decode(w) = B(i.opcode, w)
    BY <1>6, <2>2 DEF Shape, Registers, Loads, Stores, Branches, ShiftImmediates, Immediates
  <2> QED BY <1>10, <2>1, <2>3 DEF Faithful, Operands, B, Decoded, w
<1>11. CASE i.format = "U"
  <2>1. get_rd(w) = i.rd /\ get_imm_u(w) = i.imm
    BY <1>11, EncodedU DEF w
  <2>2. i.opcode \in {"lui", "auipc"}
    BY <1>1, <1>11, OfFormat
  <2>3. decode(w) = U(i.opcode, w)
    BY <1>6, <2>2 DEF Shape, Registers, Loads, Stores, Branches, ShiftImmediates, Immediates
  <2> QED BY <1>11, <2>1, <2>2, <2>3 DEF Faithful, Operands, U, Decoded, w
<1>12. CASE i.format = "J"
  <2>1. get_rd(w) = i.rd /\ get_imm_j(w) = i.imm
    BY <1>12, EncodedJ DEF w
  <2>2. i.opcode \in {"jal", "ecall"}
    BY <1>1, <1>12, OfFormat
  <2>3. decode(w) = J(i.opcode, w)
    BY <1>6, <2>2 DEF Shape, Registers, Loads, Stores, Branches, ShiftImmediates, Immediates
  <2> QED BY <1>12, <2>1, <2>2, <2>3 DEF Faithful, Operands, J, Decoded, w
<1> QED BY <1>2, <1>7, <1>8, <1>9, <1>10, <1>11, <1>12

-------------------------------------------------------------------------------
(* The loader's types. *)

\* A set of numbers that is not empty has a least one.
LEMMA Least ==
  ASSUME NEW T \in SUBSET Nat, T # {}
  PROVE  \E m \in T : \A l \in T : m <= l
<1> DEFINE less == {ss \in Nat \X Nat : ss[1] < ss[2]}
<1>1. IsWellFoundedOn(less, Nat)
  BY NatLessThanWellFounded DEF OpToRel
<1> HIDE DEF less
<1>2. PICK m \in T : \A l \in T : <<l, m>> \notin less
  BY <1>1, WFMin
<1>3. \A l \in T : ~(l < m)
  BY <1>2 DEF less
<1>. QED BY <1>3

\* Products distribute.
LEMMA Distributes ==
  \A m, n, h \in Int : (n - m) * h = n * h - m * h
OBVIOUS

\* The file, and what the assumptions say of it.
LEMMA FileTypes ==
  ASSUME file \in Files
  PROVE  /\ file.phoff \in Nat /\ file.size \in Nat /\ file.entry \in Nat
         /\ file.phnum \in Nat
         /\ \A k \in 0 .. (file.size - 1) : file.words[k] \in Word /\ file.says[k] \in Phdr
         /\ HeaderWords \in Nat \ {0} /\ HeadersEnd \in Nat /\ ZeroWord \in Word
         /\ MemWords \in Nat /\ StackBottom \in Nat
         /\ Quad \subseteq Nat /\ NoHeader \in Phdr
<1>1. /\ file.phoff \in Nat /\ file.size \in Nat /\ file.entry \in Nat
      /\ file.phnum \in Nat /\ file.words \in [0 .. (file.size - 1) -> Word]
      /\ file.says \in [0 .. (file.size - 1) -> Phdr]
      /\ HeaderWords \in Nat \ {0} /\ ZeroWord \in Word
      /\ MemWords \in Nat /\ StackBottom \in Nat
      /\ AddressLimit \in Nat /\ MemWords < AddressLimit
  BY LoaderAssumption
<1>2. file.phnum * HeaderWords \in Nat
  BY <1>1
<1>3. HeadersEnd \in Nat
  <2> DEFINE m == file.phnum * HeaderWords
  <2>1. m \in Nat
    BY <1>2
  <2>2. HeadersEnd = file.phoff + m
    BY DEF HeadersEnd
  <2> HIDE DEF m
  <2>. QED BY <1>1, <2>1, <2>2
<1>4. \A k \in 0 .. (file.size - 1) : file.words[k] \in Word /\ file.says[k] \in Phdr
  BY <1>1
<1>5. Quad \subseteq Nat /\ 0 \in Quad
  BY <1>1 DEF Quad
<1>6. NoHeader \in Phdr
  BY <1>5 DEF NoHeader, Phdr
<1>. QED BY <1>1, <1>3, <1>4, <1>5, <1>6

\* The headers of a file that is long enough are read in full, one behind the other.
LEMMA HeadersOf ==
  ASSUME file \in Files, HeadersEnd <= file.size, NEW k \in 1 .. file.phnum
  PROVE  /\ HeaderPos(k) \in 0 .. (file.size - 1)
         /\ HeaderPos(k) + HeaderWords <= file.size
<1> DEFINE n == file.phnum
           H == HeaderWords
<1>1. /\ file.phoff \in Nat /\ H \in Nat \ {0} /\ n \in Nat /\ k \in Nat /\ k <= n
      /\ file.size \in Nat /\ k - 1 \in Nat
  BY FileTypes
<1>2. /\ (n - k) * H \in Nat /\ n * H \in Nat /\ k * H \in Nat
      /\ (k - 1) * H \in Nat /\ k * H = (k - 1) * H + H
  BY <1>1
<1>3. (n - k) * H = n * H - k * H
  <2>1. n \in Int /\ k \in Int /\ H \in Int
    BY <1>1
  <2>. QED BY <2>1, Distributes, Zenon
<1>4. file.phoff + n * H <= file.size
  BY DEF HeadersEnd
<1> DEFINE p == (k - 1) * H
           q == n * H
           r == k * H
           d == (n - k) * H
<1>5. HeaderPos(k) = file.phoff + p
  BY DEF HeaderPos
<1>6. p \in Nat /\ q \in Nat /\ r \in Nat /\ d \in Nat /\ r = p + H /\ d = q - r
      /\ file.phoff + q <= file.size
  BY <1>2, <1>3, <1>4
<1> HIDE DEF p, q, r, d
<1>. QED BY <1>1, <1>5, <1>6

\* What is read from the file and put into memory is words.
LEMMA Words ==
  ASSUME file \in Files, memory \in [Address -> Word], NEW h \in Phdr, NEW b \in BOOLEAN
  PROVE  Fill(h, Data(h, b)) \in [Address -> Word]
<1>1. /\ h.vaddr \in Nat /\ h.filesz \in Nat /\ h.offset \in Nat /\ Address \subseteq Nat
  BY FileTypes DEF Phdr, Address
<1>2. ASSUME NEW k \in 0 .. (h.filesz - 1) PROVE Data(h, b)[k] \in Word
  <2>1. h.offset + k < file.size => h.offset + k \in 0 .. (file.size - 1)
    BY <1>1, FileTypes
  <2>. QED BY <2>1, FileTypes DEF Data
<1>3. ASSUME NEW a \in Address PROVE Fill(h, Data(h, b))[a] \in Word
  <2>1. a \in h.vaddr .. (h.vaddr + h.filesz - 1) => a - h.vaddr \in 0 .. (h.filesz - 1)
    BY <1>1
  <2> DEFINE d == Data(h, b)
  <2>2. \A k \in 0 .. (h.filesz - 1) : d[k] \in Word
    BY <1>2
  <2> HIDE DEF d
  <2>3. Fill(h, d)[a] \in Word
    BY <2>1, <2>2, FileTypes DEF Fill
  <2>. QED BY <2>3 DEF d
<1>. QED BY <1>3 DEF Fill

\* Of one of the files, load_elf's variables have their types.
LoaderTypes == file \in Files /\ LoaderTypeOK

\* They have at first,
LEMMA LoaderTypesInit == Init => LoaderTypes
<1> SUFFICES ASSUME Init PROVE LoaderTypes
  OBVIOUS
<1>1. file \in Files /\ file.phnum \in Nat /\ ZeroWord \in Word /\ NoHeader \in Phdr
  BY FileTypes DEF Init, LoaderInit
<1>. QED BY <1>1 DEF Init, LoaderInit, LoaderTypes, LoaderTypeOK, Empty

\* A header that is read is one, and the stream stays a stream.
LEMMA ReadTypes ==
  ASSUME LoaderTypes, NEW h \in Headers
  PROVE  /\ h \in Phdr /\ Range(h) \in [begin : Nat, end : Nat]
         /\ h.offset + h.filesz \in Nat /\ stream.pos \in Nat /\ stream.fail \in BOOLEAN
         /\ Short \in BOOLEAN
<1>1. /\ stream.pos \in Nat /\ stream.fail \in BOOLEAN /\ phdr \in Phdr /\ file \in Files
      /\ NoHeader \in Phdr /\ HeaderWords \in Nat \ {0} /\ file.size \in Nat
      /\ Quad \subseteq Nat
  BY FileTypes DEF LoaderTypes, LoaderTypeOK
<1>2. h \in Phdr
  <2>1. CASE ~Short
    <3>1. stream.pos \in 0 .. (file.size - 1)
      BY <1>1, <2>1 DEF Short
    <3>2. file.says[stream.pos] \in Phdr
      BY <1>1, <3>1, FileTypes
    <3>. QED BY <2>1, <3>2 DEF Headers
  <2>2. CASE Short /\ ~stream.fail /\ stream.pos < file.size
    <3> DEFINE new == file.says[stream.pos]
    <3>1. stream.pos \in 0 .. (file.size - 1)
      BY <1>1, <2>2
    <3>2. new \in Phdr
      BY <1>1, <3>1, FileTypes
    <3>3. h \in Torn(new, phdr)
      BY <2>2 DEF Headers
    <3> HIDE DEF new
    <3>4. PICK x \in {new.exec, phdr.exec}, o \in {new.offset, phdr.offset},
               v \in {new.vaddr, phdr.vaddr}, f \in {new.filesz, phdr.filesz},
               m \in {new.memsz, phdr.memsz} :
            h = [load |-> new.load, exec |-> x, offset |-> o, vaddr |-> v,
                 filesz |-> f, memsz |-> m]
      BY <3>3 DEF Torn
    <3>5. x \in BOOLEAN /\ o \in Quad /\ v \in Quad /\ f \in Quad /\ m \in Quad
          /\ new.load \in BOOLEAN
      BY <1>1, <3>2 DEF Phdr
    <3>. QED BY <3>4, <3>5 DEF Phdr
  <2>3. CASE Short /\ ~(~stream.fail /\ stream.pos < file.size)
    <3>1. h \in {phdr, NoHeader}
      BY <2>3 DEF Headers
    <3>. QED BY <1>1, <3>1
  <2>. QED BY <2>1, <2>2, <2>3
<1>3. h.offset \in Nat /\ h.filesz \in Nat /\ h.vaddr \in Nat /\ h.memsz \in Nat
  BY <1>1, <1>2 DEF Phdr
<1>4. Short \in BOOLEAN
  BY DEF Short
<1>. QED BY <1>1, <1>2, <1>3, <1>4 DEF Range

\* and after every step.
LEMMA LoaderTypesNext == ASSUME LoaderTypes, [Next]_vars PROVE LoaderTypes'
<1>t. /\ file \in Files /\ stream \in [pos : Nat, fail : BOOLEAN] /\ phdr \in Phdr
      /\ index \in 0 .. file.phnum /\ ranges \in Seq([begin : Nat, end : Nat])
      /\ memory \in [Address -> Word]
      /\ hart \in [pc : Nat, sp : Nat, halt : BOOLEAN,
                   ranges : Seq([begin : Nat, end : Nat])]
      /\ file.phnum \in Nat /\ file.entry \in Nat /\ file.phoff \in Nat
      /\ StackBottom \in Nat /\ HeaderWords \in Nat
  BY FileTypes DEF LoaderTypes, LoaderTypeOK
<1>1. CASE Open
  BY <1>1, <1>t DEF Open, LoaderTypes, LoaderTypeOK
<1>2. CASE SkipSegment
  <2>1. PICK h \in Headers :
          /\ Iterate(h)
          /\ stream' = IF Short THEN [stream EXCEPT !.fail = TRUE]
                                ELSE [stream EXCEPT !.pos = @ + HeaderWords]
          /\ UNCHANGED <<phase, ranges, memory>>
    BY <1>2 DEF SkipSegment
  <2>2. h \in Phdr /\ stream.pos + HeaderWords \in Nat
    BY <1>t, ReadTypes
  <2>3. stream' \in [pos : Nat, fail : BOOLEAN]
    <3>1. [stream EXCEPT !.fail = TRUE] \in [pos : Nat, fail : BOOLEAN]
          /\ [stream EXCEPT !.pos = @ + HeaderWords] \in [pos : Nat, fail : BOOLEAN]
      BY <1>t, <2>2
    <3>. QED BY <2>1, <3>1
  <2>4. index' \in 0 .. file'.phnum
    BY <1>t, <2>1 DEF Iterate
  <2>. QED BY <1>t, <2>1, <2>2, <2>3, <2>4 DEF Iterate, LoaderTypes, LoaderTypeOK
<1>3. CASE LoadSegment
  <2>1. PICK h \in Headers :
          /\ Iterate(h)
          /\ stream' = IF Short THEN [stream EXCEPT !.fail = TRUE]
                                ELSE [pos |-> h.offset + h.filesz,
                                      fail |-> /\ h.filesz > 0
                                               /\ h.offset + h.filesz > file.size]
          /\ phase' = IF ~Passes(h) THEN "threw" ELSE IF Inside(h) THEN phase ELSE "wild"
          /\ IF phase' = "headers"
               THEN /\ memory' = Fill(h, Data(h, Short))
                    /\ ranges' = IF h.exec THEN Append(ranges, Range(h)) ELSE ranges
               ELSE UNCHANGED <<memory, ranges>>
    BY <1>3 DEF LoadSegment
  <2>2. /\ h \in Phdr /\ Range(h) \in [begin : Nat, end : Nat]
        /\ h.offset + h.filesz \in Nat /\ Short \in BOOLEAN
    BY ReadTypes
  <2>3. stream' \in [pos : Nat, fail : BOOLEAN]
    <3> DEFINE past == h.filesz > 0 /\ h.offset + h.filesz > file.size
    <3>1. past \in BOOLEAN
      OBVIOUS
    <3> HIDE DEF past
    <3>2. [stream EXCEPT !.fail = TRUE] \in [pos : Nat, fail : BOOLEAN]
          /\ [pos |-> h.offset + h.filesz, fail |-> past] \in [pos : Nat, fail : BOOLEAN]
      BY <1>t, <2>2, <3>1
    <3>. QED BY <2>1, <3>2 DEF past
  <2>4. index' \in 0 .. file'.phnum
    BY <1>t, <2>1 DEF Iterate
  <2>5. ranges' \in Seq([begin : Nat, end : Nat])
    <3> DEFINE Ranges == [begin : Nat, end : Nat]
               r == Range(h)
    <3>1. r \in Ranges /\ ranges \in Seq(Ranges)
      BY <1>t, <2>2
    <3> HIDE DEF Ranges, r
    <3>2. Append(ranges, r) \in Seq(Ranges)
      BY <3>1
    <3>3. ranges' = ranges \/ ranges' = Append(ranges, r)
      BY <2>1 DEF r
    <3>4. ranges' \in Seq(Ranges)
      BY <3>1, <3>2, <3>3
    <3>. QED BY <3>4 DEF Ranges
  <2>6. memory' \in [Address -> Word] /\ phase' \in {"headers", "threw", "wild"}
    BY <1>t, <2>1, <2>2, Words DEF Iterate
  <2>. QED BY <1>t, <2>1, <2>2, <2>3, <2>4, <2>5, <2>6
           DEF Iterate, LoaderTypes, LoaderTypeOK
<1>4. CASE Finish
  BY <1>4, <1>t DEF Finish, LoaderTypes, LoaderTypeOK
<1>5. CASE UNCHANGED loading
  BY <1>5 DEF loading, LoaderTypes, LoaderTypeOK
<1>. QED BY <1>1, <1>2, <1>3, <1>4, <1>5 DEF Next, LoaderNext, Fetch, vars

-------------------------------------------------------------------------------
(* What the loop over the headers has loaded. *)

\* The first segment is in memory, and its range the only one.
OnlyFirst(rs) == /\ memory = Image /\ Inside(Segment)
                 /\ rs = IF Segment.exec THEN <<Range(Segment)>> ELSE <<>>

\* The loop has not come to that segment and reads the headers one after another.
Before == /\ index < First
          /\ stream = [pos |-> file.phoff + index * HeaderWords, fail |-> FALSE]
          /\ memory = Empty /\ ranges = <<>>

\* It has: from the segment's end on it reads one header behind the other, until it has
\* run out of the file; then the slot may hold the segment's header still.
Behind == /\ First <= index
          /\ stream.fail \/ stream.pos = SegmentEnd + (index - First) * HeaderWords
          /\ phdr.load => /\ phdr = Segment
                          /\ IF stream.fail THEN RunsOut ELSE index = First
          /\ OnlyFirst(ranges) \/ (RunsOut /\ memory = Empty)

LoadInv ==
  Sound /\ Quiet =>
    /\ phase = "open" => /\ memory = Empty /\ ranges = <<>> /\ index = 0
                         /\ stream.fail = FALSE
    /\ phase = "headers" => Before \/ Behind
    /\ phase = "ready" => OnlyFirst(hart.ranges) \/ (RunsOut /\ memory = Empty)

\* The first segment is one of the headers, and none before it is loaded.
LEMMA FirstFacts ==
  ASSUME LoaderTypes, Sound
  PROVE  /\ First \in 1 .. file.phnum /\ Segment \in Phdr /\ Segment.load
         /\ \A k \in 1 .. (First - 1) : ~file.says[HeaderPos(k)].load
         /\ Segment.vaddr \in Nat /\ Segment.filesz \in Nat /\ Segment.offset \in Nat
         /\ Segment.memsz \in Nat
         /\ SegmentEnd \in Nat /\ HeadersEnd \in Nat
<1>1. file.phnum \in Nat /\ HeadersEnd \in Nat /\ Quad \subseteq Nat /\ file \in Files
      /\ HeadersEnd <= file.size
  BY FileTypes DEF LoaderTypes, Sound
<1>2. Loaded \in SUBSET Nat /\ Loaded # {}
  BY <1>1 DEF Sound, Loaded
<1>3. \E m \in Loaded : \A l \in Loaded : m <= l
  BY <1>2, Least
<1>4. First \in Loaded /\ \A l \in Loaded : First <= l
  BY <1>3 DEF First
<1>5. First \in 1 .. file.phnum /\ Segment.load
  BY <1>4 DEF Loaded, Segment
<1>6. Segment \in Phdr
  <2>1. HeaderPos(First) \in 0 .. (file.size - 1)
    BY <1>1, <1>5, HeadersOf
  <2>. QED BY <1>1, <2>1, FileTypes DEF Segment
<1>7. ASSUME NEW k \in 1 .. (First - 1), file.says[HeaderPos(k)].load PROVE FALSE
  <2>1. k \in Loaded /\ k < First
    BY <1>1, <1>5, <1>7 DEF Loaded
  <2>. QED BY <1>4, <1>5, <2>1
<1>8. /\ Segment.vaddr \in Nat /\ Segment.filesz \in Nat /\ Segment.offset \in Nat
      /\ Segment.memsz \in Nat
  BY <1>1, <1>6 DEF Phdr
<1>9. SegmentEnd \in Nat
  BY <1>8 DEF SegmentEnd
<1>. QED BY <1>1, <1>5, <1>6, <1>7, <1>8, <1>9

\* Filling empty memory with the segment's words makes the image, and filling the
\* image with zeroes empties it.
LEMMA Filling ==
  ASSUME LoaderTypes, Sound
  PROVE  /\ memory = Empty => Fill(Segment, Data(Segment, FALSE)) = Image
         /\ memory \in {Image, Empty} => Fill(Segment, Data(Segment, TRUE)) = Empty
<1> DEFINE g == Segment
           D == g.vaddr .. (g.vaddr + g.filesz - 1)
<1>1. /\ g.vaddr \in Nat /\ g.filesz \in Nat /\ g.offset \in Nat /\ g.memsz \in Nat
      /\ Address \subseteq Nat /\ g.offset + g.filesz <= file.size /\ file.size \in Nat
  BY FirstFacts, FileTypes DEF LoaderTypes, Address, Sound, SegmentEnd
<1>2. ASSUME NEW a \in D
      PROVE  /\ a - g.vaddr \in 0 .. (g.filesz - 1) /\ g.offset + (a - g.vaddr) < file.size
             /\ g.offset + (a - g.vaddr) = g.offset + a - g.vaddr
  BY <1>1
<1>3. ASSUME NEW a \in D
      PROVE  /\ Data(g, FALSE)[a - g.vaddr] = file.words[g.offset + a - g.vaddr]
             /\ Data(g, TRUE)[a - g.vaddr] = ZeroWord
  BY <1>2 DEF Data
<1>4. ASSUME memory = Empty PROVE Fill(g, Data(g, FALSE)) = Image
  <2>1. ASSUME NEW a \in Address PROVE Fill(g, Data(g, FALSE))[a] = Image[a]
    <3>1. memory[a] = ZeroWord
      BY <1>4 DEF Empty
    <3> DEFINE d == Data(g, FALSE)
    <3>2. a \in D => d[a - g.vaddr] = file.words[g.offset + a - g.vaddr]
      BY <1>3
    <3> HIDE DEF d
    <3>3. Fill(g, d)[a] = Image[a]
      BY <1>1, <3>1, <3>2 DEF Fill, Image
    <3>. QED BY <3>3 DEF d
  <2>. QED BY <2>1 DEF Fill, Image
<1>5. ASSUME memory \in {Image, Empty} PROVE Fill(g, Data(g, TRUE)) = Empty
  <2>1. ASSUME NEW a \in Address PROVE Fill(g, Data(g, TRUE))[a] = Empty[a]
    <3>1. a \notin D => memory[a] = ZeroWord
      BY <1>5 DEF Empty, Image
    <3> DEFINE d == Data(g, TRUE)
    <3>2. a \in D => d[a - g.vaddr] = ZeroWord
      BY <1>3
    <3> HIDE DEF d
    <3>3. Fill(g, d)[a] = Empty[a]
      BY <3>1, <3>2 DEF Fill, Empty
    <3>. QED BY <3>3 DEF d
  <2>. QED BY <2>1 DEF Fill, Empty
<1>. QED BY <1>4, <1>5

\* Before the segment a header is read in full, and it is the next one.
LEMMA ReadsNext ==
  ASSUME LoaderTypes, Sound, Before
  PROVE  ~Short /\ Headers = {file.says[HeaderPos(index + 1)]} /\ index \in Nat
<1>1. /\ index \in 0 .. file.phnum /\ First \in 1 .. file.phnum /\ file.phnum \in Nat
      /\ file \in Files /\ HeadersEnd <= file.size
  BY FirstFacts, FileTypes DEF LoaderTypes, LoaderTypeOK, Sound
<1>2. index + 1 \in 1 .. file.phnum /\ (index + 1) - 1 = index
  BY <1>1 DEF Before
<1>3. stream.pos = HeaderPos(index + 1) /\ stream.fail = FALSE
  BY <1>2 DEF Before, HeaderPos
<1>4. /\ HeaderPos(index + 1) \in 0 .. (file.size - 1)
      /\ HeaderPos(index + 1) + HeaderWords <= file.size
  BY <1>1, <1>2, HeadersOf
<1>5. ~Short
  <2>1. file.size \in Nat /\ HeaderWords \in Nat
    BY <1>1, FileTypes
  <2>. QED BY <1>3, <1>4, <2>1 DEF Short
<1>. QED BY <1>1, <1>3, <1>5 DEF Headers

\* Behind it a header that says PT_LOAD can only be the segment's own, once more, at the
\* end of the file.
LEMMA ReadsNone ==
  ASSUME LoaderTypes, Sound, Quiet, Behind, NEW h \in Headers, h.load,
         index < file.phnum
  PROVE  h = Segment /\ Short /\ RunsOut
<1>1. /\ index \in Nat /\ First \in Nat /\ file.phnum \in Nat /\ SegmentEnd \in Nat
      /\ file.size \in Nat /\ HeaderWords \in Nat \ {0} /\ SegmentEnd <= file.size
      /\ stream.pos \in Nat /\ stream.fail \in BOOLEAN /\ First <= index
  BY FirstFacts, FileTypes DEF LoaderTypes, LoaderTypeOK, Sound, Behind
<1>2. ASSUME ~stream.fail, stream.pos < file.size PROVE ~file.says[stream.pos].load
  <2> DEFINE j == index - First
  <2>1. j \in 0 .. (file.phnum - First - 1)
    BY <1>1
  <2>2. stream.pos = SegmentEnd + j * HeaderWords
    BY <1>2 DEF Behind
  <2> HIDE DEF j
  <2>. QED BY <1>2, <2>1, <2>2 DEF Quiet
<1>3. CASE ~Short
  <2>1. ~stream.fail /\ stream.pos < file.size
    BY <1>1, <1>3 DEF Short
  <2>2. h = file.says[stream.pos]
    BY <1>3 DEF Headers
  <2>. QED BY <1>2, <2>1, <2>2
<1>4. CASE Short /\ ~stream.fail /\ stream.pos < file.size
  <2>1. h \in Torn(file.says[stream.pos], phdr)
    BY <1>4 DEF Headers
  <2>2. h.load = file.says[stream.pos].load
    <3> DEFINE new == file.says[stream.pos]
    <3>1. h \in Torn(new, phdr)
      BY <2>1
    <3> HIDE DEF new
    <3>2. PICK x \in {new.exec, phdr.exec}, o \in {new.offset, phdr.offset},
               v \in {new.vaddr, phdr.vaddr}, f \in {new.filesz, phdr.filesz},
               m \in {new.memsz, phdr.memsz} :
            h = [load |-> new.load, exec |-> x, offset |-> o, vaddr |-> v,
                 filesz |-> f, memsz |-> m]
      BY <3>1 DEF Torn
    <3>3. h.load = new.load
      BY <3>2
    <3>. QED BY <3>3 DEF new
  <2>. QED BY <1>2, <1>4, <2>2
<1>5. CASE Short /\ ~(~stream.fail /\ stream.pos < file.size)
  <2>1. h \in {phdr, NoHeader}
    BY <1>5 DEF Headers
  <2>2. h = phdr
    BY <2>1 DEF NoHeader
  <2>3. h = Segment /\ IF stream.fail THEN RunsOut ELSE index = First
    BY <2>2 DEF Behind
  <2>4. CASE ~stream.fail
    <3>1. index = First /\ stream.pos >= file.size
      BY <1>1, <1>5, <2>3, <2>4
    <3>2. stream.pos = SegmentEnd
      <4>1. stream.pos = SegmentEnd + (index - First) * HeaderWords
        BY <2>4 DEF Behind
      <4>2. (index - First) * HeaderWords = 0
        BY <1>1, <3>1
      <4>. QED BY <1>1, <4>1, <4>2
    <3>. QED BY <1>1, <1>5, <2>3, <3>1, <3>2 DEF RunsOut
  <2>. QED BY <1>1, <1>5, <2>3, <2>4
<1>. QED BY <1>3, <1>4, <1>5

\* The invariant holds of an open file.
LEMMA LoadInit == Init => LoadInv
  BY DEF Init, LoaderInit, LoadInv

\* A segment, loaded or not, keeps it.
LEMMA LoadNext ==
  ASSUME LoaderTypes, LoadInv, [Next]_vars PROVE LoadInv'
<1> SUFFICES ASSUME Sound', Quiet' PROVE LoadInv'
  BY DEF LoadInv
<1>f. /\ file' = file /\ Sound /\ Quiet /\ First' = First /\ Segment' = Segment
      /\ SegmentEnd' = SegmentEnd /\ Image' = Image /\ RunsOut' = RunsOut
      /\ Inside(Segment)' = Inside(Segment)
  <2>1. file' = file
    BY DEF Next, LoaderNext, Open, SkipSegment, LoadSegment, Iterate, Finish, Fetch,
           loading, vars
  <2>2. /\ Loaded' = Loaded /\ HeadersEnd' = HeadersEnd
        /\ \A k : HeaderPos(k)' = HeaderPos(k)
    BY <2>1 DEF Loaded, HeadersEnd, HeaderPos
  <2>3. First' = First
    BY <2>2 DEF First
  <2>4. Segment' = Segment
    BY <2>1, <2>2, <2>3 DEF Segment, HeaderPos
  <2>5. SegmentEnd' = SegmentEnd /\ Image' = Image /\ Inside(Segment)' = Inside(Segment)
    BY <2>1, <2>4 DEF SegmentEnd, Image, Inside
  <2>6. Sound' = Sound /\ Quiet' = Quiet /\ RunsOut' = RunsOut
    BY <2>1, <2>2, <2>3, <2>4, <2>5 DEF Sound, Quiet, RunsOut
  <2>. QED BY <2>1, <2>3, <2>4, <2>5, <2>6
<1>t. /\ index \in Nat /\ First \in Nat /\ First <= file.phnum
      /\ file.phnum \in Nat /\ index <= file.phnum
      /\ stream \in [pos : Nat, fail : BOOLEAN] /\ HeaderWords \in Nat
      /\ file.phoff \in Nat /\ SegmentEnd \in Nat /\ file.size \in Nat
      /\ Segment.load
  BY <1>f, FirstFacts, FileTypes DEF LoaderTypes, LoaderTypeOK
<1>1. CASE Open
  <2>1. /\ phase = "open" /\ index' = 0 /\ memory' = Empty /\ ranges' = <<>>
        /\ stream.fail = FALSE
    BY <1>1, <1>f DEF Open, LoadInv
  <2>2. CASE phase' = "headers"
    <3>1. stream' = [pos |-> file.phoff, fail |-> FALSE]
      BY <1>1, <1>t, <2>1, <2>2 DEF Open
    <3>2. file.phoff + 0 * HeaderWords = file.phoff
      BY <1>t
    <3>3. First' > 0
      BY <1>f, FirstFacts
    <3>4. Before'
      BY <1>f, <1>t, <2>1, <3>1, <3>2, <3>3 DEF Before
    <3>. QED BY <2>2, <3>4 DEF LoadInv
  <2>3. CASE phase' = "threw"
    BY <2>3 DEF LoadInv
  <2>. QED BY <1>1, <2>2, <2>3 DEF Open
<1>2. CASE SkipSegment
  <2>1. PICK h \in Headers :
          /\ Iterate(h) /\ ~h.load
          /\ stream' = IF Short THEN [stream EXCEPT !.fail = TRUE]
                                ELSE [stream EXCEPT !.pos = @ + HeaderWords]
          /\ UNCHANGED <<phase, ranges, memory>>
    BY <1>2 DEF SkipSegment
  <2>2. /\ phase = "headers" /\ phase' = "headers" /\ index' = index + 1 /\ phdr' = h
        /\ index < file.phnum
    BY <2>1 DEF Iterate
  <2>3. CASE Before
    <3>1. ~Short /\ h = file.says[HeaderPos(index + 1)]
      BY <1>f, <2>1, <2>3, ReadsNext
    <3>2. index + 1 # First
      BY <1>t, <2>1, <3>1 DEF Segment
    <3>3. stream' = [pos |-> file.phoff + (index + 1) * HeaderWords, fail |-> FALSE]
      <4>1. (index + 1) * HeaderWords = index * HeaderWords + HeaderWords
            /\ index * HeaderWords \in Nat
        BY <1>t
      <4>2. stream = [pos |-> file.phoff + index * HeaderWords, fail |-> FALSE]
        BY <2>3 DEF Before
      <4>3. stream.pos + HeaderWords = file.phoff + (index + 1) * HeaderWords
        BY <1>t, <4>1, <4>2
      <4>4. stream' = [stream EXCEPT !.pos = stream.pos + HeaderWords]
        BY <2>1, <3>1
      <4> DEFINE m == file.phoff + (index + 1) * HeaderWords
      <4>5. stream.pos + HeaderWords = m
        BY <4>3
      <4> HIDE DEF m
      <4>6. stream' = [pos |-> m, fail |-> FALSE]
        BY <4>2, <4>4, <4>5
      <4>. QED BY <4>6 DEF m
    <3>4. stream' = [pos |-> file'.phoff + index' * HeaderWords, fail |-> FALSE]
      BY <1>f, <2>2, <3>3, Zenon
    <3>5. index' < First'
      BY <1>f, <1>t, <2>2, <2>3, <3>2 DEF Before
    <3>6. Before'
      BY <2>1, <2>3, <3>4, <3>5 DEF Before, Empty
    <3>. QED BY <2>2, <3>6 DEF LoadInv
  <2>4. CASE Behind
    <3>1. stream'.fail \/ stream'.pos = SegmentEnd + (index' - First) * HeaderWords
      <4>1. CASE Short
        <5>1. stream'.fail = TRUE
          BY <1>t, <2>1, <4>1
        <5>. QED BY <5>1
      <4>2. CASE ~Short
        <5>1. ~stream.fail /\ stream.pos = SegmentEnd + (index - First) * HeaderWords
          BY <2>4, <4>2 DEF Short, Behind
        <5>2. stream'.pos = stream.pos + HeaderWords
          BY <1>t, <2>1, <4>2
        <5> DEFINE j == index - First
        <5>3. /\ j \in Nat /\ (j + 1) * HeaderWords = j * HeaderWords + HeaderWords
              /\ j * HeaderWords \in Nat
          BY <1>t, <2>4 DEF Behind
        <5>4. index' - First = j + 1
          BY <1>t, <2>2
        <5>5. stream.pos = SegmentEnd + j * HeaderWords
          BY <5>1
        <5> HIDE DEF j
        <5>. QED BY <1>t, <5>2, <5>3, <5>4, <5>5
      <4>. QED BY <4>1, <4>2
    <3>2. First <= index'
      BY <1>t, <2>2, <2>4 DEF Behind
    <3>3. Behind'
      BY <1>f, <2>1, <2>2, <2>4, <3>1, <3>2 DEF Behind, OnlyFirst, Range
    <3>. QED BY <2>2, <3>3 DEF LoadInv
  <2>. QED BY <1>f, <2>2, <2>3, <2>4 DEF LoadInv
<1>3. CASE LoadSegment
  <2>1. PICK h \in Headers :
          /\ Iterate(h) /\ h.load
          /\ stream' = IF Short THEN [stream EXCEPT !.fail = TRUE]
                                ELSE [pos |-> h.offset + h.filesz,
                                      fail |-> /\ h.filesz > 0
                                               /\ h.offset + h.filesz > file.size]
          /\ phase' = IF ~Passes(h) THEN "threw" ELSE IF Inside(h) THEN phase ELSE "wild"
          /\ IF phase' = "headers"
               THEN /\ memory' = Fill(h, Data(h, Short))
                    /\ ranges' = IF h.exec THEN Append(ranges, Range(h)) ELSE ranges
               ELSE UNCHANGED <<memory, ranges>>
    BY <1>3 DEF LoadSegment
  <2>2. /\ phase = "headers" /\ index' = index + 1 /\ phdr' = h
        /\ index < file.phnum
    BY <2>1 DEF Iterate
  <2>3. CASE ~(Passes(h) /\ Inside(h))
    BY <2>1, <2>2, <2>3 DEF LoadInv
  <2>4. CASE Passes(h) /\ Inside(h) /\ Before
    <3>1. ~Short /\ h = file.says[HeaderPos(index + 1)] /\ memory = Empty /\ ranges = <<>>
      BY <1>f, <2>1, <2>4, ReadsNext DEF Before
    <3>2. index + 1 = First
      <4>1. index < First
        BY <2>4 DEF Before
      <4>2. ASSUME index + 1 < First PROVE FALSE
        <5>1. index + 1 \in 1 .. (First - 1)
          BY <1>t, <4>2
        <5>. QED BY <1>f, <2>1, <3>1, <5>1, FirstFacts
      <4>. QED BY <1>t, <4>1, <4>2
    <3>3. h = Segment
      BY <3>1, <3>2 DEF Segment
    <3>4. memory' = Image
      <4>1. Data(h, Short) = Data(h, FALSE)
        BY <3>1 DEF Data
      <4>2. memory' = Fill(Segment, Data(Segment, FALSE))
        BY <2>1, <2>2, <2>4, <3>3, <4>1
      <4>. QED BY <1>f, <3>1, <4>2, Filling
    <3>5. ranges' = IF Segment.exec THEN <<Range(Segment)>> ELSE <<>>
      BY <2>1, <2>2, <2>4, <3>1, <3>3
    <3>6. stream'.pos = SegmentEnd /\ stream'.fail = FALSE
      <4> DEFINE past == h.filesz > 0 /\ h.offset + h.filesz > file.size
      <4>1. past = FALSE
        BY <1>f, <1>t, <3>3 DEF Sound, SegmentEnd
      <4>2. stream' = [pos |-> h.offset + h.filesz, fail |-> past]
        BY <2>1, <3>1
      <4> HIDE DEF past
      <4>. QED BY <3>3, <4>1, <4>2 DEF SegmentEnd
    <3>7. Behind'
      BY <1>f, <1>t, <2>2, <2>4, <3>2, <3>3, <3>4, <3>5, <3>6 DEF Behind, OnlyFirst
    <3>. QED BY <2>1, <2>2, <2>4, <3>7 DEF LoadInv
  <2>5. CASE Passes(h) /\ Inside(h) /\ Behind
    <3>1. h = Segment /\ Short /\ RunsOut
      BY <1>f, <2>1, <2>2, <2>5, ReadsNone
    <3>2. memory' = Empty
      <4>1. memory \in {Image, Empty}
        BY <2>5 DEF Behind, OnlyFirst
      <4>2. memory' = Fill(Segment, Data(Segment, TRUE))
        <5>1. memory' = Fill(h, Data(h, Short))
          BY <2>1, <2>2, <2>5
        <5>2. Data(h, Short) = Data(Segment, TRUE)
          BY <3>1 DEF Data
        <5>. QED BY <3>1, <5>1, <5>2
      <4>. QED BY <1>f, <4>1, <4>2, Filling
    <3>3. stream'.fail = TRUE
      BY <1>t, <2>1, <3>1
    <3>4. First <= index'
      BY <1>t, <2>2, <2>5 DEF Behind
    <3>5. Behind'
      BY <1>f, <2>2, <3>1, <3>2, <3>3, <3>4 DEF Behind
    <3>. QED BY <2>1, <2>2, <2>5, <3>5 DEF LoadInv
  <2>. QED BY <1>f, <2>2, <2>3, <2>4, <2>5 DEF LoadInv
<1>4. CASE Finish
  <2>1. /\ phase = "headers" /\ index = file.phnum /\ phase' = "ready"
        /\ hart'.ranges = ranges /\ memory' = memory
    <3>1. hart' = [hart EXCEPT !.sp = StackBottom, !.halt = FALSE, !.ranges = ranges]
      BY <1>4 DEF Finish
    <3>2. hart'.ranges = ranges
      BY <3>1 DEF LoaderTypes, LoaderTypeOK
    <3>. QED BY <1>4, <3>2 DEF Finish
  <2>2. Behind
    BY <1>f, <1>t, <2>1 DEF LoadInv, Before
  <2>. QED BY <1>f, <2>1, <2>2 DEF LoadInv, Behind, OnlyFirst
<1>5. CASE UNCHANGED loading
  BY <1>5, <1>f DEF loading, LoadInv, Before, Behind, OnlyFirst
<1>. QED BY <1>1, <1>2, <1>3, <1>4, <1>5 DEF Next, LoaderNext, Fetch, vars
-------------------------------------------------------------------------------
(* The theorems about loading. *)

\* Everything the machine holds has its type, fetched words included.
THEOREM BootTypes == Spec => []TypeOK
<1> DEFINE FetchOK == /\ fetched.at \in Nat /\ fetched.word \in Word32
                      /\ fetched.instr.opcode \in Opcodes \cup {"unknown"}
<1>1. Init => FetchOK
  BY DEF Init, Word32, Unknown, Decoded
<1>2. LoaderTypes /\ FetchOK /\ [Next]_vars => FetchOK'
  <2> SUFFICES ASSUME LoaderTypes, FetchOK, [Next]_vars PROVE FetchOK'
    OBVIOUS
  <2>1. CASE Fetch
    <3>1. PICK a \in Address :
            fetched' = [at |-> a, word |-> memory[a], instr |-> decode(memory[a])]
      BY <2>1 DEF Fetch
    <3>2. a \in Nat /\ memory[a] \in Word32
      <4>1. Word = Word32
        BY BootAssumption
      <4>2. memory[a] \in Word
        BY DEF LoaderTypes, LoaderTypeOK
      <4>3. a \in Nat
        BY DEF Address
      <4>. QED BY <4>1, <4>2, <4>3
    <3>3. decode(memory[a]).opcode \in Opcodes \cup {"unknown"}
      BY DecodeShape DEF Unknown, Decoded
    <3>. QED BY <3>1, <3>2, <3>3
  <2>2. CASE UNCHANGED fetched
    BY <2>2
  <2>. QED BY <2>1, <2>2 DEF Next, vars
<1>3. LoaderTypes /\ FetchOK => TypeOK
  BY DEF LoaderTypes, TypeOK
<1>4. LoaderTypes /\ [Next]_vars => LoaderTypes'
  BY LoaderTypesNext
<1> HIDE DEF FetchOK
<1>. QED BY <1>1, <1>2, <1>3, <1>4, LoaderTypesInit, PTL DEF Spec

\* The invariant of the loop.
LEMMA SegmentLoads == Spec => [](LoaderTypes /\ LoadInv)
<1>1. LoaderTypes /\ LoadInv /\ [Next]_vars => LoaderTypes' /\ LoadInv'
  BY LoaderTypesNext, LoadNext
<1>. QED BY <1>1, LoaderTypesInit, LoadInit, PTL DEF Spec

\* Of every sound file, whatever headers follow the first PT_LOAD and whatever they
\* list, load_elf leaves that segment alone in memory, or nothing, provided that no
\* four bytes it takes for a p_type behind the segment happen to be PT_LOAD.
THEOREM FirstSegmentLoaded == Spec => []FirstSegmentOnly
<1>1. LoaderTypes /\ LoadInv => FirstSegmentOnly
  BY DEF LoadInv, FirstSegmentOnly, OnlyFirst
<1>. QED BY <1>1, SegmentLoads, PTL

\* What was assembled into that segment is what is decoded from memory.
LEMMA ImageDecoded ==
  ASSUME LoaderTypes, LoadInv, FetchedDecoded PROVE AssembledIsExecuted
<1> DEFINE k == Segment.offset + fetched.at - Segment.vaddr
<1> SUFFICES ASSUME phase = "ready", Sound, Quiet, ~RunsOut,
                    fetched.at \in Segment.vaddr .. (Segment.vaddr + Segment.filesz - 1),
                    fetched.word = memory[fetched.at], k \in DOMAIN file.asm
             PROVE  Faithful(file.asm[k], fetched.instr)
  BY DEF AssembledIsExecuted
<1>1. memory = Image /\ Inside(Segment)
  BY DEF LoadInv, OnlyFirst
<1>2. fetched.at \in Address
  <2>1. Segment.vaddr \in Nat /\ Segment.filesz \in Nat /\ MemWords \in Nat
    BY FirstFacts, LoaderAssumption
  <2>2. Segment.vaddr + Segment.filesz <= MemWords
    BY <1>1 DEF Inside
  <2>. QED BY <2>1, <2>2 DEF Address
<1>3. fetched.word = file.words[k]
  BY <1>1, <1>2 DEF Image
<1>4. file.words[k] = Encode(file.asm[k]) /\ Instruction(file.asm[k])
  BY BootAssumption DEF LoaderTypes
<1> HIDE DEF k
<1>. QED BY <1>3, <1>4, AssembledDecoded DEF FetchedDecoded

\* From the assembler to the hart, under the same proviso and if the file does not end
\* with the segment: every instruction of the first segment is executed as written.
THEOREM AssembledExecuted == Spec => []AssembledIsExecuted
<1>1. FetchedDecoded /\ [Next]_vars => FetchedDecoded'
  BY FetchedStep
<1>2. LoaderTypes /\ LoadInv /\ FetchedDecoded => AssembledIsExecuted
  BY ImageDecoded
<1>. QED BY <1>1, <1>2, SegmentLoads, FetchedInit, PTL DEF Spec
=============================================================================
