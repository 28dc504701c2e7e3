-------------------------------- MODULE GuestIsa --------------------------------
(***************************************************************************)
(* What a hart with a block cache promises a guest that may write its own  *)
(* code: a sequential machine whose instruction fetch is not kept coherent *)
(* with its stores.  It executes, at pc, a word that a fetch from pc would *)
(* have given now or at some earlier time, and no other (RISC-V asks no    *)
(* more before a FENCE.I, which this simulator does not decode).           *)
(*                                                                         *)
(* Addresses, words and register values are numbers below Space; addresses *)
(* count words.  `paging' stands for satp.mode = 8.                        *)
(***************************************************************************)
EXTENDS Integers

CONSTANTS Space,    \* number of values, addresses and program counters
          NRegs,    \* registers x0, x1, ...
          Decode,   \* what each word decodes to
          PageMap,  \* the translation while paging is on: an address or Fault
          Fault,    \* translate_generic found a page fault
          Boots,    \* what memory may hold after loading
          Entry,    \* where the program starts
          Fill      \* initial_reg_val

Values == 0 .. (Space - 1)
Regs == 0 .. (NRegs - 1)

Ops == {"add", "addi", "lw", "sw", "beq", "jal", "csrw", "ecall", "unknown"}

Instr == [op : Ops, rd : Regs, rs1 : Regs, rs2 : Regs, imm : Values]

\* What a module that instantiates this one assumes of these constants.
GuestConstants ==
  /\ Space \in Nat \ {0} /\ NRegs \in Nat \ {0}
  /\ Decode \in [Values -> Instr]
  /\ Fault \notin Values
  /\ PageMap \in [Values -> Values \cup {Fault}]
  /\ Boots \subseteq [Values -> Values]
  /\ Entry \in Values /\ Fill \in Values

VARIABLES mem,     \* physical memory
          regs,    \* regs_
          paging,  \* whether satp selects Sv39
          pc,      \* pc_
          end,     \* "no", or how the program ended: "ecall", "abort"
          seen     \* the words that fetches from each address would have given

guest == <<mem, regs, paging, pc, end, seen>>

Wrap(n) == n % Space
Inc(p) == Wrap(p + 1)

get_reg(r) == IF r = 0 THEN 0 ELSE regs[r]
Set(r, v) == IF r = 0 THEN regs ELSE [regs EXCEPT ![r] = v]

Translate(on, va) == IF on THEN PageMap[va] ELSE va

\* What a fetch gives.
Words(m, on, va) == IF Translate(on, va) = Fault THEN {} ELSE {m[Translate(on, va)]}

Seen(old, m, on) == [va \in Values |-> old[va] \cup Words(m, on, va)]

\* The address a load or a store goes to.
Target(i) == Translate(paging, Wrap(get_reg(i.rs1) + i.imm))

\* Mapping faults and words that are no instruction abort the simulator; a CSR other
\* than satp (here: 0) throws.
Aborts(i) ==
  \/ i.op \in {"lw", "sw"} /\ Target(i) = Fault
  \/ i.op = "csrw" /\ i.imm # 0
  \/ i.op = "unknown"

\* Where instruction i goes.
Goes(i) ==
  IF i.op = "jal" \/ (i.op = "beq" /\ get_reg(i.rs1) = get_reg(i.rs2))
    THEN Wrap(pc + i.imm) ELSE Inc(pc)

\* What instruction i leaves in its destination.  (An ECALL names x0.)
Result(i) ==
  CASE i.op = "add" -> Set(i.rd, Wrap(get_reg(i.rs1) + get_reg(i.rs2)))
    [] i.op = "addi" -> Set(i.rd, Wrap(get_reg(i.rs1) + i.imm))
    [] i.op = "lw" -> Set(i.rd, mem[Target(i)])
    [] i.op = "jal" -> Set(i.rd, Inc(pc))
    [] i.op = "ecall" -> Set(i.rd, pc)
    [] OTHER -> regs

Execute(i) ==
  /\ ~Aborts(i)
  /\ mem' = IF i.op = "sw" THEN [mem EXCEPT ![Target(i)] = get_reg(i.rs2)] ELSE mem
  /\ regs' = Result(i)
  /\ paging' = IF i.op = "csrw" THEN get_reg(i.rs1) # 0 ELSE paging
  /\ pc' = Goes(i)
  /\ end' = IF i.op = "ecall" THEN "ecall" ELSE "no"
  /\ seen' = Seen(seen, mem', paging')

Abort ==
  /\ end' = "abort"
  /\ UNCHANGED <<mem, regs, paging, pc, seen>>

Init ==
  /\ mem \in Boots
  /\ regs = [r \in Regs |-> Fill]
  /\ paging = FALSE
  /\ pc = Entry
  /\ end = "no"
  /\ seen = Seen([va \in Values |-> {}], mem, FALSE)

Retire == end = "no" /\ \E w \in seen[pc] : Execute(Decode[w])

\* An abort has its reason: no mapping to fetch through, or the instruction.
Fails ==
  /\ end = "no"
  /\ Translate(paging, pc) = Fault \/ \E w \in seen[pc] : Aborts(Decode[w])
  /\ Abort

Next == Retire \/ Fails

Spec == Init /\ [][Next]_guest
================================================================================
