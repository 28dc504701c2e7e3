------------------------------ MODULE HartTypes ------------------------------
(***************************************************************************)
(* Type correctness of Hart, for every program, cache and JIT setting, and *)
(* the lemmas about its operators the other proofs rest on.                *)
(***************************************************************************)
EXTENDS HartInv, TLAPS

\* What HartAssumption says of the constants, in the vocabulary of Hart.
LEMMA Constants ==
  /\ PcSpace \in Nat \ {0} /\ CounterSpace \in Nat \ {0} /\ MaxCalls \in Nat
  /\ Programs \subseteq [Pcs -> Guest!Instr] /\ Entry \in Pcs
  /\ NSlots \in Nat \ {0} /\ JitBound \in Nat /\ UseJit \in BOOLEAN
  /\ MaxBB \in Nat \ {0} /\ MaxCycles \in Nat
  /\ ExecPcs \subseteq Pcs /\ Pcs \subseteq Nat
  BY HartAssumption DEF Guest!MachineConstants, Pcs, Guest!Pcs

\* Successors, relative targets and slots stay in their ranges; Hart's names are
\* the guest's.
LEMMA PcArith ==
  /\ \A p \in Int : Inc(p) \in Pcs /\ Guest!Inc(p) = Inc(p)
  /\ \A p \in Pcs : Inc(p) = IF p = PcSpace - 1 THEN 0 ELSE p + 1
  /\ \A p, i \in Int : Rel(p, i) \in Pcs /\ Guest!Rel(p, i) = Rel(p, i)
  /\ \A p \in Pcs : Slot(p) \in Slots
  BY Constants DEF Pcs, Inc, Rel, Slots, Slot, Guest!Pcs, Guest!Inc, Guest!Rel

\* Distinct instructions have distinct successors: the PC wraps, and never merges.
LEMMA IncInjective == ASSUME NEW p \in Pcs, NEW q \in Pcs, Inc(p) = Inc(q)
                      PROVE  p = q
<1>1. PcSpace \in Nat \ {0} /\ p \in 0 .. (PcSpace - 1) /\ q \in 0 .. (PcSpace - 1)
  BY Constants DEF Pcs, Guest!Pcs
<1>2. (p + 1) % PcSpace = (q + 1) % PcSpace
  BY DEF Inc, Guest!Inc
<1>3. \A x \in 0 .. (PcSpace - 1) :
         (x + 1) % PcSpace = IF x = PcSpace - 1 THEN 0 ELSE x + 1
  BY <1>1
<1>4. /\ (p + 1) % PcSpace = IF p = PcSpace - 1 THEN 0 ELSE p + 1
      /\ (q + 1) % PcSpace = IF q = PcSpace - 1 THEN 0 ELSE q + 1
  BY <1>1, <1>3
<1>5. (IF p = PcSpace - 1 THEN 0 ELSE p + 1) = (IF q = PcSpace - 1 THEN 0 ELSE q + 1)
  BY <1>2, <1>4
<1>. QED BY <1>1, <1>5

\* Counters wrap inside their range.
LEMMA CounterArith ==
  /\ \A m \in Int, n \in Int : Plus(m, n) \in Counter
  /\ \A n \in Counter : Guest!Tick(n) \in Counter
  /\ 0 \in Counter /\ Counter \subseteq Nat
  BY Constants DEF Counter, Plus, Guest!Tick

\* A counter is a number.
LEMMA CounterNat == \A n \in Counter : n \in Nat /\ n \in Int
  BY Constants DEF Counter

\* A program counter is a number.
LEMMA PcNat == \A p \in Pcs : p \in Nat /\ p \in Int
  BY Constants DEF Pcs, Guest!Pcs

\* A compiled function holds only executable PCs.
LEMMA LabelsExec == ASSUME NEW c \in Programs, NEW e \in Pcs
                    PROVE  Labels[c][e] \subseteq ExecPcs
<1>1. Labels[c][e] = Visited(e, [p \in Pcs |-> Explores(c, p)])
  BY DEF Labels
<1>2. \A f, s : Visited(f, s) \subseteq ExecPcs
  BY DEF Visited
<1>. QED BY <1>1, <1>2

\* The top of a non-empty sequence, and the sequence without it.
LEMMA StackOps ==
  ASSUME NEW S, NEW fs \in Seq(S), fs # <<>>
  PROVE  /\ Len(fs) \in Nat \ {0}
         /\ fs[Len(fs)] \in S
         /\ SubSeq(fs, 1, Len(fs) - 1) \in Seq(S)
         /\ Len(SubSeq(fs, 1, Len(fs) - 1)) = Len(fs) - 1
         /\ \A k \in 1 .. (Len(fs) - 1) :
               SubSeq(fs, 1, Len(fs) - 1)[k] = fs[k]
  OBVIOUS

\* A sequence with one element more.
LEMMA PushOps ==
  ASSUME NEW S, NEW fs \in Seq(S), NEW f \in S
  PROVE  /\ Append(fs, f) \in Seq(S)
         /\ Len(Append(fs, f)) = Len(fs) + 1
         /\ Append(fs, f)[Len(fs) + 1] = f
         /\ Append(fs, f) # <<>>
         /\ \A k \in 1 .. Len(fs) : Append(fs, f)[k] = fs[k]
  OBVIOUS

\* The constructors of blocks, and a lookup, make blocks.
LEMMA Blocks ==
  ASSUME paging \in BOOLEAN
  PROVE  /\ NoBlock \in Block
         /\ \A e \in Pcs, d \in BOOLEAN : FnBlock(e, d) \in Block
         /\ \A e \in Pcs, s \in Seq(Pcs) : BasicBlock(e, s) \in Block
         /\ \A b \in Block : LookedUp(b) \in Block
<1>1. 0 \in Pcs /\ <<>> \in Seq(Pcs)
  BY Constants DEF Pcs, Guest!Pcs
<1>2. \A r \in Nat : Bump(r) \in Nat
  BY DEF Bump
<1>3. ASSUME NEW b \in Block PROVE LookedUp(b) \in Block
  BY <1>2 DEF LookedUp, Block
<1>. QED BY <1>1, <1>3 DEF Block, NoBlock, FnBlock, BasicBlock

\* What a lookup may change of a block: its rate, and whether it is compiled.
LEMMA LookedUpSame ==
  ASSUME paging \in BOOLEAN, NEW b \in Block
  PROVE  /\ LookedUp(b).kind = b.kind
         /\ LookedUp(b).start = b.start
         /\ LookedUp(b).pcs = b.pcs
         /\ LookedUp(b).rate = Bump(b.rate)
         /\ LookedUp(b).jitted = (b.jitted \/ Compiles(b))
  BY DEF LookedUp, Block, Compiles

\* The activation of a block is a frame.
LEMMA EnterFrame ==
  ASSUME NEW b \in Block, instr_counter \in Counter
  PROVE  Enter(b) \in Frame
<1>1. <<>> \in Seq(Pcs) /\ Pcs \subseteq Nat /\ 0 \in Counter
  BY Constants, CounterArith
<1>. QED BY <1>1 DEF Enter, NewFrame, Frame, Block

\* Releasing code marks frames of compiled code in the slot, and only those.
LEMMA FreeFrames ==
  ASSUME NEW fs \in Seq(Frame), NEW s
  PROVE  /\ Free(fs, s) \in Seq(Frame)
         /\ Len(Free(fs, s)) = Len(fs)
         /\ \A k \in 1 .. Len(fs) :
              /\ Free(fs, s)[k] \in Frame
              /\ \/ Free(fs, s)[k] = fs[k]
                 \/ /\ Free(fs, s)[k] = [fs[k] EXCEPT !.freed = TRUE]
                    /\ fs[k].kind \in {"jitbb", "fn"} /\ Slot(fs[k].start) = s
<1>1. \A f \in Frame : [f EXCEPT !.freed = TRUE] \in Frame
  BY DEF Frame
<1>2. /\ DOMAIN Free(fs, s) = 1 .. Len(fs)
      /\ \A k \in 1 .. Len(fs) :
            Free(fs, s)[k] =
              IF fs[k].kind \in {"jitbb", "fn"} /\ Slot(fs[k].start) = s
                THEN [fs[k] EXCEPT !.freed = TRUE] ELSE fs[k]
  <2>1. DOMAIN fs = 1 .. Len(fs)
    OBVIOUS
  <2>. QED BY <2>1, Zenon DEF Free
<1>3. \A k \in 1 .. Len(fs) : fs[k] \in Frame /\ Free(fs, s)[k] \in Frame
  BY <1>1, <1>2
<1>4. Free(fs, s) \in [1 .. Len(fs) -> Frame]
  BY <1>2, <1>3 DEF Free
<1>. QED BY <1>2, <1>3, <1>4

\* Retiring an instruction keeps the guest's types and its code.
LEMMA GuestStep ==
  ASSUME Guest!GuestTypeOK, NEW i, NEW p \in Pcs, Guest!Execute(i, p)
  PROVE  Guest!GuestTypeOK' /\ code' = code
<1>1. Guest!Inc(pc) \in Pcs /\ Pcs = Guest!Pcs
  <2>1. Pcs = Guest!Pcs
    BY DEF Pcs
  <2>2. pc \in Pcs /\ pc \in Int
    BY <2>1, Constants DEF Guest!GuestTypeOK
  <2>. QED BY <2>1, <2>2, PcArith
<1>2. calls' \in Seq(Pcs)
  <2>1. CASE calls = <<>>
    BY <2>1, <1>1 DEF Guest!GuestTypeOK, Guest!Execute, Guest!CallsAfter
  <2>2. CASE calls # <<>>
    <3>1. SubSeq(calls, 1, Len(calls) - 1) \in Seq(Pcs)
      BY <2>2, <1>1, StackOps DEF Guest!GuestTypeOK
    <3>. QED BY <3>1, <1>1 DEF Guest!GuestTypeOK, Guest!Execute, Guest!CallsAfter
  <2>. QED BY <2>1, <2>2
<1>3. instret' \in Counter
  BY CounterArith DEF Guest!GuestTypeOK, Guest!Execute, Counter
<1>4. halt' \in BOOLEAN /\ paging' \in BOOLEAN /\ pc' \in Pcs /\ code' = code
  BY <1>1 DEF Guest!GuestTypeOK, Guest!Execute
<1>. QED BY <1>1, <1>2, <1>3, <1>4 DEF Guest!GuestTypeOK, Counter

\* The types, and where the program comes from.
TypeInv == TypeOK /\ code \in Programs

\* The host stack seen as its topmost frame on those below.
LEMMA StackTypes ==
  ASSUME frames \in Seq(Frame), frames # <<>>
  PROVE  /\ Depth \in Nat \ {0} /\ Top \in Frame /\ Below \in Seq(Frame)
         /\ Len(Below) = Depth - 1
         /\ \A k \in 1 .. (Depth - 1) : Below[k] = frames[k]
         /\ \A f \in Frame : /\ WithTop(f) \in Seq(Frame)
                             /\ Len(WithTop(f)) = Depth
                             /\ WithTop(f)[Depth] = f
                             /\ WithTop(f) # <<>>
                             /\ \A k \in 1 .. (Depth - 1) :
                                   WithTop(f)[k] = frames[k]
<1>1. /\ Depth \in Nat \ {0} /\ Top \in Frame /\ Below \in Seq(Frame)
      /\ Len(Below) = Depth - 1
      /\ \A k \in 1 .. (Depth - 1) : Below[k] = frames[k]
  BY StackOps DEF Depth, Top, Below
<1>2. ASSUME NEW f \in Frame
      PROVE  /\ WithTop(f) \in Seq(Frame)
             /\ Len(WithTop(f)) = Depth
             /\ WithTop(f)[Depth] = f
             /\ WithTop(f) # <<>>
             /\ \A k \in 1 .. (Depth - 1) : WithTop(f)[k] = frames[k]
  BY <1>1, PushOps DEF WithTop
<1>. QED BY <1>1, <1>2

\* A return keeps the types of the stack and of the cycle count.
LEMMA ReturnTypes ==
  ASSUME frames \in Seq(Frame), frames # <<>>, cycle \in Counter,
         NEW n \in Int, Return(n)
  PROVE  frames' \in Seq(Frame) /\ cycle' \in Counter
<1>1. Plus(cycle, n) \in Counter
  BY CounterArith
<1>. QED BY <1>1, StackTypes DEF Return

\* Leaving a compiled function keeps them too.
LEMMA LeaveTypes ==
  ASSUME frames \in Seq(Frame), frames # <<>>, cycle \in Counter,
         instr_counter' \in Counter, Leave
  PROVE  frames' \in Seq(Frame) /\ cycle' \in Counter
<1>1. Top.n \in Int /\ instr_counter' \in Int
  <2>1. Top \in Frame
    BY StackTypes
  <2>2. Top.n \in Counter
    BY <2>1 DEF Frame
  <2>. QED BY <2>2, CounterNat
<1>2. Plus(instr_counter', CounterSpace - Top.n) \in Int
  <2>1. CounterSpace - Top.n \in Int
    BY <1>1, Constants
  <2>2. Plus(instr_counter', CounterSpace - Top.n) \in Counter
    BY <1>1, <2>1, CounterArith
  <2>. QED BY <2>2, CounterNat
<1>. QED BY <1>2, ReturnTypes DEF Leave

\* So does going on to a label.
LEMMA GoToTypes ==
  ASSUME TypeInv, frames # <<>>, instr_counter' \in Counter,
         Top.kind = "fn", NEW p, GoTo(p)
  PROVE  frames' \in Seq(Frame) /\ cycle' \in Counter
<1>1. CASE IsLabel(p)
  <2>1. p \in Pcs
    <3>1. Top.start \in Pcs
      BY StackTypes DEF TypeInv, TypeOK, Frame
    <3>2. p \in ExecPcs
      BY <1>1, <3>1, LabelsExec DEF IsLabel, TypeInv
    <3>. QED BY <3>2, Constants
  <2>2. [Top EXCEPT !.at = p, !.st = "run"] \in Frame
    BY <2>1, StackTypes, Constants DEF TypeInv, TypeOK, Frame
  <2>. QED BY <1>1, <2>2, StackTypes DEF GoTo, TypeInv, TypeOK
<1>2. CASE ~IsLabel(p)
  BY <1>2, LeaveTypes DEF GoTo, TypeInv, TypeOK
<1>. QED BY <1>1, <1>2

\* Pushing the activation of a block keeps the type of the stack.
LEMMA CallTypes ==
  ASSUME NEW fs \in Seq(Frame), NEW b \in Block, instr_counter \in Counter,
         Call(fs, b)
  PROVE  frames' \in Seq(Frame)
  BY EnterFrame, PushOps DEF Call

\* A lookup keeps it.
LEMMA AfterLookupTypes ==
  ASSUME NEW fs \in Seq(Frame), NEW b
  PROVE  AfterLookup(fs, b) \in Seq(Frame)
  BY FreeFrames DEF AfterLookup

\* Machine::run, run_until_pc and Hart::step keep the types.
LEMMA StepTypes == TypeInv /\ Step => TypeInv'
<1> SUFFICES ASSUME TypeInv, Step PROVE TypeInv'
  OBVIOUS
<1>t. /\ frames \in Seq(Frame) /\ cache \in [Slots -> Block]
      /\ instr_counter \in Counter /\ cycle \in Counter /\ aborted \in BOOLEAN
      /\ pc \in Pcs /\ paging \in BOOLEAN /\ Guest!GuestTypeOK /\ code \in Programs
  BY DEF TypeInv, TypeOK, Guest!GuestTypeOK, Pcs
<1>s. Slot(pc) \in Slots
  BY <1>t, PcArith
<1>g. UNCHANGED guest => Guest!GuestTypeOK' /\ code' \in Programs
  BY <1>t DEF guest, Guest!GuestTypeOK
<1>1. CASE StepHit
  <2>1. cache[Slot(pc)] \in Block /\ LookedUp(cache[Slot(pc)]) \in Block
    BY <1>t, <1>s, Blocks
  <2>2. frames' \in Seq(Frame)
    BY <1>1, <1>t, <2>1, AfterLookupTypes, CallTypes DEF StepHit
  <2>3. cache' \in [Slots -> Block]
    BY <1>1, <1>t, <2>1 DEF StepHit
  <2>. QED BY <1>1, <1>t, <1>g, <2>2, <2>3 DEF StepHit, TypeInv, TypeOK
<1>2. CASE StepCompileFunction
  <2>1. FnBlock(pc, ~paging) \in Block /\ LookedUp(FnBlock(pc, ~paging)) \in Block
    BY <1>t, Blocks
  <2>2. frames' \in Seq(Frame)
    BY <1>2, <1>t, <2>1, CallTypes DEF StepCompileFunction
  <2>3. cache' \in [Slots -> Block]
    BY <1>2, <1>t, <2>1 DEF StepCompileFunction
  <2>. QED BY <1>2, <1>t, <1>g, <2>2, <2>3 DEF StepCompileFunction, TypeInv, TypeOK
<1>3. CASE StepCollect
  <2>1. NewFrame("collect", pc, <<>>, 0) \in Frame
    BY <1>t, CounterArith DEF NewFrame, Frame
  <2>2. frames' \in Seq(Frame)
    BY <1>3, <1>t, <2>1, PushOps DEF StepCollect
  <2>. QED BY <1>3, <1>t, <1>g, <2>2 DEF StepCollect, TypeInv, TypeOK
<1>4. CASE UntilReturns
  <2>1. frames' \in Seq(Frame)
    BY <1>4, <1>t, StackTypes DEF UntilReturns, Running
  <2>. QED BY <1>4, <1>t, <1>g, <2>1 DEF UntilReturns, TypeInv, TypeOK
<1>. QED BY <1>1, <1>2, <1>3, <1>4 DEF Step

\* Interpreting keeps the types.
LEMMA InterpretTypes == TypeInv /\ Interpret => TypeInv'
<1> SUFFICES ASSUME TypeInv, Interpret PROVE TypeInv'
  OBVIOUS
<1>t. /\ frames \in Seq(Frame) /\ cache \in [Slots -> Block]
      /\ instr_counter \in Counter /\ cycle \in Counter /\ aborted \in BOOLEAN
      /\ pc \in Pcs /\ paging \in BOOLEAN /\ Guest!GuestTypeOK /\ code \in Programs
  BY DEF TypeInv, TypeOK, Guest!GuestTypeOK, Pcs
<1>g. ASSUME NEW i, NEW p \in Pcs, Guest!Execute(i, p)
      PROVE  Guest!GuestTypeOK' /\ code' \in Programs
  BY <1>t, <1>g, GuestStep
<1>1. CASE CollectInstr
  <2>1. frames # <<>> /\ Top \in Frame /\ Top.kind = "collect"
    BY <1>1, <1>t, StackTypes DEF CollectInstr, Running
  <2>2. Top.pcs \in Seq(Pcs) /\ Append(Top.pcs, pc) \in Seq(Pcs) /\ Top.start \in Pcs
    BY <2>1, <1>t DEF Frame
  <2> DEFINE executed == Len(Top.pcs) + 1
  <2>3. executed \in Int /\ Plus(instr_counter, executed) \in Counter
    <3>1. executed \in Int /\ instr_counter \in Int
      BY <2>2, <1>t, CounterNat
    <3>. QED BY <3>1, CounterArith
  <2>4. PICK p \in Pcs :
          /\ Guest!Execute(code[pc], p)
          /\ \E collected \in Seq(Pcs) :
               \/ /\ Install(Top.start, collected)
                  /\ Return(executed)
                  /\ instr_counter' = Plus(instr_counter, executed)
               \/ /\ frames' = WithTop([Top EXCEPT !.pcs = collected])
                  /\ UNCHANGED <<cache, instr_counter, cycle>>
    BY <1>1, <2>2 DEF CollectInstr
  <2>5. PICK collected \in Seq(Pcs) :
               \/ /\ Install(Top.start, collected)
                  /\ Return(executed)
                  /\ instr_counter' = Plus(instr_counter, executed)
               \/ /\ frames' = WithTop([Top EXCEPT !.pcs = collected])
                  /\ UNCHANGED <<cache, instr_counter, cycle>>
    BY <2>4
  <2>6. CASE /\ Install(Top.start, collected)
             /\ Return(executed)
             /\ instr_counter' = Plus(instr_counter, executed)
    <3>1. BasicBlock(Top.start, collected) \in Block
      BY <1>t, <2>2, Blocks
    <3>2. cache' \in [Slots -> Block]
      BY <2>6, <3>1, <1>t DEF Install
    <3>3. frames' \in Seq(Frame) /\ cycle' \in Counter
      BY <2>6, <2>1, <2>3, <1>t, ReturnTypes
    <3>. QED BY <1>1, <2>3, <2>4, <2>6, <3>2, <3>3, <1>t, <1>g
             DEF CollectInstr, TypeInv, TypeOK
  <2>7. CASE /\ frames' = WithTop([Top EXCEPT !.pcs = collected])
             /\ UNCHANGED <<cache, instr_counter, cycle>>
    <3>1. [Top EXCEPT !.pcs = collected] \in Frame
      BY <2>1 DEF Frame
    <3>2. frames' \in Seq(Frame)
      BY <2>7, <3>1, <2>1, <1>t, StackTypes
    <3>. QED BY <1>1, <2>4, <2>7, <3>2, <1>t, <1>g
             DEF CollectInstr, TypeInv, TypeOK
  <2>. QED BY <2>5, <2>6, <2>7
<1>2. CASE CachedInstr
  <2>1. frames # <<>> /\ Top \in Frame /\ Top.kind = "cached"
    BY <1>2, <1>t, StackTypes DEF CachedInstr, Running
  <2> DEFINE n == Plus(Top.n, 1)
  <2>2. n \in Counter /\ n \in Int /\ Top.at + 1 \in Nat /\ Len(Top.pcs) + 1 \in Nat
    <3>1. Top.n \in Counter /\ Top.at \in Nat /\ Top.pcs \in Seq(Pcs)
      BY <2>1 DEF Frame
    <3>2. Top.n \in Int
      BY <3>1, CounterNat
    <3>3. n \in Counter
      BY <3>2, CounterArith
    <3>4. n \in Int
      BY <3>3, CounterNat
    <3>. QED BY <3>1, <3>3, <3>4
  <2>3. PICK p \in Pcs :
          /\ Guest!Execute(Pending(Top), p)
          /\ \E next \in Nat :
               \/ /\ frames' = WithTop([Top EXCEPT !.at = next, !.n = n])
                  /\ UNCHANGED <<instr_counter, cycle>>
               \/ /\ Return(n)
                  /\ instr_counter' = Plus(instr_counter, n)
    <3>1. PICK p \in Pcs :
            /\ Guest!Execute(Pending(Top), p)
            /\ LET past == Len(Top.pcs) + 1
                   next == CASE halt' -> past
                             [] ~halt' /\ p = Inc(pc) -> Top.at + 1
                             [] ~halt' /\ p # Inc(pc) /\ p = Top.start -> 1
                             [] OTHER -> past
               IN  IF next < past
                     THEN /\ frames' = WithTop([Top EXCEPT !.at = next, !.n = n])
                          /\ UNCHANGED <<instr_counter, cycle>>
                     ELSE /\ Return(n)
                          /\ instr_counter' = Plus(instr_counter, n)
      BY <1>2 DEF CachedInstr
    <3> DEFINE past == Len(Top.pcs) + 1
               next == CASE halt' -> past
                         [] ~halt' /\ p = Inc(pc) -> Top.at + 1
                         [] ~halt' /\ p # Inc(pc) /\ p = Top.start -> 1
                         [] OTHER -> past
    <3>2. next \in Nat
      BY <2>2
    <3>3. \/ /\ frames' = WithTop([Top EXCEPT !.at = next, !.n = n])
             /\ UNCHANGED <<instr_counter, cycle>>
          \/ /\ Return(n)
             /\ instr_counter' = Plus(instr_counter, n)
      BY <3>1
    <3> HIDE DEF next, n
    <3>. QED BY <3>1, <3>2, <3>3
  <2>4. CASE /\ Return(n)
             /\ instr_counter' = Plus(instr_counter, n)
    <3>1. frames' \in Seq(Frame) /\ cycle' \in Counter
      BY <2>4, <2>1, <2>2, <1>t, ReturnTypes
    <3>2. instr_counter' \in Counter
      BY <2>4, <2>2, <1>t, CounterArith
    <3>. QED BY <1>2, <2>3, <3>1, <3>2, <1>t, <1>g DEF CachedInstr, TypeInv, TypeOK
  <2>5. ASSUME NEW next \in Nat,
               frames' = WithTop([Top EXCEPT !.at = next, !.n = n]),
               UNCHANGED <<instr_counter, cycle>>
        PROVE  TypeInv'
    <3>1. [Top EXCEPT !.at = next, !.n = n] \in Frame
      BY <2>1, <2>2 DEF Frame
    <3>2. frames' \in Seq(Frame)
      BY <2>5, <3>1, <2>1, <1>t, StackTypes
    <3>. QED BY <1>2, <2>3, <2>5, <3>2, <1>t, <1>g DEF CachedInstr, TypeInv, TypeOK
  <2>. QED BY <2>3, <2>4, <2>5
<1>3. CASE InterpretUnknown
  BY <1>3, <1>t DEF InterpretUnknown, guest, TypeInv, TypeOK, Guest!GuestTypeOK
<1>. QED BY <1>1, <1>2, <1>3 DEF Interpret

\* Compiled code keeps the types.
LEMMA CompiledTypes == TypeInv /\ RunCompiled => TypeInv'
<1> SUFFICES ASSUME TypeInv, RunCompiled PROVE TypeInv'
  OBVIOUS
<1>t. /\ frames \in Seq(Frame) /\ cache \in [Slots -> Block]
      /\ instr_counter \in Counter /\ cycle \in Counter /\ aborted \in BOOLEAN
      /\ pc \in Pcs /\ paging \in BOOLEAN /\ Guest!GuestTypeOK /\ code \in Programs
  BY DEF TypeInv, TypeOK, Guest!GuestTypeOK, Pcs
<1>g. ASSUME NEW i, NEW p \in Pcs, Guest!Execute(i, p)
      PROVE  Guest!GuestTypeOK' /\ code' \in Programs
  BY <1>t, <1>g, GuestStep
<1>c. Plus(instr_counter, 1) \in Counter
  <2>1. instr_counter \in Int
    BY <1>t, CounterNat
  <2>. QED BY <2>1, CounterArith
<1>1. CASE BlockInstr
  <2>1. frames # <<>> /\ Top \in Frame /\ Top.kind = "jitbb"
    BY <1>1, <1>t, StackTypes DEF BlockInstr, Running
  <2>2. [Top EXCEPT !.at = @ + 1] \in Frame /\ Len(Top.pcs) \in Int
    BY <2>1 DEF Frame
  <2>3. frames' \in Seq(Frame) /\ cycle' \in Counter
    <3>1. CASE /\ frames' = WithTop([Top EXCEPT !.at = @ + 1])
               /\ UNCHANGED cycle
      BY <3>1, <2>1, <2>2, <1>t, StackTypes
    <3>2. CASE Return(Len(Top.pcs))
      BY <3>2, <2>1, <2>2, <1>t, ReturnTypes
    <3>. QED BY <1>1, <3>1, <3>2 DEF BlockInstr
  <2>. QED BY <1>1, <2>3, <1>t, <1>g DEF BlockInstr, TypeInv, TypeOK
<1>2. CASE FunctionInstr
  <2>1. frames # <<>> /\ Top.kind = "fn" /\ instr_counter' \in Counter
    BY <1>2, <1>c DEF FunctionInstr, Running
  <2>2. (\E p : GoTo(p)) \/ Leave
    BY <1>2 DEF FunctionInstr, Dispatch
  <2>3. frames' \in Seq(Frame) /\ cycle' \in Counter
    BY <2>1, <2>2, <1>t, GoToTypes, LeaveTypes
  <2>. QED BY <1>2, <2>1, <2>3, <1>t, <1>g DEF FunctionInstr, TypeInv, TypeOK
<1>3. CASE FunctionCall
  <2>1. frames # <<>> /\ Top \in Frame /\ Top.kind = "fn"
    BY <1>3, <1>t, StackTypes DEF FunctionCall, Running
  <2>2. [Top EXCEPT !.st = "call"] \in Frame
    BY <2>1 DEF Frame
  <2>3. frames' \in Seq(Frame)
    BY <1>3, <2>1, <2>2, <1>t, StackTypes DEF FunctionCall
  <2>. QED BY <1>3, <2>3, <1>t, <1>c, <1>g DEF FunctionCall, TypeInv, TypeOK
<1>4. CASE FunctionUnknown
  <2>1. frames # <<>> /\ Top.kind = "fn" /\ instr_counter' \in Counter
    BY <1>4, <1>c DEF FunctionUnknown, Running
  <2>2. frames' \in Seq(Frame) /\ cycle' \in Counter
    BY <1>4, <2>1, <1>t, GoToTypes DEF FunctionUnknown
  <2>. QED BY <1>4, <2>1, <2>2, <1>t
           DEF FunctionUnknown, guest, TypeInv, TypeOK, Guest!GuestTypeOK
<1>. QED BY <1>1, <1>2, <1>3, <1>4 DEF RunCompiled

\* What a frame at the trampoline may assume, whatever its target.
LEMMA TrampolineFacts ==
  ASSUME TypeInv, AtTrampoline
  PROVE  /\ frames # <<>> /\ Top \in Frame /\ Top.kind = "fn" /\ Top.at \in Pcs
         /\ Waiting \in Seq(Frame)
         /\ CallTarget \in Pcs /\ Slot(CallTarget) \in Slots
         /\ Callee \in Block
<1>1. frames # <<>> /\ Top \in Frame
  BY StackTypes DEF AtTrampoline, TypeInv, TypeOK
<1>2. Top.kind = "fn" /\ Top.at \in Pcs
  BY <1>1 DEF AtTrampoline, Frame
<1>3. [Top EXCEPT !.st = "wait"] \in Frame
  BY <1>1, <1>2 DEF Frame
<1>4. Waiting \in Seq(Frame)
  BY <1>1, <1>3, StackTypes DEF Waiting, TypeInv, TypeOK
<1>5. CallTarget \in Pcs
  <2>1. code[Top.at].imm \in Int /\ pc \in Pcs
    BY <1>2 DEF TypeInv, TypeOK, Guest!GuestTypeOK, Guest!Instr, Pcs
  <2>2. Top.at \in Int
    BY <1>2, PcNat
  <2>. QED BY <2>1, <2>2, PcArith DEF CallTarget
<1>6. Slot(CallTarget) \in Slots
  BY <1>5, PcArith
<1>7. Callee \in Block
  BY <1>6 DEF Callee, TypeInv, TypeOK
<1>. QED BY <1>1, <1>2, <1>4, <1>5, <1>6, <1>7

\* Running a callee keeps the types of the cache and of the stack.
LEMMA RunCalleeTypes ==
  ASSUME TypeInv, NEW fs \in Seq(Frame), NEW b \in Block, RunCallee(fs, b)
  PROVE  cache' \in [Slots -> Block] /\ frames' \in Seq(Frame)
<1>1. LookedUp(b) \in Block
  BY Blocks DEF TypeInv, TypeOK, Guest!GuestTypeOK
<1>2. AfterLookup(fs, b) \in Seq(Frame)
  BY AfterLookupTypes
<1>3. frames' \in Seq(Frame)
  BY <1>1, <1>2, CallTypes DEF RunCallee, TypeInv, TypeOK
<1>4. cache' \in [Slots -> Block]
  BY <1>1 DEF RunCallee, TypeInv, TypeOK
<1>. QED BY <1>3, <1>4

\* Calls of compiled functions and returns to them keep the types.
LEMMA TrampolineTypes == TypeInv /\ Trampoline => TypeInv'
<1> SUFFICES ASSUME TypeInv, Trampoline PROVE TypeInv'
  OBVIOUS
<1>t. /\ frames \in Seq(Frame) /\ cache \in [Slots -> Block]
      /\ instr_counter \in Counter /\ cycle \in Counter /\ aborted \in BOOLEAN
      /\ pc \in Pcs /\ paging \in BOOLEAN /\ Guest!GuestTypeOK /\ code \in Programs
  BY DEF TypeInv, TypeOK, Guest!GuestTypeOK, Pcs
<1>g. UNCHANGED guest => Guest!GuestTypeOK' /\ code' \in Programs
  BY <1>t DEF guest, Guest!GuestTypeOK
<1>1. CASE CallCompiled
  <2>1. Callee \in Block /\ LookedUp(Callee) \in Block /\ Waiting \in Seq(Frame)
    BY <1>1, <1>t, TrampolineFacts, Blocks DEF CallCompiled
  <2>2. AfterLookup(Waiting, Callee) \in Seq(Frame)
    BY <2>1, AfterLookupTypes
  <2>3. cache' \in [Slots -> Block] /\ frames' \in Seq(Frame)
    BY <1>1, <2>1, <2>2, RunCalleeTypes DEF CallCompiled
  <2>. QED BY <1>1, <2>3, <1>t, <1>g DEF CallCompiled, TypeInv, TypeOK
<1>2. CASE CallCompileFunction
  <2>1. FnBlock(CallTarget, ~paging) \in Block /\ Waiting \in Seq(Frame)
    BY <1>2, <1>t, TrampolineFacts, Blocks DEF CallCompileFunction
  <2>2. cache' \in [Slots -> Block] /\ frames' \in Seq(Frame)
    BY <1>2, <2>1, RunCalleeTypes DEF CallCompileFunction
  <2>. QED BY <1>2, <2>2, <1>t, <1>g DEF CallCompileFunction, TypeInv, TypeOK
<1>3. CASE CallInterpreted
  <2>1. /\ Waiting \in Seq(Frame) /\ Top.at \in Pcs
        /\ Slot(CallTarget) \in Slots /\ LookedUp(cache[Slot(CallTarget)]) \in Block
    BY <1>3, <1>t, TrampolineFacts, Blocks DEF CallInterpreted, Callee
  <2>2. Inc(Top.at) \in Nat
    BY <2>1, PcNat, PcArith
  <2>3. NewFrame("until", pc, <<>>, Inc(Top.at)) \in Frame
    BY <1>t, <2>2, CounterArith DEF NewFrame, Frame
  <2>4. frames' \in Seq(Frame)
    BY <1>3, <2>1, <2>3, PushOps DEF CallInterpreted
  <2>5. cache' \in [Slots -> Block]
    BY <1>3, <1>t, <2>1 DEF CallInterpreted
  <2>. QED BY <1>3, <2>4, <2>5, <1>t, <1>g DEF CallInterpreted, TypeInv, TypeOK
<1>4. CASE PostCall
  <2>1. frames # <<>> /\ Top \in Frame /\ instr_counter' \in Counter
    BY <1>4, <1>t, StackTypes DEF PostCall, AtPostCall
  <2>2. Top.kind = "fn"
    BY <1>4, <2>1 DEF PostCall, AtPostCall, Frame
  <2>3. frames' \in Seq(Frame) /\ cycle' \in Counter
    BY <1>4, <2>1, <2>2, <1>t, GoToTypes, LeaveTypes DEF PostCall
  <2>. QED BY <1>4, <2>3, <1>t, <1>g DEF PostCall, TypeInv, TypeOK
<1>5. CASE ReturnToFreedCode
  BY <1>5, <1>t, <1>g DEF ReturnToFreedCode, TypeInv, TypeOK
<1>. QED BY <1>1, <1>2, <1>3, <1>4, <1>5 DEF Trampoline

\* A loaded program has the types.
LEMMA TypesInit == Init => TypeInv
<1> SUFFICES ASSUME Init PROVE TypeInv
  OBVIOUS
<1>1. Guest!GuestTypeOK /\ code \in Programs
  <2>1. 0 \in 0 .. (CounterSpace - 1) /\ Pcs = Guest!Pcs
    BY Constants DEF Pcs
  <2>2. code \in Programs /\ code \in [Pcs -> Guest!Instr]
    BY Constants DEF Init, Guest!Init
  <2>3. pc \in Pcs /\ halt \in BOOLEAN /\ paging \in BOOLEAN
    BY Constants DEF Init, Guest!Init
  <2>4. calls \in Seq(Pcs)
    <3>1. calls = <<>>
      BY DEF Init, Guest!Init
    <3>. QED BY <3>1
  <2>5. instret \in 0 .. (CounterSpace - 1)
    <3>1. instret = 0
      BY DEF Init, Guest!Init
    <3>. QED BY <3>1, <2>1
  <2>. QED BY <2>1, <2>2, <2>3, <2>4, <2>5 DEF Guest!GuestTypeOK
<1>2. cache \in [Slots -> Block]
  <2>1. PICK S \in Survivors(Predecoded(code)) :
          cache = [s \in Slots |->
                     IF \E e \in S : Slot(e) = s
                       THEN FnBlock(CHOOSE e \in S : Slot(e) = s, TRUE)
                       ELSE NoBlock]
    BY DEF Init
  <2>2. S \subseteq Pcs
    <3>1. S \subseteq Predecoded(code)
      BY DEF Survivors
    <3>2. Predecoded(code) \subseteq ExecPcs
      BY DEF Predecoded, Entries, Visited
    <3>. QED BY <3>1, <3>2, Constants
  <2>3. NoBlock \in Block /\ \A e \in Pcs : FnBlock(e, TRUE) \in Block
    BY <1>1, Blocks DEF Guest!GuestTypeOK
  <2>. QED BY <2>1, <2>2, <2>3
<1>3. frames \in Seq(Frame)
  <2>1. frames = <<>>
    BY DEF Init
  <2>. QED BY <2>1
<1>4. instr_counter \in Counter /\ cycle \in Counter
  <2>1. instr_counter = 0 /\ cycle = 0
    BY DEF Init
  <2>. QED BY <2>1, CounterArith
<1>. QED BY <1>1, <1>2, <1>3, <1>4 DEF Init, TypeInv, TypeOK

\* Every step keeps the types.
LEMMA TypesNext == TypeInv /\ [Next]_vars => TypeInv'
<1>1. TypeInv /\ UNCHANGED vars => TypeInv'
  BY DEF vars, TypeInv, TypeOK, Guest!GuestTypeOK
<1>. QED BY <1>1, StepTypes, InterpretTypes, CompiledTypes, TrampolineTypes
         DEF Next

\* Types are preserved by every step, for every value of the constants.
THEOREM TypeCorrect == SafeSpec => []TypeOK
<1>1. TypeInv /\ [Next]_vars => TypeInv'
  BY TypesNext
<1>2. TypeInv => TypeOK
  BY DEF TypeInv
<1>. QED BY <1>1, <1>2, TypesInit, PTL DEF SafeSpec
===============================================================================
