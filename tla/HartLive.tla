------------------------------- MODULE HartLive -------------------------------
(***************************************************************************)
(* Which compiled code is released while it is on the host stack, for      *)
(* every program, cache size and jit_bound: LiveInv is inductive.          *)
(***************************************************************************)
EXTENDS HartTypes

\* The program stays, and with it which functions are recompiled.
LEMMA SameCode ==
  ASSUME code' = code
  PROVE  /\ \A e : Recompiled(e)' <=> Recompiled(e)
         /\ \A f : Alive(f, cache)' <=> Alive(f, cache')
<1>1. ASSUME NEW e PROVE Recompiled(e)' <=> Recompiled(e)
  BY DEF Recompiled, HasJumpOrBranch, PcsOf, FnBlock
<1>. QED BY <1>1 DEF Alive

\* A function that is compiled at a lookup other than its first is one of those.
LEMMA CompiledLater ==
  ASSUME NEW b \in Block, b.kind = "fn", b.rate >= 1, Compiles(b)
  PROVE  Recompiled(b.start)
<1>1. JitBound > 1
  BY Constants DEF Compiles, Bump, Block
<1>2. HasJumpOrBranch(b) <=> HasJumpOrBranch(FnBlock(b.start, FALSE))
  BY DEF HasJumpOrBranch, PcsOf, FnBlock
<1>. QED BY <1>1, <1>2 DEF Compiles, Recompiled

\* A lookup keeps what waits on the stack alive, or marks it released.
LEMMA LookupAlive ==
  ASSUME paging \in BOOLEAN,
         NEW c \in [Slots -> Block], SlotsOwn(c),
         NEW s \in Slots, c[s].kind # "none",
         NEW fs \in Seq(Frame), AllAlive(fs, c),
         NEW d, d = [c EXCEPT ![s] = LookedUp(c[s])]
  PROVE  /\ d \in [Slots -> Block] /\ SlotsOwn(d)
         /\ AllAlive(AfterLookup(fs, c[s]), d)
         /\ AfterLookup(fs, c[s]) \in Seq(Frame)
         /\ d[s].rate >= 1
<1> DEFINE b == c[s]
           l == LookedUp(b)
<1>1. b \in Block /\ b.rate \in Nat /\ Slot(b.start) = s
  BY DEF SlotsOwn, Block
<1>2. /\ l \in Block /\ l.kind = b.kind /\ l.start = b.start
      /\ l.rate >= 1 /\ (b.jitted => l.jitted)
  <2>1. Bump(b.rate) >= 1
    BY <1>1, Constants DEF Bump
  <2>. QED BY <1>1, <2>1, Blocks, LookedUpSame
<1> HIDE DEF l
<1>3. /\ d \in [Slots -> Block] /\ d[s] = l
      /\ \A t \in Slots : t # s => d[t] = c[t]
  BY <1>2 DEF l
<1>4. SlotsOwn(d)
  BY <1>1, <1>2, <1>3 DEF SlotsOwn
<1>5. ASSUME NEW f \in Frame, Alive(f, c) PROVE Alive(f, d)
  <2>1. Slot(f.start) \in Slots
    BY PcArith DEF Frame
  <2>2. CASE Slot(f.start) = s
    BY <1>2, <1>3, <1>5, <2>2 DEF Alive
  <2>3. CASE Slot(f.start) # s
    BY <1>3, <1>5, <2>1, <2>3 DEF Alive
  <2>. QED BY <2>2, <2>3
<1>6. ASSUME NEW f \in Frame, Alive(f, c), f.kind = "fn", Slot(f.start) = s, Compiles(b)
      PROVE  f.kind = "fn" /\ Recompiled(f.start)
  <2>1. b.kind = "fn" /\ b.start = f.start /\ b.rate >= 1
    BY <1>6 DEF Alive
  <2>. QED BY <1>1, <1>6, <2>1, CompiledLater
<1> HIDE DEF b
<1>7. ASSUME NEW k \in 1 .. Len(fs)
      PROVE  /\ Alive(AfterLookup(fs, b)[k], d)
             /\ AfterLookup(fs, b)[k].kind \in {"fn", "until"}
  <2> DEFINE f == fs[k]
             g == AfterLookup(fs, b)[k]
  <2>1. f \in Frame /\ Alive(f, c) /\ f.kind \in {"fn", "until"}
    BY DEF AllAlive
  <2>2. Alive(f, d)
    BY <1>5, <2>1
  <2>3. \/ g = f
        \/ /\ g = [f EXCEPT !.freed = TRUE] /\ Compiles(b)
           /\ f.kind \in {"jitbb", "fn"} /\ Slot(f.start) = s
    <3>1. CASE Compiles(b)
      BY <3>1, <1>1, FreeFrames DEF AfterLookup
    <3>2. CASE ~Compiles(b)
      BY <3>2 DEF AfterLookup
    <3>. QED BY <3>1, <3>2
  <2> HIDE DEF f, g
  <2>4. CASE g = f
    BY <2>1, <2>2, <2>4 DEF g
  <2>5. CASE /\ g = [f EXCEPT !.freed = TRUE] /\ Compiles(b)
             /\ f.kind \in {"jitbb", "fn"} /\ Slot(f.start) = s
    <3>1. f.kind = "fn" /\ Recompiled(f.start)
      BY <1>6, <2>1, <2>5
    <3>2. g.kind = f.kind /\ g.start = f.start
      BY <2>1, <2>5 DEF Frame
    <3>. QED BY <2>2, <3>1, <3>2 DEF Alive, g
  <2>. QED BY <2>3, <2>4, <2>5
<1>8. AfterLookup(fs, b) \in Seq(Frame) /\ Len(AfterLookup(fs, b)) = Len(fs)
  BY AfterLookupTypes, FreeFrames DEF AfterLookup
<1>9. AllAlive(AfterLookup(fs, b), d)
  BY <1>7, <1>8 DEF AllAlive
<1>. QED BY <1>2, <1>3, <1>4, <1>8, <1>9 DEF b

\* A slot without compiled code may be filled.
LEMMA FillAlive ==
  ASSUME NEW c \in [Slots -> Block], SlotsOwn(c),
         NEW b \in Block, NEW s \in Slots, Slot(b.start) = s,
         c[s].kind = "none" \/ ~c[s].jitted,
         NEW fs \in Seq(Frame), AllAlive(fs, c),
         NEW d, d = [c EXCEPT ![s] = b]
  PROVE  d \in [Slots -> Block] /\ SlotsOwn(d) /\ AllAlive(fs, d)
<1>1. /\ d \in [Slots -> Block] /\ d[s] = b
      /\ \A t \in Slots : t # s => d[t] = c[t]
  OBVIOUS
<1>2. SlotsOwn(d)
  BY <1>1 DEF SlotsOwn
<1>3. ASSUME NEW k \in 1 .. Len(fs)
      PROVE  Alive(fs[k], d) /\ fs[k].kind \in {"fn", "until"}
  <2>1. fs[k] \in Frame /\ Slot(fs[k].start) \in Slots
    BY PcArith DEF Frame
  <2>2. Alive(fs[k], c) /\ fs[k].kind \in {"fn", "until"}
    BY DEF AllAlive
  <2>. QED BY <1>1, <2>1, <2>2 DEF Alive
<1>. QED BY <1>1, <1>2, <1>3 DEF AllAlive

\* A frame may be pushed on frames that are all alive.
LEMMA LivePush ==
  ASSUME NEW fs \in Seq(Frame), AllAlive(fs, cache'), NEW f \in Frame,
         TopAlive(f, cache'), SlotsOwn(cache'), frames' = Append(fs, f),
         code' = code
  PROVE  LiveInv'
<1>1. /\ Len(frames') = Len(fs) + 1 /\ Len(fs) \in Nat
      /\ frames'[Len(frames')] = f /\ frames' # <<>> /\ frames' \in Seq(Frame)
      /\ \A k \in 1 .. Len(fs) : frames'[k] = fs[k]
  BY PushOps
<1>2. /\ Len(SubSeq(frames', 1, Len(frames') - 1)) = Len(fs)
      /\ \A k \in 1 .. Len(fs) : SubSeq(frames', 1, Len(frames') - 1)[k] = fs[k]
  BY <1>1, StackOps
<1>3. Top' = f /\ Below' = SubSeq(frames', 1, Len(frames') - 1)
  BY <1>1 DEF Top, Below, Depth
<1>4. AllAlive(Below', cache')
  BY <1>2, <1>3 DEF AllAlive
<1>5. AllAlive(Below, cache)' /\ TopAlive(Top, cache)' /\ SlotsOwn(cache)'
  BY <1>3, <1>4, SameCode DEF AllAlive, TopAlive, SlotsOwn
<1>. QED BY <1>5 DEF LiveInv

\* A return uncovers a frame that is alive.
LEMMA LivePop ==
  ASSUME frames \in Seq(Frame), frames # <<>>, frames' = Below,
         AllAlive(Below, cache'), SlotsOwn(cache'), code' = code
  PROVE  LiveInv'
<1>1. Below \in Seq(Frame)
  BY StackTypes
<1>2. CASE Below = <<>>
  BY <1>2 DEF LiveInv, SlotsOwn
<1>3. CASE Below # <<>>
  <2>1. /\ Len(frames') \in 1 .. Len(frames') /\ Len(frames') \in Nat
        /\ SubSeq(frames', 1, Len(frames') - 1) \in Seq(Frame)
        /\ Len(SubSeq(frames', 1, Len(frames') - 1)) = Len(frames') - 1
        /\ \A k \in 1 .. (Len(frames') - 1) :
              SubSeq(frames', 1, Len(frames') - 1)[k] = frames'[k]
    BY <1>1, <1>3, StackOps
  <2>2. \A k \in 1 .. Len(frames') : Alive(frames'[k], cache') /\ frames'[k].kind \in {"fn", "until"}
    BY DEF AllAlive
  <2>3. Top' = frames'[Len(frames')] /\ Below' = SubSeq(frames', 1, Len(frames') - 1)
    BY DEF Top, Below, Depth
  <2>4. TopAlive(Top', cache') /\ AllAlive(Below', cache')
    BY <2>1, <2>2, <2>3 DEF TopAlive, AllAlive
  <2>5. AllAlive(Below, cache)' /\ TopAlive(Top, cache)' /\ SlotsOwn(cache)'
    BY <2>4, SameCode DEF AllAlive, TopAlive, SlotsOwn
  <2>. QED BY <2>5 DEF LiveInv
<1>. QED BY <1>2, <1>3

\* The activation of a block that was looked up is alive.
LEMMA EnterAlive ==
  ASSUME NEW b \in Block, instr_counter \in Counter, NEW c,
         c[Slot(b.start)] = b, b.kind # "none", b.rate >= 1
  PROVE  Enter(b) \in Frame /\ TopAlive(Enter(b), c)
<1>1. /\ Enter(b).start = b.start /\ Enter(b).freed = FALSE
      /\ Enter(b).kind # "collect"
      /\ Enter(b).kind = "fn" => b.jitted /\ b.kind = "fn"
  BY DEF Enter, NewFrame, Block
<1>. QED BY <1>1, EnterFrame DEF TopAlive, Alive

\* The types and the invariant.
Lives == TypeInv /\ LiveInv

\* The parts of the invariant, by name.
LEMMA LiveTypes ==
  ASSUME Lives
  PROVE  /\ TypeInv /\ LiveInv /\ SlotsOwn(cache)
         /\ frames \in Seq(Frame) /\ cache \in [Slots -> Block]
         /\ instr_counter \in Counter /\ pc \in Pcs /\ paging \in BOOLEAN
         /\ Slot(pc) \in Slots
         /\ frames # <<>> =>
              /\ Below \in Seq(Frame) /\ AllAlive(Below, cache)
              /\ Top \in Frame /\ TopAlive(Top, cache)
<1>1. pc \in Pcs
  BY DEF Lives, TypeInv, TypeOK, Guest!GuestTypeOK, Pcs
<1>. QED BY <1>1, PcArith, StackTypes
         DEF Lives, LiveInv, TypeInv, TypeOK, Guest!GuestTypeOK

\* The topmost frame joins those below once another is pushed on it.
LEMMA AppendAlive ==
  ASSUME NEW fs \in Seq(Frame), NEW c, AllAlive(fs, c),
         NEW f \in Frame, Alive(f, c), f.kind \in {"fn", "until"}
  PROVE  Append(fs, f) \in Seq(Frame) /\ AllAlive(Append(fs, f), c)
<1>1. /\ Append(fs, f) \in Seq(Frame) /\ Len(Append(fs, f)) = Len(fs) + 1
      /\ Len(fs) \in Nat /\ Append(fs, f)[Len(fs) + 1] = f
      /\ \A k \in 1 .. Len(fs) : Append(fs, f)[k] = fs[k]
  BY PushOps
<1>2. ASSUME NEW k \in 1 .. (Len(fs) + 1)
      PROVE  Alive(Append(fs, f)[k], c) /\ Append(fs, f)[k].kind \in {"fn", "until"}
  <2>1. CASE k = Len(fs) + 1
    BY <2>1, <1>1
  <2>2. CASE k # Len(fs) + 1
    <3>1. k \in 1 .. Len(fs)
      BY <2>2, <1>1
    <3>. QED BY <3>1, <1>1 DEF AllAlive
  <2>. QED BY <2>1, <2>2
<1>. QED BY <1>1, <1>2 DEF AllAlive

\* Whoever calls step() is no frame that collects a block.
LEMMA AtStepAlive ==
  ASSUME Lives, AtStep
  PROVE  AllAlive(frames, cache)
<1>1. CASE frames = <<>>
  BY <1>1 DEF AllAlive
<1>2. CASE frames # <<>>
  <2>1. /\ Depth \in Nat \ {0} /\ Len(Below) = Depth - 1
        /\ \A k \in 1 .. (Depth - 1) : Below[k] = frames[k]
    BY <1>2, LiveTypes, StackTypes
  <2>2. Top.kind = "until"
    BY <1>2 DEF AtStep
  <2>3. ASSUME NEW k \in 1 .. Depth
        PROVE  Alive(frames[k], cache) /\ frames[k].kind \in {"fn", "until"}
    <3>1. CASE k = Depth
      BY <3>1, <1>2, <2>2, LiveTypes DEF TopAlive, Top
    <3>2. CASE k # Depth
      <4>1. k \in 1 .. (Depth - 1) /\ k \in 1 .. Len(Below)
        BY <3>2, <2>1
      <4>. QED BY <4>1, <1>2, <2>1, LiveTypes DEF AllAlive
    <3>. QED BY <3>1, <3>2
  <2>. QED BY <2>3 DEF AllAlive, Depth
<1>. QED BY <1>1, <1>2

\* An action that changes only the topmost frame, and not what it is.
LEMMA LiveTop ==
  ASSUME Lives, frames # <<>>, NEW f \in Frame, frames' = WithTop(f),
         cache' = cache, f.kind = Top.kind, f.start = Top.start,
         f.freed = Top.freed, code' = code
  PROVE  LiveInv'
<1>1. /\ Below \in Seq(Frame) /\ AllAlive(Below, cache) /\ TopAlive(Top, cache)
      /\ SlotsOwn(cache)
  BY LiveTypes
<1>2. TopAlive(f, cache')
  BY <1>1 DEF TopAlive, Alive
<1>. QED BY <1>1, <1>2, LivePush DEF WithTop

\* A return that leaves the cache alone.
LEMMA LiveReturn ==
  ASSUME Lives, frames # <<>>, frames' = Below, cache' = cache, code' = code
  PROVE  LiveInv'
  BY LiveTypes, LivePop

\* A step that changes neither the stack nor the cache.
LEMMA LiveStay ==
  ASSUME Lives, frames' = frames, cache' = cache, code' = code
  PROVE  LiveInv'
  BY SameCode DEF Lives, LiveInv, SlotsOwn, AllAlive, TopAlive, Below, Top, Depth

\* The invariant under Machine::run, run_until_pc and Hart::step.
LEMMA LiveStep ==
  ASSUME Lives, code' = code, Step
  PROVE  LiveInv'
<1>t. /\ pc \in Pcs /\ paging \in BOOLEAN /\ frames \in Seq(Frame)
      /\ instr_counter \in Counter /\ cache \in [Slots -> Block]
      /\ Slot(pc) \in Slots /\ SlotsOwn(cache)
  BY LiveTypes
<1>1. CASE StepHit
  <2> DEFINE b == cache[Slot(pc)]
  <2>1. AllAlive(frames, cache) /\ b.kind # "none"
    BY <1>1, AtStepAlive DEF StepHit, Hit
  <2>2. /\ cache' = [cache EXCEPT ![Slot(pc)] = LookedUp(b)]
        /\ frames' = Append(AfterLookup(frames, b), Enter(LookedUp(b)))
    BY <1>1 DEF StepHit, Call
  <2>3. /\ cache' \in [Slots -> Block] /\ SlotsOwn(cache')
        /\ AllAlive(AfterLookup(frames, b), cache')
        /\ AfterLookup(frames, b) \in Seq(Frame)
        /\ cache'[Slot(pc)].rate >= 1
    BY <1>t, <2>1, <2>2, LookupAlive
  <2>4. /\ LookedUp(b) \in Block /\ LookedUp(b).kind # "none"
        /\ Slot(LookedUp(b).start) = Slot(pc)
    BY <1>t, <2>1, Blocks, LookedUpSame DEF SlotsOwn
  <2>5. cache'[Slot(pc)] = LookedUp(b)
    BY <1>t, <2>2
  <2> HIDE DEF b
  <2>6. Enter(LookedUp(b)) \in Frame /\ TopAlive(Enter(LookedUp(b)), cache')
    BY <1>t, <2>3, <2>4, <2>5, EnterAlive
  <2>. QED BY <2>2, <2>3, <2>6, LivePush
<1>2. CASE StepCompileFunction
  <2> DEFINE b == FnBlock(pc, ~paging)
             c == [cache EXCEPT ![Slot(pc)] = b]
  <2>1. AllAlive(frames, cache) /\ cache[Slot(pc)].kind = "none"
    BY <1>2, AtStepAlive DEF StepCompileFunction, Hit
  <2>2. b \in Block /\ b.start = pc /\ b.kind # "none" /\ b.rate = 0
    BY <1>t, Blocks DEF FnBlock
  <2>3. LookedUp(b) \in Block /\ LookedUp(b).start = pc /\ LookedUp(b).kind # "none"
        /\ LookedUp(b).rate >= 1
    BY <1>t, <2>2, Constants, Blocks, LookedUpSame DEF Bump
  <2>4. /\ cache' = [cache EXCEPT ![Slot(pc)] = LookedUp(b)]
        /\ frames' = Append(frames, Enter(LookedUp(b)))
    BY <1>2 DEF StepCompileFunction, Call
  <2> HIDE DEF b
  <2>5. SlotsOwn(cache') /\ AllAlive(frames, cache')
    BY <1>t, <2>1, <2>3, <2>4, FillAlive
  <2>6. cache'[Slot(pc)] = LookedUp(b)
    BY <1>t, <2>4
  <2>7. Enter(LookedUp(b)) \in Frame /\ TopAlive(Enter(LookedUp(b)), cache')
    BY <1>t, <2>3, <2>6, EnterAlive
  <2>. QED BY <1>t, <2>4, <2>5, <2>7, LivePush
<1>3. CASE StepCollect
  <2> DEFINE f == NewFrame("collect", pc, <<>>, 0)
  <2>1. AllAlive(frames, cache) /\ cache[Slot(pc)].kind = "none"
    BY <1>3, AtStepAlive DEF StepCollect, Hit
  <2>2. f \in Frame /\ f.kind = "collect" /\ f.start = pc /\ ~f.freed
    BY <1>t, CounterArith DEF NewFrame, Frame
  <2>3. frames' = Append(frames, f) /\ cache' = cache
    BY <1>3 DEF StepCollect
  <2> HIDE DEF f
  <2>4. TopAlive(f, cache')
    BY <2>1, <2>2, <2>3 DEF TopAlive, Alive
  <2>. QED BY <1>t, <2>1, <2>2, <2>3, <2>4, LivePush
<1>4. CASE UntilReturns
  BY <1>4, LiveReturn DEF UntilReturns, Running
<1>. QED BY <1>1, <1>2, <1>3, <1>4 DEF Step

\* The invariant under interpretation: a block is installed in an empty slot.
LEMMA LiveInterpret ==
  ASSUME Lives, code' = code, Interpret
  PROVE  LiveInv'
<1>t. /\ pc \in Pcs /\ frames \in Seq(Frame) /\ paging \in BOOLEAN
      /\ cache \in [Slots -> Block] /\ SlotsOwn(cache) /\ TypeInv
  BY LiveTypes
<1>1. CASE CollectInstr
  <2>1. /\ frames # <<>> /\ Top \in Frame /\ Top.kind = "collect"
        /\ Below \in Seq(Frame) /\ AllAlive(Below, cache) /\ TopAlive(Top, cache)
    BY <1>1, LiveTypes DEF CollectInstr, Running
  <2>2. /\ Top.start \in Pcs /\ Slot(Top.start) \in Slots /\ Top.pcs \in Seq(Pcs)
        /\ cache[Slot(Top.start)].kind = "none"
    BY <2>1, PcArith DEF Frame, TopAlive
  <2>3. PICK collected \in Seq(Pcs) :
          \/ Install(Top.start, collected) /\ frames' = Below
          \/ frames' = WithTop([Top EXCEPT !.pcs = collected]) /\ cache' = cache
    <3>1. Top.pcs \in Seq(Pcs) /\ Append(Top.pcs, pc) \in Seq(Pcs)
      BY <1>t, <2>2
    <3>2. \E collected \in {Top.pcs, Append(Top.pcs, pc)} :
            \/ Install(Top.start, collected) /\ Return(Len(Top.pcs) + 1)
            \/ frames' = WithTop([Top EXCEPT !.pcs = collected]) /\ cache' = cache
      BY <1>1 DEF CollectInstr
    <3>. QED BY <3>1, <3>2 DEF Return
  <2>4. CASE Install(Top.start, collected) /\ frames' = Below
    <3>1. BasicBlock(Top.start, collected) \in Block
          /\ BasicBlock(Top.start, collected).start = Top.start
      BY <1>t, <2>2, Blocks DEF BasicBlock
    <3>2. SlotsOwn(cache') /\ AllAlive(Below, cache')
      <4>1. CASE collected = <<>>
        BY <2>4, <4>1, <1>t, <2>1 DEF Install
      <4>2. CASE collected # <<>>
        <5>1. cache' = [cache EXCEPT ![Slot(Top.start)] = BasicBlock(Top.start, collected)]
          BY <2>4, <4>2 DEF Install
        <5>. QED BY <5>1, <3>1, <1>t, <2>1, <2>2, FillAlive
      <4>. QED BY <4>1, <4>2
    <3>. QED BY <1>t, <2>1, <2>4, <3>2, LivePop
  <2>5. CASE frames' = WithTop([Top EXCEPT !.pcs = collected]) /\ cache' = cache
    <3>1. /\ [Top EXCEPT !.pcs = collected] \in Frame
          /\ [Top EXCEPT !.pcs = collected].kind = Top.kind
          /\ [Top EXCEPT !.pcs = collected].start = Top.start
          /\ [Top EXCEPT !.pcs = collected].freed = Top.freed
      BY <2>1 DEF Frame
    <3>. QED BY <2>1, <2>5, <3>1, LiveTop
  <2>. QED BY <2>3, <2>4, <2>5
<1>2. CASE CachedInstr
  <2>1. /\ frames # <<>> /\ Top \in Frame /\ cache' = cache
        /\ Top.kind = "cached"
    BY <1>2, LiveTypes DEF CachedInstr, Running
  <2>2. \/ frames' = Below
        \/ \E next, n : frames' = WithTop([Top EXCEPT !.at = next, !.n = n])
    BY <1>2 DEF CachedInstr, Return
  <2>3. TypeInv'
    BY <1>2, <1>t, InterpretTypes DEF Interpret
  <2>4. ASSUME NEW next, NEW n, frames' = WithTop([Top EXCEPT !.at = next, !.n = n])
        PROVE  LiveInv'
    <3> DEFINE f == [Top EXCEPT !.at = next, !.n = n]
    <3>1. f.kind = Top.kind /\ f.start = Top.start /\ f.freed = Top.freed
      BY <2>1 DEF Frame
    <3>2. Below \in Seq(Frame) /\ frames' = Append(Below, f) /\ frames' \in Seq(Frame)
      BY <2>1, <2>3, <2>4, LiveTypes DEF WithTop, TypeInv, TypeOK
    <3> HIDE DEF f
    <3>3. f \in Frame
      BY <3>2
    <3>. QED BY <2>1, <3>1, <3>2, <3>3, LiveTop DEF WithTop
  <2>. QED BY <2>1, <2>2, <2>4, LiveReturn
<1>3. CASE InterpretUnknown
  BY <1>3, LiveStay DEF InterpretUnknown
<1>. QED BY <1>1, <1>2, <1>3 DEF Interpret

\* A function goes on to a label, or returns.
LEMMA LiveGoTo ==
  ASSUME Lives, frames # <<>>, Top.kind = "fn", cache' = cache, code' = code,
         (\E p : GoTo(p)) \/ Leave
  PROVE  LiveInv'
<1>t. Top \in Frame /\ TypeInv
  BY LiveTypes
<1>1. ASSUME NEW p, GoTo(p), IsLabel(p) PROVE LiveInv'
  <2>1. p \in Pcs /\ p \in Nat
    <3>1. Top.start \in Pcs
      BY <1>t DEF Frame
    <3>2. p \in ExecPcs
      BY <1>1, <1>t, <3>1, LabelsExec DEF IsLabel, TypeInv
    <3>3. p \in Pcs
      BY <3>2, Constants
    <3>. QED BY <3>3, PcNat
  <2>2. /\ [Top EXCEPT !.at = p, !.st = "run"] \in Frame
        /\ [Top EXCEPT !.at = p, !.st = "run"].kind = Top.kind
        /\ [Top EXCEPT !.at = p, !.st = "run"].start = Top.start
        /\ [Top EXCEPT !.at = p, !.st = "run"].freed = Top.freed
    BY <1>t, <2>1 DEF Frame
  <2>3. frames' = WithTop([Top EXCEPT !.at = p, !.st = "run"])
    BY <1>1 DEF GoTo
  <2>. QED BY <2>2, <2>3, LiveTop
<1>2. CASE Leave
  BY <1>2, LiveReturn DEF Leave, Return
<1>. QED BY <1>1, <1>2 DEF GoTo

\* The invariant under compiled code.
LEMMA LiveCompiled ==
  ASSUME Lives, code' = code, RunCompiled
  PROVE  LiveInv'
<1>1. CASE BlockInstr
  <2>1. frames # <<>> /\ Top \in Frame /\ Top.kind = "jitbb" /\ cache' = cache
    BY <1>1, LiveTypes DEF BlockInstr, Running
  <2>2. frames' = Below \/ frames' = WithTop([Top EXCEPT !.at = @ + 1])
    BY <1>1 DEF BlockInstr, Return
  <2>3. /\ [Top EXCEPT !.at = @ + 1] \in Frame
        /\ [Top EXCEPT !.at = @ + 1].kind = Top.kind
        /\ [Top EXCEPT !.at = @ + 1].start = Top.start
        /\ [Top EXCEPT !.at = @ + 1].freed = Top.freed
    BY <2>1 DEF Frame
  <2>. QED BY <2>1, <2>2, <2>3, LiveReturn, LiveTop
<1>2. CASE FunctionInstr
  BY <1>2, LiveGoTo DEF FunctionInstr, Dispatch, Running
<1>3. CASE FunctionCall
  <2>1. frames # <<>> /\ Top \in Frame /\ Top.kind = "fn" /\ cache' = cache
        /\ frames' = WithTop([Top EXCEPT !.st = "call"])
    BY <1>3, LiveTypes DEF FunctionCall, Running
  <2>2. /\ [Top EXCEPT !.st = "call"] \in Frame
        /\ [Top EXCEPT !.st = "call"].kind = Top.kind
        /\ [Top EXCEPT !.st = "call"].start = Top.start
        /\ [Top EXCEPT !.st = "call"].freed = Top.freed
    BY <2>1 DEF Frame
  <2>. QED BY <2>1, <2>2, LiveTop
<1>4. CASE FunctionUnknown
  BY <1>4, LiveGoTo DEF FunctionUnknown, Running
<1>. QED BY <1>1, <1>2, <1>3, <1>4 DEF RunCompiled

\* The suspended caller's code is still in the cache.
LEMMA WaitingAlive ==
  ASSUME Lives, AtTrampoline
  PROVE  Waiting \in Seq(Frame) /\ AllAlive(Waiting, cache)
<1>1. /\ frames # <<>> /\ Top \in Frame /\ Top.kind = "fn" /\ Top.at \in Pcs
      /\ Below \in Seq(Frame) /\ AllAlive(Below, cache) /\ TopAlive(Top, cache)
  BY LiveTypes, TrampolineFacts
<1>2. /\ [Top EXCEPT !.st = "wait"] \in Frame
      /\ [Top EXCEPT !.st = "wait"].kind = Top.kind
      /\ [Top EXCEPT !.st = "wait"].start = Top.start
      /\ [Top EXCEPT !.st = "wait"].freed = Top.freed
  BY <1>1 DEF Frame
<1>3. Alive([Top EXCEPT !.st = "wait"], cache)
  BY <1>1, <1>2 DEF TopAlive, Alive
<1>. QED BY <1>1, <1>2, <1>3, AppendAlive DEF Waiting, WithTop

\* The invariant when a callee is looked up and entered.
LEMMA LiveRunCallee ==
  ASSUME paging \in BOOLEAN, instr_counter \in Counter, code' = code,
         NEW c \in [Slots -> Block], SlotsOwn(c),
         NEW fs \in Seq(Frame), AllAlive(fs, c),
         NEW b \in Block, b.kind # "none", c[Slot(b.start)] = b,
         frames' = Append(AfterLookup(fs, b), Enter(LookedUp(b))),
         cache' = [c EXCEPT ![Slot(b.start)] = LookedUp(b)]
  PROVE  LiveInv'
<1>0. Slot(b.start) \in Slots
  BY PcArith DEF Block
<1>1. /\ cache' \in [Slots -> Block] /\ SlotsOwn(cache')
      /\ AllAlive(AfterLookup(fs, b), cache')
      /\ AfterLookup(fs, b) \in Seq(Frame)
      /\ cache'[Slot(b.start)].rate >= 1
  BY <1>0, LookupAlive
<1>2. /\ LookedUp(b) \in Block /\ LookedUp(b).kind # "none"
      /\ LookedUp(b).start = b.start
  BY Blocks, LookedUpSame
<1>3. cache'[Slot(b.start)] = LookedUp(b)
  BY <1>0
<1>4. Enter(LookedUp(b)) \in Frame /\ TopAlive(Enter(LookedUp(b)), cache')
  BY <1>1, <1>2, <1>3, EnterAlive
<1>. QED BY <1>1, <1>4, LivePush

\* The invariant under calls of compiled functions and returns to them.
LEMMA LiveTrampoline ==
  ASSUME Lives, code' = code, Trampoline
  PROVE  LiveInv'
<1>t. /\ TypeInv /\ frames \in Seq(Frame) /\ paging \in BOOLEAN
      /\ instr_counter \in Counter /\ cache \in [Slots -> Block] /\ SlotsOwn(cache)
  BY LiveTypes
<1>1. CASE CallCompiled
  <2> DEFINE s == Slot(CallTarget)
             b == LookedUp(Callee)
             c == [cache EXCEPT ![s] = b]
             fs == AfterLookup(Waiting, Callee)
  <2>1. /\ Waiting \in Seq(Frame) /\ AllAlive(Waiting, cache)
        /\ s \in Slots /\ Callee \in Block /\ Callee = cache[s]
        /\ Callee.kind # "none"
    BY <1>1, <1>t, WaitingAlive, TrampolineFacts
       DEF CallCompiled, CalleeJitted, Hit, Callee
  <2>2. b \in Block /\ b.kind # "none" /\ Slot(b.start) = s
    BY <1>t, <2>1, Blocks, LookedUpSame DEF SlotsOwn
  <2>3. /\ c \in [Slots -> Block] /\ SlotsOwn(c) /\ AllAlive(fs, c)
        /\ fs \in Seq(Frame)
    BY <1>t, <2>1, LookupAlive
  <2>4. /\ c[s] = b
        /\ frames' = Append(AfterLookup(fs, b), Enter(LookedUp(b)))
        /\ cache' = [cache EXCEPT ![s] = LookedUp(b)]
    BY <1>1, <1>t, <2>1, <2>2 DEF CallCompiled, RunCallee, Call
  <2>5. cache' = [c EXCEPT ![s] = LookedUp(b)]
    BY <1>t, <2>1, <2>4
  <2> HIDE DEF b, c, fs, s
  <2>. QED BY <1>t, <2>2, <2>3, <2>4, <2>5, LiveRunCallee
<1>2. CASE CallCompileFunction
  <2> DEFINE s == Slot(CallTarget)
             b == FnBlock(CallTarget, ~paging)
             c == [cache EXCEPT ![s] = b]
  <2>1. /\ Waiting \in Seq(Frame) /\ AllAlive(Waiting, cache)
        /\ s \in Slots /\ Callee \in Block /\ CallTarget \in Pcs
        /\ Callee = cache[s] /\ ~CalleeJitted
    BY <1>2, <1>t, WaitingAlive, TrampolineFacts
       DEF CallCompileFunction, Callee
  <2>2. b \in Block /\ b.kind # "none" /\ b.start = CallTarget
    BY <1>t, <2>1, Blocks DEF FnBlock
  <2>3. cache[s].kind = "none" \/ ~cache[s].jitted
    BY <1>t, <2>1, LookedUpSame DEF CalleeJitted, Hit
  <2>4. /\ frames' = Append(AfterLookup(Waiting, b), Enter(LookedUp(b)))
        /\ cache' = [cache EXCEPT ![s] = LookedUp(b)]
    BY <1>2, <2>2 DEF CallCompileFunction, RunCallee, Call
  <2>5. c[s] = b /\ cache' = [c EXCEPT ![s] = LookedUp(b)] /\ s = Slot(b.start)
    BY <1>t, <2>1, <2>2, <2>4
  <2>6. c \in [Slots -> Block] /\ SlotsOwn(c) /\ AllAlive(Waiting, c)
    <3> HIDE DEF b
    <3>. QED BY <1>t, <2>1, <2>2, <2>3, <2>5, FillAlive
  <2> HIDE DEF b, c, s
  <2>. QED BY <1>t, <2>1, <2>2, <2>4, <2>5, <2>6, LiveRunCallee
<1>3. CASE CallInterpreted
  <2> DEFINE s == Slot(CallTarget)
             f == NewFrame("until", pc, <<>>, Inc(Top.at))
  <2>1. /\ Waiting \in Seq(Frame) /\ AllAlive(Waiting, cache)
        /\ s \in Slots /\ Callee = cache[s] /\ ~CalleeJitted /\ Callee \in Block
    BY <1>3, <1>t, WaitingAlive, TrampolineFacts DEF CallInterpreted, Callee
  <2>2. SlotsOwn(cache') /\ AllAlive(Waiting, cache')
    <3>1. CASE Hit(CallTarget)
      <4>1. ~LookedUp(Callee).jitted /\ ~Callee.jitted /\ Slot(LookedUp(Callee).start) = s
            /\ LookedUp(Callee) \in Block
        BY <1>t, <2>1, <3>1, Blocks, LookedUpSame DEF CalleeJitted, SlotsOwn, Hit
      <4>2. cache' = [cache EXCEPT ![s] = LookedUp(Callee)]
        BY <1>3, <1>t, <2>1, <3>1 DEF CallInterpreted
      <4>. QED BY <1>t, <2>1, <4>1, <4>2, FillAlive
    <3>2. CASE ~Hit(CallTarget)
      <4>1. cache' = cache
        BY <1>3, <1>t, <2>1, <3>2 DEF CallInterpreted
      <4>. QED BY <1>t, <2>1, <4>1
    <3>. QED BY <3>1, <3>2
  <2>3. TypeInv'
    BY <1>3, <1>t, TrampolineTypes DEF Trampoline
  <2>4. frames' = Append(Waiting, f) /\ frames' \in Seq(Frame) /\ f.kind = "until"
        /\ ~f.freed
    BY <1>3, <2>3 DEF CallInterpreted, TypeInv, TypeOK, NewFrame
  <2> HIDE DEF f
  <2>5. f \in Frame
    BY <2>1, <2>4
  <2>6. TopAlive(f, cache')
    BY <2>4 DEF TopAlive, Alive
  <2>. QED BY <2>1, <2>2, <2>4, <2>5, <2>6, LivePush
<1>4. CASE PostCall
  <2>1. frames # <<>> /\ Top \in Frame /\ cache' = cache
    BY <1>4, LiveTypes DEF PostCall, AtPostCall
  <2>2. Top.kind = "fn"
    BY <1>4, <2>1 DEF PostCall, AtPostCall, Frame
  <2>. QED BY <1>4, <2>1, <2>2, LiveGoTo DEF PostCall
<1>5. CASE ReturnToFreedCode
  BY <1>5, LiveStay DEF ReturnToFreedCode
<1>. QED BY <1>1, <1>2, <1>3, <1>4, <1>5 DEF Trampoline

\* No frame, nothing released.
LEMMA LiveInit == Init => Lives
<1> SUFFICES ASSUME Init PROVE Lives
  OBVIOUS
<1>1. PICK S \in Survivors(Predecoded(code)) :
        cache = [s \in Slots |->
                   IF \E e \in S : Slot(e) = s
                     THEN FnBlock(CHOOSE e \in S : Slot(e) = s, TRUE)
                     ELSE NoBlock]
  BY DEF Init
<1>2. ASSUME NEW s \in Slots, cache[s].kind # "none" PROVE Slot(cache[s].start) = s
  <2>1. PICK e \in S : Slot(e) = s /\ cache[s] = FnBlock(e, TRUE)
    BY <1>1, <1>2 DEF NoBlock
  <2>. QED BY <2>1 DEF FnBlock
<1>3. frames = <<>>
  BY DEF Init
<1>. QED BY <1>2, <1>3, TypesInit DEF Lives, LiveInv, SlotsOwn

\* No step changes the program.
LEMMA CodeStays == ASSUME TypeInv, Next PROVE code' = code
<1>1. ASSUME NEW i, NEW p \in Pcs, Guest!Execute(i, p) PROVE code' = code
  BY <1>1, GuestStep DEF TypeInv, TypeOK
<1>2. CASE Step
  BY <1>2 DEF Step, StepHit, StepCompileFunction, StepCollect, UntilReturns, guest
<1>3. CASE Interpret
  BY <1>1, <1>3 DEF Interpret, CollectInstr, CachedInstr, InterpretUnknown, guest
<1>4. CASE RunCompiled
  BY <1>1, <1>4
     DEF RunCompiled, BlockInstr, FunctionInstr, FunctionCall, FunctionUnknown, guest
<1>5. CASE Trampoline
  BY <1>5 DEF Trampoline, CallCompiled, CallCompileFunction, CallInterpreted, PostCall,
              ReturnToFreedCode, guest
<1>. QED BY <1>2, <1>3, <1>4, <1>5 DEF Next

\* Every step preserves the invariant.
LEMMA LiveNext == Lives /\ [Next]_vars => Lives'
<1> SUFFICES ASSUME Lives, [Next]_vars PROVE Lives'
  OBVIOUS
<1>1. TypeInv'
  BY TypesNext DEF Lives
<1>2. CASE Next
  <2>1. code' = code
    BY <1>2, CodeStays DEF Lives
  <2>. QED BY <1>1, <1>2, <2>1, LiveStep, LiveInterpret, LiveCompiled, LiveTrampoline
           DEF Next, Lives
<1>3. CASE UNCHANGED vars
  BY <1>1, <1>3, LiveStay DEF vars, Lives
<1>. QED BY <1>2, <1>3

\* The property is the part of the invariant that is about released code.
LEMMA LivesFreed == Lives => OnlyRecompiledFreed
<1> SUFFICES ASSUME Lives, NEW k \in DOMAIN frames, frames[k].freed
             PROVE  frames[k].kind = "fn" /\ Recompiled(frames[k].start)
  BY DEF OnlyRecompiledFreed
<1>1. frames \in Seq(Frame) /\ k \in 1 .. Len(frames) /\ frames # <<>>
  BY LiveTypes
<1>2. /\ Depth = Len(frames) /\ Depth \in Nat \ {0} /\ Len(Below) = Depth - 1
      /\ \A i \in 1 .. (Depth - 1) : Below[i] = frames[i]
  BY <1>1, StackTypes DEF Depth
<1>3. AllAlive(Below, cache) /\ TopAlive(Top, cache)
  BY <1>1, LiveTypes
<1>4. CASE k = Depth
  BY <1>3, <1>4 DEF TopAlive, Alive, Top
<1>5. CASE k # Depth
  <2>1. k \in 1 .. (Depth - 1) /\ k \in 1 .. Len(Below)
    BY <1>1, <1>2, <1>5
  <2>2. Alive(Below[k], cache)
    BY <1>3, <2>1 DEF AllAlive
  <2>. QED BY <1>2, <2>1, <2>2 DEF Alive
<1>. QED BY <1>4, <1>5

\* An activation that waits in a call keeps its function in the cache, compiled and
\* looked up, whatever the program, and however many of its PCs share a slot.
THEOREM LiveCorrect == SafeSpec => []LiveInv
<1>1. Lives => LiveInv
  BY DEF Lives
<1>. QED BY <1>1, LiveInit, LiveNext, PTL DEF SafeSpec

\* The only live code lookup() ever releases is that of a function it compiles again
\* at a jit_bound of 2 or more; at 0 and 1 it releases none.
THEOREM OnlyRecompiledReleased == SafeSpec => []OnlyRecompiledFreed
<1>. QED BY LiveInit, LiveNext, LivesFreed, PTL DEF SafeSpec
===============================================================================
