----------------------------- MODULE HartFaithful -----------------------------
(***************************************************************************)
(* Why caching and compiling are invisible.  For programs that fit the     *)
(* cache (NoAlias) and are Supported, Inv is inductive: it places the      *)
(* guest's PC in each frame, in each block of the cache, behind an ECALL   *)
(* and behind a call.  From it follow InstructionFaithful and the          *)
(* refinement of IsaMachine.                                               *)
(***************************************************************************)
EXTENDS HartTypes

\* The parts of the type invariant, by name.
LEMMA InvTypes ==
  ASSUME Inv
  PROVE  /\ TypeInv
         /\ frames \in Seq(Frame) /\ cache \in [Slots -> Block]
         /\ instr_counter \in Counter /\ cycle \in Counter
         /\ pc \in Pcs /\ paging \in BOOLEAN /\ halt \in BOOLEAN
         /\ calls \in Seq(Pcs) /\ code \in Programs
         /\ Guest!GuestTypeOK
  BY DEF Inv, EngineInv, TypeInv, TypeOK, Guest!GuestTypeOK, Pcs

\* The instruction at a PC, and the targets it may have.
LEMMA InstrTypes ==
  ASSUME Guest!GuestTypeOK, NEW p \in Pcs
  PROVE  /\ code[p] \in Guest!Instr /\ code[p].op \in Guest!Ops
         /\ code[p].imm \in Int
  BY DEF Guest!GuestTypeOK, Guest!Instr, Pcs

\* Retiring the instruction at pc: where it goes, and what it leaves on the
\* guest's own stack.
LEMMA Retire ==
  ASSUME Inv, ~halt, NEW p \in Pcs, Guest!Execute(code[pc], p)
  PROVE  /\ pc' = p /\ code' = code
         /\ code[pc].op # "unknown"
         /\ halt' <=> code[pc].op = "ecall"
         /\ CallsInv'
         /\ code[pc].op \in {"op", "mem", "csrw", "ecall"} => p = Inc(pc)
         /\ code[pc].op = "branch" => p \in {Inc(pc), Rel(pc, code[pc].imm)}
         /\ code[pc].op \in {"jump", "call"} => p = Rel(pc, code[pc].imm)
<1>t. /\ pc \in Pcs /\ pc \in Int /\ halt \in BOOLEAN /\ calls \in Seq(Pcs)
      /\ code[pc].imm \in Int /\ Pcs = Guest!Pcs
  BY InvTypes, InstrTypes, PcNat DEF Pcs
<1>i. Guest!Inc(pc) = Inc(pc) /\ Guest!Rel(pc, code[pc].imm) = Rel(pc, code[pc].imm)
  BY <1>t, PcArith
<1>1. /\ pc' = p /\ code' = code /\ code[pc].op # "unknown"
      /\ halt' <=> code[pc].op = "ecall"
      /\ p \in Guest!Successors(code[pc]) /\ calls' = Guest!CallsAfter(code[pc])
  BY <1>t DEF Guest!Execute
<1>2. /\ code[pc].op \in {"op", "mem", "csrw", "ecall"} => p = Inc(pc)
      /\ code[pc].op = "branch" => p \in {Inc(pc), Rel(pc, code[pc].imm)}
      /\ code[pc].op \in {"jump", "call"} => p = Rel(pc, code[pc].imm)
  BY <1>1, <1>i DEF Guest!Successors
<1>3. CallsInv'
  <2>0. CallsInv
    BY DEF Inv, EngineInv
  <2>1. CASE code[pc].op \in Linking
    <3>1. calls' = Append(calls, Inc(pc))
      BY <2>1, <1>1, <1>i DEF Guest!CallsAfter, Linking
    <3>2. \A k \in 1 .. Len(calls') :
             \/ k \in 1 .. Len(calls) /\ calls'[k] = calls[k]
             \/ calls'[k] = Inc(pc)
      BY <3>1, <1>t
    <3>. QED BY <2>0, <2>1, <3>2, <1>1, <1>t DEF CallsInv
  <2>2. CASE code[pc].op = "ret" /\ calls # <<>>
    <3>1. calls' = SubSeq(calls, 1, Len(calls) - 1)
      BY <2>2, <1>1 DEF Guest!CallsAfter
    <3>2. \A k \in 1 .. Len(calls') : k \in 1 .. Len(calls) /\ calls'[k] = calls[k]
      BY <3>1, <2>2, <1>t
    <3>. QED BY <2>0, <3>2, <1>1 DEF CallsInv
  <2>3. CASE code[pc].op \notin Linking /\ ~(code[pc].op = "ret" /\ calls # <<>>)
    <3>1. calls' = calls
      BY <2>3, <1>1 DEF Guest!CallsAfter, Linking
    <3>. QED BY <2>0, <3>1, <1>1 DEF CallsInv
  <2>. QED BY <2>1, <2>2, <2>3
<1>. QED BY <1>1, <1>2, <1>3

\* What execution may fall through is no indirect jump.
LEMMA FallsThrough ==
  ASSUME Inv, Supported, ~halt, NEW p \in Pcs, Guest!Execute(code[pc], p),
         p = Inc(pc), ~halt'
  PROVE  code[pc].op \in MayFall
<1>t. /\ pc \in Pcs /\ calls \in Seq(Pcs) /\ code[pc].op \in Guest!Ops
      /\ Pcs = Guest!Pcs
  BY InvTypes, InstrTypes DEF Pcs
<1>s. SupportedProgram(code)
  BY InvTypes DEF Supported
<1>1. code[pc].op \notin {"unknown", "ecall"}
  BY Retire
<1>2. ASSUME code[pc].op \in {"ijump", "icall"} PROVE FALSE
  <2>1. p \in code[pc].to
    BY <1>2 DEF Guest!Execute, Guest!Successors
  <2>. QED BY <1>2, <2>1, <1>s, <1>t DEF SupportedProgram
<1>3. ASSUME code[pc].op = "ret" PROVE FALSE
  <2>1. p \in IF calls = <<>> THEN code[pc].to ELSE {calls[Len(calls)]}
    BY <1>3 DEF Guest!Execute, Guest!Successors
  <2>2. CASE calls = <<>>
    BY <2>1, <2>2, <1>3, <1>s, <1>t DEF SupportedProgram
  <2>3. CASE calls # <<>>
    <3>1. p = calls[Len(calls)] /\ Len(calls) \in 1 .. Len(calls)
      BY <2>1, <2>3, <1>t
    <3>2. PICK q \in Pcs : code[q].op \in Linking /\ p = Inc(q)
      BY <3>1 DEF Inv, EngineInv, CallsInv
    <3>3. q = pc
      BY <3>2, <1>t, IncInjective
    <3>. QED BY <3>2, <3>3, <1>3 DEF Linking
  <2>. QED BY <2>2, <2>3
<1>. QED BY <1>1, <1>2, <1>3, <1>t DEF MayFall, Straight, Guest!Ops

\* A frame that runs guest code is active, so the guest has not halted.
LEMMA RunningActive ==
  ASSUME Inv, frames # <<>>, ~Parked(Top)
  PROVE  ActiveAt(Top, pc) /\ ~halt
  BY DEF Inv, EngineInv, StackInv, HaltInv

\* The instruction in the hands of an executing frame is the one at pc.
LEMMA ExecutingActive ==
  ASSUME Inv, frames # <<>>, Top.kind # "until", Top.st = "run"
  PROVE  /\ ActiveAt(Top, pc) /\ ~halt /\ Pending(Top) = code[pc]
<1>1. ~Parked(Top)
  BY DEF Parked
<1>2. ActiveAt(Top, pc) /\ ~halt
  BY <1>1, RunningActive
<1>. QED BY <1>2 DEF ActiveAt, Pending, InBlock

\* The engine's invariant gives the property.
LEMMA InvFaithful == Inv => InstructionFaithful
  BY ExecutingActive DEF InstructionFaithful, Executing

-------------------------------------------------------------------------------
(* The host stack under the moves of the engine. *)

AllParked(fs) == \A k \in 1 .. Len(fs) : Parked(fs[k])

\* The frames below the top are suspended.
LEMMA BelowParked ==
  ASSUME Inv, frames # <<>>
  PROVE  Below \in Seq(Frame) /\ AllParked(Below)
<1>1. /\ Depth \in Nat \ {0} /\ Below \in Seq(Frame) /\ Len(Below) = Depth - 1
      /\ \A k \in 1 .. (Depth - 1) : Below[k] = frames[k]
  BY InvTypes, StackTypes
<1>2. \A k \in 1 .. (Depth - 1) : Parked(frames[k])
  BY DEF Inv, EngineInv, StackInv
<1>. QED BY <1>1, <1>2 DEF AllParked

\* A frame that is active at the new PC may be pushed on suspended ones.
LEMMA Push ==
  ASSUME NEW fs \in Seq(Frame), AllParked(fs), NEW f \in Frame,
         Parked(f) \/ ActiveAt(f, pc'), frames' = Append(fs, f), code' = code
  PROVE  StackInv'
<1>1. /\ Len(frames') = Len(fs) + 1 /\ Len(fs) \in Nat
      /\ frames'[Len(frames')] = f
      /\ \A k \in 1 .. Len(fs) : frames'[k] = fs[k]
  BY PushOps
<1>2. ASSUME NEW k \in 1 .. (Len(frames') - 1) PROVE Parked(frames[k])'
  <2>1. k \in 1 .. Len(fs) /\ frames'[k] = fs[k] /\ Parked(fs[k])
    BY <1>1 DEF AllParked
  <2>. QED BY <2>1 DEF Parked
<1>3. (Parked(Top) \/ ActiveAt(Top, pc))'
  <2>1. Top' = f
    BY <1>1 DEF Top, Depth
  <2>2. CASE Parked(f)
    BY <2>1, <2>2 DEF Parked
  <2>3. CASE ActiveAt(f, pc')
    BY <2>1, <2>3 DEF ActiveAt, InBlock, Collected
  <2>. QED BY <2>2, <2>3
<1>. QED BY <1>1, <1>2, <1>3 DEF StackInv, Depth

\* After a return the topmost frame is a suspended one.
LEMMA Pop ==
  ASSUME Inv, frames # <<>>, frames' = Below, code' = code
  PROVE  StackInv' /\ (frames' # <<>> => Parked(Top)')
<1>1. /\ Below \in Seq(Frame) /\ AllParked(Below)
  BY BelowParked
<1>2. \A k \in 1 .. Len(frames') : Parked(frames[k])'
  BY <1>1 DEF AllParked, Parked
<1>3. Len(frames') \in Nat /\ (frames' # <<>> => Len(frames') # 0)
  BY <1>1
<1>4. frames' # <<>> => Parked(Top)'
  <2>1. frames' # <<>> => Len(frames') \in 1 .. Len(frames')
    BY <1>3
  <2>2. Top' = frames'[Len(frames')]
    BY DEF Top, Depth
  <2>. QED BY <1>2, <2>1, <2>2
<1>. QED BY <1>2, <1>3, <1>4 DEF StackInv, Depth

\* The topmost frame may become one that is active at the new PC.
LEMMA ReplaceTop ==
  ASSUME Inv, frames # <<>>, NEW f \in Frame,
         Parked(f) \/ ActiveAt(f, pc'), frames' = WithTop(f), code' = code
  PROVE  StackInv'
  BY BelowParked, Push DEF WithTop

\* Releasing code changes no frame's role.
LEMMA FreeParked ==
  ASSUME NEW fs \in Seq(Frame), AllParked(fs), NEW b
  PROVE  AllParked(AfterLookup(fs, b)) /\ AfterLookup(fs, b) \in Seq(Frame)
<1>1. ASSUME NEW f \in Frame, Parked(f) PROVE Parked([f EXCEPT !.freed = TRUE])
  BY <1>1 DEF Parked, Frame
<1>2. ASSUME NEW s PROVE AllParked(Free(fs, s))
  <2>1. ASSUME NEW k \in 1 .. Len(fs) PROVE Parked(Free(fs, s)[k])
    <3>1. fs[k] \in Frame /\ Parked(fs[k])
      BY DEF AllParked
    <3>2. Parked([fs[k] EXCEPT !.freed = TRUE])
      BY <3>1, <1>1
    <3>3. \/ Free(fs, s)[k] = fs[k]
          \/ Free(fs, s)[k] = [fs[k] EXCEPT !.freed = TRUE]
      BY FreeFrames
    <3>. QED BY <3>1, <3>2, <3>3
  <2>. QED BY <2>1, FreeFrames DEF AllParked
<1>. QED BY <1>2, AfterLookupTypes DEF AfterLookup

-------------------------------------------------------------------------------
(* The cache under lookups and installs. *)

\* A function compiled at an executable PC is a good block.
LEMMA FnBlockInv ==
  ASSUME NEW e \in ExecPcs, NEW d
  PROVE  BlockInv(FnBlock(e, d))
  BY DEF FnBlock, BlockInv

\* A lookup compiles a block only if it holds neither jump nor branch.
LEMMA LookedUpInv ==
  ASSUME Inv, NEW b \in Block, BlockInv(b)
  PROVE  BlockInv(LookedUp(b))
<1>1. /\ LookedUp(b).kind = b.kind /\ LookedUp(b).start = b.start
      /\ LookedUp(b).pcs = b.pcs
      /\ LookedUp(b).jitted = (b.jitted \/ Compiles(b))
  BY InvTypes, LookedUpSame
<1>2. ASSUME b.kind = "bb", Compiles(b) PROVE Collected(b.start, b.pcs, Straight)
  <2>1. Collected(b.start, b.pcs, MayFall) /\ b.pcs \in Seq(Pcs)
    BY <1>2 DEF BlockInv, Block
  <2>2. \A k \in 1 .. Len(b.pcs) : code[b.pcs[k]].op \notin {"jump", "call", "branch"}
    BY <1>2, <2>1 DEF Compiles, HasJumpOrBranch, PcsOf, Range
  <2>. QED BY <2>1, <2>2 DEF Collected, MayFall
<1>. QED BY <1>1, <1>2 DEF BlockInv

\* A good block may be put in its slot.
LEMMA CacheUpdate ==
  ASSUME Inv, NEW b \in Block, BlockInv(b), code' = code,
         cache' = [cache EXCEPT ![Slot(b.start)] = b]
  PROVE  CacheInv'
<1>1. b.start \in Pcs /\ Slot(b.start) \in Slots
  BY PcArith DEF Block
<1>2. ASSUME NEW s \in Slots, cache'[s].kind # "none"
      PROVE  Slot(cache'[s].start) = s /\ BlockInv(cache'[s])
  <2>1. CASE s = Slot(b.start)
    BY <2>1, <1>1, InvTypes
  <2>2. CASE s # Slot(b.start)
    <3>1. cache'[s] = cache[s]
      BY <2>2, <1>1, InvTypes
    <3>. QED BY <3>1, <1>2 DEF Inv, EngineInv, CacheInv
  <2>. QED BY <2>1, <2>2
<1>. QED BY <1>2 DEF CacheInv, BlockInv, Collected

\* A step that leaves the cache alone leaves it good.
LEMMA CacheSame ==
  ASSUME Inv, cache' = cache, code' = code
  PROVE  CacheInv'
  BY DEF Inv, EngineInv, CacheInv, BlockInv, Collected

\* The block a hit finds.
LEMMA HitBlock ==
  ASSUME Inv, NEW p \in Pcs, Hit(p)
  PROVE  /\ cache[Slot(p)] \in Block /\ BlockInv(cache[Slot(p)])
         /\ Slot(cache[Slot(p)].start) = Slot(p)
         /\ cache[Slot(p)].start \in Pcs
         /\ cache[Slot(p)].kind # "none"
         /\ NoAlias => cache[Slot(p)].start = p
<1>1. Slot(p) \in Slots
  BY PcArith
<1>2. cache[Slot(p)] \in Block /\ cache[Slot(p)].start \in Pcs
  BY <1>1, InvTypes DEF Block
<1>. QED BY <1>1, <1>2 DEF Inv, EngineInv, CacheInv, Hit, NoAlias

\* Entering the block that starts at p makes a frame that is active at p.
LEMMA EnterActive ==
  ASSUME NEW b \in Block, BlockInv(b), b.kind # "none", instr_counter \in Counter
  PROVE  ActiveAt(Enter(b), b.start) /\ Enter(b) \in Frame
<1>0. Enter(b) \in Frame
  BY EnterFrame
<1>1. CASE b.kind = "fn"
  <2>1. b.jitted /\ b.start \in ExecPcs
    BY <1>1 DEF BlockInv
  <2>2. /\ Enter(b).kind = "fn" /\ Enter(b).st = "run" /\ Enter(b).at = b.start
    BY <1>1, <2>1 DEF Enter, NewFrame
  <2>. QED BY <1>0, <2>1, <2>2 DEF ActiveAt
<1>2. CASE b.kind = "bb" /\ b.jitted
  <2>1. /\ Enter(b).kind = "jitbb" /\ Enter(b).st = "run" /\ Enter(b).at = 1
        /\ Enter(b).pcs = b.pcs /\ Enter(b).start = b.start
    BY <1>2 DEF Enter, NewFrame
  <2>2. 1 \in 1 .. Len(b.pcs) /\ b.pcs[1] = b.start
    BY <1>2 DEF BlockInv, Collected, Block
  <2>. QED BY <1>0, <1>2, <2>1, <2>2 DEF BlockInv, ActiveAt, InBlock
<1>3. CASE b.kind = "bb" /\ ~b.jitted
  <2>1. /\ Enter(b).kind = "cached" /\ Enter(b).st = "run" /\ Enter(b).at = 1
        /\ Enter(b).pcs = b.pcs /\ Enter(b).start = b.start
    BY <1>3 DEF Enter, NewFrame
  <2>2. 1 \in 1 .. Len(b.pcs) /\ b.pcs[1] = b.start
    BY <1>3 DEF BlockInv, Collected, Block
  <2>. QED BY <1>0, <1>3, <2>1, <2>2 DEF BlockInv, ActiveAt, InBlock
<1>. QED BY <1>0, <1>1, <1>2, <1>3 DEF Block

-------------------------------------------------------------------------------
(* The invariant under each action. *)

\* An action of the engine alone moves nothing of the guest.
LEMMA GuestSame ==
  ASSUME Inv, UNCHANGED guest
  PROVE  /\ code' = code /\ pc' = pc /\ halt' = halt
         /\ CallsInv' /\ (~halt => HaltInv')
  BY DEF guest, Inv, EngineInv, CallsInv, HaltInv

\* Whoever calls step() has no active frame.
LEMMA AtStepParked ==
  ASSUME Inv, AtStep
  PROVE  ~halt /\ AllParked(frames)
<1>1. ~halt
  BY DEF AtStep
<1>2. CASE frames = <<>>
  BY <1>1, <1>2 DEF AllParked
<1>3. CASE frames # <<>>
  <2>1. Top.kind = "until" /\ Depth \in Nat \ {0}
    BY <1>3, InvTypes, StackTypes DEF AtStep
  <2>2. Parked(Top)
    BY <1>3, <2>1 DEF Inv, EngineInv, StackInv, ActiveAt
  <2>. QED BY <1>1, <2>1, <2>2 DEF AllParked, Inv, EngineInv, StackInv, Depth, Top
<1>. QED BY <1>2, <1>3

\* The invariant under Machine::run, run_until_pc and Hart::step.
LEMMA StepInv ==
  ASSUME Inv, NoAlias, Step
  PROVE  EngineInv'
<1>t. /\ pc \in Pcs /\ paging \in BOOLEAN /\ frames \in Seq(Frame)
      /\ instr_counter \in Counter
  BY InvTypes
<1>g. /\ code' = code /\ pc' = pc /\ halt' = halt
      /\ CallsInv' /\ (~halt => HaltInv')
  <2>1. UNCHANGED guest
    BY DEF Step, StepHit, StepCompileFunction, StepCollect, UntilReturns
  <2>. QED BY <2>1, GuestSame
<1>1. CASE StepHit
  <2>0. AtStep /\ Hit(pc)
    BY <1>1 DEF StepHit
  <2>1. ~halt /\ AllParked(frames)
    BY <2>0, AtStepParked
  <2> DEFINE b == cache[Slot(pc)]
  <2>2. b \in Block /\ BlockInv(b) /\ b.kind # "none" /\ b.start = pc
    BY <1>t, <2>0, HitBlock
  <2>3. /\ LookedUp(b) \in Block /\ BlockInv(LookedUp(b))
        /\ LookedUp(b).kind # "none" /\ LookedUp(b).start = pc
    BY <1>t, <2>2, Blocks, LookedUpInv, LookedUpSame
  <2>4. /\ cache' = [cache EXCEPT ![Slot(pc)] = LookedUp(b)]
        /\ frames' = Append(AfterLookup(frames, b), Enter(LookedUp(b)))
    BY <1>1 DEF StepHit, Call
  <2> HIDE DEF b
  <2>5. CacheInv'
    BY <1>g, <2>3, <2>4, CacheUpdate
  <2>6. ActiveAt(Enter(LookedUp(b)), pc) /\ Enter(LookedUp(b)) \in Frame
    BY <1>t, <2>3, EnterActive
  <2>7. /\ AllParked(AfterLookup(frames, b))
        /\ AfterLookup(frames, b) \in Seq(Frame)
    BY <1>t, <2>1, FreeParked
  <2>8. StackInv'
    BY <1>g, <2>4, <2>6, <2>7, Push
  <2>. QED BY <1>g, <2>1, <2>5, <2>8 DEF EngineInv
<1>2. CASE StepCompileFunction
  <2>0. AtStep /\ pc \in ExecPcs
    BY <1>2 DEF StepCompileFunction
  <2>1. ~halt /\ AllParked(frames)
    BY <2>0, AtStepParked
  <2> DEFINE b == FnBlock(pc, ~paging)
  <2>2. b \in Block /\ BlockInv(b) /\ b.kind # "none" /\ b.start = pc
    BY <1>t, <2>0, Blocks, FnBlockInv DEF FnBlock
  <2>3. /\ LookedUp(b) \in Block /\ BlockInv(LookedUp(b))
        /\ LookedUp(b).kind # "none" /\ LookedUp(b).start = pc
    BY <1>t, <2>2, Blocks, LookedUpInv, LookedUpSame
  <2>4. /\ cache' = [cache EXCEPT ![Slot(pc)] = LookedUp(b)]
        /\ frames' = Append(frames, Enter(LookedUp(b)))
    BY <1>2 DEF StepCompileFunction, Call
  <2> HIDE DEF b
  <2>5. CacheInv'
    BY <1>g, <2>3, <2>4, CacheUpdate
  <2>6. ActiveAt(Enter(LookedUp(b)), pc) /\ Enter(LookedUp(b)) \in Frame
    BY <1>t, <2>3, EnterActive
  <2>8. StackInv'
    BY <1>g, <1>t, <2>1, <2>4, <2>6, Push
  <2>. QED BY <1>g, <2>1, <2>5, <2>8 DEF EngineInv
<1>3. CASE StepCollect
  <2>1. ~halt /\ AllParked(frames)
    BY <1>3, AtStepParked DEF StepCollect
  <2> DEFINE f == NewFrame("collect", pc, <<>>, 0)
  <2>2. f \in Frame
    BY <1>t, CounterArith DEF NewFrame, Frame
  <2>3. ActiveAt(f, pc)
    BY <1>t DEF NewFrame, ActiveAt, Collected
  <2>4. frames' = Append(frames, f) /\ cache' = cache
    BY <1>3 DEF StepCollect
  <2> HIDE DEF f
  <2>5. StackInv'
    BY <1>t, <1>g, <2>1, <2>2, <2>3, <2>4, Push
  <2>. QED BY <1>g, <2>1, <2>4, <2>5, CacheSame DEF EngineInv
<1>4. CASE UntilReturns
  <2>1. frames # <<>> /\ frames' = Below /\ cache' = cache
    BY <1>4 DEF UntilReturns, Running
  <2>2. StackInv' /\ (frames' # <<>> => Parked(Top)')
    BY <1>g, <2>1, Pop
  <2>3. HaltInv'
    <3>1. halt => \E p \in Pcs : code[p].op = "ecall" /\ pc = Inc(p)
      BY DEF Inv, EngineInv, HaltInv
    <3>. QED BY <1>g, <2>2, <3>1 DEF HaltInv
  <2>. QED BY <1>g, <2>1, <2>2, <2>3, CacheSame DEF EngineInv
<1>. QED BY <1>1, <1>2, <1>3, <1>4 DEF Step

\* The instruction that runs next may only halt the guest by returning.
LEMMA HaltNext ==
  ASSUME Inv, ~halt, NEW p \in Pcs, Guest!Execute(code[pc], p),
         halt' => (frames' # <<>> => Parked(Top)')
  PROVE  HaltInv'
<1>1. /\ pc' = p /\ code' = code /\ pc \in Pcs
      /\ halt' <=> code[pc].op = "ecall"
      /\ code[pc].op = "ecall" => p = Inc(pc)
  BY Retire, InvTypes
<1>. QED BY <1>1 DEF HaltInv

\* The invariant under interpretation.
LEMMA InterpretInv ==
  ASSUME Inv, Supported, Interpret
  PROVE  EngineInv'
<1>t. /\ pc \in Pcs /\ paging \in BOOLEAN /\ frames \in Seq(Frame)
      /\ instr_counter \in Counter
  BY InvTypes
<1>1. CASE CollectInstr
  <2>1. /\ frames # <<>> /\ Top \in Frame /\ Top.kind = "collect" /\ Top.st = "run"
        /\ Top.pcs \in Seq(Pcs) /\ Top.start \in Pcs
    BY <1>1, <1>t, StackTypes DEF CollectInstr, Running, Frame
  <2>2. /\ ActiveAt(Top, pc) /\ ~halt
    BY <2>1, ExecutingActive
  <2>3. /\ Collected(Top.start, Top.pcs, MayFall)
        /\ pc = IF Top.pcs = <<>> THEN Top.start ELSE Inc(Top.pcs[Len(Top.pcs)])
    BY <2>1, <2>2 DEF ActiveAt
  <2>4. PICK p \in Pcs :
          /\ Guest!Execute(code[pc], p)
          /\ LET leaves    == halt' \/ p # Inc(pc)
                 collected == IF leaves THEN Top.pcs ELSE Append(Top.pcs, pc)
                 executed  == Len(Top.pcs) + 1
             IN  IF leaves \/ executed = MaxBB
                   THEN /\ Install(Top.start, collected)
                        /\ Return(executed)
                   ELSE /\ frames' = WithTop([Top EXCEPT !.pcs = collected])
                        /\ UNCHANGED cache
    BY <1>1 DEF CollectInstr
  <2> DEFINE leaves    == halt' \/ p # Inc(pc)
             collected == IF leaves THEN Top.pcs ELSE Append(Top.pcs, pc)
             ends      == leaves \/ Len(Top.pcs) + 1 = MaxBB
  <2>5. IF ends THEN Install(Top.start, collected) /\ frames' = Below
                ELSE /\ frames' = WithTop([Top EXCEPT !.pcs = collected])
                     /\ UNCHANGED cache
    BY <2>4 DEF Return
  <2>6. pc' = p /\ code' = code /\ CallsInv'
    BY <2>2, <2>4, Retire
  <2>7. /\ collected \in Seq(Pcs)
        /\ Collected(Top.start, collected, MayFall)
        /\ ~leaves => collected # <<>> /\ p = Inc(collected[Len(collected)])
    <3>1. CASE leaves
      BY <3>1, <2>1, <2>3
    <3>2. CASE ~leaves
      <4>1. code[pc].op \in MayFall
        BY <3>2, <2>2, <2>4, FallsThrough
      <4>2. /\ collected = Append(Top.pcs, pc) /\ collected \in Seq(Pcs)
            /\ Len(collected) = Len(Top.pcs) + 1 /\ Len(Top.pcs) \in Nat
            /\ collected[Len(Top.pcs) + 1] = pc
            /\ \A k \in 1 .. Len(Top.pcs) : collected[k] = Top.pcs[k]
            /\ collected # <<>>
        BY <3>2, <2>1, <1>t, PushOps
      <4> HIDE DEF collected, leaves
      <4>3. collected[1] = Top.start
        <5>1. CASE Top.pcs = <<>>
          BY <5>1, <4>2, <2>3
        <5>2. CASE Top.pcs # <<>>
          <6>1. 1 \in 1 .. Len(Top.pcs) /\ Top.pcs[1] = Top.start
            BY <5>2, <2>1, <2>3 DEF Collected
          <6>. QED BY <6>1, <4>2
        <5>. QED BY <5>1, <5>2
      <4>4. ASSUME NEW k \in 1 .. (Len(collected) - 1)
            PROVE  collected[k + 1] = Inc(collected[k])
        <5>1. CASE k = Len(Top.pcs)
          BY <5>1, <4>2, <2>3, <2>1
        <5>2. CASE k # Len(Top.pcs)
          <6>1. k \in 1 .. (Len(Top.pcs) - 1) /\ k + 1 \in 1 .. Len(Top.pcs)
                /\ k \in 1 .. Len(Top.pcs)
            BY <5>2, <4>2
          <6>2. Top.pcs[k + 1] = Inc(Top.pcs[k])
            BY <6>1, <2>3 DEF Collected
          <6>. QED BY <6>1, <6>2, <4>2
        <5>. QED BY <5>1, <5>2
      <4>5. ASSUME NEW k \in 1 .. Len(collected)
            PROVE  code[collected[k]].op \in MayFall
        <5>1. CASE k = Len(Top.pcs) + 1
          BY <5>1, <4>1, <4>2
        <5>2. CASE k # Len(Top.pcs) + 1
          <6>1. k \in 1 .. Len(Top.pcs)
            BY <5>2, <4>2
          <6>. QED BY <6>1, <4>2, <2>3 DEF Collected
        <5>. QED BY <5>1, <5>2
      <4>6. p = Inc(pc)
        BY <3>2 DEF leaves
      <4>. QED BY <4>2, <4>3, <4>4, <4>5, <4>6 DEF Collected
    <3>. QED BY <3>1, <3>2
  <2>8. CASE ends
    <3>1. Install(Top.start, collected) /\ frames' = Below
      BY <2>5, <2>8
    <3>2. CacheInv'
      <4>1. CASE collected = <<>>
        BY <3>1, <4>1, <2>6, CacheSame DEF Install
      <4>2. CASE collected # <<>>
        <5> HIDE DEF collected
        <5>1. /\ BasicBlock(Top.start, collected) \in Block
              /\ BasicBlock(Top.start, collected).start = Top.start
          BY <1>t, <2>1, <2>7, Blocks DEF BasicBlock
        <5>2. BlockInv(BasicBlock(Top.start, collected))
          BY <4>2, <2>7 DEF BlockInv, BasicBlock
        <5>. QED BY <3>1, <4>2, <5>1, <5>2, <2>6, CacheUpdate DEF Install
      <4>. QED BY <4>1, <4>2
    <3>3. StackInv' /\ (frames' # <<>> => Parked(Top)')
      BY <3>1, <2>1, <2>6, Pop
    <3>4. HaltInv'
      BY <3>3, <2>2, <2>4, HaltNext
    <3>. QED BY <2>6, <3>2, <3>3, <3>4 DEF EngineInv
  <2>9. CASE ~ends
    <3>1. /\ frames' = WithTop([Top EXCEPT !.pcs = collected]) /\ cache' = cache
          /\ ~leaves
      BY <2>5, <2>9
    <3>2. ~halt'
      BY <3>1
    <3> HIDE DEF collected, leaves, ends
    <3>3. [Top EXCEPT !.pcs = collected] \in Frame
      BY <2>1, <2>7 DEF Frame
    <3>4. ActiveAt([Top EXCEPT !.pcs = collected], pc')
      BY <2>1, <2>6, <2>7, <3>1 DEF ActiveAt, Frame
    <3>5. StackInv'
      BY <3>1, <3>3, <3>4, <2>1, <2>6, ReplaceTop
    <3>. QED BY <2>6, <3>1, <3>2, <3>5, CacheSame DEF EngineInv, HaltInv
  <2>. QED BY <2>8, <2>9
<1>2. CASE CachedInstr
  <2>1. /\ frames # <<>> /\ Top \in Frame /\ Top.kind = "cached" /\ Top.st = "run"
        /\ Top.pcs \in Seq(Pcs) /\ Top.start \in Pcs /\ Top.at \in Nat
    BY <1>2, <1>t, StackTypes DEF CachedInstr, Running, Frame
  <2>2. ActiveAt(Top, pc) /\ ~halt /\ Pending(Top) = code[pc]
    BY <2>1, ExecutingActive
  <2>3. InBlock(Top, MayFall, pc)
    BY <2>1, <2>2 DEF ActiveAt
  <2>4. PICK p \in Pcs :
          /\ Guest!Execute(code[pc], p)
          /\ \/ frames' = Below
             \/ \E next \in Nat, n \in Counter :
                  /\ next < Len(Top.pcs) + 1
                  /\ \/ p = Inc(pc) /\ next = Top.at + 1
                     \/ p = Top.start /\ next = 1
                  /\ frames' = WithTop([Top EXCEPT !.at = next, !.n = n])
    <3>1. PICK p \in Pcs :
            /\ Guest!Execute(code[pc], p)
            /\ LET n    == Plus(Top.n, 1)
                   past == Len(Top.pcs) + 1
                   next == CASE halt' -> past
                             [] ~halt' /\ p = Inc(pc) -> Top.at + 1
                             [] ~halt' /\ p # Inc(pc) /\ p = Top.start -> 1
                             [] OTHER -> past
               IN  IF next < past
                     THEN frames' = WithTop([Top EXCEPT !.at = next, !.n = n])
                     ELSE Return(n)
      BY <1>2, <2>2 DEF CachedInstr
    <3> DEFINE n    == Plus(Top.n, 1)
               past == Len(Top.pcs) + 1
               next == CASE halt' -> past
                         [] ~halt' /\ p = Inc(pc) -> Top.at + 1
                         [] ~halt' /\ p # Inc(pc) /\ p = Top.start -> 1
                         [] OTHER -> past
    <3>2. next \in Nat /\ past \in Nat
      BY <2>1
    <3>5. n \in Counter
      <4>1. Top.n \in Int
        BY <2>1, CounterNat DEF Frame
      <4>. QED BY <4>1, CounterArith
    <3>3. next < past => \/ p = Inc(pc) /\ next = Top.at + 1
                         \/ p = Top.start /\ next = 1
      BY <2>1
    <3>4. IF next < past
            THEN frames' = WithTop([Top EXCEPT !.at = next, !.n = n])
            ELSE frames' = Below
      BY <3>1 DEF Return
    <3> HIDE DEF next, n
    <3>. QED BY <3>1, <3>2, <3>3, <3>4, <3>5
  <2>5. pc' = p /\ code' = code /\ CallsInv' /\ cache' = cache
    BY <1>2, <2>2, <2>4, Retire DEF CachedInstr
  <2>6. ~halt'
    <3>1. code[pc].op \in MayFall
      BY <2>3 DEF InBlock, Collected
    <3>. QED BY <3>1, <2>2, <2>4, Retire DEF MayFall, Straight
  <2>7. CASE frames' = Below
    <3>1. StackInv'
      BY <2>7, <2>1, <2>5, Pop
    <3>. QED BY <2>5, <2>6, <3>1, CacheSame DEF EngineInv, HaltInv
  <2>8. ASSUME NEW next \in Nat, NEW n \in Counter, next < Len(Top.pcs) + 1,
               \/ p = Inc(pc) /\ next = Top.at + 1
               \/ p = Top.start /\ next = 1,
               frames' = WithTop([Top EXCEPT !.at = next, !.n = n])
        PROVE  EngineInv'
    <3>1. [Top EXCEPT !.at = next, !.n = n] \in Frame
      BY <2>1 DEF Frame
    <3>2. InBlock([Top EXCEPT !.at = next, !.n = n], MayFall, pc')
      <4>1. /\ Collected(Top.start, Top.pcs, MayFall)
            /\ Top.at \in 1 .. Len(Top.pcs) /\ Top.pcs[Top.at] = pc
        BY <2>3 DEF InBlock
      <4>2. next \in 1 .. Len(Top.pcs) /\ Top.pcs[next] = p
        <5>1. CASE p = Inc(pc) /\ next = Top.at + 1
          <6>1. Top.at \in 1 .. (Len(Top.pcs) - 1) /\ next \in 1 .. Len(Top.pcs)
            BY <5>1, <4>1, <2>1, <2>8
          <6>. QED BY <5>1, <6>1, <4>1 DEF Collected
        <5>2. CASE p = Top.start /\ next = 1
          <6>1. Top.pcs # <<>> /\ 1 \in 1 .. Len(Top.pcs)
            BY <4>1, <2>1
          <6>. QED BY <5>2, <6>1, <4>1 DEF Collected
        <5>. QED BY <5>1, <5>2, <2>8
      <4>. QED BY <4>1, <4>2, <2>1, <2>5 DEF InBlock, Frame
    <3>3. ActiveAt([Top EXCEPT !.at = next, !.n = n], pc')
      BY <3>2, <2>1 DEF ActiveAt, Frame
    <3>4. StackInv'
      BY <3>1, <3>3, <2>1, <2>5, <2>8, ReplaceTop
    <3>. QED BY <2>5, <2>6, <3>4, CacheSame DEF EngineInv, HaltInv
  <2>. QED BY <2>4, <2>7, <2>8
<1>3. CASE InterpretUnknown
  <2>1. UNCHANGED guest /\ cache' = cache /\ frames' = frames
    BY <1>3 DEF InterpretUnknown
  <2>2. ~halt
    BY <1>3, ExecutingActive DEF InterpretUnknown, Running
  <2>3. StackInv'
    BY <2>1, GuestSame DEF Inv, EngineInv, StackInv, Parked, ActiveAt, InBlock, Collected,
                           Depth, Top
  <2>. QED BY <2>1, <2>2, <2>3, GuestSame, CacheSame DEF EngineInv
<1>. QED BY <1>1, <1>2, <1>3 DEF Interpret

\* Control arrives at p, where the guest's PC is: the label's frame is active.
LEMMA GoToInv ==
  ASSUME Inv, frames # <<>>, Top.kind = "fn", code' = code, pc' \in Pcs,
         GoTo(pc')
  PROVE  StackInv'
<1>1. Top \in Frame /\ Top.start \in Pcs
  BY InvTypes, StackTypes DEF Frame
<1>2. CASE IsLabel(pc')
  <2>1. pc' \in ExecPcs /\ pc' \in Nat
    BY <1>1, <1>2, InvTypes, LabelsExec, PcNat DEF IsLabel
  <2>2. [Top EXCEPT !.at = pc', !.st = "run"] \in Frame
    BY <1>1, <2>1 DEF Frame
  <2>3. ActiveAt([Top EXCEPT !.at = pc', !.st = "run"], pc')
    BY <1>1, <2>1 DEF ActiveAt, Frame
  <2>4. frames' = WithTop([Top EXCEPT !.at = pc', !.st = "run"])
    BY <1>2 DEF GoTo
  <2>. QED BY <2>2, <2>3, <2>4, ReplaceTop
<1>3. CASE ~IsLabel(pc')
  BY <1>3, Pop DEF GoTo, Leave, Return
<1>. QED BY <1>2, <1>3

\* Leaving a compiled function uncovers a suspended frame.
LEMMA LeaveInv ==
  ASSUME Inv, frames # <<>>, code' = code, Leave
  PROVE  StackInv' /\ (frames' # <<>> => Parked(Top)')
  BY Pop DEF Leave, Return

\* The invariant under compiled code.
LEMMA CompiledInv ==
  ASSUME Inv, Supported, RunCompiled
  PROVE  EngineInv'
<1>t. /\ pc \in Pcs /\ paging \in BOOLEAN /\ frames \in Seq(Frame)
      /\ instr_counter \in Counter
  BY InvTypes
<1>1. CASE BlockInstr
  <2>1. /\ frames # <<>> /\ Top \in Frame /\ Top.kind = "jitbb" /\ Top.st = "run"
        /\ Top.pcs \in Seq(Pcs) /\ Top.start \in Pcs /\ Top.at \in Nat
    BY <1>1, <1>t, StackTypes DEF BlockInstr, Running, Frame
  <2>2. ActiveAt(Top, pc) /\ ~halt /\ Pending(Top) = code[pc]
    BY <2>1, ExecutingActive
  <2>3. InBlock(Top, Straight, pc)
    BY <2>1, <2>2 DEF ActiveAt
  <2>4. PICK p \in Pcs : Guest!Execute(code[pc], p)
    BY <1>1, <2>2 DEF BlockInstr
  <2>5. code[pc].op \in Straight
    BY <2>3 DEF InBlock, Collected
  <2>6. /\ pc' = p /\ p = Inc(pc) /\ code' = code /\ CallsInv' /\ cache' = cache
        /\ ~halt'
    BY <1>1, <2>2, <2>4, <2>5, Retire DEF BlockInstr, Straight
  <2>7. CASE Top.at < Len(Top.pcs)
    <3>1. frames' = WithTop([Top EXCEPT !.at = @ + 1])
      BY <1>1, <2>2, <2>5, <2>7 DEF BlockInstr, Straight
    <3>2. [Top EXCEPT !.at = @ + 1] \in Frame
      BY <2>1 DEF Frame
    <3>3. InBlock([Top EXCEPT !.at = @ + 1], Straight, pc')
      <4>1. Top.at \in 1 .. (Len(Top.pcs) - 1) /\ Top.at + 1 \in 1 .. Len(Top.pcs)
        BY <2>1, <2>3, <2>7 DEF InBlock
      <4>2. Top.pcs[Top.at + 1] = p
        BY <2>3, <2>6, <4>1 DEF InBlock, Collected
      <4>. QED BY <2>1, <2>3, <2>6, <4>1, <4>2 DEF InBlock, Frame
    <3>4. ActiveAt([Top EXCEPT !.at = @ + 1], pc')
      BY <2>1, <3>3 DEF ActiveAt, Frame
    <3>5. StackInv'
      BY <2>1, <2>6, <3>1, <3>2, <3>4, ReplaceTop
    <3>. QED BY <2>6, <3>5, CacheSame DEF EngineInv, HaltInv
  <2>8. CASE ~(Top.at < Len(Top.pcs))
    <3>1. frames' = Below
      BY <1>1, <2>8 DEF BlockInstr, Return
    <3>2. StackInv'
      BY <3>1, <2>1, <2>6, Pop
    <3>. QED BY <2>6, <3>2, CacheSame DEF EngineInv, HaltInv
  <2>. QED BY <2>7, <2>8
<1>2. CASE FunctionInstr
  <2>1. /\ frames # <<>> /\ Top \in Frame /\ Top.kind = "fn" /\ Top.st = "run"
    BY <1>2, <1>t, StackTypes DEF FunctionInstr, Running
  <2>2. ActiveAt(Top, pc) /\ ~halt /\ Pending(Top) = code[pc] /\ Top.at = pc
    BY <2>1, ExecutingActive DEF ActiveAt
  <2>3. PICK p \in Pcs : Guest!Execute(code[pc], p)
    BY <1>2, <2>2 DEF FunctionInstr
  <2>4. /\ pc' = p /\ code' = code /\ CallsInv' /\ cache' = cache
        /\ halt' <=> code[pc].op = "ecall"
        /\ code[pc].op \in Guest!Ops
    BY <1>2, <2>2, <2>3, <1>t, InvTypes, InstrTypes, Retire DEF FunctionInstr
  <2>5. CASE code[pc].op \in {"ret", "ijump", "ecall"}
    <3>1. Leave
      BY <1>2, <2>2, <2>5 DEF FunctionInstr
    <3>2. StackInv' /\ (frames' # <<>> => Parked(Top)')
      BY <3>1, <2>1, <2>4, LeaveInv
    <3>. QED BY <2>2, <2>3, <2>4, <3>2, HaltNext, CacheSame DEF EngineInv
  <2>6. CASE code[pc].op \notin {"ret", "ijump", "ecall"}
    <3>1. GoTo(pc') \/ Leave
      <4>1. CASE code[pc].op = "branch"
        <5>1. pc' \in {Inc(pc), Rel(pc, code[pc].imm)}
          BY <4>1, <2>2, <2>3, <2>4, Retire
        <5>2. Dispatch(code[pc])
          BY <1>2, <2>2, <4>1 DEF FunctionInstr
        <5>. QED BY <5>1, <5>2, <2>2 DEF Dispatch
      <4>2. CASE code[pc].op = "jump"
        <5>1. pc' = Rel(pc, code[pc].imm)
          BY <4>2, <2>2, <2>3, <2>4, Retire
        <5>. QED BY <1>2, <2>2, <4>2, <5>1 DEF FunctionInstr
      <4>3. CASE code[pc].op \notin {"branch", "jump"}
        <5>1. code[pc].op \in {"op", "mem", "csrw"}
          BY <1>2, <2>2, <2>3, <2>4, <2>6, <4>3, Retire DEF FunctionInstr, Guest!Ops
        <5>2. pc' = Inc(pc)
          BY <5>1, <2>2, <2>3, <2>4, Retire
        <5>. QED BY <1>2, <2>2, <5>1, <5>2 DEF FunctionInstr
      <4>. QED BY <4>1, <4>2, <4>3
    <3>2. StackInv'
      BY <3>1, <2>1, <2>3, <2>4, GoToInv, LeaveInv
    <3>. QED BY <2>4, <2>6, <3>2, CacheSame DEF EngineInv, HaltInv
  <2>. QED BY <2>5, <2>6
<1>3. CASE FunctionCall
  <2>1. /\ frames # <<>> /\ Top \in Frame /\ Top.kind = "fn" /\ Top.st = "run"
    BY <1>3, <1>t, StackTypes DEF FunctionCall, Running
  <2>2. ActiveAt(Top, pc) /\ ~halt /\ Pending(Top) = code[pc] /\ Top.at = pc
    BY <2>1, ExecutingActive DEF ActiveAt
  <2>3. PICK p \in Pcs : Guest!Execute(code[pc], p)
    BY <1>3, <2>2 DEF FunctionCall
  <2>4. /\ pc' = p /\ code' = code /\ CallsInv' /\ cache' = cache
        /\ code[pc].op \in Linking
        /\ ~halt'
        /\ code[pc].op = "call" => pc' = Rel(pc, code[pc].imm)
    BY <1>3, <2>2, <2>3, Retire DEF FunctionCall, Linking
  <2>5. [Top EXCEPT !.st = "call"] \in Frame
    BY <2>1 DEF Frame
  <2>6. ActiveAt([Top EXCEPT !.st = "call"], pc')
    BY <2>1, <2>2, <2>4, <1>t DEF ActiveAt, Frame
  <2>7. StackInv'
    BY <1>3, <2>1, <2>4, <2>5, <2>6, ReplaceTop DEF FunctionCall
  <2>. QED BY <2>4, <2>7, CacheSame DEF EngineInv, HaltInv
<1>4. CASE FunctionUnknown
  <2>1. /\ frames # <<>> /\ Top.kind = "fn" /\ Top.st = "run"
        /\ Pending(Top).op = "unknown"
    BY <1>4 DEF FunctionUnknown, Running
  <2>2. ActiveAt(Top, pc) /\ Pending(Top) = code[pc] /\ pc \in ExecPcs
    BY <2>1, ExecutingActive DEF ActiveAt
  <2>3. FALSE
    BY <2>1, <2>2, <1>t, InvTypes DEF Supported, SupportedProgram
  <2>. QED BY <2>3
<1>. QED BY <1>1, <1>2, <1>3, <1>4 DEF RunCompiled

\* A caller at the trampoline stands for the call the guest has just made.
LEMMA AtCall ==
  ASSUME Inv, AtTrampoline
  PROVE  /\ ~halt /\ Top.kind = "fn" /\ Top.at \in Pcs /\ code[Top.at].op \in Linking
         /\ CallTarget = pc
         /\ Waiting \in Seq(Frame) /\ AllParked(Waiting)
<1>1. frames # <<>> /\ Top \in Frame /\ Top.kind = "fn" /\ Top.st = "call"
      /\ Waiting \in Seq(Frame)
  BY InvTypes, TrampolineFacts DEF AtTrampoline
<1>2. ~Parked(Top)
  BY <1>1 DEF Parked
<1>3. ~halt /\ ActiveAt(Top, pc)
  BY <1>1, <1>2, RunningActive
<1>4. Top.at \in Pcs /\ code[Top.at].op \in Linking /\ CallTarget = pc
  BY <1>1, <1>3 DEF ActiveAt, CallTarget
<1>5. Parked([Top EXCEPT !.st = "wait"]) /\ [Top EXCEPT !.st = "wait"] \in Frame
  BY <1>1, <1>4 DEF Parked, Frame
<1>6. AllParked(Waiting)
  <2>1. Below \in Seq(Frame) /\ AllParked(Below)
    BY <1>1, BelowParked
  <2>2. /\ Len(Waiting) = Len(Below) + 1 /\ Len(Below) \in Nat
        /\ Waiting[Len(Below) + 1] = [Top EXCEPT !.st = "wait"]
        /\ \A k \in 1 .. Len(Below) : Waiting[k] = Below[k]
    BY <1>5, <2>1, PushOps DEF Waiting, WithTop
  <2>3. ASSUME NEW k \in 1 .. Len(Waiting) PROVE Parked(Waiting[k])
    <3>1. CASE k = Len(Below) + 1
      BY <3>1, <2>2, <1>5
    <3>2. CASE k # Len(Below) + 1
      <4>1. k \in 1 .. Len(Below)
        BY <3>2, <2>2
      <4>. QED BY <4>1, <2>1, <2>2 DEF AllParked
    <3>. QED BY <3>1, <3>2
  <2>. QED BY <2>3 DEF AllParked
<1>. QED BY <1>1, <1>3, <1>4, <1>6

\* The callee's activation starts where the guest's PC is.
LEMMA RunCalleeInv ==
  ASSUME Inv, NEW fs \in Seq(Frame), AllParked(fs), NEW b \in Block, BlockInv(b),
         b.kind # "none", b.start = pc, UNCHANGED guest, RunCallee(fs, b)
  PROVE  CacheInv' /\ StackInv'
<1>1. code' = code /\ pc' = pc /\ paging \in BOOLEAN /\ instr_counter \in Counter
  BY GuestSame, InvTypes
<1>2. /\ LookedUp(b) \in Block /\ BlockInv(LookedUp(b))
      /\ LookedUp(b).kind # "none" /\ LookedUp(b).start = pc
  BY <1>1, Blocks, LookedUpInv, LookedUpSame
<1>3. CacheInv'
  BY <1>1, <1>2, CacheUpdate DEF RunCallee
<1>4. ActiveAt(Enter(LookedUp(b)), pc) /\ Enter(LookedUp(b)) \in Frame
  BY <1>1, <1>2, EnterActive
<1>5. AllParked(AfterLookup(fs, b)) /\ AfterLookup(fs, b) \in Seq(Frame)
  BY FreeParked
<1>6. StackInv'
  BY <1>1, <1>4, <1>5, Push DEF RunCallee, Call
<1>. QED BY <1>3, <1>6

\* The invariant under calls of compiled functions and returns to them.
LEMMA TrampolineInv ==
  ASSUME Inv, NoAlias, Trampoline
  PROVE  EngineInv'
<1>t. /\ pc \in Pcs /\ paging \in BOOLEAN /\ frames \in Seq(Frame)
      /\ instr_counter \in Counter /\ cache \in [Slots -> Block]
  BY InvTypes
<1>g. /\ code' = code /\ pc' = pc /\ halt' = halt /\ UNCHANGED guest
      /\ CallsInv' /\ (~halt => HaltInv')
  <2>1. UNCHANGED guest
    BY DEF Trampoline, CallCompiled, CallCompileFunction, CallInterpreted,
           PostCall, ReturnToFreedCode
  <2>. QED BY <2>1, GuestSame
<1>1. CASE CallCompiled
  <2>1. /\ ~halt /\ CallTarget = pc /\ Waiting \in Seq(Frame) /\ AllParked(Waiting)
    BY <1>1, AtCall DEF CallCompiled
  <2>2. Hit(pc) /\ Callee = cache[Slot(pc)]
    BY <1>1, <2>1 DEF CallCompiled, CalleeJitted, Callee
  <2>3. /\ Callee \in Block /\ BlockInv(Callee) /\ Callee.kind # "none"
        /\ Callee.start = pc
    BY <1>t, <2>2, HitBlock
  <2>4. /\ LookedUp(Callee) \in Block /\ BlockInv(LookedUp(Callee))
        /\ LookedUp(Callee).kind # "none" /\ LookedUp(Callee).start = pc
    BY <1>t, <2>3, Blocks, LookedUpInv, LookedUpSame
  <2>5. /\ AfterLookup(Waiting, Callee) \in Seq(Frame)
        /\ AllParked(AfterLookup(Waiting, Callee))
    BY <2>1, FreeParked
  <2>6. CacheInv' /\ StackInv'
    BY <1>1, <1>g, <2>4, <2>5, RunCalleeInv DEF CallCompiled
  <2>. QED BY <1>g, <2>1, <2>6 DEF EngineInv
<1>2. CASE CallCompileFunction
  <2>1. /\ ~halt /\ CallTarget = pc /\ Waiting \in Seq(Frame) /\ AllParked(Waiting)
    BY <1>2, AtCall DEF CallCompileFunction
  <2>2. pc \in ExecPcs
    BY <1>2, <2>1 DEF CallCompileFunction
  <2> DEFINE b == FnBlock(pc, ~paging)
  <2>3. b \in Block /\ BlockInv(b) /\ b.kind # "none" /\ b.start = pc
    BY <1>t, <2>2, Blocks, FnBlockInv DEF FnBlock
  <2>4. RunCallee(Waiting, b)
    BY <1>2, <2>1 DEF CallCompileFunction
  <2> HIDE DEF b
  <2>5. CacheInv' /\ StackInv'
    BY <1>g, <2>1, <2>3, <2>4, RunCalleeInv
  <2>. QED BY <1>g, <2>1, <2>5 DEF EngineInv
<1>3. CASE CallInterpreted
  <2>1. /\ ~halt /\ CallTarget = pc /\ Waiting \in Seq(Frame) /\ AllParked(Waiting)
        /\ Top.at \in Pcs
    BY <1>3, AtCall DEF CallInterpreted
  <2>2. Slot(pc) \in Slots
    BY <1>t, PcArith
  <2>3. CacheInv'
    <3>1. CASE Hit(pc)
      <4> DEFINE b == cache[Slot(pc)]
      <4>1. b \in Block /\ BlockInv(b) /\ Slot(b.start) = Slot(pc)
        BY <1>t, <3>1, HitBlock
      <4>2. /\ LookedUp(b) \in Block /\ BlockInv(LookedUp(b))
            /\ Slot(LookedUp(b).start) = Slot(pc)
        BY <1>t, <4>1, Blocks, LookedUpInv, LookedUpSame
      <4>3. cache' = [cache EXCEPT ![Slot(pc)] = LookedUp(b)]
        BY <1>3, <1>t, <2>1, <2>2, <3>1 DEF CallInterpreted
      <4> HIDE DEF b
      <4>. QED BY <1>g, <4>2, <4>3, CacheUpdate
    <3>2. CASE ~Hit(pc)
      <4>1. cache' = cache
        BY <1>3, <1>t, <2>1, <2>2, <3>2 DEF CallInterpreted
      <4>. QED BY <1>g, <4>1, CacheSame
    <3>. QED BY <3>1, <3>2
  <2> DEFINE f == NewFrame("until", pc, <<>>, Inc(Top.at))
  <2>4. Inc(Top.at) \in Nat
    BY <2>1, PcNat, PcArith
  <2>5. f \in Frame /\ Parked(f)
    BY <1>t, <2>4, CounterArith DEF NewFrame, Frame, Parked
  <2>6. frames' = Append(Waiting, f)
    BY <1>3 DEF CallInterpreted
  <2> HIDE DEF f
  <2>7. StackInv'
    BY <1>g, <2>1, <2>5, <2>6, Push
  <2>. QED BY <1>g, <2>1, <2>3, <2>7 DEF EngineInv
<1>4. CASE PostCall
  <2>1. /\ frames # <<>> /\ Top \in Frame /\ Top.st = "wait" /\ Top.kind = "fn"
        /\ cache' = cache
    BY <1>4, <1>t, StackTypes DEF PostCall, AtPostCall, Frame
  <2>2. Top.at \in Pcs /\ code[Top.at].op \in Linking
    BY <2>1 DEF Inv, EngineInv, StackInv, Parked, ActiveAt
  <2>3. CASE pc = Inc(Top.at)
    <3>1. ~halt
      <4>1. SUFFICES ASSUME halt PROVE FALSE
        OBVIOUS
      <4>2. PICK q \in Pcs : code[q].op = "ecall" /\ pc = Inc(q)
        BY <4>1 DEF Inv, EngineInv, HaltInv
      <4>3. q = Top.at
        BY <4>2, <2>2, <2>3, IncInjective
      <4>. QED BY <4>2, <4>3, <2>2 DEF Linking
    <3>2. GoTo(pc')
      BY <1>4, <1>g, <2>3 DEF PostCall
    <3>3. StackInv'
      BY <3>2, <1>t, <1>g, <2>1, GoToInv
    <3>. QED BY <1>g, <2>1, <3>1, <3>3, CacheSame DEF EngineInv
  <2>4. CASE pc # Inc(Top.at)
    <3>1. Leave
      BY <1>4, <2>4 DEF PostCall
    <3>2. StackInv' /\ (frames' # <<>> => Parked(Top)')
      BY <3>1, <1>g, <2>1, LeaveInv
    <3>3. HaltInv'
      <4>1. halt => \E p \in Pcs : code[p].op = "ecall" /\ pc = Inc(p)
        BY DEF Inv, EngineInv, HaltInv
      <4>. QED BY <1>g, <3>2, <4>1 DEF HaltInv
    <3>. QED BY <1>g, <2>1, <3>2, <3>3, CacheSame DEF EngineInv
  <2>. QED BY <2>3, <2>4
<1>5. CASE ReturnToFreedCode
  <2>1. cache' = cache /\ frames' = frames
    BY <1>5 DEF ReturnToFreedCode
  <2>2. StackInv'
    BY <2>1, <1>g DEF Inv, EngineInv, StackInv, Parked, ActiveAt, InBlock, Collected,
                      Depth, Top
  <2>3. HaltInv'
    BY <2>1, <1>g DEF Inv, EngineInv, HaltInv, Parked, Depth, Top
  <2>. QED BY <1>g, <2>1, <2>2, <2>3, CacheSame DEF EngineInv
<1>. QED BY <1>1, <1>2, <1>3, <1>4, <1>5 DEF Trampoline

\* The invariant holds of a loaded program.
LEMMA InvInit == Init => Inv
<1> SUFFICES ASSUME Init PROVE Inv
  OBVIOUS
<1>1. TypeOK /\ code \in Programs
  BY TypesInit DEF TypeInv
<1>2. frames = <<>> /\ halt = FALSE /\ calls = <<>>
  BY DEF Init, Guest!Init
<1>3. CacheInv
  <2>1. PICK S \in Survivors(Predecoded(code)) :
          cache = [s \in Slots |->
                     IF \E e \in S : Slot(e) = s
                       THEN FnBlock(CHOOSE e \in S : Slot(e) = s, TRUE)
                       ELSE NoBlock]
    BY DEF Init
  <2>2. S \subseteq ExecPcs
    BY DEF Survivors, Predecoded, Entries, Visited
  <2>3. ASSUME NEW s \in Slots, cache[s].kind # "none"
        PROVE  Slot(cache[s].start) = s /\ BlockInv(cache[s])
    <3>1. PICK e \in S : Slot(e) = s /\ cache[s] = FnBlock(e, TRUE)
      BY <2>1, <2>3 DEF NoBlock
    <3>. QED BY <3>1, <2>2, FnBlockInv DEF FnBlock
  <2>. QED BY <2>3 DEF CacheInv
<1>4. StackInv
  BY <1>2 DEF StackInv, Depth
<1>5. HaltInv /\ CallsInv
  BY <1>2 DEF HaltInv, CallsInv
<1>. QED BY <1>1, <1>3, <1>4, <1>5 DEF Inv, EngineInv

\* Every step preserves the invariant.
LEMMA InvNext == ASSUME NoAlias, Supported PROVE Inv /\ [Next]_vars => Inv'
<1> SUFFICES ASSUME Inv, [Next]_vars PROVE Inv'
  OBVIOUS
<1>1. TypeInv'
  BY InvTypes, TypesNext
<1>2. CASE Next
  BY <1>1, <1>2, StepInv, InterpretInv, CompiledInv, TrampolineInv
     DEF Next, Inv, EngineInv, TypeInv
<1>3. CASE UNCHANGED vars
  <2>1. UNCHANGED guest /\ cache' = cache /\ frames' = frames
    BY <1>3 DEF vars, guest
  <2>2. code' = code /\ pc' = pc /\ halt' = halt /\ CallsInv' /\ CacheInv'
    BY <2>1, GuestSame, CacheSame
  <2>3. StackInv'
    BY <2>1, <2>2 DEF Inv, EngineInv, StackInv, Parked, ActiveAt, InBlock, Collected,
                      Depth, Top
  <2>4. HaltInv'
    BY <2>1, <2>2 DEF Inv, EngineInv, HaltInv, Parked, Depth, Top
  <2>. QED BY <1>1, <2>2, <2>3, <2>4 DEF Inv, EngineInv, TypeInv
<1>. QED BY <1>2, <1>3

\* In a program that fits the cache and is Supported, every PC the engine holds
\* is the guest's.
THEOREM EngineCorrect ==
  ASSUME NoAlias, Supported PROVE SafeSpec => []EngineInv
<1>1. Inv /\ [Next]_vars => Inv'
  BY InvNext
<1>2. Inv => EngineInv
  BY DEF Inv
<1>. QED BY <1>1, <1>2, InvInit, PTL DEF SafeSpec

\* In a program that fits the cache (NoAlias) and is Supported, the code in the
\* engine's hands is always the code at the guest's PC.
THEOREM Faithful ==
  ASSUME NoAlias, Supported PROVE SafeSpec => []InstructionFaithful
<1>1. Inv /\ [Next]_vars => Inv'
  BY InvNext
<1>. QED BY <1>1, InvInit, InvFaithful, PTL DEF SafeSpec

\* Every step of the engine is a step of the sequential machine, or invisible.
LEMMA StepRefines ==
  ASSUME Inv, NoAlias, Supported, [Next]_vars
  PROVE  [Guest!Next]_(Guest!guest)
<1>1. CASE UNCHANGED guest
  BY <1>1 DEF guest, Guest!guest
<1>2. CASE CollectInstr \/ CachedInstr \/ BlockInstr \/ FunctionInstr \/ FunctionCall
  <2>1. /\ frames # <<>> /\ Top.kind # "until" /\ Top.st = "run"
        /\ Top.kind = "collect" \/ ~CollectInstr
    BY <1>2 DEF CollectInstr, CachedInstr, BlockInstr, FunctionInstr, FunctionCall,
                Running
  <2>2. ~halt /\ Pending(Top) = code[pc]
    BY <2>1, ExecutingActive
  <2>3. \E p \in Pcs : Guest!Execute(code[pc], p)
    BY <1>2, <2>2 DEF CollectInstr, CachedInstr, BlockInstr, FunctionInstr,
                      FunctionCall
  <2>. QED BY <2>2, <2>3 DEF Guest!Next, Pcs
<1>3. Next => UNCHANGED guest \/ CollectInstr \/ CachedInstr \/ BlockInstr
                              \/ FunctionInstr \/ FunctionCall
  BY DEF Next, Step, StepHit, StepCompileFunction, StepCollect, UntilReturns,
         Interpret, InterpretUnknown, RunCompiled, FunctionUnknown, Trampoline,
         CallCompiled, CallCompileFunction, CallInterpreted, PostCall,
         ReturnToFreedCode
<1>. QED BY <1>1, <1>2, <1>3 DEF vars, guest

\* For such programs, caching and compiling are invisible: the engine implements
\* the sequential machine.
THEOREM Refines ==
  ASSUME NoAlias, Supported PROVE SafeSpec => ImplementsIsa
<1>1. Init => Guest!Init
  BY DEF Init
<1>2. Inv /\ [Next]_vars => Inv'
  BY InvNext
<1>3. Inv /\ [Next]_vars => [Guest!Next]_(Guest!guest)
  BY StepRefines
<1>. QED BY <1>1, <1>2, <1>3, InvInit, PTL DEF SafeSpec, ImplementsIsa, Guest!SafeSpec
===============================================================================
