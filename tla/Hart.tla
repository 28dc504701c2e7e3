--------------------------------- MODULE Hart ---------------------------------
(***************************************************************************)
(* The execution engine: Machine::run, Hart::step, the basic-block cache   *)
(* with its search counters, blocks collected while interpreting, blocks   *)
(* compiled by the JIT, functions compiled by the JIT and the trampoline   *)
(* through which compiled functions call each other.  The host stack is    *)
(* explicit: every C++ or JIT activation is a frame, and a compiled        *)
(* function suspended in a call keeps its frame below its callee's.        *)
(*                                                                         *)
(* One action retires at most one guest instruction, in the way the        *)
(* topmost frame does it.  What the instruction does to the guest is       *)
(* IsaMachine's Execute; which instruction it is, is the engine's.         *)
(***************************************************************************)
EXTENDS Integers, Sequences, FiniteSets, FiniteSetsExt, Functions

CONSTANTS PcSpace, Programs, Entry, CounterSpace, MaxCalls,  \* see IsaMachine
          ExecPcs,    \* the PCs inside executable segments (exec_ranges_)
          NSlots,     \* entries of the block cache (bb_cache_size)
          JitBound,   \* lookups after which a block is compiled (jit_bound)
          UseJit,     \* use_jit
          MaxBB,      \* max_cached_bb_size_
          MaxCycles   \* max_cycles, 0 for no limit

VARIABLES code, pc, halt, paging, calls, instret,   \* the guest's state
          cache,          \* naive_cache::slots_
          frames,         \* the host stack, innermost activation last
          instr_counter,  \* Hart::instr_counter_
          cycle,          \* the cycle count of Machine::run
          aborted         \* std::abort was called

Guest == INSTANCE IsaMachine

guest == <<code, pc, halt, paging, calls, instret>>
vars == <<code, pc, halt, paging, calls, instret,
          cache, frames, instr_counter, cycle, aborted>>

Pcs == Guest!Pcs
Inc(p) == Guest!Inc(p)
Rel(p, imm) == Guest!Rel(p, imm)
Counter == 0 .. (CounterSpace - 1)
Plus(m, n) == (m + n) % CounterSpace

Slots == 0 .. (NSlots - 1)
Slot(p) == p % NSlots

ASSUME HartAssumption ==
  /\ Guest!MachineConstants
  /\ ExecPcs \subseteq Pcs
  /\ NSlots \in Nat \ {0}
  /\ JitBound \in Nat
  /\ UseJit \in BOOLEAN
  /\ MaxBB \in Nat \ {0}
  /\ MaxCycles \in Nat

-------------------------------------------------------------------------------
(* Which instructions a compiled function holds. *)

\* The PCs build_function_block explores after the one at p.
Explores(c, p) ==
  CASE c[p].op \in {"ecall", "ret", "ijump"} -> {}
    [] c[p].op = "jump" -> {Rel(p, c[p].imm)}
    [] c[p].op = "branch" -> {Rel(p, c[p].imm), Inc(p)}
    [] OTHER -> {Inc(p)}

\* The executable PCs a worklist started at `from' visits when each PC pushes
\* those `step' gives.
Visited(from, step) ==
  LET after[n \in Nat] ==
        IF n = 0 THEN {from}
        ELSE LET seen == after[n - 1] \cap ExecPcs
             IN  seen \cup UNION {step[p] : p \in seen}
  IN  after[PcSpace] \cap ExecPcs

\* Labels[c][e]: the PCs of the function block entered at e.
Labels == [c \in Programs |->
             [e \in Pcs |-> Visited(e, [p \in Pcs |-> Explores(c, p)])]]

CallTargets(c, e) ==
  {Rel(p, c[p].imm) : p \in {q \in Labels[c][e] : c[q].op = "call"}} \cap ExecPcs

-------------------------------------------------------------------------------
(* The block cache. *)

\* A block holds the decoded instructions at pcs, in order, or, compiled from a
\* function, those at Labels: guest code does not change.
Block == [kind : {"none", "bb", "fn"}, start : Pcs, pcs : Seq(Pcs),
          jitted : BOOLEAN, rate : Nat, direct : BOOLEAN]

NoBlock == [kind |-> "none", start |-> 0, pcs |-> <<>>,
            jitted |-> FALSE, rate |-> 0, direct |-> FALSE]

\* `direct': the compiled code reads and writes memory without the MMU,
\* decided when it is compiled.
FnBlock(e, unpaged) == [kind |-> "fn", start |-> e, pcs |-> <<>>,
                        jitted |-> TRUE, rate |-> 0, direct |-> unpaged]

BasicBlock(e, pcs) == [kind |-> "bb", start |-> e, pcs |-> pcs,
                       jitted |-> FALSE, rate |-> 0, direct |-> FALSE]

PcsOf(b) == IF b.kind = "fn" THEN Labels[code][b.start] ELSE Range(b.pcs)

\* Does the block hold an instruction of format J (ECALL decodes as one) or B?
\* (The format of a word that decodes to nothing is never set; here it is neither.)
HasJumpOrBranch(b) ==
  \E p \in PcsOf(b) : code[p].op \in {"jump", "call", "ecall", "branch"}

\* search_rate matters only at JitBound: it saturates just above.
Bump(rate) == IF rate > JitBound THEN rate ELSE rate + 1

\* Mutant: every lookup from the bound on compiles the block again.
CompilesEagerly(b) == UseJit /\ Bump(b.rate) >= JitBound /\ ~HasJumpOrBranch(b)

\* Mutant: whatever the block holds is compiled at the bound.
CompilesAnything(b) == UseJit /\ Bump(b.rate) = JitBound

Compiles(b) == UseJit /\ Bump(b.rate) = JitBound /\ ~HasJumpOrBranch(b)

\* The block as ThreadedCode::lookup leaves it.
LookedUp(b) ==
  IF Compiles(b)
    THEN [b EXCEPT !.rate = Bump(b.rate), !.jitted = TRUE, !.direct = ~paging]
    ELSE [b EXCEPT !.rate = Bump(b.rate)]

\* naive_cache::lookup returns whatever valid block is in the slot of p.
Hit(p) == cache[Slot(p)].kind # "none"

-------------------------------------------------------------------------------
(* The host stack. *)

\* kind "collect": step() interpreting and collecting a block; "cached":
\* execute_cached_block interpreting one; "jitbb", "fn": compiled code;
\* "until": run_until_pc.  `pcs' are the instructions collected so far or those
\* of the block.  `at' is the index in the block, the label about to be executed
\* in a function, the target of run_until_pc.  `n' counts the instructions
\* executed or, in a function, is instr_counter_ on entry.  `st' follows a
\* function through a call.
Frame ==
  {f \in [kind : {"collect", "cached", "jitbb", "fn", "until"},
          start : Pcs, pcs : Seq(Pcs), at : Nat, n : Counter,
          st : {"run", "call", "wait"}, direct : BOOLEAN, freed : BOOLEAN] :
     IF f.kind = "fn" THEN f.at \in Pcs ELSE f.st = "run"}

NewFrame(kind, start, pcs, at) ==
  [kind |-> kind, start |-> start, pcs |-> pcs, at |-> at, n |-> 0,
   st |-> "run", direct |-> FALSE, freed |-> FALSE]

\* The activation that executes block b.
Enter(b) ==
  CASE b.jitted /\ b.kind = "fn" ->
         [NewFrame("fn", b.start, <<>>, b.start) EXCEPT !.n = instr_counter,
                                                        !.direct = b.direct]
    [] b.jitted /\ b.kind # "fn" ->
         [NewFrame("jitbb", b.start, b.pcs, 1) EXCEPT !.direct = b.direct]
    [] OTHER -> NewFrame("cached", b.start, b.pcs, 1)

Depth == Len(frames)
Top == frames[Depth]
Running(kind) == ~aborted /\ frames # <<>> /\ Top.kind = kind /\ Top.st = "run"

\* The instruction frame f is about to execute.
Pending(f) == CASE f.kind = "collect" -> code[pc]
                [] f.kind = "fn" -> code[f.at]
                [] OTHER -> code[f.pcs[f.at]]

Below == SubSeq(frames, 1, Depth - 1)
WithTop(f) == Append(Below, f)

\* The code objects of the frames in slot s are destroyed.
Free(fs, s) ==
  [k \in DOMAIN fs |->
     IF fs[k].kind \in {"jitbb", "fn"} /\ Slot(fs[k].start) = s
       THEN [fs[k] EXCEPT !.freed = TRUE] ELSE fs[k]]

\* compile_bb replaces the block's compiled code, live or not.
AfterLookup(fs, b) == IF Compiles(b) THEN Free(fs, Slot(b.start)) ELSE fs

\* The topmost activation returns; a step called by Machine::run adds the
\* number of instructions it reports to the cycle count.
Return(reported) ==
  /\ frames' = Below
  /\ cycle' = IF Depth = 1 THEN Plus(cycle, reported) ELSE cycle

-------------------------------------------------------------------------------
(* Loading a program. *)

\* The functions predecode_and_jit_if_small finds from the entry point.
Entries(c) == Visited(Entry, [e \in Pcs |-> CallTargets(c, e)])

\* The functions load_elf leaves compiled: all of them if the program is small.
Predecoded(c) ==
  LET found == Entries(c)
      size  == MapThenSumSet(LAMBDA e : Cardinality(Labels[c][e]), found)
  IN  IF /\ UseJit
         /\ Cardinality(found) <= NSlots
         /\ size <= NSlots * MaxBB
        THEN found ELSE {}

\* Of the functions that share a slot one survives.
Survivors(found) ==
  {S \in SUBSET found :
     \A e \in found : Cardinality({x \in S : Slot(x) = Slot(e)}) = 1}

Init ==
  /\ Guest!Init
  /\ \E S \in Survivors(Predecoded(code)) :
       cache = [s \in Slots |->
                  IF \E e \in S : Slot(e) = s
                    THEN FnBlock(CHOOSE e \in S : Slot(e) = s, TRUE)
                    ELSE NoBlock]
  /\ frames = <<>>
  /\ instr_counter = 0
  /\ cycle = 0
  /\ aborted = FALSE

-------------------------------------------------------------------------------
(* Machine::run, run_until_pc and Hart::step. *)

\* Mutant: run_until_pc steps on after an ECALL.
AtStepIgnoringHalt ==
  /\ ~aborted
  /\ IF frames = <<>> THEN ~halt /\ (MaxCycles = 0 \/ cycle < MaxCycles)
                      ELSE Top.kind = "until" /\ pc # Top.at

\* Mutant: run_until_pc steps on from the PC it was to stop at.
AtStepPastReturn ==
  /\ ~aborted /\ ~halt
  /\ IF frames = <<>> THEN MaxCycles = 0 \/ cycle < MaxCycles
                      ELSE Top.kind = "until"

\* Whoever calls step() is about to.
AtStep ==
  /\ ~aborted /\ ~halt
  /\ IF frames = <<>> THEN MaxCycles = 0 \/ cycle < MaxCycles
                      ELSE Top.kind = "until" /\ pc # Top.at

Call(fs, b) == frames' = Append(fs, Enter(b))

StepHit ==
  /\ AtStep
  /\ Hit(pc)
  /\ LET b == cache[Slot(pc)] IN
       /\ cache' = [cache EXCEPT ![Slot(pc)] = LookedUp(b)]
       /\ Call(AfterLookup(frames, b), LookedUp(b))
  /\ UNCHANGED <<guest, instr_counter, cycle, aborted>>

\* On a miss at an executable PC the whole function is compiled and run.
StepCompileFunction ==
  /\ AtStep
  /\ ~Hit(pc) /\ UseJit /\ pc \in ExecPcs
  /\ LET b == FnBlock(pc, ~paging) IN
       /\ cache' = [cache EXCEPT ![Slot(pc)] = LookedUp(b)]
       /\ Call(frames, LookedUp(b))
  /\ UNCHANGED <<guest, instr_counter, cycle, aborted>>

StepCollect ==
  /\ AtStep
  /\ ~Hit(pc) /\ ~(UseJit /\ pc \in ExecPcs)
  /\ frames' = Append(frames, NewFrame("collect", pc, <<>>, 0))
  /\ UNCHANGED <<guest, cache, instr_counter, cycle, aborted>>

\* Mutant: run_until_pc waits for the PC even when the guest has halted.
UntilPcReached ==
  /\ Running("until")
  /\ pc = Top.at
  /\ frames' = Below
  /\ UNCHANGED <<guest, cache, instr_counter, cycle, aborted>>

\* run_until_pc is done: the PC is reached, or the guest has halted.
UntilReturns ==
  /\ Running("until")
  /\ halt \/ pc = Top.at
  /\ frames' = Below
  /\ UNCHANGED <<guest, cache, instr_counter, cycle, aborted>>

-------------------------------------------------------------------------------
(* Interpreting: a block being collected, a block in the cache. *)

\* install_bb_if_valid
Install(start, pcs) ==
  IF pcs = <<>> THEN UNCHANGED cache
                ELSE cache' = [cache EXCEPT ![Slot(start)] = BasicBlock(start, pcs)]

\* The instruction that leaves the block is executed and not collected.
CollectInstr ==
  /\ Running("collect")
  /\ \E p \in Pcs :
       /\ Guest!Execute(code[pc], p)
       /\ LET leaves    == halt' \/ p # Inc(pc)
              collected == IF leaves THEN Top.pcs ELSE Append(Top.pcs, pc)
              executed  == Len(Top.pcs) + 1
          IN  IF leaves \/ executed = MaxBB
                THEN /\ Install(Top.start, collected)
                     /\ Return(executed)
                     /\ instr_counter' = Plus(instr_counter, executed)
                ELSE /\ frames' = WithTop([Top EXCEPT !.pcs = collected])
                     /\ UNCHANGED <<cache, instr_counter, cycle>>
  /\ UNCHANGED aborted

\* execute_cached_block: fall through, loop back to the start of the block, or
\* return to the caller.
CachedInstr ==
  /\ Running("cached")
  /\ \E p \in Pcs :
       /\ Guest!Execute(Pending(Top), p)
       /\ LET n    == Plus(Top.n, 1)
              past == Len(Top.pcs) + 1
              next == CASE halt' -> past
                        [] ~halt' /\ p = Inc(pc) -> Top.at + 1
                        [] ~halt' /\ p # Inc(pc) /\ p = Top.start -> 1
                        [] OTHER -> past
          IN  IF next < past
                THEN /\ frames' = WithTop([Top EXCEPT !.at = next, !.n = n])
                     /\ UNCHANGED <<instr_counter, cycle>>
                ELSE /\ Return(n)
                     /\ instr_counter' = Plus(instr_counter, n)
  /\ UNCHANGED <<cache, aborted>>

\* The executer's default case: an instruction it does not know.
InterpretUnknown ==
  /\ \/ Running("collect")
     \/ Running("cached")
  /\ Pending(Top).op = "unknown"
  /\ aborted' = TRUE
  /\ UNCHANGED <<guest, cache, frames, instr_counter, cycle>>

-------------------------------------------------------------------------------
(* Compiled code. *)

\* A compiled basic block runs to its end, wherever its instructions send the
\* PC; it reports its length and leaves instr_counter_ alone.
BlockInstr ==
  /\ Running("jitbb")
  /\ \E p \in Pcs : Guest!Execute(Pending(Top), p)
  /\ IF Top.at < Len(Top.pcs) /\ Pending(Top).op # "ecall"
       THEN /\ frames' = WithTop([Top EXCEPT !.at = @ + 1])
            /\ UNCHANGED cycle
       ELSE Return(Len(Top.pcs))
  /\ UNCHANGED <<cache, instr_counter, aborted>>

IsLabel(p) == p \in Labels[code][Top.start]

Leave == Return(Plus(instr_counter', CounterSpace - Top.n))

\* Compiled code jumps to label p, or leaves the function when it has none.
GoTo(p) ==
  IF IsLabel(p)
    THEN /\ frames' = WithTop([Top EXCEPT !.at = p, !.st = "run"])
         /\ UNCHANGED cycle
    ELSE Leave

\* branch_dispatch_x86: both successors have labels, or the function is left.
Dispatch(i) ==
  LET target == Rel(Top.at, i.imm)
      fall   == Inc(Top.at)
  IN  IF IsLabel(target) /\ IsLabel(fall)
        THEN GoTo(IF pc' = target THEN target ELSE fall)
        ELSE Leave

\* An instruction that stays in this activation or leaves the function; its
\* targets are computed from the static PC, the label.
FunctionInstr ==
  /\ Running("fn")
  /\ Pending(Top).op \notin {"call", "icall"}
  /\ \E p \in Pcs : Guest!Execute(Pending(Top), p)
  /\ instr_counter' = Plus(instr_counter, 1)
  /\ CASE Pending(Top).op = "branch" -> Dispatch(Pending(Top))
       [] Pending(Top).op = "jump"   -> GoTo(Rel(Top.at, Pending(Top).imm))
       [] Pending(Top).op \in {"ret", "ijump", "ecall"} -> Leave
       [] OTHER -> GoTo(Inc(Top.at))
  /\ UNCHANGED <<cache, aborted>>

\* Mutant: compiled calls are not counted.
FunctionCallUncounted ==
  /\ Running("fn")
  /\ Pending(Top).op \in {"call", "icall"}
  /\ \E p \in Pcs : Guest!Execute(Pending(Top), p)
  /\ frames' = WithTop([Top EXCEPT !.st = "call"])
  /\ UNCHANGED <<cache, instr_counter, cycle, aborted>>

\* JAL and JALR that link: the trampoline comes next.
FunctionCall ==
  /\ Running("fn")
  /\ Pending(Top).op \in {"call", "icall"}
  /\ \E p \in Pcs : Guest!Execute(Pending(Top), p)
  /\ instr_counter' = Plus(instr_counter, 1)
  /\ frames' = WithTop([Top EXCEPT !.st = "call"])
  /\ UNCHANGED <<cache, cycle, aborted>>

\* compile() emits nothing for an instruction it does not know, so control
\* falls into the next label and the PC stays behind.
FunctionUnknown ==
  /\ Running("fn")
  /\ Pending(Top).op = "unknown"
  /\ instr_counter' = Plus(instr_counter, 1)
  /\ GoTo(Inc(Top.at))
  /\ UNCHANGED <<guest, cache, aborted>>

\* call_trampoline's target: static for JAL, the PC for JALR.
CallTarget == IF code[Top.at].op = "call" THEN Rel(Top.at, code[Top.at].imm)
                                          ELSE pc

AtTrampoline == ~aborted /\ frames # <<>> /\ Top.st = "call"

\* The block lookup finds for the target (ensure_jit_function).
Callee == cache[Slot(CallTarget)]
CalleeJitted == Hit(CallTarget) /\ LookedUp(Callee).jitted

\* b, as ensure_jit_function leaves it, is looked up once more and run.
RunCallee(fs, b) ==
  /\ cache' = [cache EXCEPT ![Slot(b.start)] = LookedUp(b)]
  /\ Call(AfterLookup(fs, b), LookedUp(b))

Waiting == WithTop([Top EXCEPT !.st = "wait"])

CallCompiled ==
  /\ AtTrampoline
  /\ CalleeJitted
  /\ RunCallee(AfterLookup(Waiting, Callee), LookedUp(Callee))
  /\ UNCHANGED <<guest, instr_counter, cycle, aborted>>

\* Not compiled yet: the function is compiled and takes the slot.
CallCompileFunction ==
  /\ AtTrampoline
  /\ ~CalleeJitted /\ CallTarget \in ExecPcs
  /\ RunCallee(Waiting, FnBlock(CallTarget, ~paging))
  /\ UNCHANGED <<guest, instr_counter, cycle, aborted>>

\* Not a function: step until the return address is reached.
CallInterpreted ==
  /\ AtTrampoline
  /\ ~CalleeJitted /\ CallTarget \notin ExecPcs
  /\ cache' = [cache EXCEPT ![Slot(CallTarget)] =
                 IF Hit(CallTarget) THEN LookedUp(@) ELSE @]
  /\ frames' = Append(Waiting, NewFrame("until", pc, <<>>, Inc(Top.at)))
  /\ UNCHANGED <<guest, instr_counter, cycle, aborted>>

AtPostCall == ~aborted /\ frames # <<>> /\ Top.st = "wait"

\* Mutant: the compiled caller carries on wherever its callee left the PC.
PostCallUnchecked ==
  /\ AtPostCall
  /\ ~Top.freed
  /\ UNCHANGED <<guest, cache, instr_counter, aborted>>
  /\ GoTo(Inc(Top.at))

\* emit_post_call_check_x86: carry on only if the callee came back here.
PostCall ==
  /\ AtPostCall
  /\ ~Top.freed
  /\ UNCHANGED <<guest, cache, instr_counter, aborted>>
  /\ IF pc = Inc(Top.at) THEN GoTo(Inc(Top.at)) ELSE Leave

\* The callee's return address is in memory that has been released.
ReturnToFreedCode ==
  /\ AtPostCall
  /\ Top.freed
  /\ aborted' = TRUE
  /\ UNCHANGED <<guest, cache, frames, instr_counter, cycle>>

-------------------------------------------------------------------------------

Step == StepHit \/ StepCompileFunction \/ StepCollect \/ UntilReturns

Interpret == CollectInstr \/ CachedInstr \/ InterpretUnknown

RunCompiled == BlockInstr \/ FunctionInstr \/ FunctionCall \/ FunctionUnknown

Trampoline == \/ CallCompiled \/ CallCompileFunction \/ CallInterpreted
              \/ PostCall \/ ReturnToFreedCode

Next == Step \/ Interpret \/ RunCompiled \/ Trampoline

SafeSpec == Init /\ [][Next]_vars

\* The simulator is one thread that runs until it exits.
Spec == SafeSpec /\ WF_vars(Next)

-------------------------------------------------------------------------------
(* Properties. *)

TypeOK ==
  /\ Guest!GuestTypeOK
  /\ cache \in [Slots -> Block]
  /\ frames \in Seq(Frame)
  /\ instr_counter \in Counter
  /\ cycle \in Counter
  /\ aborted \in BOOLEAN

Executing == frames # <<>> /\ Top.kind # "until" /\ Top.st = "run"

\* Whatever engine is about to execute, the instruction it holds is the one the
\* guest's PC points at: neither a cache hit, nor a label reached inside a
\* compiled function, nor the return from a nested call lets the code in the
\* host's hands and the guest's PC drift apart.
InstructionFaithful == Executing => Pending(Top) = code[pc]

Suspended == {k \in DOMAIN frames : frames[k].st = "wait"}

\* The host stack is never deeper than the guest's: each activation suspended in
\* a call stands for a call the guest has not returned from, so only guest
\* recursion can exhaust the simulator's stack, never a long-running loop.
HostStackBounded == Executing => Cardinality(Suspended) <= Len(calls)

\* A function is in the cache compiled; its jit_bound-th lookup compiles it again
\* unless it holds a jump, JAL, ECALL or branch.
Recompiled(e) == JitBound > 1 /\ ~HasJumpOrBranch(FnBlock(e, FALSE))

\* Which compiled code lookup() releases while it has an activation on the host
\* stack (threaded_code.hpp:84).  With jit_bound 0 or 1 none: no call returns into
\* released memory.  With larger ones, as in config.conf, only a function without a
\* jump, JAL, ECALL or branch, looked up for the jit_bound-th time while it waits in
\* a JALR.  Compiled basic blocks never.
OnlyRecompiledFreed ==
  \A k \in DOMAIN frames : frames[k].freed =>
    frames[k].kind = "fn" /\ Recompiled(frames[k].start)

\* The cycle count Machine::run prints is the number of instructions the guest
\* has retired, through every mix of engines and every depth of nested calls.
CyclesExact == frames = <<>> => cycle = instret

\* Compiled code that reads memory without the MMU runs only while paging is off
\* (jit_instruction_factory.hpp: "Detect if paging is disabled (identity
\* mapping) and enable direct memory access fast-path").
DirectOnlyUnpaged ==
  Executing /\ Top.direct /\ Pending(Top).op = "mem" => ~paging

\* Caching and compiling are invisible: every behaviour of the engine is one of
\* the sequential machine, which retires code[pc] until an ECALL and nothing
\* after it, however many activations the ECALL has to unwind.
ImplementsIsa == Guest!SafeSpec

\* And the machine is never stuck between two instructions.
ImplementsIsaFairly == Guest!Spec

\* An ECALL anywhere in the nest of activations ends the run: each of them
\* returns, and Machine::run is left.
HaltUnwinds == halt ~> (frames = <<>> \/ aborted)
===============================================================================
