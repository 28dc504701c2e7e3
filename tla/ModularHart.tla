------------------------------- MODULE ModularHart -------------------------------
(***************************************************************************)
(* The hart as it is built with ENABLE_MODULES and run without the JIT:    *)
(* Machine::run, step() interpreting and collecting blocks, cached blocks, *)
(* guest stores into code, and the callbacks of a module.  One action      *)
(* executes at most one instruction, hooks included.                       *)
(*                                                                         *)
(* Counters are kept modulo CounterSpace (2^64 in the code).               *)
(***************************************************************************)
EXTENDS Integers, Sequences

CONSTANTS Space, NRegs, Decode, PageMap, Fault, Boots, Entry, Fill,  \* see GuestIsa
          NSlots,        \* bb_cache_size
          Settings,      \* the pairs <<cached_bb_size, max_cycles>> to be tried
          HookedOps,     \* the opcodes the module hooks
          CounterSpace

VARIABLES mem, regs, paging, pc, end, seen,   \* the guest's state
          cache,       \* naive_cache::slots_
          step,        \* the activation of Hart::step
          cycle,       \* the cycle count of Machine::run
          setting,     \* cached_bb_size and max_cycles
          registered,  \* has a module registered its callbacks?
          calls,       \* how often the other kinds of callbacks were called
          told,        \* what the last block callback was told, and at which cycle
          report,      \* what the last post-execute callback was told
          tally        \* what was executed, to hold the callbacks against

Guest == INSTANCE GuestIsa

guest == <<mem, regs, paging, pc, end, seen>>
observed == <<calls, told, report, tally>>
vars == <<mem, regs, paging, pc, end, seen, cache, step, cycle, setting,
          registered, calls, told, report, tally>>

Values == Guest!Values
Regs == Guest!Regs
Inc(p) == Guest!Inc(p)

Counter == 0 .. (CounterSpace - 1)
\* Mutant: a counter that grows without bound.
PlusUnwrapped(m, n) == m + n

Plus(m, n) == (m + n) % CounterSpace
Minus(m, n) == (m - n) % CounterSpace

\* The opcodes that have an execute_* function, to hook.
Known == Guest!Ops \ {"unknown"}

Slots == 0 .. (NSlots - 1)
Slot(p) == p % NSlots

BBSize == setting[1]
MaxCycles == setting[2]

\* A slot for every PC: what happens when two share one is Hart's business.
ASSUME ModularAssumption ==
  /\ Guest!GuestConstants
  /\ NRegs <= 32
  /\ NSlots \in Nat /\ NSlots >= Space
  /\ Settings \subseteq Nat \X Nat
  /\ HookedOps \subseteq Known
  /\ CounterSpace \in Nat \ {0}

-------------------------------------------------------------------------------
(* Callbacks. *)

Hooks == {"pre", "post", "access", "translate"}

\* The callbacks for these events, one call each; events may be several of a kind.
Call(events) ==
  calls' = IF registered THEN [h \in Hooks |-> Plus(calls[h], events[h])] ELSE calls

Never == [h \in Hooks |-> 0]

One(b) == IF b THEN 1 ELSE 0

Accesses(i) == i.op \in {"lw", "sw"}
Hooked(i) == i.op \in HookedOps

\* Mutant: no call for the block told last.
TellOnce(kind, start) ==
  told' = IF registered /\ told.pc # start
            THEN [kind |-> kind, pc |-> start, cycle |-> cycle] ELSE told

\* The block_start and block_end callbacks.  (ExampleModule has no block_end.)
Tell(kind, start) ==
  told' = IF registered THEN [kind |-> kind, pc |-> start, cycle |-> cycle] ELSE told

\* Mutant: a cached block calls no callbacks.
ExecuteHooksFetched(i, fetched) ==
  LET done == ~Guest!Aborts(i) IN
  [Never EXCEPT !["pre"] = fetched * One(Hooked(i)),
                !["post"] = fetched * One(Hooked(i) /\ done),
                !["access"] = fetched * One(Accesses(i) /\ done),
                !["translate"] = fetched + fetched * One(Accesses(i) /\ done)]

\* The callbacks of executing i, `fetched' for one that was fetched for it.  An
\* instruction that aborts has had its pre callback, and no more.
ExecuteHooks(i, fetched) ==
  LET done == ~Guest!Aborts(i) IN
  [Never EXCEPT !["pre"] = One(Hooked(i)),
                !["post"] = One(Hooked(i) /\ done),
                !["access"] = One(Accesses(i) /\ done),
                !["translate"] = fetched + One(Accesses(i) /\ done)]

\* The registers a decoded instruction names; the decoder leaves 255 in the others.
NoReg == 255
Names1(i) == IF i.op \in {"jal", "ecall"} THEN NoReg ELSE i.rs1
Names2(i) == IF i.op \in {"add", "sw", "beq"} THEN i.rs2 ELSE NoReg
NamesD(i) == IF i.op \in {"sw", "beq", "csrw"} THEN NoReg ELSE i.rd

\* What get_reg gives once i is done; behind regs_ it is no register's value.
After(r) == IF r = 0 THEN 0 ELSE IF r \in Regs THEN regs'[r] ELSE NoReg

\* Mutant: the operands are read before the instruction is executed.
ReportBefore(i) ==
  report' = IF registered /\ Hooked(i)
              THEN [instr |-> i, imm |-> i.imm,
                    reg1 |-> Names1(i), val1 |-> Guest!get_reg(i.rs1),
                    reg2 |-> Names2(i), val2 |-> Guest!get_reg(i.rs2),
                    dest |-> NamesD(i), val |-> After(NamesD(i))]
              ELSE report

\* PostExecInfo, filled in after execution.  (Without DEBUG_EXECUTION get_reg never
\* throws, so 255 is not replaced by -1.)
Report(i) ==
  report' = IF registered /\ Hooked(i)
              THEN [instr |-> i, imm |-> i.imm,
                    reg1 |-> Names1(i), val1 |-> After(Names1(i)),
                    reg2 |-> Names2(i), val2 |-> After(Names2(i)),
                    dest |-> NamesD(i), val |-> After(NamesD(i))]
              ELSE report

-------------------------------------------------------------------------------
(* One instruction. *)

\* Execute i, which was fetched or came from a block.
Perform(i, fetched) ==
  /\ Call(ExecuteHooks(i, fetched))
  /\ IF Guest!Aborts(i)
       THEN Guest!Abort /\ UNCHANGED report
       ELSE Guest!Execute(i) /\ Report(i)
  /\ LET done == One(~Guest!Aborts(i)) IN
     tally' = [retired |-> Plus(tally.retired, done),
               blocked |-> Plus(tally.blocked, IF step.mode = "cached" THEN done ELSE 0)]

NoStep == [mode |-> "none", start |-> 0, words |-> <<>>, at |-> 0, n |-> 0]
NoBlock == [valid |-> FALSE, start |-> 0, words |-> <<>>]

\* step() returns, having executed n instructions.
Return(n) == step' = NoStep /\ cycle' = Plus(cycle, n)

\* Mutant: a block of no instructions is installed, too.
InstalledEmpty(start, words) ==
  [cache EXCEPT ![Slot(start)] = [valid |-> TRUE, start |-> start, words |-> words]]

\* install_bb_if_valid.
Installed(start, words) ==
  IF words = <<>> THEN cache
  ELSE [cache EXCEPT ![Slot(start)] = [valid |-> TRUE, start |-> start, words |-> words]]

-------------------------------------------------------------------------------
(* Machine::run and Hart::step. *)

\* Machine::run calls step() again, and lookup() finds a block or does not.
Step ==
  /\ end = "no" /\ step.mode = "none"
  /\ MaxCycles = 0 \/ cycle < MaxCycles
  /\ LET b == cache[Slot(pc)] IN
     IF b.valid
       THEN /\ step' = [NoStep EXCEPT !.mode = "cached", !.start = b.start,
                                      !.words = b.words, !.at = 1]
            /\ Tell("start", b.start)
       ELSE /\ step' = [NoStep EXCEPT !.mode = "collect", !.start = pc]
            /\ UNCHANGED told
  /\ UNCHANGED <<guest, cache, cycle, setting, registered, calls, report, tally>>

\* A cached_bb_size of 0: step() returns at once.
CollectNothing ==
  /\ end = "no" /\ step.mode = "collect" /\ step.n >= BBSize
  /\ Return(step.n)
  /\ UNCHANGED <<guest, cache, setting, registered, observed>>

\* fetch(pc_) aborts.
FetchFails ==
  /\ end = "no" /\ step.mode = "collect" /\ step.n < BBSize
  /\ Guest!Translate(paging, pc) = Fault
  /\ Guest!Abort
  /\ UNCHANGED <<cache, step, cycle, setting, registered, observed>>

\* Mutant: the instruction that ends the step is not counted.
AfterCollectShort(w) ==
  LET falls == pc' = Inc(pc) /\ end' = "no"
      words == IF falls THEN Append(step.words, w) ELSE step.words IN
  IF falls /\ step.n + 1 < BBSize
    THEN /\ step' = [step EXCEPT !.words = words, !.n = @ + 1]
         /\ UNCHANGED <<cache, cycle>>
    ELSE /\ Return(Len(words))
         /\ cache' = Installed(step.start, words)

\* The block grows by an instruction that fell through; it is installed when one does
\* not, halts or the block is full.
AfterCollect(w) ==
  LET falls == pc' = Inc(pc) /\ end' = "no"
      words == IF falls THEN Append(step.words, w) ELSE step.words IN
  IF falls /\ step.n + 1 < BBSize
    THEN /\ step' = [step EXCEPT !.words = words, !.n = @ + 1]
         /\ UNCHANGED <<cache, cycle>>
    ELSE /\ Return(step.n + 1)
         /\ cache' = Installed(step.start, words)

\* An abort ends it all, a throw unwinds step() before it has counted anything.
Stop == end' = "abort" /\ UNCHANGED <<cache, step, cycle>>

Collect ==
  /\ end = "no" /\ step.mode = "collect" /\ step.n < BBSize
  /\ Guest!Translate(paging, pc) # Fault
  /\ LET w == mem[Guest!Translate(paging, pc)] IN
     /\ Perform(Decode[w], 1)
     /\ (end' # "abort" /\ AfterCollect(w)) \/ Stop
  /\ UNCHANGED <<setting, registered, told>>

\* Mutant: the loop goes back to the second instruction.
AfterCachedLoopLate ==
  LET next == [step EXCEPT !.n = Plus(@, 1)] IN
  IF end' = "no" /\ (pc' = Inc(pc) \/ pc' = step.start)
    THEN /\ step' = IF pc' = Inc(pc) THEN [next EXCEPT !.at = @ + 1]
                                     ELSE [next EXCEPT !.at = 2]
         /\ UNCHANGED cycle
    ELSE Return(next.n)

\* The next instruction of the block, the first one again, or out of the block.
AfterCached ==
  LET next == [step EXCEPT !.n = Plus(@, 1)] IN
  IF end' = "no" /\ (pc' = Inc(pc) \/ pc' = step.start)
    THEN /\ step' = IF pc' = Inc(pc) THEN [next EXCEPT !.at = @ + 1]
                                     ELSE [next EXCEPT !.at = 1]
         /\ UNCHANGED cycle
    ELSE Return(next.n)

Cached ==
  /\ end = "no" /\ step.mode = "cached" /\ step.at <= Len(step.words)
  /\ Perform(Decode[step.words[step.at]], 0)
  /\ (end' # "abort" /\ AfterCached /\ UNCHANGED cache) \/ Stop
  /\ UNCHANGED <<setting, registered, told>>

\* Off the end of the block: the only way out that calls the block-end callbacks.
BlockEnds ==
  /\ end = "no" /\ step.mode = "cached" /\ step.at > Len(step.words)
  /\ Tell("end", step.start)
  /\ Return(step.n)
  /\ UNCHANGED <<guest, cache, setting, registered, calls, report, tally>>

NoReport == [instr |-> Decode[0], imm |-> 0, reg1 |-> NoReg, val1 |-> 0,
             reg2 |-> NoReg, val2 |-> 0, dest |-> NoReg, val |-> 0]

\* A module registers before the run or not at all (main.cpp:19).
Init ==
  /\ Guest!Init
  /\ cache = [s \in Slots |-> NoBlock]
  /\ step = NoStep
  /\ cycle = 0
  /\ setting \in Settings
  /\ registered \in BOOLEAN
  /\ calls = Never
  /\ told = [kind |-> "none", pc |-> 0, cycle |-> 0]
  /\ report = NoReport
  /\ tally = [retired |-> 0, blocked |-> 0]

Next == Step \/ CollectNothing \/ FetchFails \/ Collect \/ Cached \/ BlockEnds

\* A process that runs keeps running.
Spec == Init /\ [][Next]_vars /\ WF_vars(Next)

-------------------------------------------------------------------------------
(* Properties. *)

TypeOK ==
  /\ mem \in [Values -> Values] /\ regs \in [Regs -> Values]
  /\ paging \in BOOLEAN /\ pc \in Values /\ end \in {"no", "ecall", "abort"}
  /\ seen \in [Values -> SUBSET Values]
  /\ cache \in [Slots -> [valid : BOOLEAN, start : Values, words : Seq(Values)]]
  /\ step \in [mode : {"none", "collect", "cached"}, start : Values, words : Seq(Values),
               at : Nat, n : Nat]
  /\ cycle \in Counter /\ setting \in Settings /\ registered \in BOOLEAN
  /\ calls \in [Hooks -> Counter]
  /\ told \in [kind : {"none", "start", "end"}, pc : Values, cycle : Counter]
  /\ tally \in [retired : Counter, blocked : Counter]

\* The hart, its cached blocks stale as they may be and whatever a module hooks, is a
\* GuestIsa: it executes what a fetch from pc gives or once gave, and aborts for no
\* other reason than the guest's (threaded_code.hpp:27).
ImplementsGuestIsa == Guest!Spec

\* The instruction step() stands at.
Current == Decode[IF step.mode = "cached" THEN step.words[step.at]
                  ELSE mem[Guest!Translate(paging, pc)]]

\* An instruction, and not its fetch, has aborted or thrown.
Failed == end = "abort" /\ ~(step.mode = "collect" /\ Guest!Translate(paging, pc) = Fault)

\* The callbacks agree with one another and with the cycles Machine::run counts, in
\* cached blocks and outside of them, up to an abort: a module that hooks every
\* opcode has as many post callbacks as there were cycles; pre callbacks are as many,
\* and one more for a hooked instruction that failed (hart.cpp:202); a translation is
\* told for each instruction that was fetched and each memory access, and none for
\* the fetch of an instruction in a block.
CallsAddUp ==
  registered =>
    /\ HookedOps = Known => calls["post"] = Plus(cycle, step.n)
    /\ calls["pre"] = Plus(calls["post"], One(Failed /\ Hooked(Current)))
    /\ calls["translate"] = Plus(Minus(tally.retired, tally.blocked),
                                 calls["access"] + One(Failed /\ step.mode = "collect"))

\* A module that follows the block callbacks knows where the guest is in a cached
\* block, also when it goes round in it, when the block is stale or was entered
\* before: the block was told when this step entered it, the n-th instruction is n - 1
\* words behind the place that was told, and the end is told if the guest runs off it,
\* but not if it jumps out of the block, halts or aborts (hart.cpp:487).
BlocksTold ==
  [][registered /\ step.mode = "cached" =>
       /\ told.kind = "start" /\ told.cycle = cycle
       /\ pc = Guest!Wrap(told.pc + step.at - 1)
       /\ step'.mode = "none" =>
            IF step.at > Len(step.words)
              THEN told' = [told EXCEPT !.kind = "end"]
              ELSE told' = told /\ (end' # "no" \/ pc' \notin {Inc(pc), told.pc})]_vars

\* The registers an instruction reads and writes.
Reads1 == {"add", "addi", "lw", "sw", "beq", "csrw"}
Reads2 == {"add", "sw", "beq"}
Writes == {"add", "addi", "lw", "jal", "ecall"}

\* The value register r had, unless i has overwritten it by now.
ValueTold(i, r) == IF i.op \in Writes /\ r = i.rd THEN After(r) ELSE Guest!get_reg(r)

\* A post-execute callback is told of the executed instruction its immediate, its
\* destination and the result, and each source it has with the value it read; but for
\* a source that is also the destination the value is the result
\* (rv32i_executer_gen.cpp:67, filled in after execution).  Nothing is said of
\* sources the instruction does not have: they are told to be register 255, not -1.
OperandsReported ==
  [][calls'["post"] # calls["post"] =>
       LET i == report'.instr IN
       /\ i = Current /\ report'.imm = i.imm
       /\ i.op \in Reads1 => report'.reg1 = i.rs1 /\ report'.val1 = ValueTold(i, i.rs1)
       /\ i.op \in Reads2 => report'.reg2 = i.rs2 /\ report'.val2 = ValueTold(i, i.rs2)
       /\ i.op \in Writes => report'.dest = i.rd /\ report'.val = After(i.rd)]_vars

\* Machine::run counts every instruction once, also those of a step not yet over.
CyclesCounted == Plus(cycle, step.n) = tally.retired

\* Machine::run has stopped.
Over ==
  \/ end # "no"
  \/ step.mode = "none" /\ MaxCycles # 0 /\ cycle >= MaxCycles

\* With max_cycles the run ends, unless the guest stays in one cached block, where no
\* one counts (hart.cpp:527); with a cached_bb_size of 0 it never does anything
\* (hart.cpp:564).
EndsAsConfigured ==
  IF BBSize = 0 THEN [](tally.retired = 0 /\ ~Over)
  ELSE MaxCycles # 0 => <>[]Over \/ <>[](step.mode = "cached")
================================================================================
