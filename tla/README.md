# A verification project for the RISC-V simulator

TLA+ modules for the simulator under `src/`: its execution engine with the block
cache, the JIT and the nested activations they create; the interpreting build
with its module callbacks and a guest that writes its own code; address
translation; the ELF loader and the decoder; and the two implementations of every
instruction. TLC checks them on small instances, TLAPS proves the central
invariants for every instance.

## The system

| Part | State | Operations | Interacts with |
|---|---|---|---|
| `Machine` (`machine.cpp`) | memory, hart, cycle count | `load_elf`, `run` | loads memory, sets PC and exec ranges, lets the hart compile small programs ahead; calls `step` until halt or `max_cycles` |
| `Hart` (`hart.cpp`, `hart.hpp`) | registers, PC, satp, halt flag, `instr_counter_`, exec ranges | `step`, `execute_cached_block`, `run_until_pc`, `ensure_jit_function`, `build_function_block`, `do_ecall`, `load`, `store`, `fetch` | asks the code store for a block, interprets, runs compiled code, which calls back into it |
| Code store (`threaded_code.hpp`, `naive_cache.*`, `basic_block.hpp`) | direct-mapped slots of blocks, a lookup counter in each block | `lookup` (counts, compiles at `jit_bound`), `install`, `install_and_jit` | owns compiled code: replacing a block, or its code, frees it |
| JIT (`compiler.hpp`, `jit_instruction_factory.hpp`, `trampolines.cpp`) | none of its own | compile a block, compile a function, the trampolines for memory, CSR, ECALL and calls | compiled code writes registers, PC and counter in memory and calls the hart |
| Interpreter (`rv32i_executer_gen.cpp`) | none | one `execute_*` per instruction | reads and writes the hart |
| Decoder (`rv32i_decoder_gen.cpp`) | none | `decode` | called for every fetch of `step` and `build_function_block` |
| MMU (`mmu.*`, `tlb.hpp`) | three TLBs of 64 entries | `translate`, the Sv39 walk, `TLB::insert` | reads page tables from memory; a fault aborts the simulator |
| Memory (`memory.cpp`) | one array | `read`, `write`, `load_data`, `zero_init` | no bounds are checked on read and write |
| Modules (`modules*`) | callback lists | hooks around instructions, blocks, accesses, translations | only with `ENABLE_MODULES`, never with the JIT |
| Configuration, ISA description and generator | | | read at start, run at build time |

There is one thread. What is hard is that an instruction may be executed in five
ways (collected into a new block, from a cached block, in a compiled basic block,
in a compiled function, or in any of these below a `run_until_pc`), and that
compiled functions call each other through a trampoline that may look blocks up,
compile, evict and interpret before it returns: host activations interleave as
threads do, and a suspended one finds the cache, the PC, the counters and even
its own code changed when it resumes. The other hazards are caches that are not
told about changes (block cache, TLBs, the direct-memory decision), the two
implementations of the instruction set, and widths. `PROJECT.json` lists them
one by one, at their lines, with the properties that look for them.

What makes each part correct:

- engine: whatever holds the next instruction holds the one at the guest's PC;
  nothing is retired after an ECALL, and an ECALL ends every activation; the
  counts agree with what was retired; host stack is bounded by guest stack;
- code store: which code is freed while it has an activation, and that no other is;
- MMU: a hit says what the walk says, so that a guest which maps first cannot tell
  that there are TLBs;
- loader and decoder: what was assembled is what is executed, and every operand
  that is executed names a register;
- interpreting build: whatever a guest writes into code that is cached, it executes
  words that a fetch gives or once gave; the callbacks agree with one another and
  with the cycles counted, and tell where the guest is and what it did; what is
  counted is what was retired; the cycle limit ends the run;
- instructions: both engines do the same.

## Modules

| Module | What it is |
|---|---|
| `IsaMachine` | the abstract specification of the engine: a sequential machine that retires the instruction at its PC |
| `Hart` | the engine, with `IsaMachine` instantiated for the guest; its properties |
| `HartInv` | the inductive invariants of `Hart` and the hypotheses of the proofs |
| `HartTypes`, `HartFaithful`, `HartLive`, `HartStack` | theorems about `Hart` |
| `MCHart` | program sets for TLC |
| `AddressSpace` | the abstract specification of translation: a mapping, accesses answered from it, no TLB and no table |
| `Mmu`, `MmuProofs`, `MCMmu` | translation and TLBs, implementing `AddressSpace`; theorems; instance |
| `Decoder` | `decode`, its fields and formats, on 32-bit words |
| `Isa` | the instructions of `rv64i_isa.yml` and the words an assembler makes of them |
| `Loader` | `load_elf` |
| `Boot`, `BootProofs`, `MCBoot` | `Loader` composed with `Decoder`: load, fetch, decode; theorems; files |
| `GuestIsa` | the abstract specification of the interpreting build: a sequential machine whose fetch may be stale |
| `ModularHart` | the hart built with `ENABLE_MODULES` and run without the JIT, implementing `GuestIsa` |
| `ModularProofs`, `MCModular` | theorems about `ModularHart`; programs for TLC |
| `Rv64` | words, shifts, memory accesses and decoded instructions shared by the next two |
| `Executer`, `JitX86`, `JitA64` | one instruction interpreted, one compiled on either kind of host |
| `Lockstep`, `LockstepProofs`, `MCLockstep` | the interpreter and a backend from the same state; theorems; instance |

### Hart

`code, pc, halt, paging, calls, instret` are the guest's state (`calls` are the
return addresses it holds in x1 and on its stack, `instret` counts what was
retired and exists in no program variable). `cache` is `naive_cache::slots_`,
`instr_counter` and `cycle` are the program's counters modulo `CounterSpace`,
and `frames` is the host stack: one record per C++ or compiled activation, with
the instructions it holds and where it stands in them. One action is one guest
instruction executed in one of the ways above, or one call or return:

- `StepHit`, `StepCompileFunction`, `StepCollect`: what `Hart::step` starts,
  called by `Machine::run` (empty stack) or `run_until_pc` (top frame `until`);
- `CollectInstr`, `CachedInstr`, `InterpretUnknown`: an interpreted instruction,
  including the end of the block, the install and the counts;
- `BlockInstr`, `FunctionInstr`, `FunctionCall`, `FunctionUnknown`: an instruction
  of compiled code, with the control flow `compile_function_x86` emits: static
  targets, labels, exits;
- `CallCompiled`, `CallCompileFunction`, `CallInterpreted`: `call_trampoline` in
  its three outcomes, with the two lookups it makes and what they recompile;
- `PostCall`, `ReturnToFreedCode`: the return, with the post-call check.

Instructions are abstracted to their control: eleven kinds, a free choice for a
branch condition, a set of targets for an indirect jump, `paging` for satp. A
return goes where the guest's stack says, or to one of the targets the
instruction names when that stack is empty. Function blocks are computed as
`build_function_block` does, by a worklist over static successors inside the
executable segments. `predecode_and_jit_if_small` gives the initial cache; its
worklist order, which depends on a hash table's, is a free choice of which
function survives in a shared slot.

### Mmu

Numbers that are only masked, compared and or-ed are sets of bits; a page number
is a function from the three Sv39 levels to sets of bits. This keeps exactly what
the code's masks and ors do (`TLBEntry::match`, `TLB::insert`, the hit path of
`MMU::translate`) at any width, and lets the prover reason about it. Actions:
`StorePte` (a guest store into a table), `WriteSatp`, and `Translate` in its four
outcomes. `Remaps = FALSE` restricts the guest to mapping before the first entry
is cached, since nothing ever flushes a TLB.

`AddressSpace` knows a mapping from page numbers to pages, an access that is
answered from it, and an abort that needs an unmapped page. `Mmu` implements it
with the mapping that the walk of the present tables gives. Inside a superpage the
promise is as weak as the code's (the fields below the level contain the bits asked
for), elsewhere it is exact.

### Loader, Decoder, Isa, Boot

`Loader` follows `load_elf` read by read: `stream` is the position and failbit of
the `ifstream`, `phdr` the stack slot the headers are read into. One action is the
file header (`Open`), one iteration of the loop (`SkipSegment`, `LoadSegment`), or
what comes after it (`Finish`). Positions count four-byte words. `file.words` are the
file's words, `file.says` what the bytes from each position on say when they are read
as a program header; whether that is PT_LOAD is in the first word (`LoaderAssumption`).
The loop reads from wherever the stream stands, so after a segment it takes that
segment's neighbours for headers, and whatever they say is done: another segment, a
throw (`Passes`), or, when the sum of address and size wraps at `AddressLimit`, a copy
to outside the memory, which is undefined and ends the model (phase `wild`). A header
the file ends in has some fields read and some left as they were (`Torn`); what a
failed read leaves in `phdr` is undefined, and the model takes the last header, which
is what the slot holds unless the compiler reuses it, or one that is skipped. Left out
are a failing allocation of `data`, file offsets of 2^63 and more, and positions that
are no multiple of four.

`Decoder` works on the full 32-bit width: a word is the set of its one bits, a field
an intersection and a shift, an immediate the set of the bits of its `int32_t`.
`Isa` holds the fixed bits of every instruction from the description and, marked
external, the encoding an assembler uses. `Boot` adds the fetch of a word from any
address once the file is loaded.

### GuestIsa, ModularHart

`ModularHart` is the other build: modules are compiled in, and `main` refuses them
when the JIT is on. It has the guest's memory, registers and paging in full (values
and addresses are numbers below `Space`, one of nine kinds of instruction per word,
translation by a fixed page map while paging is on), so code can be stored to. One
action is at most one guest instruction with all its hooks:

- `Step`: `Machine::run` calls `step()`, whose lookup hits (block-start hooks) or
  misses;
- `Collect`, `FetchFails`, `CollectNothing`: the collecting loop, including the
  install at its three ends, a fetch that faults, and a block size of 0;
- `Cached`, `BlockEnds`: `execute_cached_block`, which goes on, loops to the block's
  start, leaves, or runs off the end (block-end hooks);
A module registers before the run or not at all, as in `main` (`registered`).

`calls` counts the pre, post, access and translation callbacks, `told` is what the
last block callback was told, `report` what the last post callback was told, and
`tally` counts what happens to the guest and belongs to no program variable. `GuestIsa` is what such a hart promises: the only
freedom it has over a sequential machine is `seen`, the words a fetch from an
address would have given at some time. RISC-V asks no more of a hart before a
FENCE.I, which this one does not decode. `ModularHart` gives every PC a slot of its
own; what happens when two share one is the business of `Hart`.

### Rv64, Executer, JitX86, JitA64, Lockstep

`Executer` follows the generated functions, `JitX86` and `JitA64` the emitters, with the
widths as parameters: `ByteBits` is 8 in the code and 1 in the runs, which makes
registers of 8 bits, words of 4 and halves of 2. A bitwise operator works on the set of
a number's bits (`Bits`, `FromBits`), so that it is defined at any width. `Instruction`
says what a decoded instruction is: the registers exist, the immediate is a signed number,
unsigned in the U format and 0 in the R format. Shift counts above 63 are
undefined in C++; the model takes what an x86 build does with a count in a
register, which is also what the compiled code does. Two facts come from asmjit:
the x86 `add r64, imm` takes a signed 32-bit immediate and is not emitted for a larger
one, which concerns AUIPC; the AArch64 `add` takes an unsigned one and is not emitted
for a negative one, which concerns backward branches. Their target is then what x4
holds, a free choice from `X4`. A CSRW to any number but satp's throws (`SetCsr`, in
`Hart::set_csr` and in the trampoline of compiled code): `thrown` is set, the PC stays,
and the run of that guest is over. `Lockstep` executes an instruction in both and goes on
while they agree; `host` is the kind of host the program was built for.

## Runs

| Run | Checks | Instance |
|---|---|---|
| `hart_all` | `TypeOK`, `InstructionFaithful`, `HostStackBounded`, `OnlyRecompiledFreed`, `EngineInv`, `LiveInv`, `DebtInv`, and that `Hart` implements `IsaMachine` with its fairness | all 4096 programs of 4 instructions over 8 kinds, 3 of the PCs executable, a slot for each, `jit_bound` 1, blocks of up to 3, guest calls to depth 3; 335,424 states |
| `hart_cycles` | `CyclesExact`, `CountInv` | programs with jumps, calls, unknown words and calls out of the executable segments, `jit_bound` 0, `max_cycles` 5, counters modulo 7; 43,149 states |
| `hart_halt` | `HaltUnwinds`, `OnlyRecompiledFreed`, `LiveInv` | programs with satp writes, unknown words and self-calls, `jit_bound` 3, so that live code can be recompiled; 36,351 states |
| `mmu_pages` | `TypeOK`, `HitsExact`, `SmallPagesRight`, and that `Mmu` implements `AddressSpace` | three tables, pages of all sizes, fields of 2 bits, 2 TLB entries; 164,416 states |
| `lockstep_all` | `TypeOK`, `ZeroRegister`, `DivergesExactly`, `DivergesExactlyA64` | every instruction with several registers and immediates, 144 register files, both kinds of host, 2 instructions; 344,557 states |
| `boot_all` | `TypeOK`, `FirstSegmentOnly`, `AssembledIsExecuted`, `OperandsInRange`, `DecodesTheDescription` | 384 files that hold every opcode with every funct3 and four values of funct7, 51 files that hold each instruction with operands and immediates at their bounds, 14 lists of up to four program headers with data that ends at, before and behind them, files whose bytes behind `.text` read like a PT_LOAD header of three kinds, files cut off inside a header, and an address that wraps; 29,440 states |
| `modular_all` | `TypeOK`, `CallsAddUp`, `CyclesCounted`, `BlocksTold`, `OperandsReported`, `EndsAsConfigured`, and that `ModularHart` implements `GuestIsa` | programs of ten words over ten instructions, with stores into code, paging, loops inside and outside of a block, bad words; no module, or one that hooks every opcode; block sizes 0 to 3, `max_cycles` 4 and 20, counters modulo 24; 65,582 states |
| `hart_alias`, `hart_direct`, `mmu_super`, `lockstep_jalr`, `boot_segments` | one violated property each | the smallest instance that shows it |

Why the bounds are enough. Four PCs give a function, a callee, a return address
and a place outside the executable segments; every action of `Hart` fires in the
passing runs, and every kind of activation appears on top of every kind it can
lie on (compiled blocks, functions and `run_until_pc` on a suspended function;
collecting, cached, compiled and function activations on `run_until_pc`). Three
activations are suspended at once, one more than an unwind needs to pass through
a frame that is neither the first nor the last. Block size matters only against the length of straight code:
3 is below and at it. `search_rate` is compared with `jit_bound` for equality, so
it saturates above it. The counters are 64 bits wide in the code and cannot be
told from unbounded ones except by the difference `execute_cached_block` takes;
`CounterSpace` 7 makes them wrap in the run about counts, and is 1 where counts
do not matter. In `Mmu`, one bit below the index, one above it and one above the
tag's width in the top field distinguish all the masks. In `Boot` the word is at its full width, and the proofs cover
every word and every file; the run's files hold all that the switch tells apart. In
`ModularHart` memory is one array of code and data, so every store can hit a cached
block, a block being collected, or the instruction about to be executed; blocks of
three are longer and shorter than the loops; 24 is more than the 20 cycles of the
limit, and each counter wraps in the loops without end. In `Lockstep`, two
instructions let one leave what the other reads; values sit at zero, at the sign
bits of the four widths and around odd addresses.

Fairness. `Hart`'s `Spec` has weak fairness of `Next`: the simulator is one
thread that runs until it exits. `HaltUnwinds` and the liveness of `IsaMachine`
need no more. The bound `MaxCalls` stops a guest at the bottom of its recursion in
both specifications alike, and `max_cycles` is 0 in the liveness runs.
`ModularHart` has weak fairness of `Next`, which is that thread. `Loader` and `Boot` have none: only safety is stated of them.
`boot_all` and `modular_all` turn the deadlock check off because a load may throw
and a run may be over.

## What the runs found

1. Blocks alias in the cache (`naive_cache.cpp:21`), `hart_alias`. All other runs
   and the proofs of `HartFaithful` use programs that fit the cache (`NoAlias`).
2. A compiled function that turns paging on keeps the direct accesses it was
   compiled with (`jit_instruction_factory.hpp:777`), `hart_direct`.
3. A TLB hit in a superpage ors two page numbers (`tlb.hpp:44`, `mmu.hpp:93`),
   `mmu_super`; `HitsExact` says precisely which hits are right.
4. Compiled JALR with rd = rs1 jumps to its return address
   (`jit_instruction_factory.hpp:1598`), `lockstep_jalr`.
5. `load_elf` seeks to a segment's bytes and never back to the program headers, so the
   second PT_LOAD segment of a file is not loaded (`machine.cpp:46`), `boot_segments`.

`DivergesExactly` adds that LB, LH and LW (zero-extended when interpreted, since
`memory_ld` of the generator, `scope.rb:124`, drops its `sign=:signed`), SLLW and SLLIW (zero-extended when interpreted), AUIPC
with its top bit set (compiled without the add), odd JALR targets and the words that
decode to ECALL with a destination (the interpreter writes the PC there) are the only
other differences on x86-64.

The passing runs of the new parts state exactly what the code does where it departs
from what one would expect; these are not violations of anything the repository
says, and each is in a property:

- AArch64 code protects x0 nowhere and differs, besides, in OR and ORI (`orn`, `jit_instruction_factory.hpp:121`),
  ADDW and ADDIW that carry out of or set bit 31, SUBW, SRL and SRA (which use the
  immediate), SLLW, SLLIW, SRLW and SRAIW at some operands, JAL (to the bare
  immediate), JALR with an offset, taken backward branches, and SRAI, SRAW and CSRW
  (compiled to nothing). Its other instructions agree with the interpreter at every
  operand. `DivergesExactlyA64`.
- Of a file with several headers `load_elf` leaves the first segment, provided that
  the bytes behind it, which it reads for the remaining headers, do not begin like a
  PT_LOAD header (`Quiet`): `.data` that follows `.text` in the file and begins with
  the number 1 is loaded as whatever it says, or throws. If the file ends with the
  segment, a failed read may load it again as zeroes (`machine.cpp:44`).
  `FirstSegmentOnly`.
- SRLI and SRAI by 32 and more decode to nothing, EBREAK and its like are ECALL, and
  funct7 is not read for nine instructions nor funct3 for JALR.
  `DecodesTheDescription`.
- CSRW writes register 255 (`rv32i_decoder_gen.cpp:623`), and no other instruction
  names one outside the file. `OperandsInRange`.
- A post-execute callback sees sources after the destination was written.
  `OperandsReported`. For a source an instruction does not have it is told register
  255, and whatever `get_reg` reads behind `regs_`: the `-1` that `callbacks.hpp:16`
  presets, that `rv32i_executer_gen.cpp:83` calls invalid and that
  `example_module.cpp:24` tests for needs an exception `get_reg` does not throw
  without DEBUG_EXECUTION. The model reports 255; no property vouches for it.
- A block-end callback comes only when the guest runs off a cached block, not when it
  jumps out of it or halts (`hart.cpp:487`). `BlocksTold`.
- A loop inside one cached block is not stopped by `max_cycles` (`hart.cpp:527`), and
  with `cached_bb_size` 0, the default, the simulator does nothing for ever.
  `EndsAsConfigured`.
- After a store into cached code the old instruction is executed, and one that never
  was in memory at that address is not. `ImplementsGuestIsa`.

## What is proved

All by TLAPS, for every value of the constants that the named assumptions allow.

- `TypeCorrect`: `SafeSpec => []TypeOK`, from `HartAssumption` alone.
- `EngineCorrect`, `Faithful`, `Refines`: `EngineInv`, `InstructionFaithful` and the
  refinement of `IsaMachine`, for programs that are `Supported` and fit the cache
  (`NoAlias`). `InstructionFaithful` is not inductive: it says nothing about the
  copies of the PC the engine will use later. `EngineInv` says it of all of them:
  a cached block is consecutive from its start and, once compiled, straight
  (`BlockInv`); the top frame stands at the guest's PC in the way of its kind
  (`ActiveAt`) and all others are suspended calls (`Parked`); a halted guest stands
  behind its ECALL with no active frame, so no caller takes that PC for its return
  address (`HaltInv`, which is why the post-call check suffices); and guest return
  addresses follow calls (`CallsInv`). Each group of actions has its preservation
  lemma (`StepInv`, `InterpretInv`, `CompiledInv`, `TrampolineInv`), and
  refinement is then one case per action: retire `code[pc]`, or stutter.
- `Supported` excludes two things the code does not handle: an indirect jump that
  falls through to the next instruction (it is collected into a block whose
  compiled form then never leaves early), and words that do not decode inside
  executable segments (compiled to nothing).
- `LiveCorrect`, `OnlyRecompiledReleased`: for every `jit_bound`, with no assumption on
  programs or the cache, the only live code a lookup frees is that of a function that
  is compiled again (`Recompiled`): `jit_bound` 2 or more and no jump, JAL, ECALL or
  branch in it, so that the call it waits in is a JALR. `config.conf` ships
  `jit_bound=5` and the default is 10, so that there the case is possible
  (`threaded_code.hpp:84`, `ReturnToFreedCode` fires in `hart_halt`); with 0 or 1 it is
  not, and compiled basic blocks are never freed live. `LiveInv`: an activation of
  compiled code keeps a compiled block in its slot that was looked up at least once,
  hence past the lookup of bound 1, and has lost its code only if it is such a function.
- `CallsMatched`, `HostBounded`: `HostStackBounded`, for `Supported` programs that fit
  the cache. Counting is not inductive: nothing would say which return address goes
  with which frame. `DebtInv` does, by a matching. Each frame in a call (`Owes`) has a
  return address of its own, later for inner frames (`Matched`); a `run_until_pc` loop
  waits for the address of the call below it (`UntilInv`). A compiled call takes up
  the address its frame owes (`Borrow`). A guest return gives up the innermost one, and
  if it was owed, then by the frame just below the one that returns, at whose call the
  PC now is (`Returning`), so that the post-call check or the loop ends that call next
  (`Repay`, `DebtReturn`). A program that drops its calls without returning only leaves
  addresses nobody owes. The bound follows from the matching being injective
  (`DebtBound`).
- `CyclesCount`: `CyclesExact` when `jit_bound` is 0, for `Supported` programs that
  fit the cache. `CountInv` says what `Machine::run` has not been told yet
  (`Unreported`): what the outermost activation, if it is a compiled function, has
  seen `instr_counter_` grow by since it was entered (`Entered`), and what the
  innermost one keeps in a local variable if it interprets (`Local`). Activations in
  between count nothing twice, as they all add to the one counter. Counts wrap, so
  every step is an equation between numbers that differ by a multiple of
  `CounterSpace` (`Multiple`, `Counts`). The invariant holds only while no compiled
  basic block runs (`OnlyFunctionsCompiled`): see `hart.cpp:462` below.
- `MmuTypeCorrect`, `HitsAreExact`, `SmallPagesTranslate`: for a `Settled` guest,
  one that maps first and stays below 4 GiB. The invariant `Filled` of `MmuProofs`
  says that each valid entry is what the walk of some page gave, with that page's
  tag; two pages with the same tag at a level have the same walk.
- `AddressSpaceImplemented`: for a settled guest `Mmu` implements `AddressSpace`, from
  `Filled` again: a hit grants what the walk of the page asked for would.
- `DescriptionDecoded`, `OperandsDecoded`: for every 32-bit word that can be fetched,
  in every file, a case per instruction of the switch.
- `AssembledDecoded`: `decode` undoes the assembler's encoding for every instruction,
  all registers and all immediates it takes, by a lemma per field and format on sets
  of bits. This is where a run could only sample.
- `BootTypes`, `FirstSegmentLoaded`, `AssembledExecuted`: for every file, from
  `LoaderAssumption` (files are words, and what they say as headers) and
  `BootAssumption` (the words of an assembled instruction are its encoding).
  `FirstSegmentOnly` and `AssembledIsExecuted` speak of files whose first segment is
  whole (`Sound`) and behind which nothing reads like a PT_LOAD header (`Quiet`); about
  others nothing is claimed. `LoadInv` says why they hold: up to the first header that
  is loaded, headers are read one behind another into an empty machine (`Before`);
  loading moves the stream behind all of them, so what is read afterwards is, by
  `Quiet`, skipped, or, if the file ends with that segment, the same header again, and
  then it is read past the end (`Behind`, `RunsOut`). Which header is the first is found
  by well-founded induction on `<`. `AssembledExecuted` adds that what is decoded is
  what is in memory, and `AssembledDecoded`.
- `GuestIsaImplemented`: `ModularHart` implements `GuestIsa`. The refinement needs
  `IInv`: the guest is well-typed (`GuestOK`, `HartOK`), what a fetch would give now is
  in `seen` (`SeenNow`), every word of a cached block is in `seen` of the PC it stands
  for (`CacheNoted`), and so is every word of the block being executed or collected,
  with the PC where that block says (`StepNoted`). A store changes memory but never
  takes a word out of `seen`, which is why no cached block needs to be told.
- `ModularTypes`, `EveryCycleCounted`, `CallbacksAgree`: `CInv` adds to `IInv` that the
  counters are counters (`CountersOK`) that agree (`CallsKept`), that a block was told
  when it was entered (`EntryTold`), and that
  nothing is pending between two steps (`Idle`); each action then adds the same on both
  sides, modulo `CounterSpace`.
- `BlocksAreTold`: `BlocksTold`, from the same invariant: a cached block was told when
  the step entered it, and the PC is where the instruction count in it says.
- `OperandsAreReported`: `OperandsReported` by the same `CInv`; only an executed, hooked
  instruction changes the count of post-execute callbacks (`PostCalled`), and it changes
  no register but its destination (`ReportSays`).
- `CountsKept`: `CountInv` itself, the invariant `CyclesCount` rests on.
- `LockstepTypes`, `ZeroStays`, `X86Diverges`, `A64Diverges`: everything `lockstep_all`
  checks at 8 bits, for words of every width, every program of decoded instructions and
  every start with x0 = 0 (`LockstepAssumption`), a CSRW that throws included. `DivergesExactly` is an equivalence, so
  two things are proved of each instruction: the engines agree outside of the listed
  cases, and in each of these they do not. The invariant is `Inv`, the types and x0; what
  is hard is one step. It is taken apart in two. The *form* of an instruction says that
  each engine leaves the guest as it was but for a value in rd and a new PC (`ValuedForms`,
  `StoreForms`, `BranchForms`, `JalForms`, `JalrForms`, `EcallForms`, `CsrwForms`), so two
  engines agree exactly if they agree on these (`PutDiffers`). The *values* are compared
  family by family (`ValuesX86`, `ComputedA64Differs`): sign extension changes exactly what
  has its top bit set (`ExtensionChanges`), an addition modulo `2 ^ n` may be done on the
  low parts (`LowAdds`), a 64-bit operation on 32-bit operands keeps bits the 32-bit one
  loses (`SmallOrFar`). Below are lemmas about powers, quotients and bits, of which the
  library has none: powers of two are natural numbers by counting the subsets of a set,
  and every set of bits belongs to one number (`DigitsUnique`, `BitsAre`) by induction on
  the width, as the absence of a least width where it fails (`Least`).

Only model-checked: `HaltUnwinds`, `EndsAsConfigured` and the liveness of `IsaMachine`
(temporal properties under fairness, out of the prover's reach), and the five properties
the code violates.

## What is not shown

- `CyclesExact` is checked and proved for `jit_bound` 0. A compiled basic block executed below
  `run_until_pc` does not advance `instr_counter_` (`hart.cpp:462`), so with
  compiled blocks the count comes out short; that is in the model, not in a
  property.
- Guest code does not change in `Hart`, and it has no page faults; `ModularHart` has
  both, without compiled code. Memory bounds, the host's registers and its finite
  stack are in neither. The `format` of a word that does
  not decode is uninitialised in the code and is neither J nor B in the model.
- The 32-bit truncation of PCs by the block cache, and start values of registers
  other than 0, are not modelled.
- `ModularHart` translates by a fixed map: the TLBs and changing tables are in `Mmu`.
  Its instructions are nine of the fifty-one, the ones that touch each kind of state.

## Not modelled

- Reads and writes outside the memory (`memory.cpp:44`), and the write of CSRW behind
  `regs_`: undefined behaviour whose outcomes are those of the host's address space.
- Faults in compiled code: with paging off, as `Lockstep` has it, the one exception is
  that of CSRW. How an exception passes through frames of compiled code is left to the
  host; the run is over in any case.
- The configuration readers and the command line: key=value lines read once, before
  anything else; their values are constants of the modules.
- `lru_cache.hpp`: used by nothing. `TLB::flush` and `naive_cache::invalidate_all` are
  called by nothing.
- The generator and the printed statistics.

## Plan

Done, in this order: `IsaMachine` and `Hart` with their theorems; `Mmu`; `Lockstep`;
`AddressSpace` and its refinement; `Decoder`, `Isa`, `Loader` and `Boot`; `GuestIsa` and
`ModularHart`; `JitA64` as a second backend of `Lockstep`.

Left:

- Compiled code under a guest that stores into it, with the faults of
  `build_function_block`'s early fetches: `Hart` over the memory of `ModularHart`.
