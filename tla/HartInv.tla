------------------------------- MODULE HartInv -------------------------------
(***************************************************************************)
(* Why InstructionFaithful holds: the inductive invariant behind it.  It   *)
(* relates every place where the engine keeps a copy of the PC (a block's  *)
(* index, a label of compiled code, the target in a trampoline) to the     *)
(* guest's own.                                                            *)
(***************************************************************************)
EXTENDS Hart

\* The program fits the cache: no two of its PCs share a slot.
NoAlias == \A p, q \in Pcs : Slot(p) = Slot(q) => p = q

\* No indirect jump names the instruction after it as a target (one that falls
\* through is collected in a block, and the compiled block never leaves early),
\* and executable segments hold only words that decode.
SupportedProgram(c) ==
  \A p \in Pcs :
    /\ c[p].op \in {"ret", "ijump", "icall"} => Inc(p) \notin c[p].to
    /\ p \in ExecPcs => c[p].op # "unknown"

Supported == \A c \in Programs : SupportedProgram(c)

Straight == {"op", "mem", "csrw"}
Linking == {"call", "icall"}

\* pcs are consecutive from start on, and hold only instructions of ops.
Collected(start, pcs, ops) ==
  /\ pcs # <<>> => pcs[1] = start
  /\ \A k \in 1 .. (Len(pcs) - 1) : pcs[k + 1] = Inc(pcs[k])
  /\ \A k \in 1 .. Len(pcs) : code[pcs[k]].op \in ops

MayFall == Straight \cup {"branch", "jump", "call"}

BlockInv(b) ==
  /\ b.kind = "fn" => b.jitted /\ b.start \in ExecPcs
  /\ b.kind = "bb" => /\ b.pcs # <<>>
                      /\ Collected(b.start, b.pcs, MayFall)
                      /\ b.jitted => Collected(b.start, b.pcs, Straight)

CacheInv ==
  \A s \in Slots : cache[s].kind # "none" => Slot(cache[s].start) = s
                                             /\ BlockInv(cache[s])

\* A frame below the top is a suspended function or a run_until_pc loop.
Parked(f) == \/ f.kind = "until" /\ f.st = "run"
             \/ f.kind = "fn" /\ f.st = "wait" /\ f.at \in Pcs
                              /\ code[f.at].op \in Linking

InBlock(f, ops, p) == /\ Collected(f.start, f.pcs, ops)
                      /\ f.at \in 1 .. Len(f.pcs)
                      /\ f.pcs[f.at] = p

\* A frame that is about to execute an instruction holds the one at p.
ActiveAt(f, p) ==
  \/ /\ f.kind = "collect" /\ f.st = "run"
     /\ Collected(f.start, f.pcs, MayFall)
     /\ p = IF f.pcs = <<>> THEN f.start ELSE Inc(f.pcs[Len(f.pcs)])
  \/ f.kind = "cached" /\ f.st = "run" /\ InBlock(f, MayFall, p)
  \/ f.kind = "jitbb" /\ f.st = "run" /\ InBlock(f, Straight, p)
  \/ f.kind = "fn" /\ f.st = "run" /\ f.at = p /\ f.at \in ExecPcs
  \/ /\ f.kind = "fn" /\ f.st = "call"
     /\ f.at \in Pcs /\ code[f.at].op \in Linking
     /\ code[f.at].op = "call" => Rel(f.at, code[f.at].imm) = p

StackInv ==
  /\ \A k \in 1 .. (Depth - 1) : Parked(frames[k])
  /\ frames # <<>> => Parked(Top) \/ ActiveAt(Top, pc)

\* A halted guest stands behind its ECALL and has no active frame left, so no
\* caller mistakes that PC for its return address.
HaltInv ==
  halt => /\ \E p \in Pcs : code[p].op = "ecall" /\ pc = Inc(p)
          /\ frames # <<>> => Parked(Top)

CallsInv ==
  \A k \in 1 .. Len(calls) :
     \E p \in Pcs : code[p].op \in Linking /\ calls[k] = Inc(p)

\* Where the engine holds a PC, it is the guest's: in the cache, in each frame,
\* at a halt and at a return.
EngineInv == CacheInv /\ StackInv /\ HaltInv /\ CallsInv

Inv == TypeOK /\ code \in Programs /\ EngineInv

-------------------------------------------------------------------------------
(* Why OnlyRecompiledFreed holds: an activation that waits in a call keeps its *)
(* function in the cache, looked up at least once, so that the lookup that     *)
(* compiles it, if there is one, is a later one.                               *)

SlotsOwn(c) == \A s \in Slots : c[s].kind # "none" => Slot(c[s].start) = s

Alive(f, c) ==
  LET b == c[Slot(f.start)] IN
  /\ f.freed => f.kind = "fn" /\ Recompiled(f.start)
  /\ f.kind = "fn" => /\ b.kind = "fn" /\ b.jitted
                      /\ b.start = f.start /\ b.rate >= 1

\* Only functions and run_until_pc loops call step().
AllAlive(fs, c) ==
  \A k \in 1 .. Len(fs) : Alive(fs[k], c) /\ fs[k].kind \in {"fn", "until"}

\* A block is collected only for an empty slot, by the topmost frame.
TopAlive(f, c) == /\ Alive(f, c)
                  /\ f.kind = "collect" => c[Slot(f.start)].kind = "none"

LiveInv == /\ SlotsOwn(cache)
           /\ frames # <<>> => AllAlive(Below, cache) /\ TopAlive(Top, cache)

-------------------------------------------------------------------------------
(* Why HostStackBounded holds: every suspended call of the host stack can be   *)
(* matched, in order, with a return address the guest still holds.             *)

\* The frame is in a call, or about to make the one the guest has made.
Owes(f) == f.st # "run"

\* m gives each of the first n frames that is in a call its own return address.
Pays(m, fs, n, cs) ==
  \A k \in 1 .. n : Owes(fs[k]) =>
    /\ m[k] \in 1 .. Len(cs) /\ cs[m[k]] = Inc(fs[k].at)
    /\ \A j \in 1 .. (k - 1) : Owes(fs[j]) => m[j] < m[k]

Matched(fs, n, cs) == \E m \in [1 .. n -> 0 .. Len(cs)] : Pays(m, fs, n, cs)

\* run_until_pc waits for the return of the call below it.
UntilInv(fs) ==
  \A k \in 1 .. Len(fs) : fs[k].kind = "until" =>
    k > 1 /\ Owes(fs[k - 1]) /\ fs[k].at = Inc(fs[k - 1].at)

\* The guest has returned from the innermost call, and the host is about to.
Returning ==
  /\ frames # <<>> /\ Parked(Top)
  /\ IF Top.kind = "until" THEN pc = Top.at /\ Matched(frames, Depth - 2, calls)
                           ELSE pc = Inc(Top.at) /\ Matched(frames, Depth - 1, calls)

DebtInv ==
  ~halt => /\ UntilInv(frames)
           /\ Matched(frames, Depth, calls) \/ Returning

-------------------------------------------------------------------------------
(* Why CyclesExact holds when no block of interpreted instructions is ever     *)
(* compiled (jit_bound 0): what Machine::run has not been told yet is between  *)
(* the outermost activation and the innermost.                                 *)

\* Of the kinds of activation, the outermost is a step() that Machine::run made.
KindsInv(fs) ==
  \A k \in 1 .. Len(fs) : fs[k].kind # "jitbb" /\ (k = 1 => fs[k].kind # "until")

OnlyFunctionsCompiled == \A s \in Slots : cache[s].jitted => cache[s].kind = "fn"

\* What the outermost activation, a compiled function, has counted since.
Entered(fs, counter) ==
  IF fs # <<>> /\ fs[1].kind = "fn" THEN counter - fs[1].n ELSE 0

\* What the innermost activation keeps in a local variable.
Local(fs) ==
  IF fs = <<>> THEN 0
  ELSE LET f == fs[Len(fs)]
       IN  CASE f.kind = "collect" -> Len(f.pcs)
             [] f.kind = "cached"  -> f.n
             [] OTHER              -> 0

Unreported == Entered(frames, instr_counter) + Local(frames)

CountInv == /\ OnlyFunctionsCompiled /\ KindsInv(frames)
            /\ instret = Plus(cycle, Unreported)
===============================================================================
