------------------------------ MODULE ModularProofs ------------------------------
(***************************************************************************)
(* Proofs about ModularHart for every value of its constants: its types,   *)
(* that it implements GuestIsa, and that Machine::run counts every         *)
(* instruction once.                                                       *)
(***************************************************************************)
EXTENDS ModularHart, TLAPS

(***************************************************************************)
(* Arithmetic modulo a natural number.                                     *)
(***************************************************************************)

\* A remainder is in range, and what it is.
LEMMA ModBasics ==
  ASSUME NEW S \in Nat \ {0}, NEW a \in Int
  PROVE  /\ a % S \in 0 .. (S - 1)
         /\ a = S * (a \div S) + (a % S)
         /\ (a \div S) \in Int
OBVIOUS

\* A remainder is unique.
LEMMA ModUnique ==
  ASSUME NEW S \in Nat \ {0}, NEW q \in Int, NEW p \in Int,
         NEW r \in 0 .. (S - 1), NEW t \in 0 .. (S - 1),
         S * q + r = S * p + t
  PROVE  r = t
<1>1. S * (q - p) = t - r
  OBVIOUS
<1>2. CASE q - p >= 1
  BY <1>1, <1>2
<1>3. CASE q - p <= -1
  BY <1>1, <1>3
<1>4. CASE q = p
  BY <1>1, <1>4
<1> QED
  BY <1>2, <1>3, <1>4

\* A number below the modulus is its own remainder.
LEMMA ModSmall ==
  ASSUME NEW S \in Nat \ {0}, NEW a \in 0 .. (S - 1)
  PROVE  a % S = a
<1>1. /\ a % S \in 0 .. (S - 1) /\ (a \div S) \in Int
      /\ S * (a \div S) + (a % S) = S * 0 + a
  BY ModBasics
<1> QED
  BY <1>1, ModUnique

\* Multiplication distributes over addition.
LEMMA Distributes ==
  ASSUME NEW S \in Int, NEW q \in Int, NEW p \in Int
  PROVE  S * (q + p) = S * q + S * p
OBVIOUS

\* Numbers that differ by a multiple of the modulus have the same remainder.
LEMMA ModShift ==
  ASSUME NEW S \in Nat \ {0}, NEW a \in Int, NEW b \in Int, NEW q \in Int,
         a = S * q + b
  PROVE  a % S = b % S
<1>1. /\ a % S \in 0 .. (S - 1)
      /\ b % S \in 0 .. (S - 1)
  BY ModBasics
<1>2. PICK p \in Int : a = S * p + (a % S)
  BY ModBasics
<1>3. PICK t \in Int : b = S * t + (b % S)
  BY ModBasics
<1>4. S * (q + t) = S * q + S * t
  BY Distributes
<1>5. S \in Int /\ S * q \in Int /\ S * t \in Int /\ S * p \in Int
  OBVIOUS
<1>6. S * p + (a % S) = S * (q + t) + (b % S)
  <2>1. a = S * q + (S * t + (b % S))
    BY <1>3
  <2> HIDE <1>3
  <2> DEFINE x == S * q
             y == S * t
             z == S * (q + t)
             u == a % S
             v == b % S
  <2>2. z = x + y /\ x \in Int /\ y \in Int /\ v \in Int /\ a = x + (y + v)
    BY <1>1, <1>4, <1>5, <2>1
  <2>3. a = z + v
    <3> HIDE DEF x, y, z, u, v
    <3> QED
      BY <2>2
  <2> QED
    BY <1>2, <2>3
<1>7. q + t \in Int
  OBVIOUS
<1> QED
  BY <1>1, <1>6, <1>7, ModUnique

\* Remainders may be taken at the end.
LEMMA ModLater ==
  ASSUME NEW S \in Nat \ {0}, NEW a \in Int, NEW b \in Int
  PROVE  /\ ((a % S) + b) % S = (a + b) % S
         /\ (b - (a % S)) % S = (b - a) % S
<1>1. a % S \in Int
  BY ModBasics
<1>2. PICK q \in Int : a = S * q + (a % S)
  BY ModBasics
<1>3. a + b = S * q + ((a % S) + b)
  BY <1>1, <1>2
<1>4. b - (a % S) = S * q + (b - a)
  BY <1>1, <1>2
<1>5. /\ (a % S) + b \in Int /\ b - (a % S) \in Int
      /\ a + b \in Int /\ b - a \in Int
  BY <1>1
<1>6. (a + b) % S = ((a % S) + b) % S
  <2> DEFINE u == a + b
             v == (a % S) + b
  <2>1. u \in Int /\ v \in Int /\ u = S * q + v
    BY <1>3, <1>5
  <2> HIDE DEF u, v
  <2>2. u % S = v % S
    BY <2>1, ModShift, Zenon
  <2> QED
    BY <2>2 DEF u, v
<1>7. (b - (a % S)) % S = (b - a) % S
  <2> DEFINE u == b - (a % S)
             v == b - a
  <2>1. u \in Int /\ v \in Int /\ u = S * q + v
    BY <1>4, <1>5
  <2> HIDE DEF u, v
  <2>2. u % S = v % S
    BY <2>1, ModShift, Zenon
  <2> QED
    BY <2>2 DEF u, v
<1> QED
  BY <1>6, <1>7

-------------------------------------------------------------------------------
(***************************************************************************)
(* The inductive invariant.                                                *)
(***************************************************************************)

\* The guest's part of TypeOK.
GuestOK ==
  /\ mem \in [Values -> Values] /\ regs \in [Regs -> Values]
  /\ paging \in BOOLEAN /\ pc \in Values /\ end \in {"no", "ecall", "abort"}
  /\ seen \in [Values -> SUBSET Values]

\* The hart's part.
HartOK ==
  /\ cache \in [Slots -> [valid : BOOLEAN, start : Values, words : Seq(Values)]]
  /\ step \in [mode : {"none", "collect", "cached"}, start : Values, words : Seq(Values),
               at : Nat, n : Nat]

\* The counters and the module's part.
CountersOK ==
  /\ cycle \in Counter /\ setting \in Settings /\ registered \in BOOLEAN
  /\ calls \in [Hooks -> Counter]
  /\ told \in [kind : {"none", "start", "end"}, pc : Values, cycle : Counter]
  /\ tally \in [retired : Counter, blocked : Counter]

\* What a fetch gives now has been noted.
SeenNow == \A va \in Values : Guest!Words(mem, paging, va) \subseteq seen[va]

\* Every word of a block was once there for a fetch from its place.
Noted(sn, words, start) ==
  \A k \in 1 .. Len(words) : words[k] \in sn[Guest!Wrap(start + k - 1)]

\* A cached block lies in the slot of its start.
CacheNoted ==
  \A s \in Slots : cache[s].valid => Slot(cache[s].start) = s
                                     /\ Noted(seen, cache[s].words, cache[s].start)

\* step() stands where its block says.
StepNoted ==
  /\ step.mode # "none" => Noted(seen, step.words, step.start)
  /\ step.mode = "collect" => pc = Guest!Wrap(step.start + Len(step.words))
  /\ step.mode = "cached" => /\ step.at \in 1 .. (Len(step.words) + 1)
                             /\ pc = Guest!Wrap(step.start + step.at - 1)

IInv == GuestOK /\ HartOK /\ SeenNow /\ CacheNoted /\ StepNoted

-------------------------------------------------------------------------------
(* The guest. *)

USE DEF Values, Regs, Guest!Values, Guest!Regs, Inc

\* What the assumption says of the guest's constants.
LEMMA Constants ==
  /\ Space \in Nat \ {0} /\ NRegs \in Nat \ {0}
  /\ Decode \in [Values -> Guest!Instr]
  /\ Fault \notin Values
  /\ PageMap \in [Values -> Values \cup {Fault}]
  /\ Boots \subseteq [Values -> Values]
  /\ Entry \in Values /\ Fill \in Values
BY ModularAssumption DEF Guest!GuestConstants

\* Addresses wrap into Values.
LEMMA Wraps ==
  ASSUME NEW n \in Int
  PROVE  Guest!Wrap(n) \in Values
BY Constants, ModBasics DEF Guest!Wrap

\* The address after the k-th from start is the (k + 1)-th.
LEMMA WrapNext ==
  ASSUME NEW n \in Int
  PROVE  Guest!Inc(Guest!Wrap(n)) = Guest!Wrap(n + 1)
<1>1. Space \in Nat \ {0} /\ 1 \in Int
  BY Constants
<1>2. ((n % Space) + 1) % Space = (n + 1) % Space
  BY <1>1, ModLater
<1> QED
  BY <1>2 DEF Guest!Inc, Guest!Wrap

\* Values are integers.
LEMMA ValuesAreInt ==
  ASSUME NEW v \in Values
  PROVE  v \in Int
BY Constants

\* The next address is an address.
LEMMA IncValue ==
  ASSUME NEW p \in Values
  PROVE  Guest!Inc(p) \in Values
<1>1. p + 1 \in Int
  BY ValuesAreInt
<1> QED
  BY <1>1, Wraps DEF Guest!Inc

\* An address is its own.
LEMMA WrapValue ==
  ASSUME NEW n \in Values
  PROVE  Guest!Wrap(n) = n
BY Constants, ModSmall DEF Guest!Wrap

\* get_reg gives a value.
LEMMA GetReg ==
  ASSUME GuestOK, NEW r \in Regs
  PROVE  Guest!get_reg(r) \in Values
BY Constants DEF GuestOK, Guest!get_reg

\* A translation gives an address or a fault.
LEMMA Translates ==
  ASSUME NEW on \in BOOLEAN, NEW va \in Values
  PROVE  Guest!Translate(on, va) \in Values \cup {Fault}
BY Constants DEF Guest!Translate

\* An instruction that does not abort leaves a well-typed guest behind.
LEMMA ExecuteTypes ==
  ASSUME GuestOK, NEW i \in Guest!Instr, Guest!Execute(i)
  PROVE  GuestOK'
<1>1. /\ i.op \in Guest!Ops /\ i.rd \in Regs /\ i.rs1 \in Regs /\ i.rs2 \in Regs
      /\ i.imm \in Values
  BY DEF Guest!Instr
<1>2. /\ Guest!get_reg(i.rs1) \in Values /\ Guest!get_reg(i.rs2) \in Values
  BY <1>1, GetReg
<1>a. pc \in Values
  BY DEF GuestOK
<1>b. /\ pc \in Int /\ i.imm \in Int
      /\ Guest!get_reg(i.rs1) \in Int /\ Guest!get_reg(i.rs2) \in Int
  BY <1>1, <1>2, <1>a, ValuesAreInt
<1>c. /\ pc + i.imm \in Int /\ Guest!get_reg(i.rs1) + i.imm \in Int
      /\ Guest!get_reg(i.rs1) + Guest!get_reg(i.rs2) \in Int
  BY <1>b
<1>3. i.op \in {"lw", "sw"} => Guest!Target(i) \in Values
  <2>1. Guest!Wrap(Guest!get_reg(i.rs1) + i.imm) \in Values
    BY <1>c, Wraps
  <2>2. Guest!Target(i) \in Values \cup {Fault}
    BY <2>1, Translates DEF Guest!Target, GuestOK
  <2> QED
    BY <2>2 DEF Guest!Execute, Guest!Aborts
<1>4. mem' \in [Values -> Values]
  BY <1>2, <1>3 DEF Guest!Execute, GuestOK
<1>5. \A v \in Values : Guest!Set(i.rd, v) \in [Regs -> Values]
  BY <1>1 DEF Guest!Set, GuestOK
<1>6. regs' \in [Regs -> Values]
  <2>1. /\ Guest!Wrap(Guest!get_reg(i.rs1) + Guest!get_reg(i.rs2)) \in Values
        /\ Guest!Wrap(Guest!get_reg(i.rs1) + i.imm) \in Values
        /\ Guest!Inc(pc) \in Values
    BY <1>a, <1>c, Wraps, IncValue
  <2>2. i.op = "lw" => mem[Guest!Target(i)] \in Values
    BY <1>3 DEF GuestOK
  <2>3. regs' = Guest!Result(i)
    BY DEF Guest!Execute
  <2> QED
    BY <1>5, <2>1, <2>2, <2>3 DEF Guest!Result, GuestOK
<1>7. paging' \in BOOLEAN
  BY DEF Guest!Execute, GuestOK
<1>8. pc' \in Values
  <2>1. Guest!Inc(pc) \in Values /\ Guest!Wrap(pc + i.imm) \in Values
    BY <1>a, <1>c, Wraps, IncValue
  <2> QED
    BY <2>1 DEF Guest!Execute, Guest!Goes
<1>9. \A va \in Values : Guest!Words(mem', paging', va) \subseteq Values
  <2> TAKE va \in Values
  <2>1. Guest!Translate(paging', va) \in Values \cup {Fault}
    BY <1>7, Translates
  <2> QED
    BY <1>4, <2>1 DEF Guest!Words
<1>10. seen' \in [Values -> SUBSET Values]
  BY <1>9 DEF Guest!Execute, Guest!Seen, GuestOK
<1>11. end' \in {"no", "ecall", "abort"}
  BY DEF Guest!Execute
<1> QED
  BY <1>4, <1>6, <1>7, <1>8, <1>10, <1>11 DEF GuestOK

\* What was seen stays seen, and what a fetch would give now is added.
LEMMA ExecuteSeen ==
  ASSUME GuestOK, NEW i, Guest!Execute(i)
  PROVE  /\ \A va \in Values : seen[va] \subseteq seen'[va]
         /\ SeenNow'
BY DEF GuestOK, SeenNow, Guest!Execute, Guest!Seen

\* An element of a sequence over a set is a member of the set.
LEMMA ElementOf ==
  ASSUME NEW S, NEW q \in Seq(S), NEW k \in 1 .. Len(q)
  PROVE  q[k] \in S
OBVIOUS

\* What was noted stays noted.
LEMMA StaysNoted ==
  ASSUME Space \in Nat \ {0}, \A va \in Values : seen[va] \subseteq seen'[va],
         NEW words \in Seq(Values), NEW start \in Values, Noted(seen, words, start)
  PROVE  Noted(seen', words, start)
<1>1. SUFFICES ASSUME NEW k \in 1 .. Len(words)
               PROVE  words[k] \in seen'[Guest!Wrap(start + k - 1)]
  BY DEF Noted, Guest!Wrap
<1>2. Guest!Wrap(start + k - 1) \in Values
  <2>1. start \in Int /\ k \in Int
    BY ValuesAreInt
  <2>2. start + k - 1 \in Int
    BY <2>1
  <2> QED
    BY <2>2, Wraps
<1> QED
  BY <1>2 DEF Noted

\* The guest after an instruction, executed or aborted.
LEMMA PerformGuest ==
  ASSUME GuestOK, SeenNow, NEW i \in Guest!Instr, NEW f, Perform(i, f)
  PROVE  /\ GuestOK' /\ SeenNow'
         /\ \A va \in Values : seen[va] \subseteq seen'[va]
         /\ end' = "abort" => Guest!Aborts(i) /\ Guest!Abort
         /\ end' # "abort" => Guest!Execute(i)
<1>1. CASE Guest!Aborts(i)
  BY <1>1 DEF Perform, Guest!Abort, GuestOK, SeenNow, Guest!Words, Guest!Translate
<1>2. CASE ~Guest!Aborts(i)
  <2>1. Guest!Execute(i)
    BY <1>2 DEF Perform
  <2>2. end' # "abort"
    BY <2>1 DEF Guest!Execute
  <2> QED
    BY <2>1, <2>2, ExecuteTypes, ExecuteSeen
<1> QED
  BY <1>1, <1>2

\* While no block changes, what they note stays noted.
LEMMA CacheStays ==
  ASSUME HartOK, CacheNoted, UNCHANGED cache,
         \A va \in Values : seen[va] \subseteq seen'[va]
  PROVE  CacheNoted'
<1>1. SUFFICES ASSUME NEW s \in Slots, cache[s].valid
               PROVE  Slot(cache[s].start) = s /\ Noted(seen', cache[s].words, cache[s].start)
  BY DEF CacheNoted, Slot, Slots, Noted
<1>2. cache[s].words \in Seq(Values) /\ cache[s].start \in Values
  BY DEF HartOK
<1> QED
  BY <1>1, <1>2, StaysNoted, Constants DEF CacheNoted

\* A PC's slot is its own.
LEMMA OwnSlot ==
  ASSUME NEW p \in Values
  PROVE  Slot(p) \in Slots /\ Slot(p) = p
<1>1. NSlots \in Nat \ {0} /\ p \in 0 .. (NSlots - 1)
  BY Constants, ModularAssumption
<1> QED
  BY <1>1, ModSmall DEF Slot, Slots

-------------------------------------------------------------------------------
(* The steps of the hart. *)

LEMMA InitIInv ==
  ASSUME Init
  PROVE  IInv
<1>1. GuestOK
  <2>1. \A va \in Values : Guest!Words(mem, FALSE, va) \subseteq Values
    BY Constants DEF Init, Guest!Init, Guest!Words, Guest!Translate
  <2> QED
    BY <2>1, Constants DEF Init, Guest!Init, GuestOK, Guest!Seen
<1>2. SeenNow
  BY DEF Init, Guest!Init, SeenNow, Guest!Seen
<1>3. <<>> \in Seq(Values) /\ 0 \in Values
  BY Constants
<1>4. HartOK
  BY <1>3 DEF Init, HartOK, NoBlock, NoStep
<1>5. CacheNoted /\ StepNoted
  BY DEF Init, CacheNoted, StepNoted, NoBlock, NoStep
<1> QED
  BY <1>1, <1>2, <1>4, <1>5 DEF IInv

\* step() that is over notes nothing.
LEMMA NoStepOK ==
  /\ NoStep \in [mode : {"none", "collect", "cached"}, start : Values, words : Seq(Values),
                 at : Nat, n : Nat]
  /\ step' = NoStep => StepNoted'
<1>1. <<>> \in Seq(Values) /\ 0 \in Values
  BY Constants
<1> QED
  BY <1>1 DEF NoStep, StepNoted

\* Machine::run calls step().
LEMMA StepIInv ==
  ASSUME IInv, Step
  PROVE  IInv'
<1> USE DEF IInv
<1>1. GuestOK' /\ SeenNow' /\ CacheNoted'
  BY CacheStays DEF Step, guest, GuestOK, SeenNow, Guest!Words, Guest!Translate
<1>2. Slot(pc) \in Slots /\ Slot(pc) = pc /\ pc \in Values
  BY OwnSlot DEF GuestOK
<1>3. pc' = pc /\ seen' = seen /\ cache' = cache
  BY DEF Step, guest
<1>4. CASE cache[Slot(pc)].valid
  <2> DEFINE b == cache[Slot(pc)]
  <2>1. step' = [NoStep EXCEPT !.mode = "cached", !.start = b.start,
                               !.words = b.words, !.at = 1]
    BY <1>4 DEF Step
  <2>2. b.start \in Values /\ b.words \in Seq(Values)
    BY <1>2 DEF HartOK
  <2>3. Slot(b.start) = Slot(pc) /\ Noted(seen, b.words, b.start)
    BY <1>2, <1>4 DEF CacheNoted
  <2>4. b.start = pc
    BY <1>2, <2>2, <2>3, OwnSlot
  <2> HIDE DEF b
  <2>5. /\ step'.mode = "cached" /\ step'.start = pc /\ step'.words = b.words
        /\ step'.at = 1 /\ step'.n = 0
    BY <2>1, <2>4 DEF NoStep
  <2>6. pc = Guest!Wrap(pc + 1 - 1)
    <3>1. pc + 1 - 1 = pc
      BY <1>2, Constants
    <3> QED
      BY <1>2, <3>1, WrapValue
  <2>7. StepNoted'
    <3>1. 1 \in 1 .. (Len(b.words) + 1)
      BY <2>2
    <3>2. Noted(seen', b.words, pc)
      BY <1>3, <2>3, <2>4 DEF Noted, b, Guest!Wrap
    <3> QED
      BY <1>3, <2>5, <2>6, <3>1, <3>2 DEF StepNoted, Noted, Guest!Wrap
  <2>8. HartOK'
    BY <1>3, <2>1, <2>2 DEF HartOK, NoStep
  <2> QED
    BY <1>1, <2>7, <2>8
<1>5. CASE ~cache[Slot(pc)].valid
  <2>1. step' = [NoStep EXCEPT !.mode = "collect", !.start = pc]
    BY <1>5 DEF Step
  <2>2. /\ step'.mode = "collect" /\ step'.start = pc /\ step'.words = <<>>
    BY <2>1 DEF NoStep
  <2>3. HartOK'
    BY <1>2, <1>3, <2>1, NoStepOK DEF HartOK
  <2>4. pc = Guest!Wrap(pc + Len(<<>>))
    <3>1. pc + Len(<<>>) = pc
      BY <1>2, Constants
    <3> QED
      BY <1>2, <3>1, WrapValue
  <2>5. StepNoted'
    BY <1>3, <2>2, <2>4 DEF StepNoted, Noted, Guest!Wrap
  <2> QED
    BY <1>1, <2>3, <2>5
<1> QED
  BY <1>4, <1>5

\* A step() that returns without an instruction.
LEMMA ReturnIInv ==
  ASSUME IInv, NEW n, Return(n), UNCHANGED <<guest, cache>>
  PROVE  IInv'
<1> USE DEF IInv
<1>1. GuestOK' /\ SeenNow' /\ CacheNoted'
  BY CacheStays DEF guest, GuestOK, SeenNow, Guest!Words, Guest!Translate
<1>2. HartOK' /\ StepNoted'
  BY NoStepOK DEF Return, HartOK
<1> QED
  BY <1>1, <1>2

\* A fetch that fails.
LEMMA FetchFailsIInv ==
  ASSUME IInv, FetchFails
  PROVE  IInv'
<1> USE DEF IInv
<1>1. GuestOK' /\ SeenNow' /\ CacheNoted'
  BY CacheStays
     DEF FetchFails, Guest!Abort, GuestOK, SeenNow, Guest!Words, Guest!Translate
<1>2. HartOK' /\ StepNoted'
  BY DEF FetchFails, Guest!Abort, HartOK, StepNoted, Noted, Guest!Wrap
<1> QED
  BY <1>1, <1>2

\* A block that is installed is noted.
LEMMA InstalledNoted ==
  ASSUME HartOK, CacheNoted, NEW words \in Seq(Values), NEW start \in Values,
         \A va \in Values : seen[va] \subseteq seen'[va],
         Noted(seen', words, start), cache' = Installed(start, words)
  PROVE  /\ cache' \in [Slots -> [valid : BOOLEAN, start : Values, words : Seq(Values)]]
         /\ CacheNoted'
<1>1. CASE words = <<>>
  <2>1. cache' = cache
    BY <1>1 DEF Installed
  <2> QED
    BY <2>1, CacheStays DEF HartOK
<1>2. CASE words # <<>>
  <2> DEFINE b == [valid |-> TRUE, start |-> start, words |-> words]
  <2>1. cache' = [cache EXCEPT ![Slot(start)] = b]
    BY <1>2 DEF Installed
  <2>2. Slot(start) \in Slots
    BY OwnSlot
  <2>3. cache' \in [Slots -> [valid : BOOLEAN, start : Values, words : Seq(Values)]]
    <3>1. b \in [valid : BOOLEAN, start : Values, words : Seq(Values)]
      OBVIOUS
    <3> HIDE DEF b
    <3> QED
      BY <2>1, <3>1 DEF HartOK
  <2>4. SUFFICES ASSUME NEW s \in Slots, cache'[s].valid
                 PROVE  Slot(cache'[s].start) = s /\ Noted(seen', cache'[s].words, cache'[s].start)
    BY <2>3 DEF CacheNoted, Slot, Slots, Noted, Guest!Wrap
  <2>5. CASE s = Slot(start)
    <3>1. cache'[s] = b
      BY <2>1, <2>2, <2>5 DEF HartOK
    <3> QED
      BY <2>5, <3>1 DEF Noted, Guest!Wrap
  <2>6. CASE s # Slot(start)
    <3>1. cache'[s] = cache[s]
      BY <2>1, <2>6 DEF HartOK
    <3>2. cache[s].words \in Seq(Values) /\ cache[s].start \in Values
      BY DEF HartOK
    <3>3. Slot(cache[s].start) = s /\ Noted(seen, cache[s].words, cache[s].start)
      BY <2>4, <3>1 DEF CacheNoted
    <3>4. Noted(seen', cache[s].words, cache[s].start)
      BY <3>2, <3>3, StaysNoted, Constants
    <3> QED
      BY <3>1, <3>3, <3>4 DEF Noted, Guest!Wrap
  <2> QED
    BY <2>5, <2>6
<1> QED
  BY <1>1, <1>2

\* The word that is fetched is an instruction that was seen.
LEMMA FetchedSeen ==
  ASSUME GuestOK, SeenNow, Guest!Translate(paging, pc) # Fault,
         NEW w, w = mem[Guest!Translate(paging, pc)]
  PROVE  w \in Values /\ w \in seen[pc] /\ Decode[w] \in Guest!Instr
<1>1. Guest!Translate(paging, pc) \in Values
  BY Translates DEF GuestOK
<1>2. w \in Values
  BY <1>1 DEF GuestOK
<1>3. w \in seen[pc]
  BY DEF SeenNow, Guest!Words, GuestOK
<1> QED
  BY <1>2, <1>3, Constants

\* The word that a block gives is an instruction that was seen, too.
LEMMA CachedSeen ==
  ASSUME GuestOK, HartOK, StepNoted, step.mode = "cached", step.at <= Len(step.words),
         NEW w, w = step.words[step.at]
  PROVE  w \in Values /\ w \in seen[pc] /\ Decode[w] \in Guest!Instr
<1>1. /\ step.at \in 1 .. Len(step.words) /\ step.words \in Seq(Values)
      /\ pc = Guest!Wrap(step.start + step.at - 1)
  BY DEF HartOK, StepNoted
<1>2. w \in Values
  <2> DEFINE V == Values
  <2>1. step.words \in Seq(V)
    BY <1>1
  <2> HIDE DEF V
  <2>2. step.words[step.at] \in V
    BY <1>1, <2>1
  <2> QED
    BY <2>2 DEF V
<1>3. w \in seen[pc]
  BY <1>1 DEF StepNoted, Noted
<1> QED
  BY <1>2, <1>3, Constants

\* A step that is interrupted for good.
LEMMA StopIInv ==
  ASSUME IInv, Stop, Guest!Abort, GuestOK', SeenNow'
  PROVE  IInv'
<1> USE DEF IInv
<1>1. CacheNoted' /\ HartOK' /\ StepNoted'
  BY CacheStays DEF Stop, Guest!Abort, HartOK, StepNoted, Noted, Guest!Wrap
<1> QED
  BY <1>1

\* A block that grows by the word that was executed is noted.
LEMMA AppendNoted ==
  ASSUME IInv, step.mode = "collect", NEW w \in Values, w \in seen[pc],
         \A va \in Values : seen[va] \subseteq seen'[va]
  PROVE  Noted(seen', Append(step.words, w), step.start)
<1> USE DEF IInv
<1>1. step.words \in Seq(Values) /\ step.start \in Values
  BY DEF HartOK
<1>2. Noted(seen', step.words, step.start)
  BY <1>1, StaysNoted, Constants DEF StepNoted
<1>3. pc \in Values /\ pc = Guest!Wrap(step.start + Len(step.words))
  BY DEF GuestOK, StepNoted
<1> DEFINE ws == step.words
           st == step.start
<1>4. SUFFICES ASSUME NEW k \in 1 .. Len(Append(ws, w))
               PROVE  Append(ws, w)[k] \in seen'[Guest!Wrap(st + k - 1)]
  BY DEF Noted
<1>5. CASE k \in 1 .. Len(ws)
  <2>1. Append(ws, w)[k] = ws[k]
    BY <1>1, <1>5
  <2> QED
    BY <1>2, <1>5, <2>1 DEF Noted
<1>6. CASE k = Len(ws) + 1
  <2>1. Append(ws, w)[k] = w
    BY <1>1, <1>6
  <2>2. st \in Int /\ Len(ws) \in Int
    BY <1>1, ValuesAreInt
  <2>3. st + k - 1 = st + Len(ws)
    BY <1>6, <2>2
  <2> QED
    BY <1>3, <2>1, <2>3
<1>7. k \in 1 .. Len(ws) \/ k = Len(ws) + 1
  BY <1>1, <1>4
<1> QED
  BY <1>5, <1>6, <1>7

\* Collecting: the instruction is executed, and the block grows or is installed.
LEMMA CollectIInv ==
  ASSUME IInv, Collect
  PROVE  IInv' /\ Guest!Next
<1> USE DEF IInv
<1>1. PICK w : /\ w = mem[Guest!Translate(paging, pc)]
               /\ Perform(Decode[w], 1)
               /\ (end' # "abort" /\ AfterCollect(w)) \/ Stop
  BY DEF Collect
<1>2. end = "no" /\ step.mode = "collect" /\ Guest!Translate(paging, pc) # Fault
  BY DEF Collect
<1>3. w \in Values /\ w \in seen[pc] /\ Decode[w] \in Guest!Instr
  BY <1>1, <1>2, FetchedSeen
<1>4. /\ GuestOK' /\ SeenNow'
      /\ \A va \in Values : seen[va] \subseteq seen'[va]
      /\ end' = "abort" => Guest!Aborts(Decode[w]) /\ Guest!Abort
      /\ end' # "abort" => Guest!Execute(Decode[w])
  BY <1>1, <1>3, PerformGuest
<1>5. Guest!Next
  BY <1>2, <1>3, <1>4 DEF Guest!Next, Guest!Retire, Guest!Fails
<1>6. CASE Stop
  <2>1. Guest!Abort
    BY <1>4, <1>6 DEF Stop
  <2> QED
    BY <1>4, <1>5, <1>6, <2>1, StopIInv
<1>7. CASE end' # "abort" /\ AfterCollect(w)
  <2> DEFINE falls == pc' = Inc(pc) /\ end' = "no"
             words == IF falls THEN Append(step.words, w) ELSE step.words
  <2>1. step.words \in Seq(Values) /\ step.start \in Values /\ step.n \in Nat
    BY DEF HartOK
  <2>2. Noted(seen', Append(step.words, w), step.start)
    BY <1>2, <1>3, <1>4, AppendNoted
  <2>3. Noted(seen', step.words, step.start)
    BY <1>2, <1>4, <2>1, StaysNoted, Constants DEF StepNoted
  <2>4. Append(step.words, w) \in Seq(Values)
    <3> DEFINE V == Values
    <3>1. step.words \in Seq(V) /\ w \in V
      BY <1>3, <2>1
    <3> HIDE DEF V
    <3>2. Append(step.words, w) \in Seq(V)
      BY <3>1
    <3> QED
      BY <3>2 DEF V
  <2>5. CASE falls /\ step.n + 1 < BBSize
    <3>1. /\ step' = [step EXCEPT !.words = Append(step.words, w), !.n = step.n + 1]
          /\ cache' = cache
      BY <1>7, <2>5 DEF AfterCollect
    <3>2. /\ step'.mode = "collect" /\ step'.start = step.start
          /\ step'.words = Append(step.words, w)
      BY <1>2, <3>1 DEF HartOK
    <3>3. HartOK'
      <4>1. step.n + 1 \in Nat
        BY <2>1
      <4> QED
        BY <2>4, <3>1, <4>1 DEF HartOK
    <3>4. CacheNoted'
      BY <1>4, <3>1, CacheStays
    <3>5. pc' = Guest!Wrap(step.start + Len(Append(step.words, w)))
      <4>1. Len(Append(step.words, w)) = Len(step.words) + 1
        BY <2>1
      <4>2. step.start + Len(step.words) \in Int
        BY <2>1, ValuesAreInt
      <4>3. pc' = Guest!Inc(Guest!Wrap(step.start + Len(step.words)))
        BY <1>2, <2>5 DEF StepNoted
      <4>4. (step.start + Len(step.words)) + 1 = step.start + (Len(step.words) + 1)
        BY <2>1, ValuesAreInt
      <4> QED
        BY <4>1, <4>2, <4>3, <4>4, WrapNext
    <3>6. StepNoted'
      BY <2>2, <3>2, <3>5 DEF StepNoted
    <3> QED
      BY <1>4, <1>5, <3>3, <3>4, <3>6
  <2>6. CASE ~(falls /\ step.n + 1 < BBSize)
    <3>1. Return(step.n + 1) /\ cache' = Installed(step.start, words)
      BY <1>7, <2>6 DEF AfterCollect
    <3>2. words \in Seq(Values) /\ Noted(seen', words, step.start)
      BY <2>1, <2>2, <2>3, <2>4
    <3> HIDE DEF words
    <3>3. /\ cache' \in [Slots -> [valid : BOOLEAN, start : Values, words : Seq(Values)]]
          /\ CacheNoted'
      BY <1>4, <2>1, <3>1, <3>2, InstalledNoted
    <3>4. HartOK' /\ StepNoted'
      BY <3>1, <3>3, NoStepOK DEF HartOK, Return
    <3> QED
      BY <1>4, <1>5, <3>3, <3>4
  <2> QED
    BY <2>5, <2>6
<1> QED
  BY <1>1, <1>6, <1>7

\* An instruction from a block.
LEMMA CachedIInv ==
  ASSUME IInv, Cached
  PROVE  IInv' /\ Guest!Next
<1> USE DEF IInv
<1>1. PICK w : /\ w = step.words[step.at]
               /\ Perform(Decode[w], 0)
               /\ (end' # "abort" /\ AfterCached /\ UNCHANGED cache) \/ Stop
  BY DEF Cached
<1>2. end = "no" /\ step.mode = "cached" /\ step.at <= Len(step.words)
  BY DEF Cached
<1>3. w \in Values /\ w \in seen[pc] /\ Decode[w] \in Guest!Instr
  BY <1>1, <1>2, CachedSeen
<1>4. /\ GuestOK' /\ SeenNow'
      /\ \A va \in Values : seen[va] \subseteq seen'[va]
      /\ end' = "abort" => Guest!Aborts(Decode[w]) /\ Guest!Abort
      /\ end' # "abort" => Guest!Execute(Decode[w])
  BY <1>1, <1>3, PerformGuest
<1>5. Guest!Next
  BY <1>2, <1>3, <1>4 DEF Guest!Next, Guest!Retire, Guest!Fails
<1>6. CASE Stop
  <2>1. Guest!Abort
    BY <1>4, <1>6 DEF Stop
  <2> QED
    BY <1>4, <1>5, <1>6, <2>1, StopIInv
<1>7. CASE end' # "abort" /\ AfterCached /\ UNCHANGED cache
  <2>1. step.words \in Seq(Values) /\ step.start \in Values /\ step.at \in Nat
    BY DEF HartOK
  <2>2. Noted(seen', step.words, step.start)
    BY <1>2, <1>4, <2>1, StaysNoted, Constants DEF StepNoted
  <2>3. CacheNoted'
    BY <1>4, <1>7, CacheStays
  <2>4. Plus(step.n, 1) \in Nat
    <3>1. CounterSpace \in Nat \ {0} /\ step.n + 1 \in Int
      BY ModularAssumption DEF HartOK
    <3> QED
      BY <3>1, ModBasics DEF Plus
  <2>5. CASE end' = "no" /\ pc' = Inc(pc)
    <3>1. step' = [step EXCEPT !.n = Plus(step.n, 1), !.at = step.at + 1]
      BY <1>7, <2>5 DEF AfterCached, HartOK
    <3>2. /\ step'.mode = "cached" /\ step'.start = step.start
          /\ step'.words = step.words /\ step'.at = step.at + 1
      BY <1>2, <3>1 DEF HartOK
    <3>3. HartOK'
      <4>1. step.at + 1 \in Nat
        BY <2>1
      <4> QED
        BY <1>7, <2>4, <3>1, <4>1 DEF HartOK
    <3>4. pc' = Guest!Wrap(step.start + (step.at + 1) - 1)
      <4>1. step.start + step.at - 1 \in Int
        BY <2>1, ValuesAreInt
      <4>2. pc' = Guest!Inc(Guest!Wrap(step.start + step.at - 1))
        BY <1>2, <2>5 DEF StepNoted
      <4>3. (step.start + step.at - 1) + 1 = step.start + (step.at + 1) - 1
        BY <2>1, ValuesAreInt
      <4> QED
        BY <4>1, <4>2, <4>3, WrapNext
    <3>5. step.at + 1 \in 1 .. (Len(step.words) + 1)
      BY <1>2, <2>1
    <3>6. StepNoted'
      BY <2>2, <3>2, <3>4, <3>5 DEF StepNoted
    <3> QED
      BY <1>4, <1>5, <2>3, <3>3, <3>6
  <2>6. CASE end' = "no" /\ pc' # Inc(pc) /\ pc' = step.start
    <3>1. step' = [step EXCEPT !.n = Plus(step.n, 1), !.at = 1]
      BY <1>7, <2>6 DEF AfterCached, HartOK
    <3>2. /\ step'.mode = "cached" /\ step'.start = step.start
          /\ step'.words = step.words /\ step'.at = 1
      BY <1>2, <3>1 DEF HartOK
    <3>3. HartOK'
      BY <1>7, <2>1, <2>4, <3>1 DEF HartOK
    <3>4. pc' = Guest!Wrap(step.start + 1 - 1)
      <4>1. step.start + 1 - 1 = step.start
        BY <2>1, ValuesAreInt
      <4> QED
        BY <2>1, <2>6, <4>1, WrapValue
    <3>5. 1 \in 1 .. (Len(step.words) + 1)
      BY <2>1
    <3>6. StepNoted'
      BY <2>2, <3>2, <3>4, <3>5 DEF StepNoted
    <3> QED
      BY <1>4, <1>5, <2>3, <3>3, <3>6
  <2>7. CASE ~(end' = "no" /\ (pc' = Inc(pc) \/ pc' = step.start))
    <3>1. step' = NoStep
      BY <1>7, <2>7 DEF AfterCached, Return
    <3>2. HartOK' /\ StepNoted'
      BY <1>7, <3>1, NoStepOK DEF HartOK
    <3> QED
      BY <1>4, <1>5, <2>3, <3>2
  <2> QED
    BY <2>5, <2>6, <2>7
<1> QED
  BY <1>1, <1>6, <1>7

-------------------------------------------------------------------------------
(* The theorem. *)

\* Every step of the hart preserves the invariant and is one of the guest's, or none.
LEMMA NextIInv ==
  ASSUME IInv, [Next]_vars
  PROVE  IInv' /\ [Guest!Next]_guest
<1>1. CASE Step
  BY <1>1, StepIInv DEF Step
<1>2. CASE CollectNothing
  BY <1>2, ReturnIInv DEF CollectNothing
<1>3. CASE FetchFails
  <2>1. Guest!Next
    BY <1>3 DEF FetchFails, Guest!Next, Guest!Fails
  <2> QED
    BY <1>3, <2>1, FetchFailsIInv
<1>4. CASE Collect
  BY <1>4, CollectIInv
<1>5. CASE Cached
  BY <1>5, CachedIInv
<1>6. CASE BlockEnds
  BY <1>6, ReturnIInv DEF BlockEnds
<1>7. CASE UNCHANGED <<guest, cache, step>>
  <2>1. GuestOK' /\ SeenNow' /\ CacheNoted'
    BY <1>7, CacheStays
       DEF IInv, guest, GuestOK, SeenNow, Guest!Words, Guest!Translate
  <2>2. HartOK' /\ StepNoted'
    BY <1>7 DEF IInv, guest, HartOK, StepNoted, Noted, Guest!Wrap
  <2> QED
    BY <1>7, <2>1, <2>2 DEF IInv
<1>8. CASE UNCHANGED vars
  BY <1>7, <1>8 DEF vars, guest
<1> QED
  BY <1>1, <1>2, <1>3, <1>4, <1>5, <1>6, <1>8 DEF Next

\* The hart with its block cache is a GuestIsa (threaded_code.hpp:27): whatever the
\* guest stores into its code, it executes at pc a word that a fetch from pc gives or
\* gave, for all programs, page maps and cache and block sizes.
THEOREM GuestIsaImplemented == Spec => ImplementsGuestIsa
<1>1. Init => Guest!Init
  BY DEF Init
<1>2. Init => IInv
  BY InitIInv
<1>3. IInv /\ [Next]_vars => IInv' /\ [Guest!Next]_guest
  BY NextIInv
<1>4. IInv /\ [Next]_vars => [Guest!Next]_Guest!guest
  BY <1>3 DEF guest, Guest!guest
<1> QED
  BY <1>1, <1>2, <1>3, <1>4, PTL DEF Spec, ImplementsGuestIsa, Guest!Spec
-------------------------------------------------------------------------------
(***************************************************************************)
(* What ModularHart counts: the cycles of Machine::run, the calls of a     *)
(* module's callbacks, and the types of all variables.                     *)
(***************************************************************************)

\* A step() that is over has counted nothing.
Idle == step.mode = "none" => step.n = 0

\* A fetched instruction, or a hooked one, that failed.
Unfinished == One(Failed /\ step.mode = "collect")
Begun == One(Failed /\ Hooked(Current))

\* From r retired, b of them from blocks, a accesses and u unfinished.
ToldOf(r, b, a, u) == Plus(Minus(r, b), a + u)

\* CallsAddUp, with retired instructions in place of cycles.
CallsKept ==
  registered =>
    /\ HookedOps = Known => calls["post"] = tally.retired
    /\ calls["pre"] = Plus(calls["post"], Begun)
    /\ calls["translate"] = ToldOf(tally.retired, tally.blocked, calls["access"],
                                   Unfinished)

\* A block is told when it is entered.
EntryTold ==
  registered /\ step.mode = "cached" =>
    told = [kind |-> "start", pc |-> step.start, cycle |-> cycle]

CInv == IInv /\ CountersOK /\ Idle /\ CyclesCounted /\ CallsKept /\ EntryTold

-------------------------------------------------------------------------------
(* Counters. *)

\* Counters wrap into their range.
LEMMA PlusOK ==
  ASSUME NEW m \in Int, NEW n \in Int
  PROVE  Plus(m, n) \in Counter /\ Minus(m, n) \in Counter
<1>1. CounterSpace \in Nat \ {0} /\ m + n \in Int /\ m - n \in Int
  BY ModularAssumption
<1> QED
  BY <1>1, ModBasics DEF Plus, Minus, Counter

\* A counter is an integer, and adding nothing leaves it alone.
LEMMA PlusNothing ==
  ASSUME NEW m \in Counter
  PROVE  m \in Int /\ Plus(m, 0) = m /\ Minus(m, m) = 0
<1>1. CounterSpace \in Nat \ {0} /\ m \in 0 .. (CounterSpace - 1) /\ m \in Int
      /\ 0 \in 0 .. (CounterSpace - 1)
  BY ModularAssumption DEF Counter
<1>2. m + 0 = m /\ m - m = 0
  BY <1>1
<1>3. m % CounterSpace = m /\ 0 % CounterSpace = 0
  BY <1>1, ModSmall
<1> QED
  BY <1>1, <1>2, <1>3 DEF Plus, Minus

\* Sums may wrap early or late.
LEMMA PlusLater ==
  ASSUME NEW a \in Int, NEW b \in Int, NEW c \in Int
  PROVE  /\ Plus(Plus(a, b), c) = Plus(a, b + c)
         /\ Plus(a, Plus(b, c)) = Plus(a, b + c)
<1> DEFINE S == CounterSpace
<1>1. S \in Nat \ {0}
  BY ModularAssumption
<1>2. a + b \in Int /\ b + c \in Int
  OBVIOUS
<1> HIDE DEF S
<1>3. (((a + b) % S) + c) % S = ((a + b) + c) % S
  BY <1>1, <1>2, ModLater
<1>4. (((b + c) % S) + a) % S = ((b + c) + a) % S
  BY <1>1, <1>2, ModLater
<1>5. /\ (a + b) + c = a + (b + c) /\ (b + c) + a = a + (b + c)
  OBVIOUS
<1>6. (b + c) % S \in Int
  BY <1>1, <1>2, ModBasics
<1>7. a + ((b + c) % S) = ((b + c) % S) + a
  BY <1>6
<1>8. /\ (((a + b) % S) + c) % S = (a + (b + c)) % S
      /\ (a + ((b + c) % S)) % S = (a + (b + c)) % S
  BY <1>3, <1>4, <1>5, <1>7
<1> QED
  BY <1>8 DEF Plus, S

\* Differences, too.
LEMMA MinusLater ==
  ASSUME NEW a \in Int, NEW b \in Int, NEW c \in Int
  PROVE  Minus(Plus(a, c), b) = Plus(Minus(a, b), c)
<1> DEFINE S == CounterSpace
<1>1. S \in Nat \ {0}
  BY ModularAssumption
<1>2. a + c \in Int /\ a - b \in Int /\ 0 - b \in Int
  OBVIOUS
<1> HIDE DEF S
<1>3. (((a + c) % S) + (0 - b)) % S = ((a + c) + (0 - b)) % S
  BY <1>1, <1>2, ModLater
<1>4. (((a - b) % S) + c) % S = ((a - b) + c) % S
  BY <1>1, <1>2, ModLater
<1>5. (a + c) + (0 - b) = (a - b) + c
  OBVIOUS
<1>6. (a + c) % S \in Int
  BY <1>1, <1>2, ModBasics
<1>7. ((a + c) % S) + (0 - b) = ((a + c) % S) - b
  BY <1>6
<1>8. (((a + c) % S) - b) % S = (((a - b) % S) + c) % S
  BY <1>3, <1>4, <1>5, <1>7
<1> QED
  BY <1>8 DEF Plus, Minus, S

-------------------------------------------------------------------------------
(* Callbacks. *)

\* What one call of the callbacks does to their counts.
LEMMA CallOK ==
  ASSUME registered \in BOOLEAN, calls \in [Hooks -> Counter],
         NEW e \in [Hooks -> Int], Call(e)
  PROVE  /\ calls' \in [Hooks -> Counter]
         /\ registered => \A h \in Hooks : calls'[h] = Plus(calls[h], e[h])
         /\ ~registered => calls' = calls
<1>1. \A h \in Hooks : calls[h] \in Int
  BY PlusNothing
<1>2. \A h \in Hooks : Plus(calls[h], e[h]) \in Counter
  BY <1>1, PlusOK
<1> QED
  BY <1>2 DEF Call

\* The events of one instruction.
LEMMA HooksOK ==
  ASSUME NEW i, NEW f \in {0, 1}
  PROVE  LET e == ExecuteHooks(i, f)
             done == One(~Guest!Aborts(i)) IN
         /\ e \in [Hooks -> Int]
         /\ e["pre"] = One(Hooked(i))
         /\ e["post"] = One(Hooked(i)) * done
         /\ e["access"] = One(Accesses(i)) * done
         /\ e["translate"] = f + One(Accesses(i)) * done
<1> DEFINE a == Guest!Aborts(i)
           h == Hooked(i)
           c == Accesses(i)
<1> HIDE DEF a, h, c
<1> SUFFICES LET e == [Never EXCEPT !["pre"] = One(h),
                                    !["post"] = One(h /\ ~a),
                                    !["access"] = One(c /\ ~a),
                                    !["translate"] = f + One(c /\ ~a)]
             IN  /\ e \in [Hooks -> Int]
                 /\ e["pre"] = One(h)
                 /\ e["post"] = One(h) * One(~a)
                 /\ e["access"] = One(c) * One(~a)
                 /\ e["translate"] = f + One(c) * One(~a)
  BY DEF ExecuteHooks, a, h, c
<1>1. /\ One(h) \in Int /\ One(h /\ ~a) \in Int /\ One(c /\ ~a) \in Int
      /\ f + One(c /\ ~a) \in Int
      /\ One(h /\ ~a) = One(h) * One(~a) /\ One(c /\ ~a) = One(c) * One(~a)
  BY DEF One
<1>2. Never \in [Hooks -> Int]
  BY DEF Never
<1> QED
  BY <1>1, <1>2 DEF Hooks

\* A module that hooks all opcodes hooks every instruction that does not abort.
LEMMA HookedAll ==
  ASSUME HookedOps = Known, NEW i \in Guest!Instr, ~Guest!Aborts(i)
  PROVE  Hooked(i)
BY DEF Known, Hooked, Guest!Instr, Guest!Ops, Guest!Aborts

\* What an instruction, executed or aborted, adds to the tally and to the counts.
LEMMA PerformCounts ==
  ASSUME CountersOK, NEW i, NEW f \in {0, 1}, f = 0 <=> step.mode = "cached", Perform(i, f)
  PROVE  LET done == One(~Guest!Aborts(i)) IN
         /\ tally' \in [retired : Counter, blocked : Counter] /\ calls' \in [Hooks -> Counter]
         /\ done \in {0, 1} /\ (done = 0 <=> end' = "abort")
         /\ One(Hooked(i)) \in {0, 1} /\ One(Accesses(i)) \in {0, 1}
         /\ tally'.retired = Plus(tally.retired, done)
         /\ tally'.blocked = Plus(tally.blocked, (1 - f) * done)
         /\ ~registered => calls' = calls
         /\ registered =>
              /\ calls'["pre"] = Plus(calls["pre"], One(Hooked(i)))
              /\ calls'["post"] = Plus(calls["post"], One(Hooked(i)) * done)
              /\ calls'["access"] = Plus(calls["access"], One(Accesses(i)) * done)
              /\ calls'["translate"] = Plus(calls["translate"], f + One(Accesses(i)) * done)
<1> DEFINE done == One(~Guest!Aborts(i))
           e == ExecuteHooks(i, f)
           hk == One(Hooked(i))
           ac == One(Accesses(i))
           x == IF step.mode = "cached" THEN done ELSE 0
<1>1. done \in {0, 1} /\ hk \in {0, 1} /\ ac \in {0, 1}
  BY DEF One
<1>2. done = 0 <=> end' = "abort"
  BY DEF One, Perform, Guest!Execute, Guest!Abort
<1>3. x = (1 - f) * done /\ x \in Int
  BY <1>1
<1>4. /\ e \in [Hooks -> Int]
      /\ e["pre"] = hk /\ e["post"] = hk * done /\ e["access"] = ac * done
      /\ e["translate"] = f + ac * done
  BY HooksOK
<1>5. tally' = [retired |-> Plus(tally.retired, done), blocked |-> Plus(tally.blocked, x)]
  BY DEF Perform
<1>6. tally.retired \in Int /\ tally.blocked \in Int
  BY PlusNothing DEF CountersOK
<1>7. Call(e) /\ registered \in BOOLEAN /\ calls \in [Hooks -> Counter]
  BY DEF Perform, CountersOK
<1> HIDE DEF done, e, hk, ac, x
<1>8. done \in Int
  BY <1>1
<1>9. Plus(tally.retired, done) \in Counter /\ Plus(tally.blocked, x) \in Counter
  BY <1>3, <1>6, <1>8, PlusOK
<1>10. /\ tally' \in [retired : Counter, blocked : Counter]
       /\ tally'.retired = Plus(tally.retired, done)
       /\ tally'.blocked = Plus(tally.blocked, (1 - f) * done)
  BY <1>3, <1>5, <1>9
<1>11. /\ calls' \in [Hooks -> Counter]
       /\ registered => \A h \in Hooks : calls'[h] = Plus(calls[h], e[h])
       /\ ~registered => calls' = calls
  BY <1>4, <1>7, CallOK
<1>12. registered =>
         /\ calls'["pre"] = Plus(calls["pre"], hk)
         /\ calls'["post"] = Plus(calls["post"], hk * done)
         /\ calls'["access"] = Plus(calls["access"], ac * done)
         /\ calls'["translate"] = Plus(calls["translate"], f + ac * done)
  BY <1>4, <1>11 DEF Hooks
<1> QED
  BY <1>1, <1>2, <1>10, <1>11, <1>12 DEF done, hk, ac

-------------------------------------------------------------------------------
(* CallsKept, one callback at a time. *)

\* Integers, so that the laws of Plus apply.
LEMMA CountsInt ==
  ASSUME CountersOK
  PROVE  /\ calls["pre"] \in Counter /\ calls["post"] \in Counter
         /\ calls["access"] \in Counter /\ calls["translate"] \in Counter
         /\ tally.retired \in Counter /\ tally.blocked \in Counter
         /\ \A n \in Counter : n \in Int
BY PlusNothing DEF CountersOK, Hooks

\* A difference of two counters that grow.
LEMMA MinusGrows ==
  ASSUME NEW r \in Int, NEW b \in Int, NEW d \in Int, NEW x \in Int
  PROVE  Minus(Plus(r, d), Plus(b, x)) = Plus(Minus(r, b), d - x)
<1> DEFINE S == CounterSpace
           B == Plus(b, x)
           u == b + x
           v == r - u
           w == r - b
           e == d - x
<1>1. S \in Nat \ {0}
  BY ModularAssumption
<1>2. B \in Int
  BY PlusOK, PlusNothing
<1>3. Minus(Plus(r, d), B) = Plus(Minus(r, B), d)
  <2> HIDE DEF B
  <2> QED
    BY <1>2, MinusLater, Zenon
<1>4. u \in Int /\ v \in Int /\ w \in Int /\ e \in Int /\ v + d = w + e
  OBVIOUS
<1>5. Minus(r, B) = v % S
  <2> HIDE DEF S, u
  <2>1. (r - (u % S)) % S = (r - u) % S
    BY <1>1, <1>4, ModLater
  <2> QED
    BY <2>1 DEF Minus, Plus, S, u
<1>6. ((v % S) + d) % S = (v + d) % S /\ ((w % S) + e) % S = (w + e) % S
  <2> HIDE DEF S, v, w, e
  <2> QED
    BY <1>1, <1>4, ModLater
<1>7. Plus(Minus(r, B), d) = Plus(Minus(r, b), e)
  BY <1>4, <1>5, <1>6 DEF Plus, Minus
<1> QED
  BY <1>3, <1>7

\* A step that counts nothing and calls no callback that is counted.
LEMMA CallsStay ==
  ASSUME CallsKept, end = "no", Unfinished' = 0, Begun' = 0,
         UNCHANGED <<registered, tally, calls>>
  PROVE  CallsKept'
<1>1. Unfinished = 0 /\ Begun = 0
  BY DEF Unfinished, Begun, Failed, One
<1> QED
  BY <1>1 DEF CallsKept, ToldOf, Plus, Minus, Known, Guest!Ops

\* An instruction adds to the calls what it adds to the tally.
LEMMA CallsGrow ==
  ASSUME CountersOK, CallsKept, end = "no", NEW i \in Guest!Instr, NEW f \in {0, 1},
         f = 0 <=> step.mode = "cached", Perform(i, f), UNCHANGED registered,
         Unfinished' = f * (1 - One(~Guest!Aborts(i))),
         Begun' = One(Hooked(i)) * (1 - One(~Guest!Aborts(i)))
  PROVE  CallsKept'
<1> DEFINE done == One(~Guest!Aborts(i))
           hk == One(Hooked(i))
           c == One(Accesses(i)) * done
           Told == ToldOf(tally.retired, tally.blocked, calls["access"], Unfinished)
<1>1. /\ done \in {0, 1} /\ hk \in {0, 1} /\ One(Accesses(i)) \in {0, 1}
      /\ tally'.retired = Plus(tally.retired, done)
      /\ tally'.blocked = Plus(tally.blocked, (1 - f) * done)
      /\ registered =>
           /\ calls'["pre"] = Plus(calls["pre"], hk)
           /\ calls'["post"] = Plus(calls["post"], hk * done)
           /\ calls'["access"] = Plus(calls["access"], c)
           /\ calls'["translate"] = Plus(calls["translate"], f + c)
  BY PerformCounts
<1>2. c \in Int /\ hk \in Int /\ (1 - f) * done \in Int /\ done \in Int
  BY <1>1
<1>0. done \in {0, 1} /\ hk \in {0, 1}
  BY <1>1
<1>a. HookedOps = Known => hk * done = done
  <2>1. CASE Guest!Aborts(i)
    BY <1>0, <2>1 DEF One
  <2>2. CASE ~Guest!Aborts(i)
    BY <1>0, <2>2, HookedAll DEF One
  <2> QED
    BY <2>1, <2>2
<1>b. Unfinished' = f * (1 - done) /\ Begun' = hk * (1 - done)
  OBVIOUS
<1> HIDE DEF done, hk, c
<1>5. /\ Unfinished = 0 /\ Begun = 0 /\ calls["access"] \in Int /\ tally.retired \in Int
      /\ tally.blocked \in Int /\ calls["post"] \in Int /\ calls["post"] \in Counter
  BY CountsInt DEF Unfinished, Begun, Failed, One
<1>7. ToldOf(Plus(tally.retired, done), Plus(tally.blocked, (1 - f) * done),
             Plus(calls["access"], c), f * (1 - done)) = Plus(Told, f + c)
  <2> DEFINE r == tally.retired
             b == tally.blocked
             a == calls["access"]
             x == (1 - f) * done
             y == f * (1 - done)
             New == Plus(Minus(Plus(r, done), Plus(b, x)), Plus(a, c) + y)
  <2>1. /\ r \in Int /\ b \in Int /\ a \in Int /\ f \in Int /\ done \in Int
        /\ c \in Int /\ x \in Int /\ y \in Int /\ done - x + y = f
    BY <1>0, <1>2, <1>5
  <2>3. Told = Plus(Minus(r, b), a)
    BY <1>5 DEF ToldOf
  <2> DEFINE m == Minus(r, b)
             p == Plus(a, c)
             e == done - x
  <2>4. m \in Int /\ p \in Int /\ e \in Int /\ e + y = f /\ f + c \in Int
    <3>1. m \in Counter /\ p \in Counter
      BY <2>1, PlusOK
    <3> QED
      BY <2>1, <3>1, PlusNothing
  <2> HIDE DEF r, b, a, x, y
  <2>5. Minus(Plus(r, done), Plus(b, x)) = Plus(m, e)
    BY <2>1, MinusGrows
  <2>6. Plus(m, e + (p + y)) = Plus(m + e + y, p)
    <3> HIDE DEF m, e, p
    <3> QED
      BY <2>1, <2>4 DEF Plus
  <2>7. Plus(m + e + y, a + c) = Plus(m, a + (f + c))
    <3> HIDE DEF m, e, p
    <3> QED
      BY <2>1, <2>4 DEF Plus
  <2>8. Plus(Plus(m, e), p + y) = Plus(m, e + (p + y))
    <3>1. p + y \in Int
      BY <2>1, <2>4
    <3> HIDE DEF m, e, p
    <3> QED
      BY <2>4, <3>1, PlusLater, Zenon
  <2>9. Plus(m + e + y, Plus(a, c)) = Plus(m + e + y, a + c)
    <3> DEFINE q == m + e + y
    <3>1. q \in Int /\ a \in Int /\ c \in Int
      BY <2>1, <2>4
    <3> HIDE DEF q
    <3>2. Plus(q, Plus(a, c)) = Plus(q, a + c)
      BY <3>1, PlusLater
    <3> QED
      BY <3>2 DEF q
  <2>10. Plus(Plus(m, a), f + c) = Plus(m, a + (f + c))
    <3> DEFINE w == f + c
    <3>1. m \in Int /\ a \in Int /\ w \in Int
      BY <2>1, <2>4
    <3> HIDE DEF m, w
    <3>2. Plus(Plus(m, a), w) = Plus(m, a + w)
      BY <3>1, PlusLater
    <3> QED
      BY <3>2 DEF w
  <2>11. New = Plus(Told, f + c)
    BY <2>3, <2>5, <2>6, <2>7, <2>8, <2>9, <2>10
  <2> QED
    BY <2>11 DEF ToldOf, r, b, a, x, y
<1>8. Plus(calls["pre"], hk) = Plus(Plus(calls["post"], hk * done), hk * (1 - done))
      \/ ~registered
  <2> DEFINE p == calls["post"]
             h1 == hk * done
             h2 == hk * (1 - done)
  <2>1. p \in Int /\ h1 \in Int /\ h2 \in Int /\ h1 + h2 = hk
    BY <1>0, <1>5
  <2>2. registered => calls["pre"] = Plus(p, 0) /\ Plus(p, 0) = p
    BY <1>5, PlusNothing DEF CallsKept
  <2> HIDE DEF p, h1, h2
  <2>3. Plus(Plus(p, h1), h2) = Plus(p, h1 + h2)
    BY <2>1, PlusLater
  <2>4. Plus(p, hk) = Plus(Plus(p, h1), h2)
    BY <2>1, <2>3
  <2> QED
    BY <2>2, <2>4 DEF p, h1, h2
<1>9. ASSUME registered
      PROVE  /\ HookedOps = Known => calls'["post"] = tally'.retired
             /\ calls'["pre"] = Plus(calls'["post"], Begun')
             /\ calls'["translate"] = ToldOf(tally'.retired, tally'.blocked,
                                             calls'["access"], Unfinished')
  <2>1. HookedOps = Known => calls'["post"] = tally'.retired
    BY <1>1, <1>9, <1>a DEF CallsKept
  <2>2. calls'["pre"] = Plus(calls'["post"], Begun')
    BY <1>1, <1>8, <1>9, <1>b
  <2>3. calls["translate"] = Told
    BY <1>9 DEF CallsKept
  <2>4. ToldOf(tally'.retired, tally'.blocked, calls'["access"], Unfinished')
          = Plus(Told, f + c)
    BY <1>1, <1>7, <1>9, <1>b
  <2> QED
    BY <1>1, <1>9, <2>1, <2>2, <2>3, <2>4
<1> QED
  BY <1>9 DEF CallsKept, ToldOf, Plus, Minus, Known, Guest!Ops

-------------------------------------------------------------------------------
(* The steps of the hart. *)

\* step() returns, and what it counted is counted.
LEMMA ReturnCounts ==
  ASSUME IInv, CountersOK, NEW n \in Int, Return(n)
  PROVE  /\ cycle' \in Counter
         /\ Plus(cycle, step.n)' = Plus(cycle, n)
         /\ step'.mode = "none" /\ step'.n = 0
<1>1. cycle \in Int /\ cycle' = Plus(cycle, n) /\ step'.n = 0 /\ step'.mode = "none"
  BY PlusNothing DEF CountersOK, Return, NoStep
<1>2. cycle' \in Counter
  BY <1>1, PlusOK
<1>3. Plus(cycle', 0) = cycle'
  BY <1>2, PlusNothing
<1>4. Plus(cycle, step.n)' = Plus(cycle', step'.n)
  BY DEF Plus
<1> QED
  BY <1>1, <1>2, <1>3, <1>4

\* A block callback.
LEMMA TellOK ==
  ASSUME CountersOK, NEW kind \in {"start", "end"}, NEW start \in Values, Tell(kind, start)
  PROVE  /\ told' \in [kind : {"none", "start", "end"}, pc : Values, cycle : Counter]
         /\ registered => told' = [kind |-> kind, pc |-> start, cycle |-> cycle]
BY DEF CountersOK, Tell

\* The part of the invariant that NextIInv does not give, for a step that executes
\* nothing.
LEMMA QuietCInv ==
  ASSUME CInv, Step \/ CollectNothing \/ BlockEnds
  PROVE  CountersOK' /\ Idle' /\ CyclesCounted' /\ CallsKept' /\ EntryTold'
<1> USE DEF CInv
<1>1. end = "no" /\ end' = "no" /\ UNCHANGED <<registered, calls, tally, setting>>
  BY DEF Step, CollectNothing, BlockEnds, guest, observed
<1>2. Unfinished' = 0 /\ Begun' = 0
  BY <1>1 DEF Unfinished, Begun, Failed, One
<1>3. CallsKept'
  BY <1>1, <1>2, CallsStay
<1>4. CASE Step
  <2>1. step.n = 0 /\ cycle' = cycle
    BY <1>4 DEF Step, Idle
  <2>2. CASE cache[Slot(pc)].valid
    <3> DEFINE b == cache[Slot(pc)]
    <3>1. b.start \in Values
      BY OwnSlot DEF IInv, GuestOK, HartOK
    <3>2. /\ step' = [NoStep EXCEPT !.mode = "cached", !.start = b.start,
                                    !.words = b.words, !.at = 1]
          /\ Tell("start", b.start)
      BY <1>4, <2>2 DEF Step
    <3> HIDE DEF b
    <3>3. step'.n = 0 /\ step'.mode = "cached" /\ step'.start = b.start
      BY <3>2 DEF NoStep
    <3>4. /\ told' \in [kind : {"none", "start", "end"}, pc : Values, cycle : Counter]
          /\ registered => told' = [kind |-> "start", pc |-> b.start, cycle |-> cycle]
      BY <3>1, <3>2, TellOK
    <3>5. CountersOK'
      BY <1>1, <2>1, <3>4 DEF CountersOK, Counter
    <3>6. EntryTold'
      BY <1>1, <2>1, <3>3, <3>4 DEF EntryTold
    <3> QED
      BY <1>1, <1>3, <2>1, <3>3, <3>5, <3>6 DEF CyclesCounted, Plus, Idle
  <2>3. CASE ~cache[Slot(pc)].valid
    <3>1. step'.n = 0 /\ step'.mode = "collect" /\ told' = told
      BY <1>4, <2>3 DEF Step, NoStep
    <3> QED
      BY <1>1, <1>3, <2>1, <3>1
         DEF CountersOK, Counter, CyclesCounted, Plus, Idle, EntryTold
  <2> QED
    BY <2>2, <2>3
<1>5. CASE CollectNothing \/ BlockEnds
  <2>1. told' \in [kind : {"none", "start", "end"}, pc : Values, cycle : Counter]
    <3>1. CASE CollectNothing
      BY <3>1 DEF CollectNothing, observed, CountersOK
    <3>2. CASE BlockEnds
      <4>1. step.start \in Values /\ Tell("end", step.start)
        BY <3>2 DEF BlockEnds, IInv, HartOK
      <4> QED
        BY <4>1, TellOK
    <3> QED
      BY <1>5, <3>1, <3>2
  <2>2. Return(step.n) /\ step.n \in Int
    BY <1>5 DEF CollectNothing, BlockEnds, IInv, HartOK
  <2>3. /\ cycle' \in Counter /\ Plus(cycle, step.n)' = Plus(cycle, step.n)
        /\ step'.mode = "none" /\ step'.n = 0
    BY <2>2, ReturnCounts
  <2>4. CountersOK'
    BY <1>1, <2>1, <2>3 DEF CountersOK, Counter
  <2>5. CyclesCounted'
    BY <1>1, <2>3 DEF CyclesCounted
  <2> QED
    BY <1>3, <2>3, <2>4, <2>5 DEF Idle, EntryTold
<1> QED
  BY <1>4, <1>5

\* A fetch that fails.
LEMMA FetchFailsCInv ==
  ASSUME CInv, FetchFails
  PROVE  CountersOK' /\ Idle' /\ CyclesCounted' /\ CallsKept' /\ EntryTold'
<1> USE DEF CInv
<1>1. end = "no" /\ UNCHANGED <<calls, told, tally, cycle, step, setting, registered>>
  BY DEF FetchFails, observed
<1>2. ~Failed'
  BY DEF FetchFails, Guest!Abort, Guest!Translate, Failed
<1>3. CallsKept'
  BY <1>1, <1>2, CallsStay DEF Unfinished, Begun, One
<1> QED
  BY <1>1, <1>3 DEF CountersOK, Counter, Idle, CyclesCounted, EntryTold, Plus

\* What an instruction does to the cycles.
LEMMA PerformCycles ==
  ASSUME CInv, NEW i, NEW f \in {0, 1}, f = 0 <=> step.mode = "cached", Perform(i, f)
  PROVE  /\ end' = "abort" => tally'.retired = Plus(cycle, step.n)
         /\ end' # "abort" => tally'.retired = Plus(cycle, step.n + 1)
<1> USE DEF CInv
<1> DEFINE done == One(~Guest!Aborts(i))
<1>1. /\ done \in {0, 1} /\ (done = 0 <=> end' = "abort")
      /\ tally'.retired = Plus(tally.retired, done)
  BY PerformCounts
<1>2. /\ cycle \in Int /\ step.n \in Int
      /\ tally.retired \in Counter /\ tally.retired = Plus(cycle, step.n)
  BY PlusNothing DEF CountersOK, CyclesCounted, IInv, HartOK
<1> HIDE DEF done
<1>3. CASE done = 0
  BY <1>1, <1>2, <1>3, PlusNothing
<1>4. CASE done = 1
  <2>1. Plus(Plus(cycle, step.n), 1) = Plus(cycle, step.n + 1)
    <3>1. cycle \in Int /\ step.n \in Int /\ 1 \in Int
      BY <1>2
    <3> QED
      BY <3>1, PlusLater, Zenon
  <2> QED
    BY <1>1, <1>2, <1>4, <2>1
<1> QED
  BY <1>1, <1>3, <1>4

\* An instruction, collected into a block or from one.
LEMMA InstructionCInv ==
  ASSUME CInv, Collect \/ Cached
  PROVE  CountersOK' /\ Idle' /\ CyclesCounted' /\ CallsKept' /\ EntryTold'
<1> USE DEF CInv
<1>1. PICK w : \E f1 \in {0, 1} :
        /\ Decode[w] = Current /\ Decode[w] \in Guest!Instr
        /\ Perform(Decode[w], f1)
        /\ \/ Stop
           \/ end' # "abort" /\ f1 = 1 /\ AfterCollect(w)
           \/ end' # "abort" /\ f1 = 0 /\ AfterCached
        /\ f1 = 1 <=> step.mode = "collect"
        /\ f1 = 0 <=> step.mode = "cached"
        /\ f1 = 1 => Guest!Translate(paging, pc) # Fault
  <2>1. CASE Collect
    <3> DEFINE w1 == mem[Guest!Translate(paging, pc)]
    <3>1. /\ Perform(Decode[w1], 1)
          /\ (end' # "abort" /\ AfterCollect(w1)) \/ Stop
          /\ step.mode = "collect" /\ Guest!Translate(paging, pc) # Fault
      BY <2>1 DEF Collect
    <3>2. Decode[w1] = Current
      BY <3>1 DEF Current
    <3>3. Decode[w1] \in Guest!Instr
      BY <3>1, FetchedSeen DEF IInv
    <3> HIDE DEF w1
    <3> QED
      BY <3>1, <3>2, <3>3
  <2>2. CASE Cached
    <3> DEFINE w1 == step.words[step.at]
    <3>1. /\ Perform(Decode[w1], 0)
          /\ (end' # "abort" /\ AfterCached) \/ Stop
          /\ step.mode = "cached" /\ step.at <= Len(step.words)
      BY <2>2 DEF Cached
    <3>2. Decode[w1] = Current
      BY <3>1 DEF Current
    <3>3. Decode[w1] \in Guest!Instr
      BY <3>1, CachedSeen DEF IInv
    <3> HIDE DEF w1
    <3> QED
      BY <3>1, <3>2, <3>3
  <2> QED
    BY <2>1, <2>2
<1>a. PICK f \in {0, 1} :
        /\ Decode[w] = Current /\ Decode[w] \in Guest!Instr
        /\ Perform(Decode[w], f)
        /\ \/ Stop
           \/ end' # "abort" /\ f = 1 /\ AfterCollect(w)
           \/ end' # "abort" /\ f = 0 /\ AfterCached
        /\ f = 1 <=> step.mode = "collect"
        /\ f = 0 <=> step.mode = "cached"
        /\ f = 1 => Guest!Translate(paging, pc) # Fault
  BY <1>1
<1>2. end = "no" /\ UNCHANGED <<registered, told, setting>>
  BY DEF Collect, Cached
<1> DEFINE i == Decode[w]
           done == One(~Guest!Aborts(i))
<1>3. /\ tally' \in [retired : Counter, blocked : Counter] /\ calls' \in [Hooks -> Counter]
      /\ done \in {0, 1} /\ (done = 0 <=> end' = "abort")
      /\ One(Hooked(i)) \in {0, 1}
  BY <1>a, PerformCounts
<1>4. /\ end' = "abort" => tally'.retired = Plus(cycle, step.n)
      /\ end' # "abort" => tally'.retired = Plus(cycle, step.n + 1)
  BY <1>a, PerformCycles
<1>5. cycle \in Counter /\ cycle \in Int /\ step.n \in Int /\ step.n + 1 \in Int
  BY PlusNothing DEF CountersOK, IInv, HartOK
<1>6. /\ cycle' \in Counter
      /\ step'.mode = "none" => step'.n = 0
      /\ Plus(cycle, step.n)' = tally'.retired
      /\ step'.mode = "cached" => /\ step.mode = "cached" /\ cycle' = cycle
                                  /\ step'.start = step.start
  <2>1. Plus(cycle, step.n)' = Plus(cycle', step'.n)
    BY DEF Plus
  <2>2. CASE Stop
    <3>1. end' = "abort" /\ cycle' = cycle /\ step' = step
      BY <2>2 DEF Stop
    <3> QED
      BY <1>a, <1>4, <1>5, <2>1, <3>1
  <2>3. CASE end' # "abort" /\ f = 1 /\ AfterCollect(w)
    <3>2. CASE Return(step.n + 1)
      BY <1>4, <1>5, <2>3, <3>2, ReturnCounts
    <3>3. CASE cycle' = cycle /\ \E words : step' = [step EXCEPT !.words = words,
                                                                 !.n = step.n + 1]
      <4>1. step'.n = step.n + 1 /\ step'.mode = step.mode
        BY <3>3 DEF IInv, HartOK
      <4> QED
        BY <1>a, <1>4, <1>5, <2>1, <2>3, <3>3, <4>1
    <3> QED
      BY <2>3, <3>2, <3>3 DEF AfterCollect
  <2>4. CASE end' # "abort" /\ f = 0 /\ AfterCached
    <3>2. Plus(step.n, 1) \in Int /\ Plus(cycle, Plus(step.n, 1)) = Plus(cycle, step.n + 1)
      <4>1. 1 \in Int
        OBVIOUS
      <4>2. Plus(step.n, 1) \in Counter
        BY <1>5, PlusOK
      <4>3. Plus(cycle, Plus(step.n, 1)) = Plus(cycle, step.n + 1)
        BY <1>5, <4>1, PlusLater, Zenon
      <4> QED
        BY <4>2, <4>3, PlusNothing
    <3>3. CASE Return(Plus(step.n, 1))
      BY <1>4, <2>4, <3>2, <3>3, ReturnCounts
    <3>4. CASE cycle' = cycle /\ \E at : step' = [step EXCEPT !.n = Plus(step.n, 1), !.at = at]
      <4>1. step'.n = Plus(step.n, 1) /\ step'.mode = step.mode /\ step'.start = step.start
        BY <3>4 DEF IInv, HartOK
      <4> QED
        BY <1>a, <1>4, <1>5, <2>1, <2>4, <3>2, <3>4, <4>1
    <3>5. Return(Plus(step.n, 1)) \/ (cycle' = cycle /\ \E at :
            step' = [step EXCEPT !.n = Plus(step.n, 1), !.at = at])
      <4>1. step \in [mode : {"none", "collect", "cached"}, start : Values,
                      words : Seq(Values), at : Nat, n : Nat]
        BY DEF IInv, HartOK
      <4>2. [step EXCEPT !.n = Plus(step.n, 1)].n = Plus(step.n, 1)
        BY <4>1
      <4>3. \A a : [[step EXCEPT !.n = Plus(step.n, 1)] EXCEPT !.at = a]
                   = [step EXCEPT !.n = Plus(step.n, 1), !.at = a]
        BY <4>1
      <4> QED
        BY <2>4, <4>2, <4>3 DEF AfterCached
    <3> QED
      BY <3>3, <3>4, <3>5
  <2> QED
    BY <1>a, <2>2, <2>3, <2>4
<1>7. Unfinished' = f * (1 - done) /\ Begun' = One(Hooked(i)) * (1 - done)
  <2>1. CASE end' = "abort"
    <3>1. Guest!Abort /\ step' = step /\ done = 0
      BY <1>a, <1>3, <2>1 DEF Stop, Perform, Guest!Execute
    <3>2. mem' = mem /\ paging' = paging /\ pc' = pc
      BY <3>1 DEF Guest!Abort
    <3>3. Current' = i
      BY <1>a, <3>1, <3>2 DEF Current, Guest!Translate
    <3>4. Failed'
      BY <1>a, <2>1, <3>1, <3>2 DEF Failed, Guest!Translate
    <3>5. Unfinished' = One(f = 1) /\ Begun' = One(Hooked(i))
      <4>1. Unfinished' = One(step'.mode = "collect") /\ Begun' = One(Hooked(Current'))
        BY <3>4 DEF Unfinished, Begun, One, Hooked
      <4> QED
        BY <1>a, <3>1, <3>3, <4>1 DEF One
    <3>6. One(f = 1) = f
      BY DEF One
    <3> HIDE DEF done, i
    <3> QED
      BY <1>3, <3>1, <3>5, <3>6
  <2>2. CASE end' # "abort"
    <3>1. done = 1
      BY <1>3, <2>2
    <3>2. Unfinished' = 0 /\ Begun' = 0
      BY <2>2 DEF Unfinished, Begun, Failed, One
    <3> HIDE DEF done, i
    <3> QED
      BY <1>3, <3>1, <3>2
  <2> QED
    BY <2>1, <2>2
<1>8. CountersOK'
  BY <1>2, <1>3, <1>6 DEF CountersOK, Counter
<1>9. Idle' /\ CyclesCounted'
  BY <1>6 DEF Idle, CyclesCounted
<1>10. CallsKept'
  BY <1>a, <1>2, <1>7, CallsGrow
<1>11. EntryTold'
  BY <1>2, <1>6 DEF EntryTold
<1> QED
  BY <1>8, <1>9, <1>10, <1>11

-------------------------------------------------------------------------------
(* The theorems. *)

LEMMA InitCInv ==
  ASSUME Init
  PROVE  CInv
<1>1. 0 \in Counter /\ Plus(0, 0) = 0 /\ Minus(0, 0) = 0
  <2>1. 0 \in Counter
    BY ModularAssumption DEF Counter
  <2> QED
    BY <2>1, PlusNothing
<1>2. 0 \in Values
  BY Constants
<1>3. CountersOK
  BY <1>1, <1>2 DEF Init, CountersOK, Never
<1>4. Idle /\ CyclesCounted
  BY <1>1 DEF Init, Idle, CyclesCounted, NoStep
<1>5. CallsKept
  <2>1. Unfinished = 0 /\ Begun = 0
    BY DEF Init, Guest!Init, Unfinished, Begun, Failed, One
  <2>2. /\ calls["pre"] = 0 /\ calls["post"] = 0 /\ calls["access"] = 0
        /\ calls["translate"] = 0 /\ tally.retired = 0 /\ tally.blocked = 0
    BY DEF Init, Never, Hooks
  <2> QED
    BY <1>1, <2>1, <2>2 DEF CallsKept, ToldOf
<1>6. EntryTold
  BY DEF Init, EntryTold, NoStep
<1> QED
  BY <1>3, <1>4, <1>5, <1>6, InitIInv DEF CInv

LEMMA NextCInv ==
  ASSUME CInv, [Next]_vars
  PROVE  CInv'
<1>1. IInv'
  BY NextIInv DEF CInv
<1>2. CASE Step \/ CollectNothing \/ BlockEnds
  BY <1>1, <1>2, QuietCInv DEF CInv
<1>3. CASE FetchFails
  BY <1>1, <1>3, FetchFailsCInv DEF CInv
<1>4. CASE Collect \/ Cached
  BY <1>1, <1>4, InstructionCInv DEF CInv
<1>5. CASE UNCHANGED vars
  <2>1. CallsKept'
    BY <1>5 DEF CInv, vars, CallsKept, ToldOf, Unfinished, Begun, Failed, Current, Plus, Minus,
                Guest!Translate, Hooked, Known, Guest!Ops
  <2> QED
    BY <1>1, <1>5, <2>1
       DEF CInv, vars, CountersOK, Counter, Idle, CyclesCounted, EntryTold, Plus
<1> QED
  BY <1>2, <1>3, <1>4, <1>5 DEF Next

\* The variables stay in their types, and so do the counters, which wrap.
THEOREM ModularTypes == Spec => []TypeOK
<1>1. Init => CInv
  BY InitCInv
<1>2. CInv /\ [Next]_vars => CInv'
  BY NextCInv
<1>3. CInv => TypeOK
  BY DEF CInv, IInv, GuestOK, HartOK, CountersOK, TypeOK
<1> QED
  BY <1>1, <1>2, <1>3, PTL DEF Spec

\* Machine::run counts every instruction once, wherever it was executed.
THEOREM EveryCycleCounted == Spec => []CyclesCounted
<1>1. Init => CInv
  BY InitCInv
<1>2. CInv /\ [Next]_vars => CInv'
  BY NextCInv
<1>3. CInv => CyclesCounted
  BY DEF CInv
<1> QED
  BY <1>1, <1>2, <1>3, PTL DEF Spec

\* The pre, post, memory and translation callbacks of a module agree with one another
\* and with the cycles, for every set of hooked opcodes, in cached blocks and outside
\* of them, up to an abort or a throw (hart.cpp's invoke_*_callbacks).
THEOREM CallbacksAgree == Spec => []CallsAddUp
<1>1. Init => CInv
  BY InitCInv
<1>2. CInv /\ [Next]_vars => CInv'
  BY NextCInv
<1>3. CInv => CallsAddUp
  BY DEF CInv, CyclesCounted, CallsKept, CallsAddUp, Unfinished, Begun, ToldOf
<1> QED
  BY <1>1, <1>2, <1>3, PTL DEF Spec

\* A block callback is made whenever step() goes into a cached block, and the guest
\* stays where it says; the end is told exactly when the guest runs off the block
\* (hart.cpp:474-500).
THEOREM BlocksAreTold == Spec => BlocksTold
<1> DEFINE Says ==
      registered /\ step.mode = "cached" =>
       /\ told.kind = "start" /\ told.cycle = cycle
       /\ pc = Guest!Wrap(told.pc + step.at - 1)
       /\ step'.mode = "none" =>
            IF step.at > Len(step.words)
              THEN told' = [told EXCEPT !.kind = "end"]
              ELSE told' = told /\ (end' # "no" \/ pc' \notin {Inc(pc), told.pc})
<1>1. Init => CInv
  BY InitCInv
<1>2. CInv /\ [Next]_vars => CInv'
  BY NextCInv
<1>3. CInv /\ [Next]_vars => [Says]_vars
  <2> SUFFICES ASSUME CInv, [Next]_vars, registered, step.mode = "cached"
               PROVE  Says
    OBVIOUS
  <2>1. told = [kind |-> "start", pc |-> step.start, cycle |-> cycle]
    BY DEF CInv, EntryTold
  <2>2. pc = Guest!Wrap(step.start + step.at - 1)
    BY DEF CInv, IInv, StepNoted
  <2>3. ASSUME step'.mode = "none"
        PROVE  IF step.at > Len(step.words)
                 THEN told' = [told EXCEPT !.kind = "end"]
                 ELSE told' = told /\ (end' # "no" \/ pc' \notin {Inc(pc), step.start})
    <3>1. /\ step.words \in Seq(Values) /\ step.at \in Nat
          /\ step \in [mode : {"none", "collect", "cached"}, start : Values,
                       words : Seq(Values), at : Nat, n : Nat]
      BY DEF CInv, IInv, HartOK
    <3>2. CASE Cached
      <4>1. ~(step.at > Len(step.words)) /\ told' = told
        BY <3>1, <3>2 DEF Cached
      <4>2. AfterCached
        BY <2>3, <3>2 DEF Cached, Stop
      <4>3. end' # "no" \/ ~(pc' = Inc(pc) \/ pc' = step.start)
        <5> SUFFICES ASSUME end' = "no", pc' = Inc(pc) \/ pc' = step.start
                     PROVE  FALSE
          OBVIOUS
        <5>1. step'.mode = step.mode
          BY <3>1, <4>2 DEF AfterCached
        <5> QED
          BY <2>3, <5>1
      <4> QED
        BY <4>1, <4>3
    <3>3. CASE BlockEnds
      <4>1. step.at > Len(step.words)
            /\ told' = [kind |-> "end", pc |-> step.start, cycle |-> cycle]
        BY <3>3 DEF BlockEnds, Tell
      <4> QED
        BY <2>1, <4>1
    <3>4. ~(Step \/ CollectNothing \/ FetchFails \/ Collect \/ UNCHANGED vars)
      BY <2>3 DEF Step, CollectNothing, FetchFails, Collect, vars
    <3> QED
      BY <3>2, <3>3, <3>4 DEF Next
  <2> QED
    BY <2>1, <2>2, <2>3
<1>4. [][Says]_vars => BlocksTold
  BY PTL DEF BlocksTold
<1> HIDE DEF Says
<1> QED
  BY <1>1, <1>2, <1>3, <1>4, PTL DEF Spec

-------------------------------------------------------------------------------
(* What a post-execute callback is told. *)

\* Only an instruction that is hooked, and is done, calls it.
LEMMA PostCalled ==
  ASSUME CountersOK, NEW i, NEW f \in {0, 1}, f = 0 <=> step.mode = "cached", Perform(i, f),
         calls'["post"] # calls["post"]
  PROVE  registered /\ Hooked(i) /\ Guest!Execute(i) /\ Report(i)
<1> DEFINE h == Hooked(i)
           a == Guest!Aborts(i)
<1>1. /\ ~registered => calls' = calls
      /\ registered => calls'["post"] = Plus(calls["post"], One(h) * One(~a))
  BY PerformCounts
<1> HIDE DEF h, a
<1>2. calls["post"] \in Counter
  BY DEF CountersOK, Hooks
<1>3. One(h) * One(~a) # 0 /\ registered
  BY <1>1, <1>2, PlusNothing DEF CountersOK
<1>4. h /\ ~a
  BY <1>3 DEF One
<1> QED
  BY <1>3, <1>4 DEF Perform, h, a

\* What it is told of an instruction.
Says(i) ==
  /\ report'.instr = i /\ report'.imm = i.imm
  /\ i.op \in Reads1 => report'.reg1 = i.rs1 /\ report'.val1 = ValueTold(i, i.rs1)
  /\ i.op \in Reads2 => report'.reg2 = i.rs2 /\ report'.val2 = ValueTold(i, i.rs2)
  /\ i.op \in Writes => report'.dest = i.rd /\ report'.val = After(i.rd)

LEMMA ReportSays ==
  ASSUME GuestOK, NEW i \in Guest!Instr, registered, Hooked(i),
         Guest!Execute(i), Report(i)
  PROVE  Says(i)
<1>1. i.op \in Known
  BY ModularAssumption DEF Hooked
<1>2. /\ i.rd \in Regs /\ i.rs1 \in Regs /\ i.rs2 \in Regs
  BY DEF Guest!Instr
<1>3. report' = [instr |-> i, imm |-> i.imm,
                 reg1 |-> Names1(i), val1 |-> After(Names1(i)),
                 reg2 |-> Names2(i), val2 |-> After(Names2(i)),
                 dest |-> NamesD(i), val |-> After(NamesD(i))]
  BY DEF Report
<1>4. /\ i.op \in Reads1 => Names1(i) = i.rs1
      /\ i.op \in Reads2 => Names2(i) = i.rs2
      /\ i.op \in Writes => NamesD(i) = i.rd
  BY DEF Names1, Names2, NamesD, Reads1, Reads2, Writes
<1>5. ASSUME NEW r \in Regs, r # 0, ~(i.op \in Writes /\ r = i.rd)
      PROVE  regs'[r] = regs[r]
  <2>1. regs' = Guest!Result(i)
    BY DEF Guest!Execute
  <2>2. CASE i.op \notin Writes
    <3>1. regs' = regs
      BY <1>1, <2>1, <2>2 DEF Guest!Result, Writes, Known, Guest!Ops
    <3> QED
      BY <3>1
  <2>3. CASE i.op \in Writes
    <3>1. PICK v : regs' = Guest!Set(i.rd, v)
      BY <2>1, <2>3 DEF Guest!Result, Writes
    <3> QED
      BY <1>5, <2>3, <3>1 DEF Guest!Set, GuestOK
  <2> QED
    BY <2>2, <2>3
<1>6. \A r \in Regs : After(r) = ValueTold(i, r)
  BY <1>5 DEF After, ValueTold, Guest!get_reg
<1> QED
  BY <1>2, <1>3, <1>4, <1>6 DEF Says

\* A module's post-execute callback is told the instruction executed, its immediate, its
\* destination with the result and its sources with the values they had, but for a
\* source that is the destination (PostExecInfo is filled in behind the execution).
THEOREM OperandsAreReported == Spec => OperandsReported
<1> DEFINE SaysCurrent == calls'["post"] # calls["post"] =>
                            report'.instr = Current /\ Says(report'.instr)
<1>1. Init => CInv
  BY InitCInv
<1>2. CInv /\ [Next]_vars => CInv'
  BY NextCInv
<1>3. CInv /\ [Next]_vars => [SaysCurrent]_vars
  <2> SUFFICES ASSUME CInv, [Next]_vars, calls'["post"] # calls["post"]
               PROVE  report'.instr = Current /\ Says(report'.instr)
    OBVIOUS
  <2>1. CountersOK /\ GuestOK /\ HartOK /\ SeenNow /\ StepNoted
    BY DEF CInv, IInv
  <2>2. CASE Collect
    <3> DEFINE w == mem[Guest!Translate(paging, pc)]
    <3>1. Decode[w] \in Guest!Instr
      BY <2>1, <2>2, FetchedSeen DEF Collect
    <3>2. Perform(Decode[w], 1) /\ step.mode # "cached" /\ Current = Decode[w]
      BY <2>2 DEF Collect, Current
    <3> HIDE DEF w
    <3>3. registered /\ Hooked(Decode[w]) /\ Guest!Execute(Decode[w]) /\ Report(Decode[w])
      BY <2>1, <3>2, PostCalled
    <3>4. Says(Decode[w])
      BY <2>1, <3>1, <3>3, ReportSays
    <3> QED
      BY <3>2, <3>4 DEF Says
  <2>3. CASE Cached
    <3> DEFINE w == step.words[step.at]
    <3>1. Decode[w] \in Guest!Instr
      BY <2>1, <2>3, CachedSeen DEF Cached
    <3>2. Perform(Decode[w], 0) /\ step.mode = "cached" /\ Current = Decode[w]
      BY <2>3 DEF Cached, Current
    <3> HIDE DEF w
    <3>3. registered /\ Hooked(Decode[w]) /\ Guest!Execute(Decode[w]) /\ Report(Decode[w])
      BY <2>1, <3>2, PostCalled
    <3>4. Says(Decode[w])
      BY <2>1, <3>1, <3>3, ReportSays
    <3> QED
      BY <3>2, <3>4 DEF Says
  <2>4. CASE Step \/ BlockEnds \/ CollectNothing \/ FetchFails \/ UNCHANGED vars
    BY <2>4 DEF Step, BlockEnds, CollectNothing, FetchFails, vars, observed
  <2> QED
    BY <2>2, <2>3, <2>4 DEF Next
<1>4. [][SaysCurrent]_vars => OperandsReported
  <2>1. SaysCurrent =>
          (calls'["post"] # calls["post"] =>
            LET i == report'.instr IN
            /\ i = Current /\ report'.imm = i.imm
            /\ i.op \in Reads1 => report'.reg1 = i.rs1 /\ report'.val1 = ValueTold(i, i.rs1)
            /\ i.op \in Reads2 => report'.reg2 = i.rs2 /\ report'.val2 = ValueTold(i, i.rs2)
            /\ i.op \in Writes => report'.dest = i.rd /\ report'.val = After(i.rd))
    BY DEF Says
  <2> HIDE DEF SaysCurrent
  <2> QED
    BY <2>1, PTL DEF OperandsReported
<1> HIDE DEF SaysCurrent
<1> QED
  BY <1>1, <1>2, <1>3, <1>4, PTL DEF Spec
================================================================================
