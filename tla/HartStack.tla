------------------------------- MODULE HartStack -------------------------------
(***************************************************************************)
(* What the engine's books say, on top of Inv.  Why the host stack is      *)
(* bounded by the guest's: DebtInv is inductive.  A call the guest makes   *)
(* is a return address it holds; the address is given up by the return     *)
(* that also ends the host's call.  And why the cycles Machine::run adds   *)
(* up are the instructions retired: CountInv is inductive when jit_bound   *)
(* is 0.                                                                   *)
(***************************************************************************)
EXTENDS HartFaithful, FiniteSetTheorems

(* Matching frames with return addresses. *)

\* A matching survives when no frame comes to owe and no address is given up.
LEMMA Carry ==
  ASSUME NEW fs, NEW n \in Int, NEW cs \in Seq(Pcs), Matched(fs, n, cs),
         NEW gs, NEW l \in Int, NEW ds \in Seq(Pcs),
         \A k \in 1 .. l : Owes(gs[k]) => k <= n /\ Owes(fs[k]) /\ gs[k].at = fs[k].at,
         \A i \in 1 .. Len(cs) : i <= Len(ds) /\ ds[i] = cs[i]
  PROVE  Matched(gs, l, ds)
<1>1. PICK m \in [1 .. n -> 0 .. Len(cs)] : Pays(m, fs, n, cs)
  BY DEF Matched
<1> DEFINE g == [k \in 1 .. l |-> IF k \in 1 .. n /\ Owes(fs[k]) THEN m[k] ELSE 0]
<1>2. g \in [1 .. l -> 0 .. Len(ds)]
  <2>1. ASSUME NEW k \in 1 .. l PROVE g[k] \in 0 .. Len(ds)
    <3>1. CASE k \in 1 .. n /\ Owes(fs[k])
      <4>1. m[k] \in 1 .. Len(cs) /\ g[k] = m[k]
        BY <1>1, <3>1 DEF Pays
      <4>. QED BY <4>1
    <3>2. CASE ~(k \in 1 .. n /\ Owes(fs[k]))
      BY <3>2
    <3>. QED BY <3>1, <3>2
  <2>. QED BY <2>1
<1>3. ASSUME NEW k \in 1 .. l, Owes(gs[k])
      PROVE  /\ g[k] \in 1 .. Len(ds) /\ ds[g[k]] = Inc(gs[k].at)
             /\ \A j \in 1 .. (k - 1) : Owes(gs[j]) => g[j] < g[k]
  <2>1. k \in 1 .. n /\ Owes(fs[k]) /\ gs[k].at = fs[k].at
    BY <1>3
  <2>2. /\ m[k] \in 1 .. Len(cs) /\ cs[m[k]] = Inc(fs[k].at)
        /\ \A j \in 1 .. (k - 1) : Owes(fs[j]) => m[j] < m[k]
    BY <1>1, <2>1 DEF Pays
  <2>3. g[k] = m[k] /\ g[k] \in 1 .. Len(ds) /\ ds[g[k]] = cs[m[k]]
    BY <2>1, <2>2
  <2>4. ASSUME NEW j \in 1 .. (k - 1), Owes(gs[j]) PROVE g[j] < g[k]
    <3>1. j \in 1 .. l /\ j \in 1 .. n /\ Owes(fs[j])
      BY <2>1, <2>4
    <3>2. g[j] = m[j]
      BY <3>1
    <3>. QED BY <2>2, <2>3, <3>1, <3>2
  <2>. QED BY <2>1, <2>2, <2>3, <2>4
<1> HIDE DEF g
<1>. QED BY <1>2, <1>3 DEF Matched, Pays

\* Frames that owe nothing are matched.
LEMMA NoDebt ==
  ASSUME NEW fs, NEW n \in Int, NEW cs \in Seq(Pcs), \A k \in 1 .. n : ~Owes(fs[k])
  PROVE  Matched(fs, n, cs)
<1> DEFINE g == [k \in 1 .. n |-> 0]
<1>1. g \in [1 .. n -> 0 .. Len(cs)]
  OBVIOUS
<1> HIDE DEF g
<1>. QED BY <1>1 DEF Matched, Pays

\* The topmost frame comes to owe the address the guest takes up.
LEMMA Borrow ==
  ASSUME NEW fs, NEW n \in Nat \ {0}, NEW cs \in Seq(Pcs), Matched(fs, n, cs),
         NEW gs, NEW a \in Pcs, NEW ds, ds = Append(cs, a),
         \A k \in 1 .. (n - 1) : Owes(gs[k]) => Owes(fs[k]) /\ gs[k].at = fs[k].at,
         a = Inc(gs[n].at)
  PROVE  Matched(gs, n, ds)
<1>1. PICK m \in [1 .. n -> 0 .. Len(cs)] : Pays(m, fs, n, cs)
  BY DEF Matched
<1>2. /\ ds \in Seq(Pcs) /\ Len(ds) = Len(cs) + 1 /\ Len(cs) \in Nat
      /\ ds[Len(cs) + 1] = a /\ \A i \in 1 .. Len(cs) : ds[i] = cs[i]
  BY PushOps
<1> DEFINE g == [m EXCEPT ![n] = Len(cs) + 1]
<1>3. /\ g \in [1 .. n -> 0 .. Len(ds)] /\ g[n] = Len(cs) + 1
      /\ \A k \in 1 .. (n - 1) : g[k] = m[k]
  BY <1>2
<1> HIDE DEF g
<1>4. ASSUME NEW k \in 1 .. n, Owes(gs[k])
      PROVE  /\ g[k] \in 1 .. Len(ds) /\ ds[g[k]] = Inc(gs[k].at)
             /\ \A j \in 1 .. (k - 1) : Owes(gs[j]) => g[j] < g[k]
  <2>1. CASE k = n
    <3>1. ASSUME NEW j \in 1 .. (n - 1) PROVE g[j] < g[n]
      <4>1. m[j] \in 0 .. Len(cs)
        OBVIOUS
      <4>. QED BY <4>1, <1>2, <1>3
    <3>. QED BY <2>1, <3>1, <1>2, <1>3
  <2>2. CASE k # n
    <3>1. k \in 1 .. (n - 1) /\ Owes(fs[k]) /\ gs[k].at = fs[k].at
      BY <2>2, <1>4
    <3>2. /\ m[k] \in 1 .. Len(cs) /\ cs[m[k]] = Inc(fs[k].at)
          /\ \A j \in 1 .. (k - 1) : Owes(fs[j]) => m[j] < m[k]
      BY <1>1, <3>1 DEF Pays
    <3>3. g[k] = m[k] /\ g[k] \in 1 .. Len(ds) /\ ds[g[k]] = cs[m[k]]
      BY <1>2, <1>3, <3>1, <3>2
    <3>4. ASSUME NEW j \in 1 .. (k - 1), Owes(gs[j]) PROVE g[j] < g[k]
      <4>1. k \in Int /\ j \in 1 .. (n - 1)
        BY <3>1
      <4>2. Owes(fs[j]) /\ g[j] = m[j]
        BY <1>3, <3>4, <4>1
      <4>. QED BY <3>2, <3>3, <4>2
    <3>. QED BY <3>1, <3>2, <3>3, <3>4
  <2>. QED BY <2>1, <2>2
<1>. QED BY <1>3, <1>4 DEF Matched, Pays

\* The guest gives up its innermost address: that of the innermost call, or none
\* that is owed.
LEMMA Repay ==
  ASSUME NEW fs, NEW n \in Int, NEW cs \in Seq(Pcs), Matched(fs, n, cs), cs # <<>>,
         NEW ds, ds = SubSeq(cs, 1, Len(cs) - 1),
         NEW j \in 1 .. n, Owes(fs[j]), \A k \in (j + 1) .. n : ~Owes(fs[k])
  PROVE  \/ Matched(fs, n, ds)
         \/ cs[Len(cs)] = Inc(fs[j].at) /\ Matched(fs, j - 1, ds)
<1>1. PICK m \in [1 .. n -> 0 .. Len(cs)] : Pays(m, fs, n, cs)
  BY DEF Matched
<1>2. /\ Len(cs) \in Nat \ {0} /\ ds \in Seq(Pcs) /\ Len(ds) = Len(cs) - 1
      /\ \A i \in 1 .. (Len(cs) - 1) : ds[i] = cs[i]
  BY StackOps
<1>3. ASSUME NEW l \in 0 .. n,
             \A k \in 1 .. l : Owes(fs[k]) => m[k] < Len(cs)
      PROVE  Matched(fs, l, ds)
  <2> DEFINE g == [k \in 1 .. l |-> IF Owes(fs[k]) THEN m[k] ELSE 0]
  <2>1. ASSUME NEW k \in 1 .. l, Owes(fs[k])
        PROVE  /\ g[k] = m[k] /\ g[k] \in 1 .. Len(ds) /\ ds[g[k]] = Inc(fs[k].at)
               /\ \A i \in 1 .. (k - 1) : Owes(fs[i]) => m[i] < m[k]
    <3>1. /\ m[k] \in 1 .. Len(cs) /\ cs[m[k]] = Inc(fs[k].at)
          /\ \A i \in 1 .. (k - 1) : Owes(fs[i]) => m[i] < m[k]
      BY <1>1, <2>1 DEF Pays
    <3>2. m[k] \in 1 .. (Len(cs) - 1) /\ g[k] = m[k]
      BY <3>1, <1>2, <1>3, <2>1
    <3>. QED BY <3>1, <3>2, <1>2
  <2>2. g \in [1 .. l -> 0 .. Len(ds)]
    <3>1. ASSUME NEW k \in 1 .. l PROVE g[k] \in 0 .. Len(ds)
      <4>1. CASE Owes(fs[k])
        BY <4>1, <2>1
      <4>2. CASE ~Owes(fs[k])
        BY <4>2, <1>2
      <4>. QED BY <4>1, <4>2
    <3>. QED BY <3>1
  <2>3. ASSUME NEW k \in 1 .. l, Owes(fs[k]), NEW i \in 1 .. (k - 1), Owes(fs[i])
        PROVE  g[i] < g[k]
    <3>1. i \in 1 .. l
      OBVIOUS
    <3>2. g[i] = m[i] /\ g[k] = m[k]
      BY <3>1, <2>1, <2>3
    <3>. QED BY <3>2, <2>1, <2>3
  <2> HIDE DEF g
  <2>. QED BY <2>1, <2>2, <2>3 DEF Matched, Pays
<1>4. /\ m[j] \in 1 .. Len(cs) /\ cs[m[j]] = Inc(fs[j].at)
      /\ \A i \in 1 .. (j - 1) : Owes(fs[i]) => m[i] < m[j]
  BY <1>1 DEF Pays
<1>5. CASE m[j] = Len(cs)
  <2>1. j - 1 \in 0 .. n
    OBVIOUS
  <2>. QED BY <1>3, <1>4, <1>5, <2>1
<1>6. CASE m[j] # Len(cs)
  <2>1. n \in 0 .. n /\ m[j] < Len(cs)
    BY <1>2, <1>4, <1>6
  <2>2. ASSUME NEW k \in 1 .. n, Owes(fs[k]) PROVE m[k] < Len(cs)
    <3>1. k \in 1 .. (j - 1) \/ k = j
      BY <2>2
    <3>2. m[k] \in Int /\ m[j] \in Int
      BY <1>2
    <3>. QED BY <3>1, <3>2, <2>1, <2>2, <1>2, <1>4
  <2>. QED BY <1>3, <2>1, <2>2
<1>. QED BY <1>5, <1>6

-------------------------------------------------------------------------------
(* The host stack under the moves of the engine. *)

\* A frame that does not wait for a return address may be pushed on any others.
LEMMA UntilPush ==
  ASSUME NEW fs \in Seq(Frame), UntilInv(fs), NEW f \in Frame,
         f.kind = "until" => /\ fs # <<>> /\ Owes(fs[Len(fs)])
                             /\ f.at = Inc(fs[Len(fs)].at)
  PROVE  UntilInv(Append(fs, f))
<1>1. /\ Len(Append(fs, f)) = Len(fs) + 1 /\ Len(fs) \in Nat
      /\ Append(fs, f)[Len(fs) + 1] = f
      /\ \A k \in 1 .. Len(fs) : Append(fs, f)[k] = fs[k]
  BY PushOps
<1> DEFINE gs == Append(fs, f)
<1> HIDE DEF gs
<1>2. ASSUME NEW k \in 1 .. Len(gs), gs[k].kind = "until"
      PROVE  k > 1 /\ Owes(gs[k - 1]) /\ gs[k].at = Inc(gs[k - 1].at)
  <2>1. CASE k = Len(fs) + 1
    <3>1. fs # <<>> /\ Owes(fs[Len(fs)]) /\ f.at = Inc(fs[Len(fs)].at) /\ gs[k] = f
      BY <1>1, <1>2, <2>1 DEF gs
    <3>2. k > 1 /\ gs[k - 1] = fs[Len(fs)]
      <4>1. Len(fs) \in 1 .. Len(fs)
        BY <3>1
      <4>2. k - 1 = Len(fs) /\ k > 1
        BY <1>1, <2>1, <4>1
      <4>. QED BY <1>1, <4>1, <4>2 DEF gs
    <3>. QED BY <3>1, <3>2
  <2>2. CASE k # Len(fs) + 1
    <3>1. k \in 1 .. Len(fs) /\ gs[k] = fs[k]
      BY <1>1, <2>2 DEF gs
    <3>2. k > 1 /\ Owes(fs[k - 1]) /\ fs[k].at = Inc(fs[k - 1].at)
      BY <1>2, <3>1 DEF UntilInv
    <3>3. k - 1 \in 1 .. Len(fs)
      BY <3>1, <3>2
    <3>4. gs[k - 1] = fs[k - 1]
      BY <1>1, <3>3 DEF gs
    <3>. QED BY <3>1, <3>2, <3>4
  <2>. QED BY <2>1, <2>2
<1>3. UntilInv(gs)
  BY <1>2 DEF UntilInv
<1>. QED BY <1>3 DEF gs

\* A return, and a new topmost frame, leave those below as they are.
LEMMA UntilPop ==
  ASSUME frames \in Seq(Frame), frames # <<>>, UntilInv(frames)
  PROVE  /\ UntilInv(Below)
         /\ \A f \in Frame : f.kind # "until" => UntilInv(WithTop(f))
<1>1. /\ Depth \in Nat \ {0} /\ Below \in Seq(Frame) /\ Len(Below) = Depth - 1
      /\ \A k \in 1 .. (Depth - 1) : Below[k] = frames[k]
  BY StackTypes
<1>2. ASSUME NEW k \in 1 .. Len(Below), Below[k].kind = "until"
      PROVE  k > 1 /\ Owes(Below[k - 1]) /\ Below[k].at = Inc(Below[k - 1].at)
  <2>1. k \in 1 .. Depth /\ k \in 1 .. (Depth - 1) /\ Below[k] = frames[k]
    BY <1>1
  <2>2. k > 1 /\ Owes(frames[k - 1]) /\ frames[k].at = Inc(frames[k - 1].at)
    BY <1>2, <2>1 DEF UntilInv, Depth
  <2>3. k - 1 \in 1 .. (Depth - 1)
    BY <1>1, <2>1, <2>2
  <2>4. Below[k - 1] = frames[k - 1]
    BY <1>1, <2>3
  <2>. QED BY <2>1, <2>2, <2>4
<1>3. UntilInv(Below)
  BY <1>2 DEF UntilInv
<1>4. ASSUME NEW f \in Frame, f.kind # "until" PROVE UntilInv(WithTop(f))
  BY <1>1, <1>3, <1>4, UntilPush DEF WithTop
<1>. QED BY <1>3, <1>4

\* Releasing code changes no frame's role.
LEMMA FreeRoles ==
  ASSUME NEW fs \in Seq(Frame), NEW b
  PROVE  /\ AfterLookup(fs, b) \in Seq(Frame)
         /\ Len(AfterLookup(fs, b)) = Len(fs)
         /\ \A k \in 1 .. Len(fs) : /\ AfterLookup(fs, b)[k].kind = fs[k].kind
                                   /\ AfterLookup(fs, b)[k].at = fs[k].at
                                   /\ AfterLookup(fs, b)[k].st = fs[k].st
<1>1. ASSUME NEW s
      PROVE  /\ Len(Free(fs, s)) = Len(fs)
             /\ \A k \in 1 .. Len(fs) : /\ Free(fs, s)[k].kind = fs[k].kind
                                       /\ Free(fs, s)[k].at = fs[k].at
                                       /\ Free(fs, s)[k].st = fs[k].st
  <2>1. Len(Free(fs, s)) = Len(fs)
    BY FreeFrames
  <2>2. ASSUME NEW k \in 1 .. Len(fs)
        PROVE  /\ Free(fs, s)[k].kind = fs[k].kind
               /\ Free(fs, s)[k].at = fs[k].at
               /\ Free(fs, s)[k].st = fs[k].st
    <3>1. fs[k] \in Frame
      OBVIOUS
    <3>2. \/ Free(fs, s)[k] = fs[k]
          \/ Free(fs, s)[k] = [fs[k] EXCEPT !.freed = TRUE]
      BY FreeFrames
    <3>. QED BY <3>1, <3>2 DEF Frame
  <2>. QED BY <2>1, <2>2
<1>2. AfterLookup(fs, b) \in Seq(Frame)
  BY AfterLookupTypes
<1>. QED BY <1>1, <1>2 DEF AfterLookup

\* Nor what a run_until_pc loop waits for.
LEMMA UntilFree ==
  ASSUME NEW fs \in Seq(Frame), UntilInv(fs), NEW b
  PROVE  UntilInv(AfterLookup(fs, b))
<1> DEFINE gs == AfterLookup(fs, b)
<1>1. /\ Len(gs) = Len(fs) /\ Len(fs) \in Nat
      /\ \A k \in 1 .. Len(fs) : /\ gs[k].kind = fs[k].kind /\ gs[k].at = fs[k].at
                                /\ gs[k].st = fs[k].st
  BY FreeRoles
<1> HIDE DEF gs
<1>2. ASSUME NEW k \in 1 .. Len(gs), gs[k].kind = "until"
      PROVE  k > 1 /\ Owes(gs[k - 1]) /\ gs[k].at = Inc(gs[k - 1].at)
  <2>1. k \in 1 .. Len(fs) /\ gs[k].at = fs[k].at
    BY <1>1
  <2>2. k > 1 /\ Owes(fs[k - 1]) /\ fs[k].at = Inc(fs[k - 1].at)
    BY <1>1, <1>2, <2>1 DEF UntilInv
  <2>3. k - 1 \in 1 .. Len(fs)
    BY <2>1, <2>2
  <2>. QED BY <1>1, <2>1, <2>2, <2>3 DEF Owes
<1>3. UntilInv(gs)
  BY <1>2 DEF UntilInv
<1>. QED BY <1>3 DEF gs

-------------------------------------------------------------------------------
(* The guest's own stack. *)

\* What retiring an instruction does to the return addresses.
LEMMA RetireCalls ==
  ASSUME Inv, Supported, ~halt, NEW p \in Pcs, Guest!Execute(code[pc], p)
  PROVE  /\ calls' \in Seq(Pcs)
         /\ code[pc].op \in Linking => calls' = Append(calls, Inc(pc)) /\ Inc(pc) \in Pcs
         /\ code[pc].op = "ret" => p # Inc(pc) /\ ~halt'
         /\ code[pc].op = "ret" /\ calls # <<>> =>
              calls' = SubSeq(calls, 1, Len(calls) - 1) /\ p = calls[Len(calls)]
         /\ code[pc].op = "ret" /\ calls = <<>> => calls' = calls
         /\ code[pc].op # "ret" =>
              \A i \in 1 .. Len(calls) : i <= Len(calls') /\ calls'[i] = calls[i]
<1>t. /\ pc \in Pcs /\ pc \in Int /\ calls \in Seq(Pcs) /\ code[pc].imm \in Int
  BY InvTypes, InstrTypes, PcNat
<1>i. Guest!Inc(pc) = Inc(pc) /\ Inc(pc) \in Pcs
  BY <1>t, PcArith
<1>1. calls' = Guest!CallsAfter(code[pc]) /\ p \in Guest!Successors(code[pc])
  BY <1>t DEF Guest!Execute
<1>2. code[pc].op \in Linking => calls' = Append(calls, Inc(pc))
  BY <1>1, <1>i DEF Guest!CallsAfter, Linking
<1>3. code[pc].op = "ret" /\ calls # <<>> =>
        calls' = SubSeq(calls, 1, Len(calls) - 1) /\ p = calls[Len(calls)]
  BY <1>1 DEF Guest!CallsAfter, Guest!Successors
<1>4. code[pc].op \notin Linking /\ ~(code[pc].op = "ret" /\ calls # <<>>) => calls' = calls
  BY <1>1 DEF Guest!CallsAfter, Linking
<1>5. calls' \in Seq(Pcs)
  <2>1. CASE code[pc].op \in Linking
    BY <2>1, <1>t, <1>i, <1>2, PushOps
  <2>2. CASE code[pc].op = "ret" /\ calls # <<>>
    BY <2>2, <1>t, <1>3, StackOps
  <2>. QED BY <2>1, <2>2, <1>t, <1>4
<1>6. code[pc].op = "ret" => p # Inc(pc) /\ ~halt'
  <2>1. code[pc].op = "ret" => ~halt'
    BY Retire
  <2>. QED BY <2>1, FallsThrough DEF MayFall, Straight
<1>7. code[pc].op # "ret" =>
        \A i \in 1 .. Len(calls) : i <= Len(calls') /\ calls'[i] = calls[i]
  <2>1. CASE code[pc].op \in Linking
    <3>1. /\ Len(calls') = Len(calls) + 1 /\ Len(calls) \in Nat
          /\ \A i \in 1 .. Len(calls) : calls'[i] = calls[i]
      BY <2>1, <1>t, <1>i, <1>2, PushOps
    <3>. QED BY <3>1
  <2>2. CASE code[pc].op \notin Linking
    BY <2>2, <1>4, <1>t
  <2>. QED BY <2>1, <2>2
<1>8. code[pc].op = "ret" /\ calls = <<>> => calls' = calls
  BY <1>4 DEF Linking
<1>. QED BY <1>i, <1>2, <1>3, <1>5, <1>6, <1>7, <1>8

-------------------------------------------------------------------------------
(* The invariant under the moves of the host stack. *)

\* Every call is matched again.
LEMMA Settled ==
  ASSUME frames' \in Seq(Frame), UntilInv(frames'),
         Matched(frames', Len(frames'), calls')
  PROVE  DebtInv'
<1>1. UntilInv(frames)'
  BY DEF UntilInv, Owes
<1>2. Matched(frames, Depth, calls)'
  BY DEF Matched, Pays, Owes, Depth
<1>. QED BY <1>1, <1>2 DEF DebtInv

\* Every call is matched but the innermost, which is over.
LEMMA Over ==
  ASSUME frames' \in Seq(Frame), frames' # <<>>, UntilInv(frames'), code' = code,
         NEW f, f = frames'[Len(frames')], Parked(f),
         f.kind = "until" => pc' = f.at /\ Matched(frames', Len(frames') - 2, calls'),
         f.kind # "until" => pc' = Inc(f.at) /\ Matched(frames', Len(frames') - 1, calls')
  PROVE  DebtInv'
<1>1. UntilInv(frames)'
  BY DEF UntilInv, Owes
<1>2. Top' = f /\ Depth' = Len(frames')
  BY DEF Top, Depth
<1>3. Parked(Top)'
  BY <1>2 DEF Parked
<1>4. Returning'
  <2>1. CASE f.kind = "until"
    <3>1. Matched(frames, Depth - 2, calls)'
      BY <2>1, <1>2 DEF Matched, Pays, Owes
    <3>. QED BY <2>1, <3>1, <1>2, <1>3 DEF Returning
  <2>2. CASE f.kind # "until"
    <3>1. Matched(frames, Depth - 1, calls)'
      BY <2>2, <1>2 DEF Matched, Pays, Owes
    <3>. QED BY <2>2, <3>1, <1>2, <1>3 DEF Returning
  <2>. QED BY <2>1, <2>2
<1>. QED BY <1>1, <1>4 DEF DebtInv

\* The guest keeps its return addresses, and may have taken up another.
Keeps == /\ calls' \in Seq(Pcs)
         /\ \A i \in 1 .. Len(calls) : i <= Len(calls') /\ calls'[i] = calls[i]

\* A frame that runs is pushed.
LEMMA DebtPush ==
  ASSUME calls \in Seq(Pcs), Keeps,
         NEW fs \in Seq(Frame), UntilInv(fs), Matched(fs, Len(fs), calls),
         NEW f \in Frame, ~Owes(f), frames' = Append(fs, f),
         f.kind = "until" => /\ fs # <<>> /\ Owes(fs[Len(fs)])
                             /\ f.at = Inc(fs[Len(fs)].at)
  PROVE  DebtInv'
<1>1. /\ frames' \in Seq(Frame) /\ Len(frames') = Len(fs) + 1 /\ Len(fs) \in Nat
      /\ frames'[Len(fs) + 1] = f
      /\ \A k \in 1 .. Len(fs) : frames'[k] = fs[k]
  BY PushOps
<1>2. UntilInv(frames')
  BY UntilPush
<1>3. ASSUME NEW k \in 1 .. Len(frames'), Owes(frames'[k])
      PROVE  k <= Len(fs) /\ Owes(fs[k]) /\ frames'[k].at = fs[k].at
  <2>1. k # Len(fs) + 1
    BY <1>1, <1>3
  <2>2. k \in 1 .. Len(fs)
    BY <1>1, <2>1
  <2>. QED BY <1>1, <1>3, <2>2
<1>4. Matched(frames', Len(frames'), calls')
  <2>1. /\ Len(fs) \in Int /\ Len(frames') \in Int /\ calls' \in Seq(Pcs)
        /\ \A i \in 1 .. Len(calls) : i <= Len(calls') /\ calls'[i] = calls[i]
    BY <1>1 DEF Keeps
  <2>2. \A k \in 1 .. Len(frames') : Owes(frames'[k]) =>
           k <= Len(fs) /\ Owes(fs[k]) /\ frames'[k].at = fs[k].at
    BY <1>3
  <2>. QED BY <2>1, <2>2, Carry, ZenonT(60)
<1>. QED BY <1>1, <1>2, <1>4, Settled

\* The topmost frame returns, or goes on.
LEMMA DebtStay ==
  ASSUME frames \in Seq(Frame), frames # <<>>, calls \in Seq(Pcs), Keeps,
         UntilInv(frames), Matched(frames, Depth - 1, calls),
         \/ frames' = Below
         \/ \E f \in Frame : ~Owes(f) /\ f.kind # "until" /\ frames' = WithTop(f)
  PROVE  DebtInv'
<1>1. /\ Depth \in Nat \ {0} /\ Below \in Seq(Frame) /\ Len(Below) = Depth - 1
      /\ \A k \in 1 .. (Depth - 1) : Below[k] = frames[k]
  BY StackTypes
<1>2. ASSUME NEW cs \in Seq(Pcs),
             \A i \in 1 .. Len(calls) : i <= Len(cs) /\ cs[i] = calls[i]
      PROVE  Matched(Below, Len(Below), cs)
  <2>1. /\ Depth - 1 \in Int /\ Len(Below) \in Int
        /\ \A k \in 1 .. Len(Below) : Owes(Below[k]) =>
             k <= Depth - 1 /\ Owes(frames[k]) /\ Below[k].at = frames[k].at
    BY <1>1
  <2>. QED BY <1>2, <2>1, Carry
<1>3. UntilInv(Below)
  BY UntilPop
<1>4. CASE frames' = Below
  <2>1. Matched(Below, Len(Below), calls')
    BY <1>2 DEF Keeps
  <2>. QED BY <1>1, <1>3, <1>4, <2>1, Settled
<1>5. ASSUME NEW f \in Frame, ~Owes(f), f.kind # "until", frames' = WithTop(f)
      PROVE  DebtInv'
  <2>1. Matched(Below, Len(Below), calls)
    BY <1>2
  <2>. QED BY <1>1, <1>3, <1>5, <2>1, DebtPush DEF WithTop
<1>. QED BY <1>4, <1>5

\* Fewer frames are matched, too.
LEMMA Fewer ==
  ASSUME frames \in Seq(Frame), calls \in Seq(Pcs), Matched(frames, Depth, calls)
  PROVE  Matched(frames, Depth - 1, calls)
<1>1. Depth \in Nat
  BY DEF Depth
<1>. QED BY <1>1, Carry

\* A frame that runs sees every call matched.
LEMMA RunMatched ==
  ASSUME Inv, DebtInv, frames # <<>>, ~Parked(Top)
  PROVE  /\ ~halt /\ UntilInv(frames) /\ Matched(frames, Depth, calls)
         /\ Matched(frames, Depth - 1, calls)
<1>1. ~halt
  BY RunningActive
<1>2. UntilInv(frames) /\ Matched(frames, Depth, calls)
  BY <1>1 DEF DebtInv, Returning
<1>. QED BY <1>1, <1>2, InvTypes, Fewer

\* The guest returns, and so does the frame that ran the return.
LEMMA DebtReturn ==
  ASSUME Inv, DebtInv, Supported, frames # <<>>, ~Parked(Top), ~Owes(Top),
         NEW p \in Pcs, Guest!Execute(code[pc], p), code[pc].op = "ret",
         frames' = Below
  PROVE  DebtInv'
<1>1. /\ ~halt /\ UntilInv(frames) /\ Matched(frames, Depth, calls)
      /\ Matched(frames, Depth - 1, calls)
  BY RunMatched
<1>2. /\ calls' \in Seq(Pcs)
      /\ calls # <<>> => calls' = SubSeq(calls, 1, Len(calls) - 1)
                         /\ p = calls[Len(calls)]
      /\ calls = <<>> => calls' = calls
  BY <1>1, RetireCalls
<1>3. pc' = p /\ code' = code
  BY <1>1, Retire
<1>4. /\ frames \in Seq(Frame) /\ calls \in Seq(Pcs)
      /\ Depth \in Nat \ {0} /\ Below \in Seq(Frame) /\ Len(Below) = Depth - 1
      /\ \A k \in 1 .. (Depth - 1) : Below[k] = frames[k]
      /\ UntilInv(Below)
  BY <1>1, InvTypes, StackTypes, UntilPop
<1>5. CASE calls = <<>>
  <2>1. Keeps
    BY <1>2, <1>4, <1>5 DEF Keeps
  <2>. QED BY <1>1, <1>4, <2>1, DebtStay
<1>6. CASE Depth = 1
  <2>1. Matched(Below, Len(Below), calls')
    BY <1>2, <1>4, <1>6, NoDebt
  <2>. QED BY <1>4, <2>1, Settled
<1>7. CASE calls # <<>> /\ Depth # 1
  <2> DEFINE f == frames[Depth - 1]
  <2>1. /\ Depth - 1 \in 1 .. (Depth - 1) /\ Below[Len(Below)] = f /\ Below # <<>>
        /\ Depth - 1 \in 1 .. Len(frames)
    BY <1>4, <1>7 DEF Depth
  <2>0. /\ frames' \in Seq(Frame) /\ frames' # <<>> /\ UntilInv(frames')
        /\ frames'[Len(frames')] = f /\ Len(frames') = Len(Below)
    BY <1>4, <2>1
  <2>2. Parked(f)
    BY <2>1 DEF Inv, EngineInv, StackInv
  <2>3. ASSUME NEW l \in Int, l <= Depth - 1, Matched(frames, l, calls')
        PROVE  Matched(Below, l, calls')
    BY <1>2, <1>4, <2>3, Carry
  <2>4. ~Owes(frames[Depth])
    BY DEF Top
  <2>8. /\ Depth \in Int /\ calls \in Seq(Pcs) /\ Matched(frames, Depth, calls)
        /\ calls # <<>> /\ calls' = SubSeq(calls, 1, Len(calls) - 1)
    BY <1>1, <1>2, <1>4, <1>7
  <2>5. ASSUME Matched(frames, Depth, calls') PROVE DebtInv'
    <3>1. \A k \in 1 .. (Depth - 1) : Owes(Below[k]) =>
             k <= Depth /\ Owes(frames[k]) /\ Below[k].at = frames[k].at
      BY <1>4
    <3>2. Matched(Below, Len(Below), calls')
      BY <1>2, <1>4, <2>5, <3>1, Carry
    <3>. QED BY <1>4, <3>2, Settled
  <2>6. CASE f.kind = "until"
    <3>1. Depth - 1 > 1 /\ Owes(frames[Depth - 2]) /\ f.at = Inc(frames[Depth - 2].at)
          /\ f.st = "run"
      <4>1. Depth - 1 > 1 /\ Owes(frames[(Depth - 1) - 1])
            /\ f.at = Inc(frames[(Depth - 1) - 1].at)
        BY <1>1, <2>1, <2>6 DEF UntilInv
      <4>2. (Depth - 1) - 1 = Depth - 2
        BY <1>4
      <4>. QED BY <4>1, <4>2, <2>2, <2>6 DEF Parked
    <3>2. Depth - 2 \in 1 .. Depth
      BY <1>4, <3>1
    <3>3. \A k \in ((Depth - 2) + 1) .. Depth : ~Owes(frames[k])
      <4>1. ~Owes(f)
        BY <3>1 DEF Owes
      <4>2. \A k \in ((Depth - 2) + 1) .. Depth : k = Depth - 1 \/ k = Depth
        BY <1>4
      <4>. QED BY <4>1, <4>2, <2>4
    <3>4. \/ Matched(frames, Depth, calls')
          \/ /\ calls[Len(calls)] = Inc(frames[Depth - 2].at)
             /\ Matched(frames, (Depth - 2) - 1, calls')
      BY <2>8, <3>1, <3>2, <3>3, Repay, ZenonT(60)
    <3>5. ASSUME calls[Len(calls)] = Inc(frames[Depth - 2].at),
                 Matched(frames, (Depth - 2) - 1, calls')
          PROVE  DebtInv'
      <4>1. pc' = f.at
        BY <1>2, <1>3, <1>7, <3>1, <3>5
      <4>2. (Depth - 2) - 1 = Len(Below) - 2 /\ Len(Below) - 2 \in Int
            /\ Len(Below) - 2 <= Depth - 1
        BY <1>4
      <4>3. Matched(frames', Len(frames') - 2, calls')
        BY <2>0, <2>3, <3>5, <4>2
      <4>4. f.kind = "until" => pc' = f.at /\ Matched(frames', Len(frames') - 2, calls')
        BY <4>1, <4>3
      <4>5. f = frames'[Len(frames')] /\ ~(f.kind # "until")
        BY <2>0, <2>6
      <4> HIDE DEF f
      <4>. QED BY <1>3, <2>0, <2>2, <4>4, <4>5, Over
    <3>. QED BY <2>5, <3>4, <3>5
  <2>7. CASE f.kind # "until"
    <3>1. Owes(f)
      BY <2>2, <2>7 DEF Parked, Owes
    <3>2. Depth - 1 \in 1 .. Depth
      BY <1>4, <1>7
    <3>3. \A k \in ((Depth - 1) + 1) .. Depth : ~Owes(frames[k])
      <4>1. \A k \in ((Depth - 1) + 1) .. Depth : k = Depth
        BY <1>4
      <4>. QED BY <4>1, <2>4
    <3>4. \/ Matched(frames, Depth, calls')
          \/ calls[Len(calls)] = Inc(f.at) /\ Matched(frames, (Depth - 1) - 1, calls')
      BY <2>8, <3>1, <3>2, <3>3, Repay, ZenonT(60)
    <3>5. ASSUME calls[Len(calls)] = Inc(f.at), Matched(frames, (Depth - 1) - 1, calls')
          PROVE  DebtInv'
      <4>1. pc' = Inc(f.at)
        BY <1>2, <1>3, <1>7, <3>5
      <4>2. (Depth - 1) - 1 = Len(Below) - 1 /\ Len(Below) - 1 \in Int
            /\ Len(Below) - 1 <= Depth - 1
        BY <1>4
      <4>3. Matched(frames', Len(frames') - 1, calls')
        BY <2>0, <2>3, <3>5, <4>2
      <4>4. f.kind # "until" => pc' = Inc(f.at) /\ Matched(frames', Len(frames') - 1, calls')
        BY <4>1, <4>3
      <4>5. f = frames'[Len(frames')] /\ ~(f.kind = "until")
        BY <2>0, <2>7
      <4> HIDE DEF f
      <4>. QED BY <1>3, <2>0, <2>2, <4>4, <4>5, Over
    <3>. QED BY <2>5, <3>4, <3>5
  <2>. QED BY <2>6, <2>7
<1>. QED BY <1>5, <1>6, <1>7

-------------------------------------------------------------------------------
(* The invariant under each action. *)

\* A step of the engine alone takes no address from the guest.
LEMMA EngineKeeps ==
  ASSUME Inv, UNCHANGED guest
  PROVE  /\ Keeps /\ calls' = calls /\ pc' = pc /\ halt' = halt /\ code' = code
  BY InvTypes DEF Keeps, guest

\* The activation of a block is about to run.
LEMMA EnterRuns ==
  ASSUME NEW b \in Block, instr_counter \in Counter
  PROVE  Enter(b) \in Frame /\ ~Owes(Enter(b)) /\ Enter(b).kind # "until"
  BY EnterFrame DEF Enter, NewFrame, Owes

\* A lookup leaves every call matched.
LEMMA LookupMatched ==
  ASSUME NEW fs \in Seq(Frame), UntilInv(fs), calls \in Seq(Pcs),
         Matched(fs, Len(fs), calls), NEW b
  PROVE  /\ AfterLookup(fs, b) \in Seq(Frame) /\ UntilInv(AfterLookup(fs, b))
         /\ Matched(AfterLookup(fs, b), Len(AfterLookup(fs, b)), calls)
<1> DEFINE gs == AfterLookup(fs, b)
<1>1. /\ gs \in Seq(Frame) /\ Len(gs) = Len(fs) /\ Len(fs) \in Int
      /\ \A k \in 1 .. Len(fs) : gs[k].at = fs[k].at /\ gs[k].st = fs[k].st
  BY FreeRoles
<1>2. UntilInv(gs)
  BY UntilFree
<1> HIDE DEF gs
<1>3. \A k \in 1 .. Len(gs) : Owes(gs[k]) =>
         k <= Len(fs) /\ Owes(fs[k]) /\ gs[k].at = fs[k].at
  BY <1>1 DEF Owes
<1>4. \A i \in 1 .. Len(calls) : i <= Len(calls) /\ calls[i] = calls[i]
  OBVIOUS
<1>5. Matched(gs, Len(gs), calls)
  BY <1>1, <1>3, <1>4, Carry, ZenonT(60)
<1>. QED BY <1>1, <1>2, <1>5 DEF gs

\* Looking a block up and running it leaves every call matched.
LEMMA RunDebt ==
  ASSUME Inv, Keeps, NEW fs \in Seq(Frame), UntilInv(fs),
         Matched(fs, Len(fs), calls), NEW b, NEW e \in Block,
         frames' = Append(AfterLookup(fs, b), Enter(e))
  PROVE  DebtInv'
<1>1. /\ AfterLookup(fs, b) \in Seq(Frame) /\ UntilInv(AfterLookup(fs, b))
      /\ Matched(AfterLookup(fs, b), Len(AfterLookup(fs, b)), calls)
      /\ calls \in Seq(Pcs)
  BY InvTypes, LookupMatched
<1>2. Enter(e) \in Frame /\ ~Owes(Enter(e)) /\ Enter(e).kind # "until"
  BY InvTypes, EnterRuns
<1>. QED BY <1>1, <1>2, DebtPush

\* Whoever calls step() sees every call matched.
LEMMA AtStepMatched ==
  ASSUME Inv, DebtInv, AtStep
  PROVE  /\ frames \in Seq(Frame) /\ UntilInv(frames)
         /\ Matched(frames, Len(frames), calls)
<1>1. ~halt /\ ~Returning
  BY DEF AtStep, Returning
<1>. QED BY <1>1, InvTypes DEF DebtInv, Depth

\* run_until_pc returns to the trampoline, and the call below it is over.
LEMMA UntilOver ==
  ASSUME Inv, ~halt, frames # <<>>, Top.kind = "until", pc = Top.at, UntilInv(frames),
         Matched(frames, Depth - 2, calls), frames' = Below,
         pc' = pc, code' = code, calls' = calls
  PROVE  DebtInv'
<1>1. /\ frames \in Seq(Frame) /\ calls \in Seq(Pcs)
      /\ Depth \in Nat \ {0} /\ Below \in Seq(Frame) /\ Len(Below) = Depth - 1
      /\ \A k \in 1 .. (Depth - 1) : Below[k] = frames[k]
      /\ UntilInv(Below)
  BY InvTypes, StackTypes, UntilPop
<1> DEFINE f == frames[Depth - 1]
<1>2. Depth > 1 /\ Owes(f) /\ Top.at = Inc(f.at)
  <2>1. Depth \in 1 .. Len(frames)
    BY <1>1 DEF Depth
  <2>. QED BY <2>1 DEF UntilInv, Top
<1>3. /\ Depth - 1 \in 1 .. (Depth - 1) /\ Below # <<>>
      /\ Len(frames') = Depth - 1 /\ frames'[Len(frames')] = f
  BY <1>1, <1>2
<1>4. Parked(f) /\ f.kind # "until"
  <2>1. Parked(f)
    BY <1>3 DEF Inv, EngineInv, StackInv
  <2>. QED BY <2>1, <1>2 DEF Parked, Owes
<1>5. Matched(frames', Len(frames') - 1, calls')
  <2>1. /\ Depth - 2 \in Int /\ Len(frames') - 1 = Depth - 2
        /\ \A k \in 1 .. (Depth - 2) : Owes(frames'[k]) =>
             k <= Depth - 2 /\ Owes(frames[k]) /\ frames'[k].at = frames[k].at
        /\ \A i \in 1 .. Len(calls) : i <= Len(calls) /\ calls[i] = calls[i]
    BY <1>1, <1>3
  <2>. QED BY <1>1, <2>1, Carry, ZenonT(60)
<1>6. f.kind # "until" => pc' = Inc(f.at) /\ Matched(frames', Len(frames') - 1, calls')
  BY <1>2, <1>5
<1>7. frames' \in Seq(Frame) /\ frames' # <<>> /\ UntilInv(frames')
      /\ f = frames'[Len(frames')]
  BY <1>1, <1>3
<1> HIDE DEF f
<1>. QED BY <1>4, <1>6, <1>7, Over

\* The debts under Machine::run, run_until_pc and Hart::step.
LEMMA StepDebt ==
  ASSUME Inv, DebtInv, Step
  PROVE  DebtInv'
<1>t. /\ pc \in Pcs /\ paging \in BOOLEAN /\ frames \in Seq(Frame)
      /\ cache \in [Slots -> Block] /\ Slot(pc) \in Slots
  BY InvTypes, PcArith
<1>g. /\ Keeps /\ calls' = calls /\ pc' = pc /\ halt' = halt /\ code' = code
  <2>1. UNCHANGED guest
    BY DEF Step, StepHit, StepCompileFunction, StepCollect, UntilReturns
  <2>. QED BY <2>1, EngineKeeps
<1>1. CASE StepHit
  <2> DEFINE b == cache[Slot(pc)]
  <2>1. LookedUp(b) \in Block
    BY <1>t, Blocks
  <2>2. frames' = Append(AfterLookup(frames, b), Enter(LookedUp(b)))
    BY <1>1 DEF StepHit, Call
  <2> HIDE DEF b
  <2>3. /\ UntilInv(frames) /\ Matched(frames, Len(frames), calls)
    BY <1>1, AtStepMatched DEF StepHit
  <2>. QED BY <1>t, <1>g, <2>1, <2>2, <2>3, RunDebt
<1>2. CASE StepCompileFunction
  <2> DEFINE b == FnBlock(pc, ~paging)
  <2>1. LookedUp(b) \in Block
    BY <1>t, Blocks
  <2>2. frames' = Append(frames, Enter(LookedUp(b)))
    BY <1>2 DEF StepCompileFunction, Call
  <2> HIDE DEF b
  <2>3. /\ UntilInv(frames) /\ Matched(frames, Len(frames), calls)
    BY <1>2, AtStepMatched DEF StepCompileFunction
  <2>4. /\ Enter(LookedUp(b)) \in Frame /\ ~Owes(Enter(LookedUp(b)))
        /\ Enter(LookedUp(b)).kind # "until" /\ calls \in Seq(Pcs)
    BY <2>1, InvTypes, EnterRuns
  <2>. QED BY <1>t, <1>g, <2>2, <2>3, <2>4, DebtPush
<1>3. CASE StepCollect
  <2> DEFINE f == NewFrame("collect", pc, <<>>, 0)
  <2>1. f \in Frame /\ ~Owes(f) /\ f.kind # "until" /\ calls \in Seq(Pcs)
    BY <1>t, InvTypes, CounterArith DEF NewFrame, Frame, Owes
  <2>2. frames' = Append(frames, f)
    BY <1>3 DEF StepCollect
  <2> HIDE DEF f
  <2>3. /\ UntilInv(frames) /\ Matched(frames, Len(frames), calls)
    BY <1>3, AtStepMatched DEF StepCollect
  <2>. QED BY <1>t, <1>g, <2>1, <2>2, <2>3, DebtPush
<1>4. CASE UntilReturns
  <2>1. /\ frames # <<>> /\ Top.kind = "until" /\ Top.st = "run" /\ frames' = Below
        /\ halt \/ pc = Top.at
    BY <1>4 DEF UntilReturns, Running
  <2>2. CASE halt
    BY <1>g, <2>2 DEF DebtInv
  <2>3. CASE ~halt
    <3>1. UntilInv(frames) /\ calls \in Seq(Pcs)
      BY <2>3, InvTypes DEF DebtInv
    <3>2. CASE Matched(frames, Depth, calls)
      <4>1. Matched(frames, Depth - 1, calls)
        BY <1>t, <3>1, <3>2, Fewer
      <4>. QED BY <1>t, <1>g, <2>1, <3>1, <4>1, DebtStay
    <3>3. CASE Returning
      <4>1. Matched(frames, Depth - 2, calls) /\ pc = Top.at
        BY <2>1, <3>3 DEF Returning
      <4>. QED BY <1>g, <2>1, <2>3, <3>1, <4>1, UntilOver
    <3>. QED BY <2>3, <3>2, <3>3 DEF DebtInv
  <2>. QED BY <2>2, <2>3
<1>. QED BY <1>1, <1>2, <1>3, <1>4 DEF Step
\* A frame that retires an instruction and does not go on after a return.
LEMMA RetireDebt ==
  ASSUME Inv, DebtInv, Supported, frames # <<>>, Top.kind # "until", Top.st = "run",
         NEW p \in Pcs, Guest!Execute(code[pc], p),
         \/ frames' = Below
         \/ /\ code[pc].op # "ret"
            /\ \E f \in Frame : ~Owes(f) /\ f.kind # "until" /\ frames' = WithTop(f)
  PROVE  DebtInv'
<1>1. ~Parked(Top) /\ ~Owes(Top)
  BY DEF Parked, Owes
<1>2. /\ ~halt /\ UntilInv(frames) /\ Matched(frames, Depth - 1, calls)
      /\ frames \in Seq(Frame) /\ calls \in Seq(Pcs)
  BY <1>1, RunMatched, InvTypes
<1>3. CASE code[pc].op = "ret"
  BY <1>1, <1>3, DebtReturn
<1>4. CASE code[pc].op # "ret"
  <2>1. Keeps
    BY <1>2, <1>4, RetireCalls DEF Keeps
  <2>. QED BY <1>2, <2>1, DebtStay
<1>. QED BY <1>3, <1>4

\* The debts under interpretation.
LEMMA InterpretDebt ==
  ASSUME Inv, DebtInv, Supported, Interpret
  PROVE  DebtInv'
<1>t. /\ pc \in Pcs /\ frames \in Seq(Frame)
  BY InvTypes
<1>1. CASE CollectInstr
  <2>1. /\ frames # <<>> /\ Top \in Frame /\ Top.kind = "collect" /\ Top.st = "run"
        /\ Top.pcs \in Seq(Pcs) /\ Top.kind # "until"
    BY <1>1, <1>t, StackTypes DEF CollectInstr, Running, Frame
  <2>2. PICK p \in Pcs :
          /\ Guest!Execute(code[pc], p)
          /\ \/ frames' = Below
             \/ /\ ~halt' /\ p = Inc(pc)
                /\ frames' = WithTop([Top EXCEPT !.pcs = Append(Top.pcs, pc)])
    BY <1>1 DEF CollectInstr, Return
  <2>3. ~halt
    BY <2>1, ExecutingActive
  <2>4. ASSUME p = Inc(pc) PROVE code[pc].op # "ret"
    BY <2>2, <2>3, <2>4, RetireCalls
  <2> DEFINE f == [Top EXCEPT !.pcs = Append(Top.pcs, pc)]
  <2>5. Append(Top.pcs, pc) \in Seq(Pcs)
    BY <1>t, <2>1, PushOps
  <2>6. f \in Frame /\ ~Owes(f) /\ f.kind # "until"
    BY <2>1, <2>5 DEF Frame, Owes
  <2> HIDE DEF f
  <2>7. \/ frames' = Below
        \/ code[pc].op # "ret" /\ frames' = WithTop(f)
    BY <2>2, <2>4 DEF f
  <2>. QED BY <2>1, <2>2, <2>6, <2>7, RetireDebt
<1>2. CASE CachedInstr
  <2>1. /\ frames # <<>> /\ Top \in Frame /\ Top.kind = "cached" /\ Top.st = "run"
        /\ Top.at \in Nat /\ Top.kind # "until" /\ Top.n \in Int
    BY <1>2, <1>t, StackTypes, CounterNat DEF CachedInstr, Running, Frame
  <2>2. ActiveAt(Top, pc) /\ ~halt /\ Pending(Top) = code[pc]
    BY <2>1, ExecutingActive
  <2>3. code[pc].op # "ret"
    <3>1. InBlock(Top, MayFall, pc)
      BY <2>1, <2>2 DEF ActiveAt
    <3>. QED BY <3>1 DEF InBlock, Collected, MayFall, Straight
  <2>4. PICK p \in Pcs :
          /\ Guest!Execute(code[pc], p)
          /\ LET n    == Plus(Top.n, 1)
                 past == Len(Top.pcs) + 1
                 next == CASE halt' -> past
                           [] ~halt' /\ p = Inc(pc) -> Top.at + 1
                           [] ~halt' /\ p # Inc(pc) /\ p = Top.start -> 1
                           [] OTHER -> past
             IN  IF next < past
                   THEN frames' = WithTop([Top EXCEPT !.at = next, !.n = n])
                   ELSE Return(n)
    BY <1>2, <2>2 DEF CachedInstr
  <2> DEFINE n    == Plus(Top.n, 1)
             past == Len(Top.pcs) + 1
             next == CASE halt' -> past
                       [] ~halt' /\ p = Inc(pc) -> Top.at + 1
                       [] ~halt' /\ p # Inc(pc) /\ p = Top.start -> 1
                       [] OTHER -> past
             f    == [Top EXCEPT !.at = next, !.n = n]
  <2>5. n \in Counter
    BY <2>1, CounterArith
  <2>6. next \in Nat
    <3>1. Len(Top.pcs) \in Nat
      BY <2>1 DEF Frame
    <3>. QED BY <2>1, <3>1
  <2>7. frames' = Below \/ frames' = WithTop(f)
    BY <2>4 DEF Return
  <2> HIDE DEF n, past, next
  <2>8. f \in Frame /\ ~Owes(f) /\ f.kind # "until"
    BY <2>1, <2>5, <2>6 DEF Frame, Owes
  <2> HIDE DEF f
  <2>. QED BY <2>1, <2>3, <2>4, <2>7, <2>8, RetireDebt
<1>3. CASE InterpretUnknown
  <2>1. UNCHANGED guest /\ frames' = frames /\ frames # <<>> /\ Top.kind # "until"
        /\ Top.st = "run"
    BY <1>3 DEF InterpretUnknown, Running
  <2>2. ~Parked(Top)
    BY <2>1 DEF Parked
  <2>3. UntilInv(frames) /\ Matched(frames, Len(frames), calls)
    BY <2>1, <2>2, RunMatched DEF Depth
  <2>4. calls' = calls
    BY <2>1, EngineKeeps
  <2>. QED BY <1>t, <2>1, <2>3, <2>4, Settled
<1>. QED BY <1>1, <1>2, <1>3 DEF Interpret

\* A compiled function goes on at a label, or leaves.
LEMMA GoToFrame ==
  ASSUME Inv, frames # <<>>, Top.kind = "fn", NEW p, GoTo(p) \/ Leave
  PROVE  \/ frames' = Below
         \/ \E f \in Frame : ~Owes(f) /\ f.kind # "until" /\ frames' = WithTop(f)
<1>1. Top \in Frame /\ Top.start \in Pcs
  BY InvTypes, StackTypes DEF Frame
<1>2. CASE GoTo(p) /\ IsLabel(p)
  <2>1. p \in Pcs /\ p \in Nat
    <3>1. p \in ExecPcs
      BY <1>1, <1>2, InvTypes, LabelsExec DEF IsLabel
    <3>. QED BY <3>1, Constants, PcNat
  <2> DEFINE f == [Top EXCEPT !.at = p, !.st = "run"]
  <2>2. f \in Frame /\ ~Owes(f) /\ f.kind # "until"
    BY <1>1, <2>1 DEF Frame, Owes
  <2>3. frames' = WithTop(f)
    BY <1>2 DEF GoTo
  <2> HIDE DEF f
  <2>. QED BY <2>2, <2>3
<1>3. CASE Leave \/ ~IsLabel(p)
  BY <1>3 DEF GoTo, Leave, Return
<1>. QED BY <1>2, <1>3
\* The debts under compiled code.
LEMMA CompiledDebt ==
  ASSUME Inv, DebtInv, Supported, RunCompiled
  PROVE  DebtInv'
<1>t. /\ pc \in Pcs /\ frames \in Seq(Frame) /\ calls \in Seq(Pcs)
  BY InvTypes
<1>1. CASE BlockInstr
  <2>1. /\ frames # <<>> /\ Top \in Frame /\ Top.kind = "jitbb" /\ Top.st = "run"
        /\ Top.at \in Nat /\ Top.kind # "until"
    BY <1>1, <1>t, StackTypes DEF BlockInstr, Running, Frame
  <2>2. ActiveAt(Top, pc) /\ ~halt /\ Pending(Top) = code[pc]
    BY <2>1, ExecutingActive
  <2>3. code[pc].op # "ret"
    <3>1. InBlock(Top, Straight, pc)
      BY <2>1, <2>2 DEF ActiveAt
    <3>. QED BY <3>1 DEF InBlock, Collected, Straight
  <2>4. PICK p \in Pcs : Guest!Execute(code[pc], p)
    BY <1>1, <2>2 DEF BlockInstr
  <2> DEFINE f == [Top EXCEPT !.at = @ + 1]
  <2>5. f \in Frame /\ ~Owes(f) /\ f.kind # "until"
    BY <2>1 DEF Frame, Owes
  <2>6. frames' = Below \/ frames' = WithTop(f)
    BY <1>1 DEF BlockInstr, Return
  <2> HIDE DEF f
  <2>. QED BY <2>1, <2>3, <2>4, <2>5, <2>6, RetireDebt
<1>2. CASE FunctionInstr
  <2>1. /\ frames # <<>> /\ Top.kind = "fn" /\ Top.st = "run" /\ Top.kind # "until"
    BY <1>2 DEF FunctionInstr, Running
  <2>2. ~halt /\ Pending(Top) = code[pc]
    BY <2>1, ExecutingActive
  <2>3. PICK p \in Pcs : Guest!Execute(code[pc], p)
    BY <1>2, <2>2 DEF FunctionInstr
  <2>4. CASE code[pc].op = "ret"
    <3>1. frames' = Below
      BY <1>2, <2>2, <2>4 DEF FunctionInstr, Leave, Return
    <3>. QED BY <2>1, <2>3, <3>1, RetireDebt
  <2>5. CASE code[pc].op # "ret"
    <3>1. \E q : GoTo(q) \/ Leave
      BY <1>2, <2>2 DEF FunctionInstr, Dispatch
    <3>2. \/ frames' = Below
          \/ \E f \in Frame : ~Owes(f) /\ f.kind # "until" /\ frames' = WithTop(f)
      BY <2>1, <3>1, GoToFrame
    <3>. QED BY <2>1, <2>3, <2>5, <3>2, RetireDebt
  <2>. QED BY <2>4, <2>5
<1>3. CASE FunctionCall
  <2>1. /\ frames # <<>> /\ Top \in Frame /\ Top.kind = "fn" /\ Top.st = "run"
    BY <1>3, <1>t, StackTypes DEF FunctionCall, Running
  <2>2. ActiveAt(Top, pc) /\ ~halt /\ Pending(Top) = code[pc] /\ Top.at = pc
    BY <2>1, ExecutingActive DEF ActiveAt
  <2>3. PICK p \in Pcs : Guest!Execute(code[pc], p)
    BY <1>3, <2>2 DEF FunctionCall
  <2>4. code[pc].op \in Linking
    BY <1>3, <2>2 DEF FunctionCall, Linking
  <2>5. calls' = Append(calls, Inc(pc)) /\ Inc(pc) \in Pcs /\ calls' \in Seq(Pcs)
    BY <2>2, <2>3, <2>4, RetireCalls
  <2> DEFINE f == [Top EXCEPT !.st = "call"]
  <2>6. f \in Frame /\ f.kind # "until" /\ f.at = pc
    BY <2>1, <2>2 DEF Frame
  <2>7. frames' = WithTop(f)
    BY <1>3 DEF FunctionCall
  <2> HIDE DEF f
  <2>8. /\ frames' \in Seq(Frame) /\ Len(frames') = Depth /\ frames'[Depth] = f
        /\ Depth \in Nat \ {0}
        /\ \A k \in 1 .. (Depth - 1) : frames'[k] = frames[k]
    BY <1>t, <2>1, <2>6, <2>7, StackTypes
  <2>9. ~Parked(Top)
    BY <2>1 DEF Parked
  <2>10. UntilInv(frames) /\ Matched(frames, Depth, calls)
    BY <2>1, <2>9, RunMatched
  <2>11. UntilInv(frames')
    BY <1>t, <2>1, <2>6, <2>7, <2>10, UntilPop
  <2>12. Matched(frames', Depth, calls')
    <3>1. \A k \in 1 .. (Depth - 1) : Owes(frames'[k]) =>
             Owes(frames[k]) /\ frames'[k].at = frames[k].at
      BY <2>8
    <3>2. Inc(pc) = Inc(frames'[Depth].at)
      BY <2>6, <2>8
    <3>. QED BY <1>t, <2>5, <2>8, <2>10, <3>1, <3>2, Borrow, ZenonT(60)
  <2>. QED BY <2>8, <2>11, <2>12, Settled
<1>4. CASE FunctionUnknown
  <2>1. /\ frames # <<>> /\ Top.kind = "fn" /\ Top.st = "run"
        /\ Pending(Top).op = "unknown"
    BY <1>4 DEF FunctionUnknown, Running
  <2>2. Pending(Top) = code[pc] /\ pc \in ExecPcs
    BY <2>1, ExecutingActive DEF ActiveAt
  <2>. QED BY <2>1, <2>2, <1>t, InvTypes DEF Supported, SupportedProgram
<1>. QED BY <1>1, <1>2, <1>3, <1>4 DEF RunCompiled

\* A frame in a call sees every call matched, itself included.
LEMMA WaitingMatched ==
  ASSUME Inv, DebtInv, AtTrampoline
  PROVE  /\ Waiting \in Seq(Frame) /\ UntilInv(Waiting)
         /\ Matched(Waiting, Len(Waiting), calls)
         /\ Waiting # <<>> /\ Owes(Waiting[Len(Waiting)])
         /\ Waiting[Len(Waiting)].at = Top.at
<1> DEFINE f == [Top EXCEPT !.st = "wait"]
<1>1. frames # <<>> /\ Top \in Frame /\ Top.kind = "fn" /\ Top.st = "call"
  BY InvTypes, TrampolineFacts DEF AtTrampoline
<1>2. f \in Frame /\ f.kind # "until" /\ f.at = Top.at /\ Owes(f)
  BY <1>1 DEF Frame, Owes
<1>3. Waiting = WithTop(f)
  BY DEF Waiting
<1> HIDE DEF f
<1>4. ~Parked(Top) /\ Owes(Top)
  BY <1>1 DEF Parked, Owes
<1>5. /\ UntilInv(frames) /\ Matched(frames, Depth, calls)
      /\ frames \in Seq(Frame) /\ calls \in Seq(Pcs)
  BY <1>1, <1>4, RunMatched, InvTypes
<1>6. /\ Waiting \in Seq(Frame) /\ Len(Waiting) = Depth /\ Waiting[Depth] = f
      /\ Waiting # <<>> /\ Depth \in Nat \ {0}
      /\ \A k \in 1 .. (Depth - 1) : Waiting[k] = frames[k]
  BY <1>1, <1>2, <1>3, <1>5, StackTypes
<1>7. UntilInv(Waiting)
  BY <1>1, <1>2, <1>3, <1>5, UntilPop
<1>8. ASSUME NEW k \in 1 .. Depth, Owes(Waiting[k])
      PROVE  k <= Depth /\ Owes(frames[k]) /\ Waiting[k].at = frames[k].at
  <2>1. CASE k = Depth
    BY <2>1, <1>2, <1>4, <1>6 DEF Top
  <2>2. CASE k # Depth
    <3>1. k \in 1 .. (Depth - 1)
      BY <2>2, <1>6
    <3>. QED BY <3>1, <1>6, <1>8
  <2>. QED BY <2>1, <2>2
<1>9. Matched(Waiting, Depth, calls)
  <2>1. /\ Depth \in Int
        /\ \A i \in 1 .. Len(calls) : i <= Len(calls) /\ calls[i] = calls[i]
        /\ \A k \in 1 .. Depth : Owes(Waiting[k]) =>
             k <= Depth /\ Owes(frames[k]) /\ Waiting[k].at = frames[k].at
    BY <1>6, <1>8
  <2>. QED BY <1>5, <2>1, Carry, ZenonT(60)
<1>. QED BY <1>2, <1>6, <1>7, <1>9

\* Nothing moves.
LEMMA DebtSame ==
  ASSUME DebtInv, frames' = frames, calls' = calls, pc' = pc, halt' = halt,
         code' = code
  PROVE  DebtInv'
<1>1. UntilInv(frames)' = UntilInv(frames)
  BY DEF UntilInv, Owes
<1>2. Depth' = Depth /\ Top' = Top
  BY DEF Depth, Top
<1>3. /\ Matched(frames, Depth, calls)' = Matched(frames, Depth, calls)
      /\ Matched(frames, Depth - 1, calls)' = Matched(frames, Depth - 1, calls)
      /\ Matched(frames, Depth - 2, calls)' = Matched(frames, Depth - 2, calls)
  BY <1>2 DEF Matched, Pays, Owes
<1>4. Parked(Top)' = Parked(Top)
  BY <1>2 DEF Parked
<1>5. Returning' = Returning
  BY <1>2, <1>3, <1>4 DEF Returning
<1>. QED BY <1>1, <1>3, <1>5 DEF DebtInv

\* The debts under calls of compiled functions and returns to them.
LEMMA TrampolineDebt ==
  ASSUME Inv, DebtInv, Trampoline
  PROVE  DebtInv'
<1>t. /\ pc \in Pcs /\ paging \in BOOLEAN /\ frames \in Seq(Frame)
      /\ calls \in Seq(Pcs) /\ cache \in [Slots -> Block]
  BY InvTypes
<1>g. /\ Keeps /\ calls' = calls /\ pc' = pc /\ halt' = halt /\ code' = code
  <2>1. UNCHANGED guest
    BY DEF Trampoline, CallCompiled, CallCompileFunction, CallInterpreted,
           PostCall, ReturnToFreedCode
  <2>. QED BY <2>1, EngineKeeps
<1>1. CASE CallCompiled
  <2>1. AtTrampoline
    BY <1>1 DEF CallCompiled
  <2> DEFINE b == LookedUp(Callee)
             fs == AfterLookup(Waiting, Callee)
  <2>2. LookedUp(b) \in Block
    <3>1. Callee \in Block
      BY <2>1, InvTypes, TrampolineFacts
    <3>. QED BY <1>t, <3>1, Blocks
  <2>3. fs \in Seq(Frame) /\ UntilInv(fs) /\ Matched(fs, Len(fs), calls)
    BY <1>t, <2>1, WaitingMatched, LookupMatched
  <2>4. frames' = Append(AfterLookup(fs, b), Enter(LookedUp(b)))
    BY <1>1 DEF CallCompiled, RunCallee, Call
  <2> HIDE DEF b, fs
  <2>. QED BY <1>g, <2>2, <2>3, <2>4, RunDebt
<1>2. CASE CallCompileFunction
  <2>1. AtTrampoline
    BY <1>2 DEF CallCompileFunction
  <2> DEFINE b == FnBlock(CallTarget, ~paging)
  <2>2. LookedUp(b) \in Block
    <3>1. CallTarget \in Pcs
      BY <2>1, InvTypes, TrampolineFacts
    <3>. QED BY <1>t, <3>1, Blocks
  <2>3. /\ Waiting \in Seq(Frame) /\ UntilInv(Waiting)
        /\ Matched(Waiting, Len(Waiting), calls)
    BY <2>1, WaitingMatched
  <2>4. frames' = Append(AfterLookup(Waiting, b), Enter(LookedUp(b)))
    BY <1>2 DEF CallCompileFunction, RunCallee, Call
  <2> HIDE DEF b
  <2>. QED BY <1>g, <2>2, <2>3, <2>4, RunDebt
<1>3. CASE CallInterpreted
  <2>1. AtTrampoline
    BY <1>3 DEF CallInterpreted
  <2>2. /\ Waiting \in Seq(Frame) /\ UntilInv(Waiting)
        /\ Matched(Waiting, Len(Waiting), calls)
        /\ Waiting # <<>> /\ Owes(Waiting[Len(Waiting)])
        /\ Waiting[Len(Waiting)].at = Top.at
    BY <2>1, WaitingMatched
  <2> DEFINE f == NewFrame("until", pc, <<>>, Inc(Top.at))
  <2>3. Inc(Top.at) \in Nat
    BY <2>1, AtCall, PcNat, PcArith
  <2>4. f \in Frame /\ ~Owes(f) /\ f.at = Inc(Top.at)
    BY <1>t, <2>3, CounterArith DEF NewFrame, Frame, Owes
  <2>5. frames' = Append(Waiting, f)
    BY <1>3 DEF CallInterpreted
  <2> HIDE DEF f
  <2>. QED BY <1>t, <1>g, <2>2, <2>4, <2>5, DebtPush
<1>4. CASE PostCall
  <2>1. /\ frames # <<>> /\ Top \in Frame /\ Top.st = "wait" /\ Top.kind = "fn"
    BY <1>4, <1>t, StackTypes DEF PostCall, AtPostCall, Frame
  <2>2. CASE halt
    BY <1>g, <2>2 DEF DebtInv
  <2>3. CASE ~halt
    <3>1. UntilInv(frames) /\ Matched(frames, Depth - 1, calls)
      BY <1>t, <2>1, <2>3, Fewer DEF DebtInv, Returning
    <3>2. \E p : GoTo(p) \/ Leave
      BY <1>4 DEF PostCall
    <3>3. \/ frames' = Below
          \/ \E f \in Frame : ~Owes(f) /\ f.kind # "until" /\ frames' = WithTop(f)
      BY <2>1, <3>2, GoToFrame
    <3>. QED BY <1>t, <1>g, <2>1, <3>1, <3>3, DebtStay
  <2>. QED BY <2>2, <2>3
<1>5. CASE ReturnToFreedCode
  BY <1>5, <1>g, DebtSame DEF ReturnToFreedCode
<1>. QED BY <1>1, <1>2, <1>3, <1>4, <1>5 DEF Trampoline
-------------------------------------------------------------------------------
(* The theorem. *)

\* A loaded program owes nothing.
LEMMA DebtInit == Init => DebtInv
<1> SUFFICES ASSUME Init PROVE DebtInv
  OBVIOUS
<1>1. frames = <<>> /\ calls = <<>>
  BY DEF Init, Guest!Init
<1>2. Depth = 0
  BY <1>1 DEF Depth
<1>3. UntilInv(frames)
  BY <1>1 DEF UntilInv
<1>4. Matched(frames, Depth, calls)
  <2>1. Depth \in Int /\ calls \in Seq(Pcs) /\ \A k \in 1 .. Depth : ~Owes(frames[k])
    BY <1>1, <1>2
  <2>. QED BY <2>1, NoDebt
<1>. QED BY <1>3, <1>4 DEF DebtInv

\* Every step preserves the invariant.
LEMMA DebtNext ==
  ASSUME Supported PROVE Inv /\ DebtInv /\ [Next]_vars => DebtInv'
<1> SUFFICES ASSUME Inv, DebtInv, [Next]_vars PROVE DebtInv'
  OBVIOUS
<1>1. CASE Next
  BY <1>1, StepDebt, InterpretDebt, CompiledDebt, TrampolineDebt DEF Next
<1>2. CASE UNCHANGED vars
  BY <1>2, DebtSame DEF vars
<1>. QED BY <1>1, <1>2

\* Frames with addresses of their own are no more than the addresses.
LEMMA DebtBound ==
  ASSUME Inv, DebtInv PROVE HostStackBounded
<1> SUFFICES ASSUME Executing PROVE Cardinality(Suspended) <= Len(calls)
  BY DEF HostStackBounded
<1>1. frames # <<>> /\ ~Parked(Top) /\ frames \in Seq(Frame) /\ calls \in Seq(Pcs)
  BY InvTypes DEF Executing, Parked
<1>2. Matched(frames, Depth, calls)
  BY <1>1, RunMatched
<1>3. PICK m \in [1 .. Depth -> 0 .. Len(calls)] : Pays(m, frames, Depth, calls)
  BY <1>2 DEF Matched
<1>4. \A k \in Suspended : k \in 1 .. Depth /\ Owes(frames[k])
  BY <1>1 DEF Suspended, Depth, Owes
<1> DEFINE g == [k \in Suspended |-> m[k]]
<1>5. g \in [Suspended -> 1 .. Len(calls)]
  BY <1>3, <1>4 DEF Pays
<1>6. ASSUME NEW k \in Suspended, NEW j \in Suspended, g[k] = g[j] PROVE k = j
  <2>1. /\ k \in 1 .. Depth /\ j \in 1 .. Depth
        /\ Owes(frames[k]) /\ Owes(frames[j]) /\ m[k] = m[j]
    BY <1>4, <1>6
  <2>2. Depth \in Nat /\ m[k] \in Int /\ m[j] \in Int
    BY <1>1, <2>1 DEF Depth
  <2>3. ASSUME NEW x \in 1 .. Depth, NEW y \in 1 .. Depth, x < y,
               Owes(frames[x]), Owes(frames[y])
        PROVE  m[x] < m[y]
    <3>1. x \in 1 .. (y - 1)
      BY <2>2, <2>3
    <3>. QED BY <1>3, <2>3, <3>1 DEF Pays
  <2>. QED BY <2>1, <2>2, <2>3
<1> HIDE DEF g
<1>7. g \in Injection(Suspended, 1 .. Len(calls))
  BY <1>5, <1>6 DEF Injection, IsInjective
<1>8. /\ Len(calls) \in Nat /\ IsFiniteSet(1 .. Len(calls))
      /\ Cardinality(1 .. Len(calls)) = Len(calls)
  <2>1. Len(calls) \in Nat
    BY <1>1
  <2>2. /\ IsFiniteSet(1 .. Len(calls))
        /\ Cardinality(1 .. Len(calls)) = IF 1 > Len(calls) THEN 0 ELSE Len(calls) - 1 + 1
    BY <2>1, FS_Interval
  <2>. QED BY <2>1, <2>2
<1>. QED BY <1>7, <1>8, FS_Injection

\* In a program that fits the cache (NoAlias) and is Supported, every call the
\* host is in is matched, in order, with a return address the guest holds.
THEOREM CallsMatched ==
  ASSUME NoAlias, Supported PROVE SafeSpec => []DebtInv
<1>1. Inv /\ [Next]_vars => Inv'
  BY InvNext
<1>2. Inv /\ DebtInv /\ [Next]_vars => DebtInv'
  BY DebtNext
<1>. QED BY <1>1, <1>2, InvInit, DebtInit, PTL DEF SafeSpec

\* So for such programs the activations of compiled code that are suspended in a
\* call are never more than the calls the guest has not returned from: the host's
\* stack is as deep as the guest's recursion, however long the guest runs.
THEOREM HostBounded ==
  ASSUME NoAlias, Supported PROVE SafeSpec => []HostStackBounded
<1>1. Inv /\ [Next]_vars => Inv'
  BY InvNext
<1>2. Inv /\ DebtInv /\ [Next]_vars => DebtInv'
  BY DebtNext
<1>3. Inv /\ DebtInv => HostStackBounded
  BY DebtBound
<1>. QED BY <1>1, <1>2, <1>3, InvInit, DebtInit, PTL DEF SafeSpec
-------------------------------------------------------------------------------
(* Counting modulo CounterSpace. *)

Multiple(z) == \E q \in Int : z = CounterSpace * q

\* Multiples of the modulus add up.
LEMMA Multiples ==
  /\ Multiple(0) /\ Multiple(CounterSpace)
  /\ \A y, z \in Int : Multiple(y) /\ Multiple(z) => Multiple(y + z) /\ Multiple(y - z)
<1>1. CounterSpace \in Int
  BY Constants
<1>2. 0 = CounterSpace * 0 /\ CounterSpace = CounterSpace * 1
  BY <1>1
<1>3. ASSUME NEW q \in Int, NEW p \in Int
      PROVE  /\ CounterSpace * q + CounterSpace * p = CounterSpace * (q + p)
             /\ CounterSpace * q - CounterSpace * p = CounterSpace * (q - p)
  BY <1>1
<1>4. ASSUME NEW y \in Int, NEW z \in Int, Multiple(y), Multiple(z)
      PROVE  Multiple(y + z) /\ Multiple(y - z)
  <2>1. PICK q \in Int : y = CounterSpace * q
    BY <1>4 DEF Multiple
  <2>2. PICK p \in Int : z = CounterSpace * p
    BY <1>4 DEF Multiple
  <2>3. q + p \in Int /\ q - p \in Int
    OBVIOUS
  <2>. QED BY <1>3, <2>1, <2>2, <2>3 DEF Multiple
<1>. QED BY <1>2, <1>4 DEF Multiple

\* A sum that wraps differs from the sum by a multiple.
LEMMA Wraps ==
  ASSUME NEW m \in Int, NEW n \in Int
  PROVE  Plus(m, n) \in Int /\ Multiple(Plus(m, n) - (m + n))
<1> DEFINE a == m + n
           S == CounterSpace
<1>1. S \in Nat \ {0} /\ a \in Int
  BY Constants
<1>2. a \div S \in Int /\ a % S \in Int /\ a = S * (a \div S) + (a % S)
  BY <1>1
<1>3. (a % S) - a = S * (0 - (a \div S))
  <2>1. S * (0 - (a \div S)) = 0 - S * (a \div S)
    BY <1>1, <1>2
  <2>. QED BY <1>1, <1>2, <2>1
<1>4. 0 - (a \div S) \in Int
  BY <1>2
<1>. QED BY <1>2, <1>3, <1>4 DEF Plus, Multiple

\* A counter is a sum that wraps if they differ by a multiple.
LEMMA WrapsTo ==
  ASSUME NEW c \in Counter, NEW m \in Int, NEW n \in Int, Multiple(c - (m + n))
  PROVE  c = Plus(m, n)
<1> DEFINE d == Plus(m, n)
           S == CounterSpace
<1>1. /\ S \in Nat \ {0} /\ c \in 0 .. (S - 1) /\ d \in 0 .. (S - 1)
  BY Constants, CounterArith DEF Counter
<1>2. Multiple(d - (m + n)) /\ d \in Int
  BY Wraps
<1>3. Multiple(c - d)
  <2> HIDE DEF d
  <2>1. c \in Int /\ c - (m + n) \in Int /\ d - (m + n) \in Int
    BY <1>1, <1>2
  <2>2. Multiple((c - (m + n)) - (d - (m + n)))
    BY <1>2, <2>1, Multiples
  <2>3. (c - (m + n)) - (d - (m + n)) = c - d
    BY <1>2, <2>1
  <2>. QED BY <2>2, <2>3
<1>4. PICK q \in Int : c - d = S * q
  BY <1>3 DEF Multiple
<1> HIDE DEF d, S
<1>5. q = 0
  <2>1. ASSUME q >= 1 PROVE FALSE
    BY <1>1, <1>4, <2>1
  <2>2. ASSUME q <= -1 PROVE FALSE
    BY <1>1, <1>4, <2>2
  <2>. QED BY <2>1, <2>2
<1>6. c = d
  BY <1>1, <1>4, <1>5
<1>. QED BY <1>6 DEF d
-------------------------------------------------------------------------------
(* What is unreported, and where. *)

\* The parts of the type invariant, and of the next.
LEMMA CountTypes ==
  ASSUME Inv
  PROVE  /\ frames \in Seq(Frame) /\ instr_counter \in Int
         /\ cycle \in Int /\ instret \in Counter /\ instret \in Int
         /\ Inv' => /\ frames' \in Seq(Frame) /\ instr_counter' \in Int
                    /\ cycle' \in Int /\ instret' \in Counter /\ instret' \in Int
<1>1. frames \in Seq(Frame) /\ instr_counter \in Counter /\ cycle \in Counter
      /\ instret \in Counter
  BY InvTypes DEF Guest!GuestTypeOK, Counter
<1>2. Inv' => /\ frames' \in Seq(Frame) /\ instr_counter' \in Counter
              /\ cycle' \in Counter /\ instret' \in Counter
  BY DEF Inv, TypeOK, Guest!GuestTypeOK, Counter
<1>. QED BY <1>1, <1>2, CounterNat

\* Both parts are numbers.
LEMMA UnreportedInt ==
  ASSUME NEW fs \in Seq(Frame), NEW c \in Int
  PROVE  Entered(fs, c) \in Int /\ Local(fs) \in Int
<1>1. CASE fs = <<>>
  BY <1>1 DEF Entered, Local
<1>2. CASE fs # <<>>
  <2>1. fs[1] \in Frame /\ fs[Len(fs)] \in Frame
    BY <1>2
  <2>2. \A f \in Frame : f.n \in Int /\ Len(f.pcs) \in Int
    BY CounterNat DEF Frame
  <2>3. Entered(fs, c) \in Int
    BY <2>1, <2>2 DEF Entered
  <2>4. Local(fs) = 0 \/ Local(fs) = Len(fs[Len(fs)].pcs) \/ Local(fs) = fs[Len(fs)].n
    BY DEF Local
  <2>5. Len(fs[Len(fs)].pcs) \in Int /\ fs[Len(fs)].n \in Int
    BY <2>1, <2>2
  <2>. QED BY <2>3, <2>4, <2>5
<1>. QED BY <1>1, <1>2

\* The count after a step that retires r instructions and reports d of them.
LEMMA Counts ==
  ASSUME Inv, Inv', CountInv, OnlyFunctionsCompiled', KindsInv(frames'),
         NEW r \in Int, NEW d \in Int,
         Multiple(instret' - (instret + r)), Multiple(cycle' - (cycle + d)),
         Multiple((Entered(frames', instr_counter') + Local(frames'))
                  - (Unreported + r - d))
  PROVE  CountInv'
<1> DEFINE e == Entered(frames', instr_counter')
           l == Local(frames')
<1>1. /\ cycle \in Int /\ cycle' \in Int /\ instret \in Int /\ instret' \in Int
      /\ instret' \in Counter /\ e \in Int /\ l \in Int /\ Unreported \in Int
  <2>1. /\ frames \in Seq(Frame) /\ instr_counter \in Int
        /\ frames' \in Seq(Frame) /\ instr_counter' \in Int
    BY CountTypes
  <2>2. e \in Int /\ l \in Int
    BY <2>1, UnreportedInt
  <2>3. Entered(frames, instr_counter) \in Int /\ Local(frames) \in Int
    BY <2>1, UnreportedInt
  <2> HIDE DEF e, l
  <2>. QED BY <2>2, <2>3, CountTypes DEF Unreported
<1>2. Unreported' = e + l
  BY DEF Unreported, Entered, Local
<1> HIDE DEF e, l
<1>3. Multiple(instret - (cycle + Unreported))
  BY <1>1, Wraps DEF CountInv
<1> DEFINE u == Unreported
<1>u. u \in Int
  BY <1>1
<1> HIDE DEF u
<1>4. /\ Multiple(instret' - (instret + r)) /\ Multiple(cycle' - (cycle + d))
      /\ Multiple((e + l) - (u + r - d)) /\ Multiple(instret - (cycle + u))
  BY <1>3 DEF e, l, u
<1>5. Multiple((instret' - (instret + r)) + (instret - (cycle + u)))
  <2>1. instret' - (instret + r) \in Int /\ instret - (cycle + u) \in Int
    BY <1>1, <1>u
  <2>. QED BY <1>4, <2>1, Multiples
<1>6. Multiple((cycle' - (cycle + d)) + ((e + l) - (u + r - d)))
  <2>1. cycle' - (cycle + d) \in Int /\ (e + l) - (u + r - d) \in Int
    BY <1>1, <1>u
  <2>. QED BY <1>4, <2>1, Multiples
<1>7. Multiple(instret' - (cycle' + (e + l)))
  <2> DEFINE x == (instret' - (instret + r)) + (instret - (cycle + u))
             y == (cycle' - (cycle + d)) + ((e + l) - (u + r - d))
  <2>1. x \in Int /\ y \in Int /\ x - y = instret' - (cycle' + (e + l))
    BY <1>1, <1>u
  <2>2. Multiple(x) /\ Multiple(y)
    BY <1>5, <1>6
  <2> HIDE DEF x, y
  <2>3. Multiple(x - y)
    BY <2>1, <2>2, Multiples
  <2>. QED BY <2>1, <2>3
<1>8. instret' = Plus(cycle', e + l)
  <2>1. e + l \in Int
    BY <1>1
  <2>. QED BY <1>1, <1>7, <2>1, WrapsTo
<1>9. KindsInv(frames)'
  BY DEF KindsInv
<1>10. Plus(cycle, Unreported)' = Plus(cycle', Unreported')
  BY DEF Plus
<1>. QED BY <1>2, <1>8, <1>9, <1>10 DEF CountInv

\* Every instruction ticks.
LEMMA RetireTicks ==
  ASSUME Inv, NEW i, NEW p, Guest!Execute(i, p)
  PROVE  Multiple(instret' - (instret + 1))
<1>1. instret \in Int
  BY CountTypes
<1>2. instret' = Plus(instret, 1)
  BY DEF Guest!Execute, Guest!Tick, Plus
<1>. QED BY <1>1, <1>2, Wraps

\* A step of the engine alone counts nothing.
LEMMA NothingTicks ==
  ASSUME Inv
  PROVE  /\ UNCHANGED guest => Multiple(instret' - (instret + 0))
         /\ UNCHANGED cycle => Multiple(cycle' - (cycle + 0))
<1>1. instret \in Int /\ cycle \in Int
  BY CountTypes
<1>2. instret - (instret + 0) = 0 /\ cycle - (cycle + 0) = 0 /\ Multiple(0)
  BY <1>1, Multiples
<1>3. UNCHANGED guest => instret' = instret
  BY DEF guest
<1>. QED BY <1>2, <1>3, Zenon

\* A suspended frame keeps no count of its own.
LEMMA ParkedLocal ==
  ASSUME NEW fs \in Seq(Frame), fs # <<>> => fs[Len(fs)].kind \in {"fn", "until"}
  PROVE  Local(fs) = 0
  BY DEF Local

\* The outermost frame below the top is a function, and the next one suspended.
LEMMA BelowKinds ==
  ASSUME Inv, CountInv, frames # <<>>
  PROVE  /\ KindsInv(Below) /\ Local(Below) = 0
         /\ Depth # 1 => /\ Below # <<>> /\ Below[1] = frames[1]
                         /\ frames[1].kind = "fn"
         /\ Depth = 1 => Below = <<>> /\ frames[1] = Top
<1>1. /\ frames \in Seq(Frame) /\ Depth \in Nat \ {0} /\ Below \in Seq(Frame)
      /\ Len(Below) = Depth - 1
      /\ \A k \in 1 .. (Depth - 1) : Below[k] = frames[k] /\ Parked(frames[k])
  BY InvTypes, StackTypes DEF Inv, EngineInv, StackInv
<1>2. KindsInv(Below)
  <2>1. \A k \in 1 .. Len(Below) : k \in 1 .. Len(frames) /\ Below[k] = frames[k]
    BY <1>1 DEF Depth
  <2>. QED BY <2>1 DEF CountInv, KindsInv
<1>3. CASE Depth = 1
  <2>1. Below = <<>> /\ frames[1] = Top
    BY <1>1, <1>3 DEF Top
  <2>2. Local(Below) = 0
    BY <2>1 DEF Local
  <2>. QED BY <1>2, <1>3, <2>1, <2>2
<1>4. CASE Depth # 1
  <2>1. 1 \in 1 .. (Depth - 1) /\ Depth - 1 \in 1 .. (Depth - 1) /\ 1 \in 1 .. Len(frames)
    BY <1>1, <1>4 DEF Depth
  <2>2. Below[1] = frames[1] /\ Parked(frames[1]) /\ Parked(frames[Depth - 1])
        /\ Below[Len(Below)] = frames[Depth - 1]
    BY <1>1, <2>1
  <2>3. frames[1].kind = "fn"
    BY <2>1, <2>2 DEF Parked, CountInv, KindsInv
  <2>4. Local(Below) = 0
    BY <1>1, <2>2, ParkedLocal DEF Parked
  <2>. QED BY <1>1, <1>2, <1>4, <2>1, <2>2, <2>3, <2>4
<1>. QED BY <1>3, <1>4

\* A new topmost frame of the same kind on the same others.
LEMMA TopKinds ==
  ASSUME Inv, CountInv, frames # <<>>, NEW f \in Frame, f.kind = Top.kind,
         frames' = WithTop(f)
  PROVE  /\ KindsInv(frames') /\ frames' # <<>> /\ frames'[Len(frames')] = f
         /\ Depth # 1 => frames'[1] = frames[1] /\ frames[1].kind = "fn"
         /\ Depth = 1 => frames'[1] = f /\ frames[1] = Top
<1>1. /\ frames \in Seq(Frame) /\ Depth \in Nat \ {0}
      /\ Len(frames') = Depth /\ frames'[Depth] = f /\ frames' # <<>>
      /\ \A k \in 1 .. (Depth - 1) : frames'[k] = frames[k]
  BY InvTypes, StackTypes
<1>2. /\ Depth # 1 => frames[1].kind = "fn"
      /\ Depth = 1 => frames[1] = Top
  BY BelowKinds
<1>3. Depth # 1 => frames'[1] = frames[1]
  <2>1. Depth # 1 => 1 \in 1 .. (Depth - 1)
    BY <1>1
  <2>. QED BY <1>1, <2>1
<1>4. ASSUME NEW k \in 1 .. Len(frames') PROVE frames'[k].kind = frames[k].kind
                                              /\ k \in 1 .. Len(frames)
  <2>1. CASE k = Depth
    BY <1>1, <2>1 DEF Top, Depth
  <2>2. CASE k # Depth
    <3>1. k \in 1 .. (Depth - 1)
      BY <1>1, <2>2
    <3>. QED BY <1>1, <3>1 DEF Depth
  <2>. QED BY <2>1, <2>2
<1>5. KindsInv(frames')
  BY <1>4 DEF CountInv, KindsInv
<1>. QED BY <1>1, <1>2, <1>3, <1>5
\* A compiled function counts what it retires, and goes on or leaves.
LEMMA FunctionCounts ==
  ASSUME Inv, Inv', CountInv, OnlyFunctionsCompiled', frames # <<>>, Top.kind = "fn",
         NEW r \in Int, Multiple(instret' - (instret + r)),
         Multiple(instr_counter' - (instr_counter + r)),
         \/ Leave
         \/ /\ \E f \in Frame : f.kind = "fn" /\ f.n = Top.n /\ frames' = WithTop(f)
            /\ UNCHANGED cycle
  PROVE  CountInv'
<1> DEFINE b == frames[1]
           i == instr_counter
           j == instr_counter'
<1>1. /\ frames \in Seq(Frame) /\ b \in Frame /\ Top \in Frame
      /\ i \in Int /\ j \in Int /\ b.n \in Int /\ Top.n \in Int /\ cycle \in Int
  <2>1. frames \in Seq(Frame) /\ b \in Frame /\ Top \in Frame
    <3>1. frames \in Seq(Frame)
      BY CountTypes
    <3>2. Top \in Frame /\ 1 \in 1 .. Len(frames)
      BY <3>1, StackTypes
    <3>. QED BY <3>1, <3>2
  <2>2. b.n \in Int /\ Top.n \in Int
    BY <2>1, CounterNat DEF Frame
  <2>. QED BY <2>1, <2>2, CountTypes
<1>2. b.kind = "fn" /\ Unreported = i - b.n
  <2>1. b.kind = "fn"
    BY BelowKinds
  <2>2. Local(frames) = 0
    BY DEF Local, Top, Depth
  <2>. QED BY <1>1, <2>1, <2>2 DEF Unreported, Entered
<1>3. ASSUME KindsInv(frames'), UNCHANGED cycle,
             Entered(frames', j) + Local(frames') = j - b.n
      PROVE  CountInv'
  <2>1. Multiple(cycle' - (cycle + 0))
    BY <1>3, NothingTicks
  <2>2. (j - b.n) - ((i - b.n) + r - 0) = j - (i + r)
    BY <1>1
  <2>3. Multiple((Entered(frames', j) + Local(frames')) - (Unreported + r - 0))
    BY <1>2, <1>3, <2>2
  <2>. QED BY <1>3, <2>1, <2>3, Counts
<1>4. ASSUME NEW f \in Frame, f.kind = "fn", f.n = Top.n, frames' = WithTop(f),
             UNCHANGED cycle
      PROVE  CountInv'
  <2>1. /\ KindsInv(frames') /\ frames' # <<>> /\ frames'[Len(frames')] = f
        /\ frames'[1].kind = "fn" /\ frames'[1].n = b.n
    BY <1>2, <1>4, TopKinds
  <2>2. Local(frames') = 0
    BY <1>4, <2>1 DEF Local
  <2>3. Entered(frames', j) = j - b.n
    BY <2>1 DEF Entered
  <2>4. Entered(frames', j) + Local(frames') = j - b.n
    BY <1>1, <2>2, <2>3
  <2>. QED BY <1>3, <1>4, <2>1, <2>4
<1>5. CASE Leave /\ Depth # 1
  <2>1. /\ frames' = Below /\ UNCHANGED cycle
    BY <1>5 DEF Leave, Return
  <2>2. /\ KindsInv(frames') /\ Local(frames') = 0 /\ frames' # <<>> /\ frames'[1] = b
    BY <1>5, <2>1, BelowKinds
  <2>3. Entered(frames', j) = j - b.n
    BY <1>2, <2>2 DEF Entered
  <2>4. Entered(frames', j) + Local(frames') = j - b.n
    BY <1>1, <2>2, <2>3
  <2>. QED BY <1>3, <2>1, <2>2, <2>4
<1>6. CASE Leave /\ Depth = 1
  <2> DEFINE S == CounterSpace
             e == Plus(j, S - b.n)
             d == j - b.n
  <2>1. /\ frames' = Below /\ cycle' = Plus(cycle, e) /\ Below = <<>>
        /\ KindsInv(frames') /\ Local(frames') = 0 /\ frames[1] = Top
    BY <1>6, BelowKinds DEF Leave, Return
  <2>2. S \in Int /\ S - b.n \in Int /\ d \in Int
    BY <1>1, Constants
  <2>3. e \in Int /\ Multiple(e - (j + (S - b.n)))
    BY <1>1, <2>2, Wraps
  <2>4. Multiple(cycle' - (cycle + e)) /\ cycle' \in Int
    BY <1>1, <2>1, <2>3, Wraps
  <2>5. Multiple(S)
    BY Multiples
  <2>6. Multiple(cycle' - (cycle + d))
    <3> DEFINE n  == b.n
               c  == cycle
               c2 == cycle'
               x  == c2 - (c + e)
               y  == e - (j + (S - n))
    <3>1. S \in Int /\ e \in Int /\ j \in Int /\ n \in Int /\ c \in Int /\ c2 \in Int
      BY <1>1, <2>2, <2>3, <2>4
    <3>2. /\ x = c2 - (c + e) /\ y = e - (j + (S - n))
          /\ cycle' - (cycle + d) = c2 - (c + (j - n))
      OBVIOUS
    <3> HIDE DEF x, y, d, e, S, j, n, c, c2
    <3>3. x \in Int /\ y \in Int /\ (x + y) + S = c2 - (c + (j - n))
      BY <3>1, <3>2
    <3>4. Multiple(x) /\ Multiple(y)
      BY <2>3, <2>4 DEF x, y, n, c, c2, e, S, j
    <3>5. x + y \in Int /\ Multiple(x + y)
      BY <3>3, <3>4, Multiples
    <3>6. Multiple((x + y) + S)
      BY <2>5, <3>1, <3>5, Multiples
    <3>. QED BY <3>2, <3>3, <3>6
  <2>7. Entered(frames', j) = 0
    BY <2>1 DEF Entered
  <2>8. (0 + 0) - ((i - b.n) + r - d) = j - (i + r)
    BY <1>1
  <2>9. Multiple((Entered(frames', j) + Local(frames')) - (Unreported + r - d))
    BY <1>2, <2>1, <2>7, <2>8
  <2> HIDE DEF d
  <2>. QED BY <2>1, <2>2, <2>6, <2>9, Counts
<1>. QED BY <1>4, <1>5, <1>6

\* A step that interprets keeps the count to itself.
LEMMA LocalGrows ==
  ASSUME Inv, Inv', CountInv, OnlyFunctionsCompiled', frames # <<>>,
         Multiple(instret' - (instret + 1)), UNCHANGED <<cycle, instr_counter>>,
         NEW f \in Frame, f.kind = Top.kind, Top.kind # "fn", frames' = WithTop(f),
         Multiple(Local(frames') - (Local(frames) + 1))
  PROVE  CountInv'
<1>1. /\ frames \in Seq(Frame) /\ frames' \in Seq(Frame) /\ instr_counter \in Int
  BY CountTypes
<1>2. /\ Entered(frames, instr_counter) \in Int
      /\ Local(frames) \in Int /\ Local(frames') \in Int
  BY <1>1, UnreportedInt
<1>3. /\ KindsInv(frames') /\ frames' # <<>>
      /\ Depth # 1 => frames'[1] = frames[1]
      /\ Depth = 1 => frames'[1] = f /\ frames[1] = Top
  BY TopKinds
<1>4. Entered(frames', instr_counter') = Entered(frames, instr_counter)
  BY <1>3 DEF Entered
<1>5. Multiple(cycle' - (cycle + 0))
  BY NothingTicks
<1>6. Multiple((Entered(frames', instr_counter') + Local(frames'))
               - (Unreported + 1 - 0))
  <2> DEFINE e == Entered(frames, instr_counter)
             l == Local(frames)
             m == Local(frames')
  <2>1. e \in Int /\ l \in Int /\ m \in Int
    BY <1>2
  <2> HIDE DEF e, l, m
  <2>2. (e + m) - ((e + l) + 1 - 0) = m - (l + 1)
    BY <2>1
  <2>. QED BY <1>4, <2>2 DEF e, l, m, Unreported
<1>. QED BY <1>3, <1>5, <1>6, Counts

\* In the end it reports it.
LEMMA LocalReports ==
  ASSUME Inv, Inv', CountInv, OnlyFunctionsCompiled', frames # <<>>,
         Multiple(instret' - (instret + 1)), Top.kind # "fn",
         NEW n \in Int, Multiple(n - (Local(frames) + 1)), Return(n),
         instr_counter' = Plus(instr_counter, n)
  PROVE  CountInv'
<1> DEFINE i == instr_counter
           j == instr_counter'
           l == Local(frames)
<1>1. /\ frames \in Seq(Frame) /\ i \in Int /\ cycle \in Int /\ l \in Int /\ j \in Int
      /\ frames[1] \in Frame
  <2>1. frames \in Seq(Frame) /\ i \in Int /\ cycle \in Int /\ j \in Int
    BY CountTypes
  <2>2. l \in Int
    BY <2>1, UnreportedInt
  <2>. QED BY <2>1, <2>2
<1>2. frames' = Below /\ KindsInv(frames') /\ Local(frames') = 0
  BY BelowKinds DEF Return
<1>3. CASE Depth = 1
  <2>1. cycle' = Plus(cycle, n) /\ frames' = <<>> /\ frames[1] = Top
    BY <1>2, <1>3, BelowKinds DEF Return
  <2>2. Multiple(cycle' - (cycle + n))
    BY <1>1, <2>1, Wraps
  <2>3. Entered(frames', j) = 0 /\ Entered(frames, i) = 0
    BY <2>1 DEF Entered
  <2>4. Multiple((Entered(frames', j) + Local(frames')) - (Unreported + 1 - n))
    <3> HIDE DEF l
    <3>1. (0 + 0) - ((0 + l) + 1 - n) = n - (l + 1)
      BY <1>1
    <3>. QED BY <1>2, <2>3, <3>1 DEF Unreported, l
  <2>. QED BY <1>2, <2>2, <2>4, Counts
<1>4. CASE Depth # 1
  <2> DEFINE b == frames[1].n
  <2>1. /\ cycle' = cycle /\ frames' # <<>> /\ frames'[1] = frames[1]
        /\ frames[1].kind = "fn" /\ b \in Int
    BY <1>1, <1>2, <1>4, BelowKinds, CounterNat DEF Return, Frame
  <2>2. Multiple(cycle' - (cycle + 0))
    BY <2>1, NothingTicks
  <2>3. Entered(frames', j) = j - b /\ Entered(frames, i) = i - b
    BY <2>1 DEF Entered
  <2>4. Multiple(j - (i + n))
    BY <1>1, Wraps
  <2>5. Multiple((Entered(frames', j) + Local(frames')) - (Unreported + 1 - 0))
    <3> HIDE DEF l, b
    <3>1. (j - (i + n)) + (n - (l + 1)) = ((j - b) + 0) - (((i - b) + l) + 1 - 0)
      BY <1>1, <2>1
    <3>2. Multiple((j - (i + n)) + (n - (l + 1)))
      <4>1. j - (i + n) \in Int /\ n - (l + 1) \in Int /\ Multiple(n - (l + 1))
        BY <1>1 DEF l
      <4>. QED BY <2>4, <4>1, Multiples
    <3>. QED BY <1>2, <2>3, <3>1, <3>2 DEF Unreported, l
  <2>. QED BY <1>2, <2>2, <2>5, Counts
<1>. QED BY <1>3, <1>4
-------------------------------------------------------------------------------
(* The count under each action. *)

\* With jit_bound 0 no lookup compiles.
LEMMA NeverCompiles ==
  ASSUME JitBound = 0, NEW b \in Block
  PROVE  /\ ~Compiles(b) /\ LookedUp(b).jitted = b.jitted /\ LookedUp(b).kind = b.kind
         /\ \A fs : AfterLookup(fs, b) = fs
<1>1. b.rate \in Nat
  BY DEF Block
<1>2. ~Compiles(b)
  BY <1>1 DEF Compiles, Bump
<1>. QED BY <1>2 DEF LookedUp, AfterLookup, Block

\* A block goes into the cache.
LEMMA CacheFunctions ==
  ASSUME CountInv, NEW s \in Slots, NEW b \in Block, b.jitted => b.kind = "fn",
         cache \in [Slots -> Block], cache' = [cache EXCEPT ![s] = b]
  PROVE  OnlyFunctionsCompiled'
<1>1. ASSUME NEW t \in Slots, cache'[t].jitted PROVE cache'[t].kind = "fn"
  <2>1. CASE t = s
    BY <1>1, <2>1
  <2>2. CASE t # s
    BY <1>1, <2>2 DEF CountInv, OnlyFunctionsCompiled
  <2>. QED BY <2>1, <2>2
<1>. QED BY <1>1 DEF OnlyFunctionsCompiled

\* None does.
LEMMA CacheStays ==
  ASSUME CountInv, cache' = cache PROVE OnlyFunctionsCompiled'
  BY DEF CountInv, OnlyFunctionsCompiled

\* A step that changes neither the guest nor the engine changes no count.
LEMMA CountSame ==
  ASSUME CountInv,
         UNCHANGED <<cache, frames, instr_counter, cycle, instret>>
  PROVE  CountInv'
  BY DEF CountInv, OnlyFunctionsCompiled, KindsInv, Unreported, Entered, Local, Plus

\* A new activation has nothing to report.
LEMMA PushCounts ==
  ASSUME Inv, Inv', CountInv, OnlyFunctionsCompiled',
         UNCHANGED guest, UNCHANGED <<cycle, instr_counter>>, Local(frames) = 0,
         NEW gs \in Seq(Frame), Len(gs) = Len(frames),
         \A k \in 1 .. Len(gs) : gs[k].kind = frames[k].kind /\ gs[k].n = frames[k].n,
         NEW f \in Frame, frames' = Append(gs, f), f.kind # "jitbb",
         frames = <<>> => f.kind # "until",
         f.kind = "collect" => f.pcs = <<>>,
         f.kind = "cached" => f.n = 0,
         f.kind = "fn" => f.n = instr_counter
  PROVE  CountInv'
<1>1. /\ frames \in Seq(Frame) /\ instr_counter \in Int /\ Len(frames) \in Nat
      /\ Len(frames') = Len(gs) + 1 /\ frames'[Len(gs) + 1] = f /\ frames' # <<>>
      /\ \A k \in 1 .. Len(gs) : frames'[k] = gs[k]
  BY CountTypes, PushOps
<1>2. KindsInv(frames')
  <2>1. ASSUME NEW k \in 1 .. Len(frames')
        PROVE  frames'[k].kind # "jitbb" /\ (k = 1 => frames'[k].kind # "until")
    <3>1. CASE k = Len(gs) + 1
      <4>1. k = 1 => frames = <<>>
        BY <1>1, <3>1
      <4>. QED BY <1>1, <3>1, <4>1
    <3>2. CASE k # Len(gs) + 1
      <4>1. k \in 1 .. Len(gs) /\ k \in 1 .. Len(frames)
        BY <1>1, <3>2
      <4>2. KindsInv(frames)
        BY DEF CountInv
      <4>3. frames[k].kind # "jitbb" /\ (k = 1 => frames[k].kind # "until")
        BY <4>1, <4>2, Zenon DEF KindsInv
      <4>4. frames'[k].kind = frames[k].kind
        BY <1>1, <4>1
      <4>. QED BY <4>3, <4>4, Zenon
    <3>. QED BY <3>1, <3>2
  <2>. QED BY <2>1 DEF KindsInv
<1>3. Local(frames') = 0
  BY <1>1 DEF Local
<1>4. Entered(frames', instr_counter) = Entered(frames, instr_counter)
  <2>1. CASE frames = <<>>
    <3>1. frames'[1] = f
      BY <1>1, <2>1
    <3>2. instr_counter - instr_counter = 0
      BY <1>1
    <3>. QED BY <1>1, <2>1, <3>1, <3>2 DEF Entered
  <2>2. CASE frames # <<>>
    <3>1. 1 \in 1 .. Len(gs)
      BY <1>1, <2>2
    <3>2. frames'[1].kind = frames[1].kind /\ frames'[1].n = frames[1].n
      BY <1>1, <3>1
    <3>. QED BY <1>1, <2>2, <3>2 DEF Entered
  <2>. QED BY <2>1, <2>2
<1>5. Multiple(instret' - (instret + 0)) /\ Multiple(cycle' - (cycle + 0))
  BY NothingTicks
<1>6. Multiple((Entered(frames', instr_counter') + Local(frames')) - (Unreported + 0 - 0))
  <2> DEFINE e == Entered(frames, instr_counter)
  <2>1. e \in Int
    BY <1>1, UnreportedInt
  <2> HIDE DEF e
  <2>2. (e + 0) - ((e + 0) + 0 - 0) = 0
    BY <2>1
  <2>. QED BY <1>3, <1>4, <2>2, Multiples DEF Unreported, e
<1>. QED BY <1>2, <1>5, <1>6, Counts

\* Nor has the activation of a block.
LEMMA EnterCounts ==
  ASSUME Inv, NEW b \in Block, b.jitted => b.kind = "fn"
  PROVE  /\ Enter(b) \in Frame /\ Enter(b).kind \in {"fn", "cached"}
         /\ Enter(b).kind = "cached" => Enter(b).n = 0
         /\ Enter(b).kind = "fn" => Enter(b).n = instr_counter
<1>1. Enter(b) \in Frame
  BY InvTypes, EnterFrame
<1>2. CASE b.jitted
  BY <1>1, <1>2 DEF Enter, NewFrame
<1>3. CASE ~b.jitted
  BY <1>1, <1>3 DEF Enter, NewFrame
<1>. QED BY <1>1, <1>2, <1>3

\* A block is looked up and run.
LEMMA RunCounts ==
  ASSUME JitBound = 0, Inv, Inv', CountInv,
         UNCHANGED guest, UNCHANGED <<cycle, instr_counter>>, Local(frames) = 0,
         NEW gs \in Seq(Frame), Len(gs) = Len(frames),
         \A k \in 1 .. Len(gs) : gs[k].kind = frames[k].kind /\ gs[k].n = frames[k].n,
         NEW s \in Slots, NEW b \in Block, b.jitted => b.kind = "fn",
         cache' = [cache EXCEPT ![s] = LookedUp(b)],
         frames' = Append(gs, Enter(LookedUp(b)))
  PROVE  CountInv'
<1>1. /\ cache \in [Slots -> Block] /\ LookedUp(b) \in Block
      /\ LookedUp(b).jitted => LookedUp(b).kind = "fn"
  BY InvTypes, Blocks, NeverCompiles
<1>2. OnlyFunctionsCompiled'
  BY <1>1, CacheFunctions
<1> DEFINE f == Enter(LookedUp(b))
<1>3. /\ f \in Frame /\ f.kind \in {"fn", "cached"}
      /\ f.kind = "cached" => f.n = 0
      /\ f.kind = "fn" => f.n = instr_counter
  BY <1>1, EnterCounts
<1>4. frames' = Append(gs, f)
  OBVIOUS
<1> HIDE DEF f
<1>. QED BY <1>2, <1>3, <1>4, PushCounts
\* The count under Machine::run, run_until_pc and Hart::step.
LEMMA StepCounts ==
  ASSUME JitBound = 0, Inv, Inv', CountInv, Step
  PROVE  CountInv'
<1>t. /\ pc \in Pcs /\ paging \in BOOLEAN /\ frames \in Seq(Frame)
      /\ cache \in [Slots -> Block] /\ Slot(pc) \in Slots
      /\ \A k \in 1 .. Len(frames) : frames[k].kind = frames[k].kind
                                     /\ frames[k].n = frames[k].n
  BY InvTypes, PcArith
<1>g. UNCHANGED guest /\ UNCHANGED instr_counter
  BY DEF Step, StepHit, StepCompileFunction, StepCollect, UntilReturns
<1>s. AtStep => Local(frames) = 0
  BY DEF AtStep, Local, Top, Depth
<1>1. CASE StepHit
  <2> DEFINE b == cache[Slot(pc)]
  <2>1. b \in Block /\ (b.jitted => b.kind = "fn")
    BY <1>t DEF CountInv, OnlyFunctionsCompiled
  <2>2. /\ cache' = [cache EXCEPT ![Slot(pc)] = LookedUp(b)] /\ UNCHANGED cycle
        /\ frames' = Append(AfterLookup(frames, b), Enter(LookedUp(b))) /\ AtStep
    BY <1>1 DEF StepHit, Call
  <2> HIDE DEF b
  <2>3. AfterLookup(frames, b) = frames
    BY <2>1, NeverCompiles
  <2>. QED BY <1>t, <1>g, <1>s, <2>1, <2>2, <2>3, RunCounts
<1>2. CASE StepCompileFunction
  <2> DEFINE b == FnBlock(pc, ~paging)
  <2>1. b \in Block /\ (b.jitted => b.kind = "fn")
    BY <1>t, Blocks DEF FnBlock
  <2>2. /\ cache' = [cache EXCEPT ![Slot(pc)] = LookedUp(b)] /\ UNCHANGED cycle
        /\ frames' = Append(frames, Enter(LookedUp(b))) /\ AtStep
    BY <1>2 DEF StepCompileFunction, Call
  <2> HIDE DEF b
  <2>. QED BY <1>t, <1>g, <1>s, <2>1, <2>2, RunCounts
<1>3. CASE StepCollect
  <2> DEFINE f == NewFrame("collect", pc, <<>>, 0)
  <2>1. f \in Frame /\ f.kind = "collect" /\ f.pcs = <<>>
    BY <1>t, CounterArith DEF NewFrame, Frame
  <2>2. frames' = Append(frames, f) /\ cache' = cache /\ UNCHANGED cycle /\ AtStep
    BY <1>3 DEF StepCollect
  <2> HIDE DEF f
  <2>3. OnlyFunctionsCompiled'
    BY <2>2, CacheStays
  <2>4. /\ f.kind # "jitbb" /\ f.kind # "until" /\ f.kind # "cached" /\ f.kind # "fn"
    BY <2>1
  <2>. QED BY <1>t, <1>g, <1>s, <2>1, <2>2, <2>3, <2>4, PushCounts
<1>4. CASE UntilReturns
  <2>1. /\ frames # <<>> /\ Top.kind = "until" /\ frames' = Below /\ cache' = cache
        /\ UNCHANGED cycle
    BY <1>4 DEF UntilReturns, Running
  <2>2. Depth # 1
    <3>1. Len(frames) \in 1 .. Len(frames)
      BY <1>t, <2>1
    <3>. QED BY <2>1, <3>1 DEF CountInv, KindsInv, Top, Depth
  <2>3. /\ KindsInv(frames') /\ Local(frames') = 0 /\ frames' # <<>>
        /\ frames'[1] = frames[1]
    BY <2>1, <2>2, BelowKinds
  <2>4. Local(frames) = 0
    BY <2>1 DEF Local, Top, Depth
  <2>5. Entered(frames', instr_counter') = Entered(frames, instr_counter)
    BY <1>g, <2>1, <2>3 DEF Entered
  <2>6. Multiple(instret' - (instret + 0)) /\ Multiple(cycle' - (cycle + 0))
    BY <1>g, <2>1, NothingTicks
  <2>7. Multiple((Entered(frames', instr_counter') + Local(frames'))
                 - (Unreported + 0 - 0))
    <3> DEFINE e == Entered(frames, instr_counter)
    <3>1. e \in Int
      BY <1>t, CountTypes, UnreportedInt
    <3> HIDE DEF e
    <3>2. (e + 0) - ((e + 0) + 0 - 0) = 0
      BY <3>1
    <3>. QED BY <2>3, <2>4, <2>5, <3>2, Multiples DEF Unreported, e
  <2>8. OnlyFunctionsCompiled'
    BY <2>1, CacheStays
  <2>. QED BY <2>3, <2>6, <2>7, <2>8, Counts
<1>. QED BY <1>1, <1>2, <1>3, <1>4 DEF Step
\* The count under interpretation.
LEMMA InterpretCounts ==
  ASSUME Inv, Inv', CountInv, Interpret
  PROVE  CountInv'
<1>t. /\ pc \in Pcs /\ paging \in BOOLEAN /\ frames \in Seq(Frame)
      /\ cache \in [Slots -> Block]
  BY InvTypes
<1>1. CASE CollectInstr
  <2>1. /\ frames # <<>> /\ Top \in Frame /\ Top.kind = "collect" /\ Top.st = "run"
        /\ Top.pcs \in Seq(Pcs) /\ Top.start \in Pcs
    BY <1>1, <1>t, StackTypes DEF CollectInstr, Running, Frame
  <2>2. PICK p \in Pcs :
          /\ Guest!Execute(code[pc], p)
          /\ LET leaves    == halt' \/ p # Inc(pc)
                 collected == IF leaves THEN Top.pcs ELSE Append(Top.pcs, pc)
                 executed  == Len(Top.pcs) + 1
             IN  IF leaves \/ executed = MaxBB
                   THEN /\ Install(Top.start, collected)
                        /\ Return(executed)
                        /\ instr_counter' = Plus(instr_counter, executed)
                   ELSE /\ frames' = WithTop([Top EXCEPT !.pcs = collected])
                        /\ UNCHANGED <<cache, instr_counter, cycle>>
    BY <1>1 DEF CollectInstr
  <2> DEFINE leaves    == halt' \/ p # Inc(pc)
             collected == IF leaves THEN Top.pcs ELSE Append(Top.pcs, pc)
             executed  == Len(Top.pcs) + 1
             f         == [Top EXCEPT !.pcs = collected]
  <2>3. Multiple(instret' - (instret + 1))
    BY <2>2, RetireTicks
  <2>4. Local(frames) = Len(Top.pcs) /\ Len(Top.pcs) \in Int
    BY <2>1 DEF Local, Top, Depth
  <2>5. /\ Append(Top.pcs, pc) \in Seq(Pcs) /\ collected \in Seq(Pcs)
        /\ Len(Append(Top.pcs, pc)) = Len(Top.pcs) + 1
    BY <1>t, <2>1, PushOps
  <2>6. Multiple(executed - (Local(frames) + 1)) /\ executed \in Int
    <3>1. executed - (Local(frames) + 1) = 0 /\ executed \in Int
      BY <2>4
    <3>. QED BY <3>1, Multiples
  <2>7. CASE leaves \/ executed = MaxBB
    <3>1. /\ Install(Top.start, collected) /\ Return(executed)
          /\ instr_counter' = Plus(instr_counter, executed)
      BY <2>2, <2>7
    <3>2. OnlyFunctionsCompiled'
      <4>1. CASE collected = <<>>
        BY <3>1, <4>1, CacheStays DEF Install
      <4>2. CASE collected # <<>>
        <5> HIDE DEF collected
        <5> DEFINE b == BasicBlock(Top.start, collected)
        <5>1. b \in Block /\ ~b.jitted /\ Slot(Top.start) \in Slots
          BY <1>t, <2>1, <2>5, Blocks, PcArith DEF BasicBlock
        <5>2. cache' = [cache EXCEPT ![Slot(Top.start)] = b]
          BY <3>1, <4>2 DEF Install
        <5> HIDE DEF b
        <5>. QED BY <1>t, <5>1, <5>2, CacheFunctions
      <4>. QED BY <4>1, <4>2
    <3> HIDE DEF executed
    <3>. QED BY <2>1, <2>3, <2>6, <3>1, <3>2, LocalReports
  <2>8. CASE ~(leaves \/ executed = MaxBB)
    <3>1. /\ frames' = WithTop(f) /\ UNCHANGED <<cycle, instr_counter>> /\ cache' = cache
          /\ f.pcs = Append(Top.pcs, pc)
      BY <2>1, <2>2, <2>8 DEF Frame
    <3>2. f \in Frame /\ f.kind = "collect"
      <4> HIDE DEF collected
      <4>. QED BY <2>1, <2>5 DEF Frame
    <3>3. OnlyFunctionsCompiled'
      BY <3>1, CacheStays
    <3> HIDE DEF f
    <3>4. frames' # <<>> /\ frames'[Len(frames')] = f
      BY <2>1, <3>1, <3>2, TopKinds
    <3>5. Local(frames') = executed
      BY <2>5, <3>1, <3>2, <3>4 DEF Local
    <3> HIDE DEF executed
    <3>6. Multiple(Local(frames') - (Local(frames) + 1))
      BY <2>6, <3>5
    <3>. QED BY <2>1, <2>3, <3>1, <3>2, <3>3, <3>6, LocalGrows
  <2>. QED BY <2>7, <2>8
<1>2. CASE CachedInstr
  <2>1. /\ frames # <<>> /\ Top \in Frame /\ Top.kind = "cached" /\ Top.st = "run"
        /\ Top.at \in Nat /\ Top.n \in Int /\ Len(Top.pcs) \in Nat
    BY <1>2, <1>t, StackTypes, CounterNat DEF CachedInstr, Running, Frame
  <2>2. PICK p \in Pcs :
          /\ Guest!Execute(Pending(Top), p)
          /\ LET n    == Plus(Top.n, 1)
                 past == Len(Top.pcs) + 1
                 next == CASE halt' -> past
                           [] ~halt' /\ p = Inc(pc) -> Top.at + 1
                           [] ~halt' /\ p # Inc(pc) /\ p = Top.start -> 1
                           [] OTHER -> past
             IN  IF next < past
                   THEN /\ frames' = WithTop([Top EXCEPT !.at = next, !.n = n])
                        /\ UNCHANGED <<instr_counter, cycle>>
                   ELSE /\ Return(n)
                        /\ instr_counter' = Plus(instr_counter, n)
    BY <1>2 DEF CachedInstr
  <2> DEFINE n    == Plus(Top.n, 1)
             past == Len(Top.pcs) + 1
             next == CASE halt' -> past
                       [] ~halt' /\ p = Inc(pc) -> Top.at + 1
                       [] ~halt' /\ p # Inc(pc) /\ p = Top.start -> 1
                       [] OTHER -> past
             f    == [Top EXCEPT !.at = next, !.n = n]
  <2>3. Multiple(instret' - (instret + 1))
    BY <2>2, RetireTicks
  <2>4. OnlyFunctionsCompiled'
    BY <1>2, CacheStays DEF CachedInstr
  <2>5. Local(frames) = Top.n
    BY <2>1 DEF Local, Top, Depth
  <2>6. n \in Counter /\ n \in Int /\ Multiple(n - (Local(frames) + 1))
    <3>1. n \in Counter
      BY <2>1, CounterArith
    <3>2. 1 \in Int
      OBVIOUS
    <3>3. Plus(Top.n, 1) \in Int /\ Multiple(Plus(Top.n, 1) - (Top.n + 1))
      BY <2>1, <3>2, Wraps, Zenon
    <3>. QED BY <2>5, <3>1, <3>3
  <2>7. next \in Nat
    BY <2>1
  <2>8. IF next < past
          THEN frames' = WithTop(f) /\ UNCHANGED <<instr_counter, cycle>>
          ELSE Return(n) /\ instr_counter' = Plus(instr_counter, n)
    BY <2>2
  <2> HIDE DEF n, past, next
  <2>9. f \in Frame /\ f.kind = "cached" /\ f.n = n
    BY <2>1, <2>6, <2>7 DEF Frame
  <2> HIDE DEF f
  <2>10. CASE next < past
    <3>1. frames' = WithTop(f) /\ UNCHANGED <<cycle, instr_counter>>
      BY <2>8, <2>10
    <3>2. frames' # <<>> /\ frames'[Len(frames')] = f
      BY <2>1, <2>9, <3>1, TopKinds
    <3>3. Local(frames') = n
      BY <2>9, <3>2 DEF Local
    <3>. QED BY <2>1, <2>3, <2>4, <2>6, <2>9, <3>1, <3>3, LocalGrows
  <2>11. CASE ~(next < past)
    <3>1. Return(n) /\ instr_counter' = Plus(instr_counter, n)
      BY <2>8, <2>11
    <3>. QED BY <2>1, <2>3, <2>4, <2>6, <3>1, LocalReports
  <2>. QED BY <2>10, <2>11
<1>3. CASE InterpretUnknown
  BY <1>3, CountSame DEF InterpretUnknown, guest
<1>. QED BY <1>1, <1>2, <1>3 DEF Interpret

\* A compiled function goes on at a label, or leaves.
LEMMA FunctionGoes ==
  ASSUME Inv, frames # <<>>, Top.kind = "fn", NEW p, GoTo(p) \/ Leave
  PROVE  \/ Leave
         \/ /\ \E f \in Frame : f.kind = "fn" /\ f.n = Top.n /\ frames' = WithTop(f)
            /\ UNCHANGED cycle
<1>1. Top \in Frame /\ Top.start \in Pcs
  BY InvTypes, StackTypes DEF Frame
<1>2. CASE GoTo(p) /\ IsLabel(p)
  <2>1. p \in Pcs /\ p \in Nat
    <3>1. p \in ExecPcs
      BY <1>1, <1>2, InvTypes, LabelsExec DEF IsLabel
    <3>. QED BY <3>1, Constants, PcNat
  <2> DEFINE f == [Top EXCEPT !.at = p, !.st = "run"]
  <2>2. f \in Frame /\ f.kind = "fn" /\ f.n = Top.n
    BY <1>1, <2>1 DEF Frame
  <2>3. frames' = WithTop(f) /\ UNCHANGED cycle
    BY <1>2 DEF GoTo
  <2> HIDE DEF f
  <2>. QED BY <2>2, <2>3
<1>3. CASE Leave \/ ~IsLabel(p)
  BY <1>3 DEF GoTo
<1>. QED BY <1>2, <1>3

\* The count under compiled code.
LEMMA CompiledCounts ==
  ASSUME Inv, Inv', CountInv, Supported, RunCompiled
  PROVE  CountInv'
<1>t. /\ pc \in Pcs /\ frames \in Seq(Frame) /\ instr_counter \in Int
  BY InvTypes, CountTypes
<1>c. OnlyFunctionsCompiled'
  <2>1. cache' = cache
    BY DEF RunCompiled, BlockInstr, FunctionInstr, FunctionCall, FunctionUnknown
  <2>. QED BY <2>1, CacheStays
<1>i. /\ Plus(instr_counter, 1) \in Int
      /\ Multiple(Plus(instr_counter, 1) - (instr_counter + 1))
  <2>1. 1 \in Int
    OBVIOUS
  <2>. QED BY <1>t, <2>1, Wraps, Zenon
<1>1. CASE BlockInstr
  <2>1. /\ frames # <<>> /\ frames[Len(frames)].kind = "jitbb"
        /\ Len(frames) \in 1 .. Len(frames)
    BY <1>1, <1>t DEF BlockInstr, Running, Top, Depth
  <2>2. KindsInv(frames)
    BY DEF CountInv
  <2>. QED BY <2>1, <2>2, Zenon DEF KindsInv
<1>2. CASE FunctionInstr
  <2>1. /\ frames # <<>> /\ Top.kind = "fn"
        /\ instr_counter' = Plus(instr_counter, 1)
    BY <1>2 DEF FunctionInstr, Running
  <2>2. Multiple(instret' - (instret + 1))
    BY <1>2, RetireTicks DEF FunctionInstr
  <2>3. \E p : GoTo(p) \/ Leave
    BY <1>2 DEF FunctionInstr, Dispatch
  <2>4. \/ Leave
        \/ /\ \E f \in Frame : f.kind = "fn" /\ f.n = Top.n /\ frames' = WithTop(f)
           /\ UNCHANGED cycle
    BY <2>1, <2>3, FunctionGoes
  <2>. QED BY <1>c, <1>i, <2>1, <2>2, <2>4, FunctionCounts
<1>3. CASE FunctionCall
  <2>1. /\ frames # <<>> /\ Top \in Frame /\ Top.kind = "fn"
        /\ instr_counter' = Plus(instr_counter, 1) /\ UNCHANGED cycle
    BY <1>3, <1>t, StackTypes DEF FunctionCall, Running
  <2>2. Multiple(instret' - (instret + 1))
    BY <1>3, RetireTicks DEF FunctionCall
  <2> DEFINE f == [Top EXCEPT !.st = "call"]
  <2>3. f \in Frame /\ f.kind = "fn" /\ f.n = Top.n
    BY <2>1 DEF Frame
  <2>4. frames' = WithTop(f)
    BY <1>3 DEF FunctionCall
  <2> HIDE DEF f
  <2>. QED BY <1>c, <1>i, <2>1, <2>2, <2>3, <2>4, FunctionCounts
<1>4. CASE FunctionUnknown
  <2>1. /\ frames # <<>> /\ Top.kind = "fn" /\ Top.st = "run"
        /\ Pending(Top).op = "unknown"
    BY <1>4 DEF FunctionUnknown, Running
  <2>2. ActiveAt(Top, pc) /\ Pending(Top) = code[pc] /\ pc \in ExecPcs
    BY <2>1, ExecutingActive DEF ActiveAt
  <2>3. FALSE
    BY <2>1, <2>2, <1>t, InvTypes DEF Supported, SupportedProgram
  <2>. QED BY <2>3
<1>. QED BY <1>1, <1>2, <1>3, <1>4 DEF RunCompiled

\* A caller that waits keeps its place and what it had counted.
LEMMA WaitingKeeps ==
  ASSUME Inv, AtTrampoline
  PROVE  /\ Waiting \in Seq(Frame) /\ Len(Waiting) = Len(frames)
         /\ \A k \in 1 .. Len(Waiting) :
              Waiting[k].kind = frames[k].kind /\ Waiting[k].n = frames[k].n
         /\ Local(frames) = 0 /\ frames # <<>>
<1>1. /\ frames # <<>> /\ Top \in Frame /\ Top.kind = "fn" /\ Waiting \in Seq(Frame)
      /\ frames \in Seq(Frame)
  BY InvTypes, TrampolineFacts
<1> DEFINE f == [Top EXCEPT !.st = "wait"]
<1>2. f \in Frame /\ f.kind = Top.kind /\ f.n = Top.n
  BY <1>1 DEF Frame
<1>3. Waiting = WithTop(f)
  BY DEF Waiting
<1> HIDE DEF f
<1>4. /\ Depth \in Nat \ {0} /\ Len(Waiting) = Depth /\ Waiting[Depth] = f
      /\ \A k \in 1 .. (Depth - 1) : Waiting[k] = frames[k]
  BY <1>1, <1>2, <1>3, StackTypes
<1>5. ASSUME NEW k \in 1 .. Len(Waiting)
      PROVE  Waiting[k].kind = frames[k].kind /\ Waiting[k].n = frames[k].n
  <2>1. CASE k = Depth
    BY <1>2, <1>4, <2>1 DEF Top
  <2>2. CASE k # Depth
    <3>1. k \in 1 .. (Depth - 1)
      BY <1>4, <2>2
    <3>. QED BY <1>4, <3>1
  <2>. QED BY <2>1, <2>2
<1>6. Local(frames) = 0
  BY <1>1 DEF Local, Top, Depth
<1>. QED BY <1>1, <1>4, <1>5, <1>6 DEF Depth

\* The count under calls of compiled functions and returns to them.
LEMMA TrampolineCounts ==
  ASSUME JitBound = 0, Inv, Inv', CountInv, Trampoline
  PROVE  CountInv'
<1>t. /\ pc \in Pcs /\ paging \in BOOLEAN /\ frames \in Seq(Frame)
      /\ cache \in [Slots -> Block] /\ instr_counter \in Int
  BY InvTypes, CountTypes
<1>g. UNCHANGED guest /\ UNCHANGED instr_counter
  BY DEF Trampoline, CallCompiled, CallCompileFunction, CallInterpreted,
         PostCall, ReturnToFreedCode
<1>1. CASE CallCompiled
  <2>1. AtTrampoline /\ UNCHANGED cycle
    BY <1>1 DEF CallCompiled
  <2> DEFINE b == LookedUp(Callee)
  <2>2. /\ Callee \in Block /\ CallTarget \in Pcs /\ Slot(CallTarget) \in Slots
    BY <2>1, InvTypes, TrampolineFacts
  <2>3. /\ b \in Block /\ (b.jitted => b.kind = "fn")
        /\ \A fs : AfterLookup(fs, Callee) = fs
    <3>1. Callee.jitted => Callee.kind = "fn"
      BY <2>2 DEF Callee, CountInv, OnlyFunctionsCompiled
    <3>. QED BY <1>t, <2>2, <3>1, Blocks, NeverCompiles
  <2>4. /\ cache' = [cache EXCEPT ![Slot(b.start)] = LookedUp(b)]
        /\ frames' = Append(AfterLookup(AfterLookup(Waiting, Callee), b),
                            Enter(LookedUp(b)))
    BY <1>1 DEF CallCompiled, RunCallee, Call
  <2> HIDE DEF b
  <2>5. Slot(b.start) \in Slots
    BY <2>3, PcArith DEF Block
  <2>6. AfterLookup(AfterLookup(Waiting, Callee), b) = Waiting
    BY <2>3, NeverCompiles
  <2>. QED BY <1>g, <2>1, <2>3, <2>4, <2>5, <2>6, WaitingKeeps, RunCounts
<1>2. CASE CallCompileFunction
  <2>1. AtTrampoline /\ UNCHANGED cycle
    BY <1>2 DEF CallCompileFunction
  <2> DEFINE b == FnBlock(CallTarget, ~paging)
  <2>2. CallTarget \in Pcs
    BY <2>1, InvTypes, TrampolineFacts
  <2>3. b \in Block /\ (b.jitted => b.kind = "fn")
    BY <1>t, <2>2, Blocks DEF FnBlock
  <2>4. /\ cache' = [cache EXCEPT ![Slot(b.start)] = LookedUp(b)]
        /\ frames' = Append(AfterLookup(Waiting, b), Enter(LookedUp(b)))
    BY <1>2 DEF CallCompileFunction, RunCallee, Call
  <2> HIDE DEF b
  <2>5. Slot(b.start) \in Slots /\ AfterLookup(Waiting, b) = Waiting
    BY <2>3, PcArith, NeverCompiles DEF Block
  <2>. QED BY <1>g, <2>1, <2>3, <2>4, <2>5, WaitingKeeps, RunCounts
<1>3. CASE CallInterpreted
  <2>1. AtTrampoline /\ UNCHANGED cycle
    BY <1>3 DEF CallInterpreted
  <2>2. /\ Callee \in Block /\ CallTarget \in Pcs /\ Slot(CallTarget) \in Slots
        /\ Top.at \in Pcs
    BY <2>1, InvTypes, TrampolineFacts
  <2>3. OnlyFunctionsCompiled'
    <3>1. Callee.jitted => Callee.kind = "fn"
      BY <2>2 DEF Callee, CountInv, OnlyFunctionsCompiled
    <3> DEFINE b == IF Hit(CallTarget) THEN LookedUp(Callee) ELSE Callee
    <3>2. b \in Block /\ (b.jitted => b.kind = "fn")
      BY <1>t, <2>2, <3>1, Blocks, NeverCompiles
    <3>3. cache' = [cache EXCEPT ![Slot(CallTarget)] = b]
      BY <1>3, <1>t, <2>2 DEF CallInterpreted, Callee
    <3> HIDE DEF b
    <3>. QED BY <1>t, <2>2, <3>2, <3>3, CacheFunctions
  <2> DEFINE f == NewFrame("until", pc, <<>>, Inc(Top.at))
  <2>4. Inc(Top.at) \in Nat
    BY <2>2, PcNat, PcArith
  <2>5. f \in Frame /\ f.kind = "until"
    BY <1>t, <2>4, CounterArith DEF NewFrame, Frame
  <2>6. frames' = Append(Waiting, f)
    BY <1>3 DEF CallInterpreted
  <2> HIDE DEF f
  <2>7. /\ f.kind # "jitbb" /\ f.kind # "collect" /\ f.kind # "cached"
        /\ f.kind # "fn"
    BY <2>5
  <2>. QED BY <1>g, <2>1, <2>3, <2>5, <2>6, <2>7, WaitingKeeps, PushCounts
<1>4. CASE PostCall
  <2>1. /\ frames # <<>> /\ Top.kind = "fn" /\ cache' = cache
    BY <1>4, <1>t, StackTypes DEF PostCall, AtPostCall, Frame
  <2>2. \E p : GoTo(p) \/ Leave
    BY <1>4 DEF PostCall
  <2>3. \/ Leave
        \/ /\ \E f \in Frame : f.kind = "fn" /\ f.n = Top.n /\ frames' = WithTop(f)
           /\ UNCHANGED cycle
    BY <2>1, <2>2, FunctionGoes
  <2>4. OnlyFunctionsCompiled'
    BY <2>1, CacheStays
  <2>5. Multiple(instret' - (instret + 0))
    BY <1>g, NothingTicks
  <2>6. Multiple(instr_counter' - (instr_counter + 0))
    <3>1. instr_counter' - (instr_counter + 0) = 0
      BY <1>g, <1>t
    <3>. QED BY <3>1, Multiples
  <2>. QED BY <2>1, <2>3, <2>4, <2>5, <2>6, FunctionCounts
<1>5. CASE ReturnToFreedCode
  BY <1>5, CountSame DEF ReturnToFreedCode, guest
<1>. QED BY <1>1, <1>2, <1>3, <1>4, <1>5 DEF Trampoline
-------------------------------------------------------------------------------
(* The theorem about cycles. *)

\* A loaded program has reported nothing, and retired nothing.
LEMMA CountInit == Init => CountInv
<1> SUFFICES ASSUME Init PROVE CountInv
  OBVIOUS
<1>1. frames = <<>> /\ instret = 0 /\ cycle = 0
  BY DEF Init, Guest!Init
<1>2. OnlyFunctionsCompiled
  BY DEF OnlyFunctionsCompiled, Init, NoBlock, FnBlock
<1>3. KindsInv(frames) /\ Unreported = 0
  BY <1>1 DEF KindsInv, Unreported, Entered, Local
<1>4. Plus(0, 0) = 0
  BY Constants DEF Plus
<1>. QED BY <1>1, <1>2, <1>3, <1>4 DEF CountInv

\* Every step preserves it.
LEMMA CountNext ==
  ASSUME JitBound = 0, Supported
  PROVE  Inv /\ Inv' /\ CountInv /\ [Next]_vars => CountInv'
<1> SUFFICES ASSUME Inv, Inv', CountInv, [Next]_vars PROVE CountInv'
  OBVIOUS
<1>1. CASE Next
  BY <1>1, StepCounts, InterpretCounts, CompiledCounts, TrampolineCounts DEF Next
<1>2. CASE UNCHANGED vars
  BY <1>2, CountSame DEF vars
<1>. QED BY <1>1, <1>2

\* Between two steps of Machine::run nothing is unreported.
LEMMA CountExact ==
  ASSUME Inv, CountInv PROVE CyclesExact
<1> SUFFICES ASSUME frames = <<>> PROVE cycle = instret
  BY DEF CyclesExact
<1>1. instret = Plus(cycle, 0)
  BY DEF CountInv, Unreported, Entered, Local
<1>2. cycle \in Counter /\ cycle \in Int
  BY InvTypes, CountTypes
<1>3. Multiple(cycle - (cycle + 0))
  <2>1. cycle - (cycle + 0) = 0
    BY <1>2
  <2>. QED BY <2>1, Multiples
<1>4. cycle = Plus(cycle, 0)
  BY <1>2, <1>3, WrapsTo
<1>. QED BY <1>1, <1>4

\* Without compiled basic blocks (jit_bound 0), and for a program that fits the
\* cache (NoAlias) and is Supported, what the cycle counter of Machine::run lacks of
\* the instructions retired is what the activations under way have yet to report:
\* the instr_counter_ of compiled functions and the locals of the innermost one.
THEOREM CountsKept ==
  ASSUME JitBound = 0, NoAlias, Supported PROVE SafeSpec => []CountInv
<1>1. Inv /\ [Next]_vars => Inv'
  BY InvNext
<1>2. Inv /\ Inv' /\ CountInv /\ [Next]_vars => CountInv'
  BY CountNext
<1>. QED BY <1>1, <1>2, InvInit, CountInit, PTL DEF SafeSpec

\* So the number of cycles Machine::run prints is the number of instructions the
\* guest has retired, modulo the counter's width: through interpretation, compiled
\* functions and every nest of calls.
THEOREM CyclesCount ==
  ASSUME JitBound = 0, NoAlias, Supported PROVE SafeSpec => []CyclesExact
<1>1. Inv /\ [Next]_vars => Inv'
  BY InvNext
<1>2. Inv /\ CountInv => CyclesExact
  BY CountExact
<1>. QED BY <1>1, <1>2, InvInit, CountsKept, PTL DEF SafeSpec
================================================================================
