----------------------------- MODULE LockstepProofs -----------------------------
(***************************************************************************)
(* Proofs about Lockstep, for words of any width: the types, x0, and where *)
(* the compiled code of either host and the interpreter differ.            *)
(***************************************************************************)
EXTENDS Lockstep, FiniteSetTheorems, WellFoundedInduction, TLAPS

-------------------------------------------------------------------------------
(* Numbers. *)

\* A set of numbers that is not empty has a least one.
LEMMA Least ==
  ASSUME NEW T \in SUBSET Nat, T # {}
  PROVE  \E m \in T : \A l \in T : m <= l
<1> DEFINE less == {ss \in Nat \X Nat : ss[1] < ss[2]}
<1>1. IsWellFoundedOn(less, Nat)
  BY NatLessThanWellFounded DEF OpToRel
<1> HIDE DEF less
<1>2. PICK m \in T : \A l \in T : <<l, m>> \notin less
  BY <1>1, WFMin
<1>3. \A l \in T : ~(l < m)
  BY <1>2 DEF less
<1> QED
  BY <1>3

\* Induction, for a set of numbers.
LEMMA Induction ==
  ASSUME NEW T \in SUBSET Nat, 0 \in T, \A n \in T : n + 1 \in T
  PROVE  T = Nat
<1> SUFFICES ASSUME Nat \ T # {} PROVE FALSE
  OBVIOUS
<1>1. PICK m \in Nat \ T : \A l \in Nat \ T : m <= l
  BY Least
<1>2. m - 1 \in Nat /\ m - 1 \notin Nat \ T
  BY <1>1
<1> QED
  BY <1>1, <1>2

\* Products.
LEMMA Products ==
  ASSUME NEW a \in Int, NEW b \in Int, NEW c \in Int
  PROVE  /\ a * b \in Int /\ a * b = b * a
         /\ a * (b + c) = a * b + a * c /\ a * (b - c) = a * b - a * c
         /\ (a * b) * c = a * (b * c)
OBVIOUS

LEMMA ProductOrder ==
  ASSUME NEW a \in Nat, NEW b \in Int, NEW c \in Int, b <= c
  PROVE  a * b <= a * c
<1>1. PICK d \in Nat : c = b + d
  <2>1. c = b + (c - b) /\ c - b \in Nat
    OBVIOUS
  <2> QED
    BY <2>1
<1>2. a * c = a * b + a * d /\ a * b \in Int /\ a * d \in Nat
  BY <1>1, Products
<1> QED
  BY <1>2

\* Quotient and remainder.
LEMMA Divides ==
  ASSUME NEW m \in Nat \ {0}, NEW a \in Int
  PROVE  /\ a \div m \in Int /\ a % m \in 0 .. (m - 1)
         /\ a = m * (a \div m) + (a % m)
OBVIOUS

\* There is one of each.
LEMMA DividesOnce ==
  ASSUME NEW m \in Nat \ {0}, NEW a \in Int, NEW q \in Int, NEW r \in 0 .. (m - 1),
         a = m * q + r
  PROVE  a \div m = q /\ a % m = r
<1> DEFINE p == a \div m
           s == a % m
<1>1. p \in Int /\ s \in 0 .. (m - 1) /\ a = m * p + s
  BY Divides
<1> HIDE DEF p, s
<1>2. m * (q - p) = m * q - m * p /\ m * q \in Int /\ m * p \in Int
  BY <1>1, Products
<1>3. m * (q - p) = s - r
  BY <1>1, <1>2
<1>4. q - p < 1
  <2> SUFFICES ASSUME 1 <= q - p PROVE FALSE
    BY <1>1
  <2>1. m * 1 <= m * (q - p)
    BY <1>1, ProductOrder
  <2> QED
    BY <1>1, <1>3, <2>1
<1>5. q - p > -1
  <2> SUFFICES ASSUME q - p <= -1 PROVE FALSE
    BY <1>1
  <2>1. m * (q - p) <= m * (-1)
    BY <1>1, ProductOrder
  <2> QED
    BY <1>1, <1>3, <2>1
<1>6. p = q
  BY <1>1, <1>4, <1>5
<1> QED
  BY <1>1, <1>6 DEF p, s

\* What adding a multiple does.
LEMMA AddMultiple ==
  ASSUME NEW m \in Nat \ {0}, NEW a \in Int, NEW q \in Int
  PROVE  (a + m * q) \div m = a \div m + q /\ (a + m * q) % m = a % m
<1> DEFINE p == a \div m
           s == a % m
<1>1. p \in Int /\ s \in 0 .. (m - 1) /\ a = m * p + s
  BY Divides
<1> HIDE DEF p, s
<1>2. m * (p + q) = m * p + m * q /\ m * p \in Int /\ m * q \in Int
  BY <1>1, Products
<1>3. a + m * q = m * (p + q) + s /\ a + m * q \in Int /\ p + q \in Int
  BY <1>1, <1>2
<1> QED
  BY <1>1, <1>3, DividesOnce DEF p, s

\* A number below the modulus.
LEMMA SmallMod ==
  ASSUME NEW m \in Nat \ {0}, NEW a \in 0 .. (m - 1)
  PROVE  a \div m = 0 /\ a % m = a
<1>1. a = m * 0 + a
  OBVIOUS
<1> QED
  BY <1>1, DividesOnce

\* Remainders may be taken of the terms first.
LEMMA ModAdd ==
  ASSUME NEW m \in Nat \ {0}, NEW a \in Int, NEW b \in Int
  PROVE  /\ (a + (b % m)) % m = (a + b) % m /\ (a - (b % m)) % m = (a - b) % m
         /\ ((a % m) + b) % m = (a + b) % m /\ ((a % m) - b) % m = (a - b) % m
<1> DEFINE q == b \div m
           r == b % m
           u == a \div m
           v == a % m
<1>1. q \in Int /\ r \in 0 .. (m - 1) /\ b = m * q + r
  BY Divides
<1>2. u \in Int /\ v \in 0 .. (m - 1) /\ a = m * u + v
  BY Divides
<1> HIDE DEF q, r, u, v
<1>3. m * (-q) = -(m * q) /\ m * q \in Int /\ m * (-u) = -(m * u) /\ m * u \in Int
  BY <1>1, <1>2
<1>4. /\ a + r = (a + b) + m * (-q) /\ a - r = (a - b) + m * q
      /\ v + b = (a + b) + m * (-u) /\ v - b = (a - b) + m * (-u)
  BY <1>1, <1>2, <1>3
<1>5. /\ a + b \in Int /\ a - b \in Int /\ -q \in Int /\ -u \in Int
  BY <1>1, <1>2
<1>6. /\ ((a + b) + m * (-q)) % m = (a + b) % m /\ ((a - b) + m * q) % m = (a - b) % m
      /\ ((a + b) + m * (-u)) % m = (a + b) % m /\ ((a - b) + m * (-u)) % m = (a - b) % m
  BY <1>1, <1>2, <1>5, AddMultiple
<1>7. /\ (a + r) % m = (a + b) % m /\ (a - r) % m = (a - b) % m
      /\ (v + b) % m = (a + b) % m /\ (v - b) % m = (a - b) % m
  BY <1>4, <1>6
<1> QED
  BY <1>7 DEF r, v
-------------------------------------------------------------------------------
(* Powers of two. *)

\* Sets of numbers below n are counted by powers.
LEMMA PowerCounts ==
  ASSUME NEW n \in Nat
  PROVE  IsFiniteSet(SUBSET (1 .. n)) /\ Cardinality(SUBSET (1 .. n)) = 2 ^ n
<1>1. IsFiniteSet(1 .. n) /\ Cardinality(1 .. n) = n
  BY FS_Interval
<1> QED
  BY <1>1, FS_SUBSET, Zenon

LEMMA PowerType ==
  ASSUME NEW n \in Nat
  PROVE  2 ^ n \in Nat \ {0}
<1>1. Cardinality(SUBSET (1 .. n)) \in Nat
  BY PowerCounts, FS_CardinalityType
<1>2. Cardinality(SUBSET (1 .. n)) # 0
  <2>1. SUBSET (1 .. n) # {}
    OBVIOUS
  <2> QED
    BY <2>1, PowerCounts, FS_EmptySet, Zenon
<1> QED
  BY <1>1, <1>2, PowerCounts

\* A set of numbers up to n + 1 is one up to n, or one of those with n + 1.
LEMMA PowerDoubles ==
  ASSUME NEW n \in Nat
  PROVE  2 ^ (n + 1) = 2 * 2 ^ n
<1> DEFINE A == SUBSET (1 .. n)
           B == {s \cup {n + 1} : s \in A}
           f == [s \in A |-> s \cup {n + 1}]
<1>1. f \in Bijection(A, B)
  <2>1. f \in [A -> B]
    OBVIOUS
  <2>2. \A s, t \in A : f[s] = f[t] => s = t
    <3> SUFFICES ASSUME NEW s \in A, NEW t \in A, s \cup {n + 1} = t \cup {n + 1}
                 PROVE  s = t
      OBVIOUS
    <3>1. n + 1 \notin s /\ n + 1 \notin t
      OBVIOUS
    <3> QED
      BY <3>1
  <2>3. \A t \in B : \E s \in A : f[s] = t
    OBVIOUS
  <2> QED
    BY <2>1, <2>2, <2>3 DEF Bijection, Injection, Surjection, IsInjective
<1>2. IsFiniteSet(A) /\ Cardinality(A) = 2 ^ n
  BY PowerCounts
<1>3. IsFiniteSet(B) /\ Cardinality(B) = 2 ^ n
  <2>1. ExistsBijection(A, B)
    BY <1>1 DEF ExistsBijection
  <2> HIDE DEF A, B, f
  <2> QED
    BY <1>2, <2>1, FS_Bijection, Zenon
<1>4. SUBSET (1 .. (n + 1)) = A \cup B
  <2>1. ASSUME NEW s \in SUBSET (1 .. (n + 1)) PROVE s \in A \cup B
    <3>1. CASE n + 1 \in s
      <4>1. s = (s \ {n + 1}) \cup {n + 1} /\ s \ {n + 1} \in A
        BY <3>1
      <4> QED
        BY <4>1
    <3>2. CASE n + 1 \notin s
      BY <3>2
    <3> QED
      BY <3>1, <3>2
  <2>2. ASSUME NEW s \in A \cup B PROVE s \in SUBSET (1 .. (n + 1))
    OBVIOUS
  <2> QED
    BY <2>1, <2>2
<1>5. A \cap B = {}
  <2>1. \A s \in A : n + 1 \notin s
    OBVIOUS
  <2>2. \A s \in B : n + 1 \in s
    OBVIOUS
  <2> QED
    BY <2>1, <2>2
<1>6. Cardinality(A \cup B) = Cardinality(A) + Cardinality(B) - 0
  <2> HIDE DEF A, B
  <2>1. Cardinality(A \cap B) = 0
    BY <1>5, FS_EmptySet
  <2> QED
    BY <1>2, <1>3, <2>1, FS_Union
<1>7. Cardinality(SUBSET (1 .. (n + 1))) = 2 ^ (n + 1)
  BY PowerCounts
<1>8. 2 ^ n \in Nat
  BY PowerType
<1>9. Cardinality(A \cup B) = 2 ^ (n + 1)
  BY <1>4, <1>7, Zenon
<1> HIDE DEF A, B, f
<1>10. 2 ^ (n + 1) = 2 ^ n + 2 ^ n - 0
  BY <1>2, <1>3, <1>6, <1>9, Zenon
<1> QED
  BY <1>8, <1>10

LEMMA PowerZero == 2 ^ 0 = 1
OBVIOUS

\* Exponents add up.
LEMMA PowerAdds ==
  ASSUME NEW m \in Nat, NEW n \in Nat
  PROVE  2 ^ (m + n) = 2 ^ m * 2 ^ n
<1> DEFINE T == {k \in Nat : 2 ^ (m + k) = 2 ^ m * 2 ^ k}
<1>1. 0 \in T
  BY PowerZero, PowerType
<1>2. ASSUME NEW k \in T PROVE k + 1 \in T
  <2>1. k \in Nat /\ 2 ^ (m + k) = 2 ^ m * 2 ^ k
    OBVIOUS
  <2>2. /\ 2 ^ (m + (k + 1)) = 2 * 2 ^ (m + k)
        /\ 2 ^ (k + 1) = 2 * 2 ^ k
    <3>1. m + (k + 1) = (m + k) + 1 /\ m + k \in Nat
      BY <2>1
    <3> QED
      BY <2>1, <3>1, PowerDoubles
  <2> DEFINE x == 2 ^ m
             y == 2 ^ k
  <2>3. x \in Int /\ y \in Int
    BY <2>1, PowerType
  <2>4. 2 * (x * y) = x * (2 * y)
    <3> HIDE DEF x, y
    <3>1. 2 \in Int /\ x \in Int /\ y \in Int
      BY <2>3
    <3> QED
      BY <3>1
  <2> QED
    BY <2>1, <2>2, <2>4
<1> HIDE DEF T
<1>3. T = Nat
  BY <1>1, <1>2, Induction DEF T
<1> QED
  BY <1>3 DEF T

\* The powers of what an n below m leaves.
LEMMA PowerSplits ==
  ASSUME NEW m \in Nat, NEW n \in 0 .. m
  PROVE  2 ^ m = 2 ^ n * 2 ^ (m - n)
<1>1. m - n \in Nat /\ n \in Nat /\ n + (m - n) = m
  OBVIOUS
<1> QED
  BY <1>1, PowerAdds

LEMMA PowerGrows ==
  ASSUME NEW m \in Nat, NEW n \in 0 .. m
  PROVE  2 ^ n <= 2 ^ m /\ (n < m => 2 * 2 ^ n <= 2 ^ m)
<1>1. ASSUME NEW k \in 0 .. m PROVE 2 ^ k <= 2 ^ m
  <2>1. 2 ^ m = 2 ^ k * 2 ^ (m - k) /\ m - k \in Nat /\ k \in Nat
    BY PowerSplits
  <2>2. 2 ^ k \in Nat /\ 2 ^ (m - k) \in Nat \ {0}
    BY <2>1, PowerType
  <2>3. 2 ^ k * 1 <= 2 ^ k * 2 ^ (m - k)
    BY <2>2, ProductOrder
  <2> QED
    BY <2>1, <2>2, <2>3
<1>2. n < m => 2 ^ (n + 1) <= 2 ^ m
  BY <1>1
<1> QED
  BY <1>1, <1>2, PowerDoubles
-------------------------------------------------------------------------------
(* Words. *)

\* Quotients of small numbers are small.
LEMMA QuotientSmall ==
  ASSUME NEW n \in Nat, NEW a \in 0 .. n, NEW m \in Nat \ {0}
  PROVE  a \div m \in 0 .. a
<1> DEFINE q == a \div m
           r == a % m
<1>1. q \in Int /\ r \in 0 .. (m - 1) /\ a = m * q + r
  BY Divides
<1> HIDE DEF q, r
<1>2. q >= 0
  <2> SUFFICES ASSUME q <= -1 PROVE FALSE
    BY <1>1
  <2>1. m * q <= m * (-1)
    BY <1>1, ProductOrder
  <2> QED
    BY <1>1, <2>1
<1>3. q <= a
  <2>1. q * 1 <= q * m /\ q * m = m * q
    BY <1>1, <1>2, ProductOrder, Products
  <2> QED
    BY <1>1, <2>1
<1> QED
  BY <1>1, <1>2, <1>3 DEF q

\* Digits put together.
LEMMA TwoDigits ==
  ASSUME NEW m \in Nat \ {0}, NEW n \in Nat \ {0},
         NEW lo \in 0 .. (m - 1), NEW hi \in 0 .. (n - 1)
  PROVE  lo + m * hi \in 0 .. (m * n - 1)
<1>1. m * hi <= m * (n - 1) /\ m * (n - 1) = m * n - m * 1
  BY ProductOrder, Products
<1>2. m * hi \in Nat /\ m * n \in Nat
  OBVIOUS
<1> QED
  BY <1>1, <1>2

\* The widths, and the powers that occur.
LEMMA Widths ==
  /\ ByteBits \in Nat \ {0} /\ WLEN \in Nat \ {0} /\ XLEN \in Nat \ {0}
  /\ XLEN = WLEN + WLEN /\ WLEN >= 4 /\ ByteBits < WLEN /\ 2 * ByteBits < WLEN
BY LockstepAssumption DEF WLEN, XLEN

LEMMA WidthPowers ==
  /\ 2 ^ WLEN \in Nat \ {0} /\ 2 ^ XLEN \in Nat \ {0}
  /\ 2 ^ (WLEN - 1) \in Nat \ {0} /\ 2 ^ (XLEN - 1) \in Nat \ {0}
  /\ 2 ^ WLEN = 2 * 2 ^ (WLEN - 1) /\ 2 ^ XLEN = 2 * 2 ^ (XLEN - 1)
  /\ 2 ^ XLEN = 2 ^ WLEN * 2 ^ WLEN
  /\ 2 ^ WLEN >= 16 /\ 16 * 2 ^ WLEN <= 2 ^ XLEN
<1>1. WLEN - 1 \in Nat /\ XLEN - 1 \in Nat /\ WLEN \in Nat /\ XLEN \in Nat
  BY Widths
<1>2. /\ 2 ^ WLEN \in Nat \ {0} /\ 2 ^ XLEN \in Nat \ {0}
      /\ 2 ^ (WLEN - 1) \in Nat \ {0} /\ 2 ^ (XLEN - 1) \in Nat \ {0}
  BY <1>1, PowerType
<1>3. 2 ^ WLEN = 2 * 2 ^ (WLEN - 1) /\ 2 ^ XLEN = 2 * 2 ^ (XLEN - 1)
  <2>1. (WLEN - 1) + 1 = WLEN /\ (XLEN - 1) + 1 = XLEN
    BY <1>1
  <2> QED
    BY <1>1, <2>1, PowerDoubles
<1>4. 2 ^ XLEN = 2 ^ WLEN * 2 ^ WLEN
  BY Widths, PowerAdds
<1>5. 2 ^ WLEN >= 16
  <2>1. 2 ^ 4 <= 2 ^ WLEN
    <3>1. WLEN \in Nat /\ 4 \in 0 .. WLEN
      BY Widths
    <3> QED
      BY <3>1, PowerGrows, Zenon
  <2>2. 2 ^ 4 = 16
    OBVIOUS
  <2> QED
    BY <2>1, <2>2
<1>6. 2 ^ WLEN * 16 <= 2 ^ WLEN * 2 ^ WLEN
  BY <1>2, <1>5, ProductOrder
<1>7. 2 ^ WLEN * 16 = 16 * 2 ^ WLEN
  BY <1>2, Products
<1> QED
  BY <1>2, <1>3, <1>4, <1>5, <1>6, <1>7

\* From here on a power is just a number.
LEMMA LowType ==
  ASSUME NEW v \in Int, NEW n \in Nat
  PROVE  Low(v, n) \in 0 .. (2 ^ n - 1) /\ Low(v, n) \in Int
<1>1. 2 ^ n \in Nat \ {0}
  BY PowerType
<1> QED
  BY <1>1, Divides DEF Low

LEMMA LowOfSmall ==
  ASSUME NEW n \in Nat, NEW v \in 0 .. (2 ^ n - 1)
  PROVE  Low(v, n) = v
<1>1. 2 ^ n \in Nat \ {0}
  BY PowerType
<1> QED
  BY <1>1, SmallMod DEF Low

LEMMA WordIs ==
  /\ \A v \in Word : v \in Int /\ v >= 0 /\ v < 2 ^ XLEN /\ Wrap(v) = v /\ Low(v, XLEN) = v
  /\ \A v \in Int : Wrap(v) \in Word /\ Wrap(v) = Low(v, XLEN)
<1>1. 2 ^ XLEN \in Nat \ {0} /\ XLEN \in Nat
  BY Widths, WidthPowers
<1>2. ASSUME NEW v \in Word
      PROVE  v \in Int /\ v >= 0 /\ v < 2 ^ XLEN /\ Wrap(v) = v /\ Low(v, XLEN) = v
  BY <1>1, SmallMod DEF Word, Wrap, Low
<1>3. ASSUME NEW v \in Int PROVE Wrap(v) \in Word /\ Wrap(v) = Low(v, XLEN)
  BY <1>1, Divides DEF Word, Wrap, Low
<1> QED
  BY <1>2, <1>3

\* Taking the low bits of terms first.
LEMMA LowAdds ==
  ASSUME NEW a \in Int, NEW b \in Int, NEW n \in Nat
  PROVE  /\ Low(Low(a, n) + Low(b, n), n) = Low(a + b, n)
         /\ Low(Low(a, n) - Low(b, n), n) = Low(a - b, n)
         /\ Low(a + Low(b, n), n) = Low(a + b, n)
         /\ Low(Low(a, n), n) = Low(a, n)
<1> DEFINE m == 2 ^ n
<1>1. m \in Nat \ {0} /\ a % m \in Int
  BY PowerType, Divides
<1> HIDE DEF m
<1>2. /\ (a + (b % m)) % m = (a + b) % m
      /\ ((a % m) + (b % m)) % m = ((a % m) + b) % m /\ ((a % m) + b) % m = (a + b) % m
      /\ ((a % m) - (b % m)) % m = ((a % m) - b) % m /\ ((a % m) - b) % m = (a - b) % m
  BY <1>1, ModAdd
<1>3. (a % m) % m = a % m
  BY <1>1, Divides, SmallMod
<1> QED
  BY <1>2, <1>3 DEF Low, m

\* Sums with a wrapped word.
LEMMA WrapAdds ==
  ASSUME NEW a \in Int, NEW b \in Int
  PROVE  Wrap(a + Wrap(b)) = Wrap(a + b)
BY LowAdds, Widths DEF Wrap, Low

\* The sign bit.
LEMMA TopBit ==
  ASSUME NEW n \in Nat \ {0}, NEW v \in 0 .. (2 ^ n - 1)
  PROVE  (v \div 2 ^ (n - 1)) % 2 = 1 <=> v >= 2 ^ (n - 1)
<1> DEFINE m == 2 ^ (n - 1)
<1>1. m \in Nat \ {0} /\ 2 ^ n = 2 * m
  <2>1. n - 1 \in Nat /\ (n - 1) + 1 = n
    OBVIOUS
  <2> QED
    BY <2>1, PowerType, PowerDoubles
<1> HIDE DEF m
<1>2. CASE v < m
  <2>1. v \div m = 0
    BY <1>1, <1>2, SmallMod
  <2> QED
    BY <1>1, <1>2, <2>1 DEF m
<1>3. CASE v >= m
  <2>1. v = m * 1 + (v - m) /\ v - m \in 0 .. (m - 1) /\ v \in Int
    BY <1>1, <1>3
  <2>2. v \div m = 1
    BY <1>1, <2>1, DividesOnce
  <2> QED
    BY <1>1, <1>3, <2>2 DEF m
<1> QED
  BY <1>1, <1>2, <1>3

\* What Signed gives, and that it is a representative of the low bits.
LEMMA SignedIs ==
  ASSUME NEW n \in Nat \ {0}, NEW v \in Int
  PROVE  /\ Signed(v, n) \in -(2 ^ (n - 1)) .. (2 ^ (n - 1) - 1)
         /\ Low(v, n) < 2 ^ (n - 1) => Signed(v, n) = Low(v, n)
         /\ Low(v, n) >= 2 ^ (n - 1) => Signed(v, n) = Low(v, n) - 2 ^ n /\ Signed(v, n) < 0
<1> DEFINE m == 2 ^ (n - 1)
           l == Low(v, n)
<1>1. m \in Nat \ {0} /\ 2 ^ n = 2 * m
  <2>1. n - 1 \in Nat /\ (n - 1) + 1 = n
    OBVIOUS
  <2> QED
    BY <2>1, PowerType, PowerDoubles
<1>2. l \in 0 .. (2 ^ n - 1)
  BY LowType
<1>3. Signed(v, n) = IF l < m THEN l ELSE l - 2 ^ n
  BY DEF Signed
<1> HIDE DEF m, l
<1>4. /\ Signed(v, n) \in -m .. (m - 1)
      /\ l < m => Signed(v, n) = l
      /\ l >= m => Signed(v, n) = l - 2 ^ n /\ Signed(v, n) < 0
  BY <1>1, <1>2, <1>3
<1> QED
  BY <1>4 DEF m, l

\* A word that stands for a number of n bits, negative or not.
LEMMA WrapSmall ==
  ASSUME NEW v \in Int, v >= -(2 ^ XLEN), v < 2 ^ XLEN
  PROVE  Wrap(v) = IF v >= 0 THEN v ELSE v + 2 ^ XLEN
<1> DEFINE m == 2 ^ XLEN
<1>1. m \in Nat \ {0}
  BY WidthPowers
<1> HIDE DEF m
<1>2. v >= -m /\ v < m
  BY DEF m
<1>3. CASE v >= 0
  <2>1. v % m = v
    BY <1>1, <1>2, <1>3, SmallMod
  <2> QED
    BY <1>3, <2>1 DEF Wrap, m
<1>4. CASE v < 0
  <2>1. v = m * (-1) + (v + m) /\ v + m \in 0 .. (m - 1) /\ -1 \in Int
    BY <1>1, <1>2, <1>4
  <2>2. v % m = v + m
    BY <1>1, <2>1, DividesOnce
  <2> QED
    BY <1>4, <2>2 DEF Wrap, m
<1> QED
  BY <1>3, <1>4

\* What SignExtended gives.
LEMMA SignExtendedIs ==
  ASSUME NEW n \in 1 .. WLEN, NEW v \in Int
  PROVE  /\ SignExtended(v, n) \in Word
         /\ Low(v, n) < 2 ^ (n - 1) => SignExtended(v, n) = Low(v, n)
         /\ Low(v, n) >= 2 ^ (n - 1) =>
              /\ SignExtended(v, n) = Low(v, n) - 2 ^ n + 2 ^ XLEN
              /\ SignExtended(v, n) >= 2 ^ XLEN - 2 ^ (n - 1)
              /\ SignExtended(v, n) # Low(v, n)
<1>1. n \in Nat \ {0} /\ n \in 0 .. WLEN /\ n - 1 \in Nat /\ (n - 1) + 1 = n
      /\ WLEN \in Nat /\ n - 1 \in 0 .. WLEN
  BY Widths
<1> DEFINE m == 2 ^ (n - 1)
           s == Signed(v, n)
           l == Low(v, n)
<1>2. /\ m \in Nat \ {0} /\ 2 ^ n = 2 * m /\ 2 * m <= 2 ^ WLEN
  BY <1>1, PowerType, PowerDoubles, PowerGrows
<1>3. /\ s \in -m .. (m - 1)
      /\ l < m => s = l
      /\ l >= m => s = l - 2 ^ n /\ s < 0
  BY <1>1, SignedIs
<1>4. l \in 0 .. (2 ^ n - 1)
  BY <1>1, LowType
<1>5. SignExtended(v, n) = Wrap(s)
  BY DEF SignExtended
<1> HIDE DEF m, s, l
<1>6. s \in Int /\ s >= -(2 ^ XLEN) /\ s < 2 ^ XLEN
  BY <1>2, <1>3, WidthPowers
<1>7. /\ Wrap(s) = IF s >= 0 THEN s ELSE s + 2 ^ XLEN
      /\ Wrap(s) \in Word
  BY <1>6, WrapSmall, WordIs
<1>8. /\ l < m => Wrap(s) = l
      /\ l >= m => /\ Wrap(s) = l - 2 ^ n + 2 ^ XLEN
                   /\ Wrap(s) >= 2 ^ XLEN - m
                   /\ Wrap(s) # l
  <2>1. 2 ^ XLEN \in Nat /\ 16 * 2 ^ WLEN <= 2 ^ XLEN /\ 2 ^ WLEN \in Nat \ {0}
    BY WidthPowers
  <2> QED
    BY <1>2, <1>3, <1>4, <1>7, <2>1
<1> QED
  BY <1>5, <1>7, <1>8 DEF m, l

\* Sign extension sees the low bits only.
LEMMA SignExtendedOfLow ==
  ASSUME NEW n \in Nat, NEW v \in Int, NEW w \in Int, Low(v, n) = Low(w, n)
  PROVE  SignExtended(v, n) = SignExtended(w, n)
BY DEF SignExtended, Signed

\* Small numbers are words.
LEMMA SmallIsWord ==
  ASSUME NEW n \in 0 .. XLEN, NEW v \in 0 .. (2 ^ n - 1)
  PROVE  v \in Word
<1>1. 2 ^ n <= 2 ^ XLEN /\ 2 ^ n \in Nat /\ 2 ^ XLEN \in Nat
  <2>1. n \in Nat /\ XLEN \in Nat
    BY Widths
  <2> QED
    BY <2>1, PowerGrows, PowerType
<1> QED
  BY <1>1 DEF Word

\* Shifts give what fits.
LEMMA ShiftTypes ==
  ASSUME NEW a \in Int, NEW b \in Int, NEW n \in Nat \ {0}
  PROVE  /\ ShiftLeft(a, b, n) \in 0 .. (2 ^ n - 1)
         /\ ShiftRight(a, b, n) \in 0 .. (2 ^ n - 1)
         /\ ShiftRightSigned(a, b, n) \in 0 .. (2 ^ n - 1)
         /\ Signed(a, n) \div 2 ^ (b % n) \in Int
<1>1. b % n \in Nat
  BY Divides
<1> DEFINE m == 2 ^ (b % n)
<1>2. m \in Nat \ {0}
  BY <1>1, PowerType
<1> HIDE DEF m
<1>3. a * m \in Int
  BY <1>2
<1>4. Signed(a, n) \in Int
  <2>1. Signed(a, n) \in -(2 ^ (n - 1)) .. (2 ^ (n - 1) - 1)
    BY SignedIs
  <2>2. 2 ^ (n - 1) \in Nat
    <3>1. n - 1 \in Nat
      OBVIOUS
    <3> QED
      BY <3>1, PowerType
  <2> QED
    BY <2>1, <2>2
<1>5. Signed(a, n) \div m \in Int
  BY <1>2, <1>4, Divides
<1>6. Low(a, n) \div m \in 0 .. (2 ^ n - 1)
  <2>1. Low(a, n) \in Nat /\ Low(a, n) <= 2 ^ n - 1 /\ 2 ^ n \in Nat
    BY LowType, PowerType
  <2>2. Low(a, n) \div m \in 0 .. Low(a, n)
    BY <1>2, <2>1, QuotientSmall
  <2> QED
    BY <2>1, <2>2
<1> QED
  BY <1>3, <1>5, <1>6, LowType DEF m, ShiftLeft, ShiftRight, ShiftRightSigned

-------------------------------------------------------------------------------
(* Words and their bits. *)

Digit(v, k) == (v \div 2 ^ k) % 2

\* A digit is not changed by a power above it.
LEMMA DigitBelow ==
  ASSUME NEW v \in Int, NEW n \in Nat, NEW k \in 0 .. (n - 1)
  PROVE  Digit(v + 2 ^ n, k) = Digit(v, k)
<1>1. k \in Nat /\ n - k \in Nat \ {0} /\ (n - k) - 1 \in Nat /\ k \in 0 .. n
      /\ ((n - k) - 1) + 1 = n - k
  OBVIOUS
<1> DEFINE m == 2 ^ k
           p == 2 ^ ((n - k) - 1)
           x == v \div m
<1>2. m \in Nat \ {0} /\ p \in Nat \ {0} /\ x \in Int
  BY <1>1, PowerType, Divides
<1>3. 2 ^ n = m * (2 * p)
  BY <1>1, PowerSplits, PowerDoubles
<1> HIDE DEF p
<1>4. (v + m * (2 * p)) \div m = x + 2 * p
  <2>1. 2 * p \in Int
    BY <1>2
  <2> HIDE DEF m
  <2> QED
    BY <1>2, <2>1, AddMultiple DEF x
<1>5. (x + 2 * p) % 2 = x % 2
  <2>1. 2 \in Nat \ {0} /\ p \in Int
    BY <1>2
  <2> HIDE DEF x
  <2> QED
    BY <1>2, <2>1, AddMultiple, Zenon
<1> QED
  BY <1>3, <1>4, <1>5 DEF Digit

\* A number of n + 1 bits is one of n bits, with the top bit or without.
LEMMA DigitTop ==
  ASSUME NEW n \in Nat, NEW v \in 0 .. (2 ^ (n + 1) - 1)
  PROVE  /\ Digit(v, n) = 1 <=> v >= 2 ^ n
         /\ v >= 2 ^ n => v - 2 ^ n \in 0 .. (2 ^ n - 1)
         /\ v < 2 ^ n => v \in 0 .. (2 ^ n - 1)
<1>1. n + 1 \in Nat \ {0} /\ (n + 1) - 1 = n
  OBVIOUS
<1>2. (v \div 2 ^ n) % 2 = 1 <=> v >= 2 ^ n
  BY <1>1, TopBit
<1>3. 2 ^ n \in Nat /\ 2 ^ (n + 1) = 2 * 2 ^ n
  BY PowerType, PowerDoubles
<1> QED
  BY <1>2, <1>3 DEF Digit

\* There is a number with any digits.
LEMMA DigitsExist ==
  \A n \in Nat : \A ks \in SUBSET (0 .. (n - 1)) : \E v \in 0 .. (2 ^ n - 1) :
    \A k \in 0 .. (n - 1) : Digit(v, k) = 1 <=> k \in ks
<1> DEFINE Has(v, n, ks) == \A k \in 0 .. (n - 1) : Digit(v, k) = 1 <=> k \in ks
           T == {n \in Nat : \A ks \in SUBSET (0 .. (n - 1)) :
                               \E v \in 0 .. (2 ^ n - 1) : Has(v, n, ks)}
<1>1. 0 \in T
  <2>1. \A ks \in SUBSET (0 .. (0 - 1)) : 0 \in 0 .. (2 ^ 0 - 1) /\ Has(0, 0, ks)
    BY PowerZero
  <2> QED
    BY <2>1
<1>2. ASSUME NEW n \in T PROVE n + 1 \in T
  <2> SUFFICES ASSUME NEW ks \in SUBSET (0 .. ((n + 1) - 1))
               PROVE  \E v \in 0 .. (2 ^ (n + 1) - 1) : Has(v, n + 1, ks)
    OBVIOUS
  <2>1. n \in Nat /\ (n + 1) - 1 = n
    OBVIOUS
  <2>2. PICK u \in 0 .. (2 ^ n - 1) : Has(u, n, ks \ {n})
    <3>1. ks \ {n} \in SUBSET (0 .. (n - 1))
      BY <2>1
    <3> QED
      BY <3>1
  <2>3. 2 ^ n \in Nat \ {0} /\ 2 ^ (n + 1) = 2 * 2 ^ n
    BY <2>1, PowerType, PowerDoubles
  <2>4. CASE n \in ks
    <3> DEFINE v == u + 2 ^ n
    <3>1. v \in 0 .. (2 ^ (n + 1) - 1) /\ v >= 2 ^ n /\ u \in Int
      BY <2>2, <2>3
    <3>2. Digit(v, n) = 1
      BY <2>1, <3>1, DigitTop
    <3>3. \A k \in 0 .. (n - 1) : Digit(v, k) = Digit(u, k)
      BY <2>1, <3>1, DigitBelow
    <3>4. Has(v, n + 1, ks)
      <4> SUFFICES ASSUME NEW k \in 0 .. n PROVE Digit(v, k) = 1 <=> k \in ks
        BY <2>1
      <4>1. CASE k = n
        BY <4>1, <3>2, <2>4
      <4>2. CASE k # n
        <5>1. k \in 0 .. (n - 1)
          BY <2>1, <4>2
        <5> QED
          BY <2>2, <3>3, <4>2, <5>1
      <4> QED
        BY <4>1, <4>2
    <3> HIDE DEF v, Has
    <3> QED
      BY <3>1, <3>4
  <2>5. CASE n \notin ks
    <3>1. u \in 0 .. (2 ^ (n + 1) - 1) /\ ~(u >= 2 ^ n)
      BY <2>2, <2>3
    <3>2. Digit(u, n) # 1
      BY <2>1, <3>1, DigitTop
    <3>3. Has(u, n + 1, ks)
      <4> SUFFICES ASSUME NEW k \in 0 .. n PROVE Digit(u, k) = 1 <=> k \in ks
        BY <2>1
      <4>1. CASE k = n
        BY <4>1, <3>2, <2>5
      <4>2. CASE k # n
        <5>1. k \in 0 .. (n - 1)
          BY <2>1, <4>2
        <5> QED
          BY <2>2, <4>2, <5>1
      <4> QED
        BY <4>1, <4>2
    <3> HIDE DEF Has
    <3> QED
      BY <3>1, <3>3
  <2> QED
    BY <2>4, <2>5
<1> HIDE DEF T
<1>3. T = Nat
  BY <1>1, <1>2, Induction DEF T
<1> QED
  BY <1>3 DEF T

\* There is only one.
LEMMA DigitsUnique ==
  \A n \in Nat : \A v, w \in 0 .. (2 ^ n - 1) :
    (\A k \in 0 .. (n - 1) : Digit(v, k) = 1 <=> Digit(w, k) = 1) => v = w
<1> DEFINE Same(v, w, n) == \A k \in 0 .. (n - 1) : Digit(v, k) = 1 <=> Digit(w, k) = 1
           T == {n \in Nat : \A v, w \in 0 .. (2 ^ n - 1) : Same(v, w, n) => v = w}
<1>1. 0 \in T
  BY PowerZero
<1>2. ASSUME NEW n \in T PROVE n + 1 \in T
  <2> SUFFICES ASSUME NEW v \in 0 .. (2 ^ (n + 1) - 1), NEW w \in 0 .. (2 ^ (n + 1) - 1),
                      Same(v, w, n + 1)
               PROVE  v = w
    OBVIOUS
  <2>1. n \in Nat /\ (n + 1) - 1 = n
    OBVIOUS
  <2>2. 2 ^ n \in Nat \ {0} /\ 2 ^ (n + 1) = 2 * 2 ^ n /\ v \in Int /\ w \in Int
    BY <2>1, PowerType, PowerDoubles
  <2>3. \A x, y \in 0 .. (2 ^ n - 1) : Same(x, y, n) => x = y
    OBVIOUS
  <2>4. Same(v, w, n) /\ (Digit(v, n) = 1 <=> Digit(w, n) = 1)
    BY <2>1
  <2>5. v >= 2 ^ n <=> w >= 2 ^ n
    BY <2>1, <2>4, DigitTop
  <2>6. CASE v < 2 ^ n
    <3>1. v \in 0 .. (2 ^ n - 1) /\ w \in 0 .. (2 ^ n - 1)
      BY <2>1, <2>2, <2>5, <2>6, DigitTop
    <3> HIDE DEF Same
    <3> QED
      BY <2>3, <2>4, <3>1
  <2>7. CASE v >= 2 ^ n
    <3> DEFINE x == v - 2 ^ n
               y == w - 2 ^ n
    <3>1. x \in 0 .. (2 ^ n - 1) /\ y \in 0 .. (2 ^ n - 1)
      BY <2>1, <2>5, <2>7, DigitTop
    <3>2. x \in Int /\ y \in Int /\ v = x + 2 ^ n /\ w = y + 2 ^ n
      BY <2>2
    <3> HIDE DEF x, y
    <3>3. \A k \in 0 .. (n - 1) : Digit(v, k) = Digit(x, k) /\ Digit(w, k) = Digit(y, k)
      BY <2>1, <3>2, DigitBelow
    <3>4. Same(x, y, n)
      BY <2>4, <3>3
    <3> HIDE DEF Same
    <3>5. x = y
      BY <2>3, <3>1, <3>4
    <3> QED
      BY <3>2, <3>5
  <2> QED
    BY <2>2, <2>6, <2>7
<1> HIDE DEF T
<1>3. T = Nat
  BY <1>1, <1>2, Induction DEF T
<1> QED
  BY <1>3 DEF T

\* Bits and FromBits undo each other.
LEMMA BitsAre ==
  /\ \A v \in Word : Bits[v] = {k \in 0 .. (XLEN - 1) : Digit(v, k) = 1}
                     /\ Bits[v] \in SUBSET (0 .. (XLEN - 1))
  /\ \A v, w \in Word : Bits[v] = Bits[w] => v = w
  /\ \A ks \in SUBSET (0 .. (XLEN - 1)) : FromBits(ks) \in Word /\ Bits[FromBits(ks)] = ks
<1>0. XLEN \in Nat
  BY Widths
<1>1. ASSUME NEW v \in Word
      PROVE  Bits[v] = {k \in 0 .. (XLEN - 1) : Digit(v, k) = 1}
             /\ Bits[v] \in SUBSET (0 .. (XLEN - 1))
  BY DEF Bits, Digit
<1>2. ASSUME NEW v \in Word, NEW w \in Word, Bits[v] = Bits[w] PROVE v = w
  <2>1. \A k \in 0 .. (XLEN - 1) : Digit(v, k) = 1 <=> Digit(w, k) = 1
    BY <1>1, <1>2
  <2> QED
    BY <1>0, <2>1, DigitsUnique DEF Word
<1>3. ASSUME NEW ks \in SUBSET (0 .. (XLEN - 1))
      PROVE  FromBits(ks) \in Word /\ Bits[FromBits(ks)] = ks
  <2>1. \E v \in Word : \A k \in 0 .. (XLEN - 1) : Digit(v, k) = 1 <=> k \in ks
    BY <1>0, DigitsExist DEF Word
  <2>2. \E v \in Word : Bits[v] = ks
    BY <1>1, <2>1
  <2> QED
    BY <2>2 DEF FromBits
<1> QED
  BY <1>1, <1>2, <1>3

\* The bitwise operators give words.
LEMMA LogicWords ==
  ASSUME NEW a \in Word, NEW b \in Word
  PROVE  And(a, b) \in Word /\ Or(a, b) \in Word /\ Xor(a, b) \in Word /\ Not(a) \in Word
<1>1. Bits[a] \in SUBSET (0 .. (XLEN - 1)) /\ Bits[b] \in SUBSET (0 .. (XLEN - 1))
  BY BitsAre
<1>2. /\ Bits[a] \cap Bits[b] \in SUBSET (0 .. (XLEN - 1))
      /\ Bits[a] \cup Bits[b] \in SUBSET (0 .. (XLEN - 1))
      /\ (Bits[a] \ Bits[b]) \cup (Bits[b] \ Bits[a]) \in SUBSET (0 .. (XLEN - 1))
      /\ (0 .. (XLEN - 1)) \ Bits[a] \in SUBSET (0 .. (XLEN - 1))
  BY <1>1
<1> QED
  BY <1>2, BitsAre DEF And, Or, Xor, Not

\* All bits of the greatest word are set.
LEMMA AllOnes ==
  2 ^ XLEN - 1 \in Word /\ Bits[2 ^ XLEN - 1] = 0 .. (XLEN - 1)
<1>1. 2 ^ XLEN \in Nat \ {0} /\ XLEN \in Nat
  BY WidthPowers, Widths
<1>2. 2 ^ XLEN - 1 \in Word
  BY <1>1 DEF Word
<1>3. ASSUME NEW k \in 0 .. (XLEN - 1) PROVE Digit(2 ^ XLEN - 1, k) = 1
  <2>1. /\ k \in Nat /\ k \in 0 .. XLEN /\ XLEN - k \in Nat \ {0}
        /\ (XLEN - k) - 1 \in Nat /\ ((XLEN - k) - 1) + 1 = XLEN - k
    BY <1>1
  <2> DEFINE m == 2 ^ k
             p == 2 ^ ((XLEN - k) - 1)
  <2>2. m \in Nat \ {0} /\ p \in Nat \ {0} /\ 2 ^ XLEN = m * (2 * p)
    BY <1>1, <2>1, PowerType, PowerSplits, PowerDoubles
  <2> HIDE DEF m, p
  <2>3. m * (2 * p) - 1 = m * (2 * p - 1) + (m - 1)
    <3> DEFINE q == 2 * p
    <3>1. q \in Int /\ m \in Int /\ 1 \in Int
      BY <2>2
    <3> HIDE DEF q
    <3>2. m * (q - 1) = m * q - m * 1 /\ m * q \in Int
      BY <3>1
    <3>3. m * q - 1 = m * (q - 1) + (m - 1)
      BY <2>2, <3>1, <3>2
    <3> QED
      BY <3>3 DEF q
  <2>4. (2 ^ XLEN - 1) \div m = 2 * p - 1
    <3> DEFINE a == 2 ^ XLEN - 1
               q == 2 * p - 1
               r == m - 1
    <3>1. q \in Int /\ r \in 0 .. (m - 1) /\ a \in Int
      BY <1>1, <2>2
    <3>2. a = m * q + r
      BY <2>2, <2>3
    <3> HIDE DEF a, q, r
    <3>3. a \div m = q
      BY <2>2, <3>1, <3>2, DividesOnce
    <3> QED
      BY <3>3 DEF a, q
  <2>5. (2 * p - 1) % 2 = 1
    BY <2>2
  <2> QED
    BY <2>4, <2>5 DEF Digit, m
<1> QED
  BY <1>2, <1>3, BitsAre

\* Or with the complement is Or with the word itself only for the greatest word.
LEMMA OrNot ==
  ASSUME NEW a \in Word, NEW b \in Word
  PROVE  Or(a, Not(b)) = Or(a, b) <=> a = 2 ^ XLEN - 1
<1> DEFINE U == 0 .. (XLEN - 1)
<1>1. /\ Bits[a] \in SUBSET U /\ Bits[b] \in SUBSET U
      /\ Bits[Not(b)] = U \ Bits[b] /\ Not(b) \in Word
  <2>1. Bits[a] \in SUBSET U /\ Bits[b] \in SUBSET U
    BY BitsAre
  <2>2. U \ Bits[b] \in SUBSET U
    OBVIOUS
  <2> QED
    BY <2>1, <2>2, BitsAre DEF Not
<1>2. /\ Bits[Or(a, b)] = Bits[a] \cup Bits[b]
      /\ Bits[Or(a, Not(b))] = Bits[a] \cup (U \ Bits[b])
  <2>1. Bits[a] \cup Bits[b] \in SUBSET U /\ Bits[a] \cup (U \ Bits[b]) \in SUBSET U
    BY <1>1
  <2> QED
    BY <1>1, <2>1, BitsAre DEF Or
<1>3. Or(a, b) \in Word /\ Or(a, Not(b)) \in Word
  BY <1>1, LogicWords
<1>4. Or(a, Not(b)) = Or(a, b) <=> Bits[a] = U
  <2>1. Or(a, Not(b)) = Or(a, b) <=> Bits[a] \cup (U \ Bits[b]) = Bits[a] \cup Bits[b]
    BY <1>2, <1>3, BitsAre
  <2> DEFINE A == Bits[a]
             B == Bits[b]
  <2>2. A \in SUBSET U /\ B \in SUBSET U
    BY <1>1
  <2> HIDE DEF A, B, U
  <2>3. A \cup (U \ B) = A \cup B <=> A = U
    BY <2>2
  <2> QED
    BY <2>1, <2>3 DEF A, B
<1>5. Bits[a] = U <=> a = 2 ^ XLEN - 1
  BY AllOnes, BitsAre
<1> QED
  BY <1>4, <1>5
-------------------------------------------------------------------------------
(* Guests. *)

\* Memory gives as many bits as were asked for.
LEMMA ReadMemType ==
  ASSUME NEW g \in Guest, NEW a \in Nat, NEW size \in {1, 2, 4, 8}, a + size <= MemSize
  PROVE  ReadMem(g, a, size) \in 0 .. (2 ^ (ByteBits * size) - 1)
<1> DEFINE B == 2 ^ ByteBits
           D == 2 ^ (2 * ByteBits)
<1>1. /\ ByteBits \in Nat \ {0} /\ MemSize \in Nat /\ WLEN \in Nat
      /\ ByteBits + ByteBits = 2 * ByteBits /\ 2 * ByteBits + 2 * ByteBits = WLEN
      /\ WLEN + WLEN = XLEN
  BY LockstepAssumption DEF WLEN, XLEN
<1>2. /\ B \in Nat \ {0} /\ D \in Nat \ {0} /\ D = B * B /\ 2 ^ WLEN = D * D
      /\ 2 ^ WLEN \in Nat \ {0} /\ 2 ^ XLEN = 2 ^ WLEN * 2 ^ WLEN
  <2>1. 2 * ByteBits \in Nat
    BY <1>1
  <2> QED
    BY <1>1, <2>1, PowerType, PowerAdds
<1>3. \A x \in Nat : x < MemSize => g.mem[x] \in 0 .. (B - 1)
  BY <1>1 DEF Guest, Addresses
<1> HIDE DEF B, D
<1>4. \A x \in Nat : x + 2 <= MemSize => ReadTwo(g, x) \in 0 .. (D - 1)
  <2> SUFFICES ASSUME NEW x \in Nat, x + 2 <= MemSize PROVE ReadTwo(g, x) \in 0 .. (D - 1)
    OBVIOUS
  <2>1. g.mem[x] \in 0 .. (B - 1) /\ g.mem[x + 1] \in 0 .. (B - 1)
    BY <1>1, <1>3
  <2>2. g.mem[x] + B * g.mem[x + 1] \in 0 .. (B * B - 1)
    BY <1>2, <2>1, TwoDigits
  <2> QED
    BY <1>2, <2>2 DEF ReadTwo, B
<1>5. \A x \in Nat : x + 4 <= MemSize => ReadFour(g, x) \in 0 .. (2 ^ WLEN - 1)
  <2> SUFFICES ASSUME NEW x \in Nat, x + 4 <= MemSize
               PROVE  ReadFour(g, x) \in 0 .. (2 ^ WLEN - 1)
    OBVIOUS
  <2>1. ReadTwo(g, x) \in 0 .. (D - 1) /\ ReadTwo(g, x + 2) \in 0 .. (D - 1)
    BY <1>1, <1>4
  <2>2. ReadTwo(g, x) + D * ReadTwo(g, x + 2) \in 0 .. (D * D - 1)
    BY <1>2, <2>1, TwoDigits
  <2> QED
    BY <1>2, <2>2 DEF ReadFour, D
<1>6. CASE size = 1
  <2>1. ByteBits * size = ByteBits /\ g.mem[a] \in 0 .. (B - 1)
    BY <1>1, <1>3, <1>6
  <2> QED
    BY <1>6, <2>1 DEF ReadMem, B
<1>7. CASE size = 2
  <2>1. ByteBits * size = 2 * ByteBits /\ ReadTwo(g, a) \in 0 .. (D - 1)
    BY <1>1, <1>4, <1>7
  <2> QED
    BY <1>7, <2>1 DEF ReadMem, D
<1>8. CASE size = 4
  <2>1. ByteBits * size = WLEN /\ ReadFour(g, a) \in 0 .. (2 ^ WLEN - 1)
    BY <1>1, <1>5, <1>8 DEF WLEN
  <2> QED
    BY <1>8, <2>1 DEF ReadMem
<1>9. CASE size = 8
  <2>1. /\ ByteBits * size = XLEN
        /\ ReadFour(g, a) \in 0 .. (2 ^ WLEN - 1) /\ ReadFour(g, a + 4) \in 0 .. (2 ^ WLEN - 1)
    BY <1>1, <1>5, <1>9 DEF XLEN
  <2>2. ReadFour(g, a) + 2 ^ WLEN * ReadFour(g, a + 4) \in 0 .. (2 ^ WLEN * 2 ^ WLEN - 1)
    BY <1>2, <2>1, TwoDigits
  <2> QED
    BY <1>2, <1>9, <2>1, <2>2 DEF ReadMem
<1> QED
  BY <1>6, <1>7, <1>8, <1>9

\* Sizes, and the widths of what they read.
LEMMA Sizes ==
  ASSUME NEW op \in Loads \cup Stores
  PROVE  Size(op) \in {1, 2, 4, 8} /\ ByteBits * Size(op) \in 1 .. XLEN
         /\ (op \in {"lb", "lh", "lw"} => ByteBits * Size(op) \in 1 .. WLEN)
<1>1. Size(op) \in {1, 2, 4, 8} /\ (op \in {"lb", "lh", "lw"} => Size(op) \in {1, 2, 4})
  BY DEF Size, Loads, Stores
<1> DEFINE s == Size(op)
<1> HIDE DEF s
<1>2. s \in {1, 2, 4, 8} => ByteBits * s \in 1 .. XLEN
  BY LockstepAssumption DEF XLEN, WLEN
<1>3. s \in {1, 2, 4} => ByteBits * s \in 1 .. WLEN
  BY LockstepAssumption DEF XLEN, WLEN
<1> QED
  BY <1>1, <1>2, <1>3 DEF s

\* Stores keep the guest well formed.
LEMMA WriteMemType ==
  ASSUME NEW g \in Guest, NEW a \in Int, NEW v \in Int, NEW size \in {1, 2, 4, 8}
  PROVE  WriteMem(g, a, v, size) \in Guest
         /\ WriteMem(g, a, v, size).regs = g.regs
         /\ WriteMem(g, a, v, size).pc = g.pc
<1> DEFINE byte(x) == Low(v \div 2 ^ (ByteBits * (x - a)), ByteBits)
           m == [x \in Addresses |-> IF x \in a .. (a + size - 1) THEN byte(x) ELSE g.mem[x]]
<1>1. \A x \in Addresses : x \in a .. (a + size - 1) => byte(x) \in 0 .. (2 ^ ByteBits - 1)
  <2>3. ASSUME NEW x \in Addresses, x \in a .. (a + size - 1)
        PROVE  x \in Int /\ x >= a
    <3>1. MemSize \in Nat
      BY LockstepAssumption
    <3>2. x \in 0 .. (MemSize - 1)
      BY DEF Addresses
    <3>3. x \in a .. (a + size - 1)
      BY <2>3
    <3> HIDE DEF byte, m
    <3> QED
      BY <3>1, <3>2, <3>3
  <2> SUFFICES ASSUME NEW x \in Int, x >= a PROVE byte(x) \in 0 .. (2 ^ ByteBits - 1)
    <3> HIDE DEF byte
    <3> QED
      BY <2>3
  <2>1. x - a \in Nat /\ ByteBits \in Nat
    BY Widths
  <2> DEFINE k == ByteBits * (x - a)
  <2>2. k \in Nat
    BY <2>1
  <2> HIDE DEF k
  <2>4. 2 ^ k \in Nat \ {0}
    BY <2>2, PowerType
  <2>5. v \div 2 ^ k \in Int
    BY <2>4, Divides
  <2> QED
    BY <2>1, <2>5, LowType DEF k
<1>2. m \in [Addresses -> 0 .. (2 ^ ByteBits - 1)]
  <2> HIDE DEF byte
  <2> QED
    BY <1>1 DEF Guest
<1>3. WriteMem(g, a, v, size) = [g EXCEPT !.mem = m]
  BY DEF WriteMem
<1> HIDE DEF m
<1> QED
  BY <1>2, <1>3 DEF Guest

\* A guest that writes v to register r and goes to p.
Put(g, r, v, p) == [[g EXCEPT !.regs[r] = v] EXCEPT !.pc = p]
\* A guest that does, unless r is x0.
Guarded(g, r, v, p) == IF r = 0 THEN [g EXCEPT !.pc = p] ELSE Put(g, r, v, p)

LEMMA GuestFields ==
  ASSUME NEW g \in Guest
  PROVE  /\ \A r \in Regs : g.regs[r] \in Word /\ g.regs[r] \in Int
         /\ g.pc \in Word /\ g.pc \in Int /\ 0 \in Regs /\ 1 \in Regs
         /\ g.satp \in Word
BY WordIs, LockstepAssumption DEF Guest, Regs

LEMMA MovedType ==
  ASSUME NEW g \in Guest, NEW p \in Word
  PROVE  /\ [g EXCEPT !.pc = p] \in Guest /\ [g EXCEPT !.pc = p].regs = g.regs
         /\ [g EXCEPT !.pc = p].pc = p
BY DEF Guest

LEMMA PutTypes ==
  ASSUME NEW g \in Guest, NEW r \in Regs, NEW v \in Word, NEW p \in Word
  PROVE  /\ Put(g, r, v, p) \in Guest /\ Put(g, r, v, p).regs[r] = v
         /\ Put(g, r, v, p).pc = p
         /\ Guarded(g, r, v, p) \in Guest /\ Guarded(g, r, v, p).pc = p
         /\ g.regs[0] = 0 => Guarded(g, r, v, p).regs[0] = 0
         /\ r # 0 => Guarded(g, r, v, p).regs[r] = v
BY GuestFields DEF Guest, Put, Guarded

LEMMA PutForms ==
  ASSUME NEW g \in Guest, NEW r \in Regs, NEW v \in Word, NEW p \in Word
  PROVE  /\ [SetReg(g, r, v) EXCEPT !.pc = p] = Guarded(g, r, v, p)
         /\ [WriteReg(g, r, v) EXCEPT !.pc = p] = Guarded(g, r, v, p)
         /\ IncreasePc(WriteReg(g, r, v)) = Guarded(g, r, v, Wrap(g.pc + 4))
         /\ [StoreReg(g, r, v) EXCEPT !.pc = p] = Put(g, r, v, p)
         /\ IncreasePcA64(StoreReg(g, r, v)) = Put(g, r, v, Wrap(g.pc + 4))
<1>1. WriteReg(g, r, v).pc = g.pc /\ StoreReg(g, r, v).pc = g.pc
  BY DEF Guest, WriteReg, StoreReg
<1>2. \A h : IncreasePc(h) = [h EXCEPT !.pc = Wrap(h.pc + 4)]
             /\ IncreasePcA64(h) = [h EXCEPT !.pc = Wrap(h.pc + 4)]
  BY DEF IncreasePc, IncreasePcA64
<1>3. \A q : /\ [SetReg(g, r, v) EXCEPT !.pc = q] = Guarded(g, r, v, q)
             /\ [WriteReg(g, r, v) EXCEPT !.pc = q] = Guarded(g, r, v, q)
             /\ [StoreReg(g, r, v) EXCEPT !.pc = q] = Put(g, r, v, q)
  BY DEF SetReg, WriteReg, StoreReg, Put, Guarded
<1> QED
  BY <1>1, <1>2, <1>3

\* What tells them apart.
LEMMA PutDiffers ==
  ASSUME NEW g \in Guest, NEW r \in Regs, NEW v \in Word, NEW w \in Word,
         NEW p \in Word, NEW q \in Word
  PROVE  /\ Put(g, r, v, p) = Put(g, r, w, q) <=> v = w /\ p = q
         /\ Guarded(g, r, v, p) = Guarded(g, r, w, q) <=> (r = 0 \/ v = w) /\ p = q
<1>0. /\ Put(g, r, v, p).regs[r] = v /\ Put(g, r, v, p).pc = p
      /\ Put(g, r, w, q).regs[r] = w /\ Put(g, r, w, q).pc = q
      /\ Guarded(g, r, v, p).pc = p /\ Guarded(g, r, w, q).pc = q
  <2>1. \A x, y \in Word : Put(g, r, x, y).regs[r] = x /\ Put(g, r, x, y).pc = y
                         /\ Guarded(g, r, x, y).pc = y
    BY PutTypes
  <2> QED
    BY <2>1
<1>1. Put(g, r, v, p) = Put(g, r, w, q) <=> v = w /\ p = q
  BY <1>0, Zenon
<1>2. CASE r = 0
  <2>1. Guarded(g, r, v, p) = Guarded(g, r, w, q) <=> p = q
    <3>1. /\ Guarded(g, r, v, p) = [g EXCEPT !.pc = p]
          /\ Guarded(g, r, w, q) = [g EXCEPT !.pc = q]
      BY <1>2 DEF Guarded
    <3>2. Guarded(g, r, v, p).pc = p /\ Guarded(g, r, w, q).pc = q
      BY <1>0
    <3> QED
      BY <3>1, <3>2, Zenon
  <2> QED
    BY <1>1, <1>2, <2>1
<1>3. CASE r # 0
  BY <1>1, <1>3 DEF Guarded
<1> QED
  BY <1>2, <1>3
-------------------------------------------------------------------------------
(* Values. *)

Adds == {"add", "addi", "sub"}
Compares == {"slt", "slti", "sltu", "sltiu"}
Logics == {"xor", "xori", "or", "ori", "and", "andi"}
Shifts == {"sll", "slli", "srl", "srli", "sra", "srai"}
WordAdds == {"addw", "addiw", "subw"}

LEMMA Families ==
  ASSUME NEW op \in Immediates \cup Registers, NEW a, NEW b
  PROVE  /\ \/ op \in Adds \/ op \in Compares \/ op \in Logics \/ op \in Shifts
            \/ op \in WordAdds \/ op \in WordShifts
         /\ op \in Adds =>
              /\ Computed(op, a, b) = Arith(op, a, b)
              /\ ComputedX86(op, a, b) = AddX86(op, a, b)
              /\ ComputedA64(op, a, b) = AddA64(op, a, b)
         /\ op \in Compares =>
              /\ Computed(op, a, b) = Compare(op, a, b)
              /\ ComputedX86(op, a, b) = CompareX86(op, a, b)
              /\ ComputedA64(op, a, b) = CompareA64(op, a, b)
         /\ op \in Logics =>
              /\ Computed(op, a, b) = Logic(op, a, b)
              /\ ComputedX86(op, a, b) = LogicX86(op, a, b)
              /\ ComputedA64(op, a, b) = LogicA64(op, a, b)
         /\ op \in Shifts =>
              /\ Computed(op, a, b) = Shift(op, a, b)
              /\ ComputedX86(op, a, b) = ShiftX86(op, a, b)
              /\ op # "srai" => ComputedA64(op, a, b) = ShiftA64(op, a, b)
         /\ op \in WordAdds =>
              /\ Computed(op, a, b) = WordArith(op, a, b)
              /\ ComputedX86(op, a, b) = WordAddX86(op, a, b)
              /\ ComputedA64(op, a, b) = WordAddA64(op, a, b)
         /\ op \in WordShifts =>
              /\ Computed(op, a, b) = WordShift(op, a, b)
              /\ ComputedX86(op, a, b) = WordShiftX86(op, a, b)
              /\ ComputedA64(op, a, b) = WordShiftA64(op, a, b)
<1>1. \/ op \in Adds \/ op \in Compares \/ op \in Logics \/ op \in Shifts
      \/ op \in WordAdds \/ op \in WordShifts
  BY DEF Immediates, Registers, Adds, Compares, Logics, Shifts, WordAdds, WordShifts
<1>2. ASSUME op \in Adds
      PROVE  /\ Computed(op, a, b) = Arith(op, a, b)
             /\ ComputedX86(op, a, b) = AddX86(op, a, b)
             /\ ComputedA64(op, a, b) = AddA64(op, a, b)
  BY <1>2 DEF Adds, WordShifts, Computed, ComputedX86, ComputedA64
<1>3. ASSUME op \in Compares
      PROVE  /\ Computed(op, a, b) = Compare(op, a, b)
             /\ ComputedX86(op, a, b) = CompareX86(op, a, b)
             /\ ComputedA64(op, a, b) = CompareA64(op, a, b)
  BY <1>3 DEF Compares, WordShifts, Computed, ComputedX86, ComputedA64
<1>4. ASSUME op \in Logics
      PROVE  /\ Computed(op, a, b) = Logic(op, a, b)
             /\ ComputedX86(op, a, b) = LogicX86(op, a, b)
             /\ ComputedA64(op, a, b) = LogicA64(op, a, b)
  BY <1>4 DEF Logics, WordShifts, Computed, ComputedX86, ComputedA64
<1>5. ASSUME op \in Shifts
      PROVE  /\ Computed(op, a, b) = Shift(op, a, b)
             /\ ComputedX86(op, a, b) = ShiftX86(op, a, b)
             /\ op # "srai" => ComputedA64(op, a, b) = ShiftA64(op, a, b)
  BY <1>5 DEF Shifts, WordShifts, Computed, ComputedX86, ComputedA64
<1>6. ASSUME op \in WordAdds
      PROVE  /\ Computed(op, a, b) = WordArith(op, a, b)
             /\ ComputedX86(op, a, b) = WordAddX86(op, a, b)
             /\ ComputedA64(op, a, b) = WordAddA64(op, a, b)
  BY <1>6 DEF WordAdds, WordShifts, Computed, ComputedX86, ComputedA64
<1>7. ASSUME op \in WordShifts
      PROVE  /\ Computed(op, a, b) = WordShift(op, a, b)
             /\ ComputedX86(op, a, b) = WordShiftX86(op, a, b)
             /\ ComputedA64(op, a, b) = WordShiftA64(op, a, b)
  BY <1>7 DEF WordShifts, Computed, ComputedX86, ComputedA64
<1> QED
  BY <1>1, <1>2, <1>3, <1>4, <1>5, <1>6, <1>7

\* What the engines compute are words.
LEMMA ComputedTypes ==
  ASSUME NEW op \in Immediates \cup Registers, NEW a \in Word, NEW b \in Word
  PROVE  /\ Computed(op, a, b) \in Word
         /\ ComputedX86(op, a, b) \in Word
         /\ op \notin NotListed => ComputedA64(op, a, b) \in Word
<1>1. a \in Int /\ b \in Int
  BY WordIs
<1>2. /\ Wrap(a + b) \in Word /\ Wrap(a - b) \in Word
      /\ Wrap(Low(a, WLEN) - Low(b, WLEN)) \in Word
      /\ 0 \in Word /\ 1 \in Word
  <2>1. /\ a + b \in Int /\ a - b \in Int /\ Low(a, WLEN) - Low(b, WLEN) \in Int
        /\ 2 ^ XLEN \in Nat /\ 2 ^ XLEN > 1
    BY <1>1, LowType, Widths, WidthPowers
  <2> QED
    BY <2>1, WordIs DEF Word
<1>3. \A x, y \in Int :
        /\ ShiftLeft(x, y, XLEN) \in Word /\ ShiftRight(x, y, XLEN) \in Word
        /\ ShiftRightSigned(x, y, XLEN) \in Word
  BY ShiftTypes, Widths DEF Word
<1>4. \A x, y \in Int :
        /\ ShiftLeft(x, y, WLEN) \in 0 .. (2 ^ WLEN - 1)
        /\ ShiftRight(x, y, WLEN) \in 0 .. (2 ^ WLEN - 1)
        /\ ShiftRightSigned(x, y, WLEN) \in 0 .. (2 ^ WLEN - 1)
  BY ShiftTypes, Widths
<1>5. \A x \in 0 .. (2 ^ WLEN - 1) : x \in Word /\ x \in Int
  <2>1. WLEN \in 0 .. XLEN /\ 2 ^ WLEN \in Nat
    BY Widths, WidthPowers
  <2> QED
    BY <2>1, SmallIsWord
<1>6. \A x \in Int : SignExtended(x, WLEN) \in Word
  <2>1. WLEN \in 1 .. WLEN
    BY Widths
  <2> QED
    BY <2>1, SignExtendedIs
<1>7. /\ Low(a, WLEN) \in Int /\ Low(b, WLEN) \in Int
      /\ Low(a, WLEN) + Low(b, WLEN) \in Word /\ b % WLEN \in Int
  <2>1. Low(a, WLEN) \in 0 .. (2 ^ WLEN - 1) /\ Low(b, WLEN) \in 0 .. (2 ^ WLEN - 1)
    BY <1>1, LowType, Widths
  <2>2. b % WLEN \in Int
    BY <1>1, Divides, Widths
  <2> QED
    BY <2>1, <2>2, WidthPowers DEF Word
<1>8. CASE op \in Adds
  <2>1. /\ Arith(op, a, b) \in Word /\ AddX86(op, a, b) \in Word /\ AddA64(op, a, b) \in Word
    BY <1>2 DEF Arith, AddX86, AddA64
  <2> QED
    BY <1>8, <2>1, Families
<1>9. CASE op \in Compares
  <2>1. /\ Compare(op, a, b) \in Word /\ CompareX86(op, a, b) \in Word
        /\ CompareA64(op, a, b) \in Word
    BY <1>2 DEF Compare, CompareX86, CompareA64
  <2> QED
    BY <1>9, <2>1, Families
<1>10. CASE op \in Logics
  <2>1. /\ Xor(a, b) \in Word /\ Or(a, b) \in Word /\ And(a, b) \in Word
        /\ Or(a, Not(b)) \in Word
    BY LogicWords
  <2>2. /\ Logic(op, a, b) \in Word /\ LogicX86(op, a, b) \in Word
        /\ LogicA64(op, a, b) \in Word
    BY <1>10, <2>1 DEF Logics, Logic, LogicX86, LogicA64
  <2> QED
    BY <1>10, <2>2, Families
<1>11. CASE op \in Shifts
  <2>1. /\ Shift(op, a, b) \in Word /\ ShiftX86(op, a, b) \in Word
        /\ op # "srai" => ShiftA64(op, a, b) \in Word
    BY <1>1, <1>3, <1>11 DEF Shifts, Shift, ShiftX86, ShiftA64
  <2> QED
    BY <1>11, <2>1, Families DEF NotListed
<1>12. CASE op \in WordAdds
  <2>1. /\ WordArith(op, a, b) \in Word /\ WordAddX86(op, a, b) \in Word
        /\ WordAddA64(op, a, b) \in Word
    BY <1>1, <1>2, <1>6, <1>7 DEF WordArith, WordAddX86, WordAddA64
  <2> QED
    BY <1>12, <2>1, Families
<1>13. CASE op \in WordShifts
  <2>1. /\ WordShift(op, a, b) \in Word /\ WordShiftX86(op, a, b) \in Word
    BY <1>1, <1>4, <1>5, <1>6, <1>13 DEF WordShifts, WordShift, WordShiftX86
  <2>2. op # "sraw" => WordShiftA64(op, a, b) \in Word
    BY <1>1, <1>3, <1>7, <1>13 DEF WordShifts, WordShiftA64
  <2> QED
    BY <1>13, <2>1, <2>2, Families DEF NotListed
<1> QED
  BY <1>8, <1>9, <1>10, <1>11, <1>12, <1>13, Families

\* Instructions that write a value to rd and go on to the next.
Valued == Loads \cup Immediates \cup Registers \cup {"lui", "auipc"}

UpperImm(i) == Wrap(Imm(i) * 2 ^ UpperShift)

Value(i, g) ==
  IF i.op \in Loads THEN ReadMem(g, Address(i, g), Size(i.op))
  ELSE IF i.op = "lui" THEN UpperImm(i)
  ELSE IF i.op = "auipc" THEN Wrap(g.pc + UpperImm(i))
  ELSE Computed(i.op, Reg(g, i.rs1), Operand(i, g))

\* The same of compiled code; x0 holds 0.
ValueX86(i, g) ==
  IF i.op \in {"lb", "lh", "lw"} THEN SignExtended(Value(i, g), ByteBits * Size(i.op))
  ELSE IF i.op \in Loads \cup {"lui"} THEN Value(i, g)
  ELSE IF i.op = "auipc" THEN IF UpperImm(i) < 2 ^ (WLEN - 1) THEN Value(i, g) ELSE g.pc
  ELSE ComputedX86(i.op, Reg(g, i.rs1), Operand(i, g))

ValueA64(i, g) ==
  IF i.op \in Loads \cup {"lui", "auipc"} THEN Value(i, g)
  ELSE ComputedA64(i.op, Reg(g, i.rs1),
                   IF i.op \in {"subw", "srl", "sra"} THEN 0 ELSE Operand(i, g))

\* Where a guest is when x0 holds 0 and it can execute an instruction.
Ready(i, g) ==
  Instruction(i) /\ g \in Guest /\ g.regs[0] = 0 /\ ~g.thrown /\ Executable(i, g)

LEMMA Fields ==
  ASSUME NEW i, Instruction(i)
  PROVE  /\ i.rd \in Regs /\ i.rs1 \in Regs /\ i.rs2 \in Regs /\ i.imm \in Int
         /\ i.imm >= -(2 ^ (XLEN - 1)) /\ i.imm < 2 ^ (XLEN - 1)
         /\ Imm(i) = Wrap(i.imm) /\ Imm(i) \in Word /\ Mov(i) = Imm(i)
         /\ Wrap(0) = 0 /\ 0 \in Word
<1>1. 2 ^ (XLEN - 1) \in Nat
  BY WidthPowers
<1> DEFINE m == 2 ^ (XLEN - 1)
<1> HIDE DEF m
<1>2. i.imm \in -m .. (m - 1)
  BY DEF Instruction, m
<1>3. i.imm \in Int /\ i.imm >= -m /\ i.imm < m
  BY <1>1, <1>2 DEF m
<1>4. i.rd \in Regs /\ i.rs1 \in Regs /\ i.rs2 \in Regs
  BY DEF Instruction
<1>5. 0 \in Word
  BY WidthPowers DEF Word
<1> QED
  BY <1>3, <1>4, <1>5, WordIs DEF m, Imm, Mov

\* All engines see the same operands.
LEMMA Operands ==
  ASSUME NEW i, NEW g, Ready(i, g)
  PROVE  /\ \A r \in Regs : /\ Reg(g, r) = g.regs[r] /\ RegAt(g, r) = g.regs[r]
                            /\ RegAtA64(g, r) = g.regs[r]
         /\ Address(i, g) \in Word /\ Address(i, g) = Wrap(g.regs[i.rs1] + i.imm)
         /\ MemAddress(i, g) = Address(i, g) /\ MemAddressA64(i, g) = Address(i, g)
         /\ Operand(i, g) \in Word /\ Source(i, g) = Operand(i, g)
         /\ SecondSource(i, g) = IF i.op \in {"subw", "srl", "sra"} THEN 0 ELSE Operand(i, g)
         /\ Reg(g, i.rs1) \in Word
<1>1. \A r \in Regs : /\ Reg(g, r) = g.regs[r] /\ RegAt(g, r) = g.regs[r]
                      /\ RegAtA64(g, r) = g.regs[r] /\ g.regs[r] \in Word /\ g.regs[r] \in Int
  BY GuestFields DEF Ready, Reg, RegAt, RegAtA64
<1>2. /\ i.rs1 \in Regs /\ i.rs2 \in Regs /\ i.imm \in Int /\ Imm(i) = Wrap(i.imm)
      /\ Imm(i) \in Word /\ Mov(i) = Imm(i) /\ Wrap(0) = 0
  BY Fields DEF Ready
<1>3. Address(i, g) = Wrap(g.regs[i.rs1] + i.imm) /\ MemAddressA64(i, g) = Address(i, g)
      /\ MemAddress(i, g) = Address(i, g)
  <2>1. g.regs[i.rs1] \in Int
    BY <1>1, <1>2
  <2>2. Wrap(g.regs[i.rs1] + Wrap(i.imm)) = Wrap(g.regs[i.rs1] + i.imm)
    BY <1>2, <2>1, WrapAdds
  <2> QED
    BY <1>1, <1>2, <2>2 DEF Address, MemAddress, MemAddressA64
<1>4. Wrap(g.regs[i.rs1] + i.imm) \in Word
  <2>1. g.regs[i.rs1] + i.imm \in Int
    BY <1>1, <1>2
  <2> QED
    BY <2>1, WordIs
<1>5. Operand(i, g) \in Word /\ Source(i, g) = Operand(i, g)
  BY <1>1, <1>2 DEF Operand, Source
<1>6. i.op \in {"subw", "srl", "sra"} => Mov(i) = 0
  BY <1>2 DEF Ready, Instruction, Registers
<1>7. SecondSource(i, g) = IF i.op \in {"subw", "srl", "sra"} THEN 0 ELSE Operand(i, g)
  BY <1>1, <1>2, <1>6 DEF SecondSource, Operand
<1> QED
  BY <1>1, <1>2, <1>3, <1>4, <1>5, <1>7
-------------------------------------------------------------------------------
(* Instructions. *)

Signeds == {"lb", "lh", "lw"}
UpperOps == {"lui", "auipc"}

\* A load reads within memory.
LEMMA LoadReads ==
  ASSUME NEW i, NEW g, Ready(i, g), i.op \in Loads
  PROVE  /\ Value(i, g) = ReadMem(g, Address(i, g), Size(i.op))
         /\ Value(i, g) \in 0 .. (2 ^ (ByteBits * Size(i.op)) - 1)
         /\ Value(i, g) \in Word
<1>1. Address(i, g) \in Nat
  <2>1. Address(i, g) \in Word
    BY Operands
  <2> QED
    BY <2>1, WidthPowers DEF Word
<1>2. Size(i.op) \in {1, 2, 4, 8} /\ ByteBits * Size(i.op) \in 1 .. XLEN
  BY Sizes
<1>3. Address(i, g) + Size(i.op) <= MemSize /\ g \in Guest
  BY DEF Ready, Executable
<1>4. ReadMem(g, Address(i, g), Size(i.op)) \in 0 .. (2 ^ (ByteBits * Size(i.op)) - 1)
  BY <1>1, <1>2, <1>3, ReadMemType
<1>5. ReadMem(g, Address(i, g), Size(i.op)) \in Word
  <2>1. ByteBits * Size(i.op) \in 0 .. XLEN
    BY <1>2
  <2> QED
    BY <1>4, <2>1, SmallIsWord
<1> QED
  BY <1>4, <1>5 DEF Value

\* The immediate of LUI and AUIPC, shifted.
LEMMA UpperIs ==
  ASSUME NEW i, NEW g, Ready(i, g), i.op \in UpperOps
  PROVE  /\ UpperImm(i) = i.imm * 2 ^ UpperShift /\ UpperImm(i) \in 0 .. (2 ^ WLEN - 1)
         /\ UpperImm(i) \in Word
         /\ UpperImm(i) >= 2 ^ (WLEN - 1) <=> Signed(i.imm, WLEN - UpperShift) < 0
<1>1. /\ UpperShift \in Nat /\ WLEN - UpperShift \in Nat \ {0} /\ UpperShift \in 0 .. WLEN
      /\ WLEN \in Nat /\ WLEN - UpperShift - 1 \in Nat
      /\ WLEN - 1 \in Nat /\ UpperShift \in 0 .. (WLEN - 1)
      /\ (WLEN - 1) - UpperShift = WLEN - UpperShift - 1
  BY Widths, LockstepAssumption
<1> DEFINE u == 2 ^ UpperShift
           n == WLEN - UpperShift
           m == 2 ^ n
           h == 2 ^ (n - 1)
<1>2. u \in Nat \ {0} /\ m \in Nat \ {0} /\ h \in Nat \ {0}
  BY <1>1, PowerType
<1>3. 2 ^ WLEN = u * m /\ 2 ^ (WLEN - 1) = u * h
  BY <1>1, PowerSplits
<1>4. i.imm \in 0 .. (m - 1)
  BY DEF Ready, Instruction, UpperOps
<1>5. Imm(i) = i.imm
  <2>1. 2 ^ n <= 2 ^ XLEN /\ 2 ^ XLEN \in Nat
    <3>1. n \in 0 .. XLEN /\ XLEN \in Nat
      BY <1>1, Widths
    <3> HIDE DEF n
    <3> QED
      BY <3>1, PowerGrows, PowerType
  <2>2. i.imm \in Word
    BY <1>2, <1>4, <2>1 DEF Word
  <2>3. Imm(i) = Wrap(i.imm)
    BY Fields DEF Ready
  <2> QED
    BY <2>2, <2>3, WordIs
<1> DEFINE x == i.imm
<1> HIDE DEF u, m, h, x
<1>6. x * u \in 0 .. (u * m - 1)
  <2>1. 0 + u * x \in 0 .. (u * m - 1)
    BY <1>2, <1>4, TwoDigits DEF x
  <2>2. x * u = 0 + u * x
    BY <1>2, <1>4 DEF x
  <2> QED
    BY <2>1, <2>2
<1>7. x * u \in Word /\ Wrap(x * u) = x * u
  <2>1. x * u \in Word
    BY <1>3, <1>6, WidthPowers DEF Word
  <2> QED
    BY <2>1, WordIs
<1>8. x * u >= u * h <=> x >= h
  <2>1. x \in Int /\ x * u = u * x
    BY <1>2, <1>4 DEF x
  <2>2. x >= h => u * h <= u * x
    BY <1>2, <2>1, ProductOrder
  <2>3. x + 1 <= h => u * (x + 1) <= u * h /\ u * (x + 1) = u * x + u * 1
    BY <1>2, <2>1, ProductOrder, Products
  <2>4. u * x \in Int /\ u * h \in Int
    BY <1>2, <2>1
  <2> QED
    BY <1>2, <2>1, <2>2, <2>3, <2>4
<1>9. Signed(x, n) < 0 <=> x >= h
  <2>1. Low(x, n) = x
    BY <1>1, <1>4, LowOfSmall DEF x, m
  <2>2. x \in Int /\ n \in Nat \ {0}
    BY <1>1, <1>2, <1>4 DEF x
  <2> HIDE DEF n
  <2>3. /\ Low(x, n) < h => Signed(x, n) = Low(x, n)
        /\ Low(x, n) >= h => Signed(x, n) < 0
    BY <2>2, SignedIs DEF h
  <2> QED
    BY <1>2, <1>4, <2>1, <2>2, <2>3 DEF x
<1>10. UpperImm(i) = x * u
  BY <1>5, <1>7 DEF UpperImm, x, u
<1> QED
  BY <1>3, <1>6, <1>7, <1>8, <1>9, <1>10 DEF x, u

\* Values are words.
LEMMA ValueTypes ==
  ASSUME NEW i, NEW g, Ready(i, g), i.op \in Valued
  PROVE  /\ Value(i, g) \in Word /\ ValueX86(i, g) \in Word
         /\ i.op \notin NotListed => ValueA64(i, g) \in Word
<1>1. Reg(g, i.rs1) \in Word /\ Operand(i, g) \in Word /\ 0 \in Word
  BY Operands, Fields DEF Ready
<1>2. g.pc \in Word /\ g.pc \in Int
  BY GuestFields DEF Ready
<1>3. CASE i.op \in Loads
  <2>1. Value(i, g) \in Word /\ Value(i, g) \in Int
    BY <1>3, LoadReads, WordIs
  <2>2. i.op \in Signeds => SignExtended(Value(i, g), ByteBits * Size(i.op)) \in Word
    <3> SUFFICES ASSUME i.op \in Signeds
                 PROVE  SignExtended(Value(i, g), ByteBits * Size(i.op)) \in Word
      OBVIOUS
    <3>1. ByteBits * Size(i.op) \in 1 .. WLEN
      BY <1>3, Sizes DEF Signeds
    <3> QED
      BY <2>1, <3>1, SignExtendedIs
  <2> QED
    BY <1>3, <2>1, <2>2 DEF ValueX86, ValueA64, Signeds
<1>4. CASE i.op \in UpperOps
  <2>1. UpperImm(i) \in Word /\ UpperImm(i) \in Int
    BY <1>4, UpperIs, WordIs
  <2>2. Wrap(g.pc + UpperImm(i)) \in Word
    BY <1>2, <2>1, WordIs
  <2> QED
    BY <1>2, <1>4, <2>1, <2>2 DEF UpperOps, Value, ValueX86, ValueA64, Loads
<1>5. CASE i.op \in Immediates \cup Registers
  <2>1. /\ Computed(i.op, Reg(g, i.rs1), Operand(i, g)) \in Word
        /\ ComputedX86(i.op, Reg(g, i.rs1), Operand(i, g)) \in Word
        /\ i.op \notin NotListed => /\ ComputedA64(i.op, Reg(g, i.rs1), Operand(i, g)) \in Word
                                    /\ ComputedA64(i.op, Reg(g, i.rs1), 0) \in Word
    BY <1>1, <1>5, ComputedTypes
  <2>2. i.op \notin Loads \cup UpperOps
    BY <1>5 DEF Immediates, Registers, Loads, UpperOps
  <2> QED
    BY <2>1, <2>2 DEF Value, ValueX86, ValueA64, UpperOps, Loads
<1> QED
  BY <1>3, <1>4, <1>5 DEF Valued, UpperOps

After(g) == Wrap(g.pc + 4)

LEMMA AfterType ==
  ASSUME NEW g \in Guest
  PROVE  After(g) \in Word /\ After(g) # g.pc
<1>1. g.pc \in Word /\ g.pc \in Int /\ g.pc >= 0 /\ g.pc < 2 ^ XLEN
  BY GuestFields, WordIs
<1>2. After(g) \in Word
  BY <1>1, WordIs DEF After
<1> DEFINE x == g.pc
           m == 2 ^ XLEN
<1>3. m \in Nat /\ m > 16
  BY WidthPowers
<1>4. x + 4 < m => Wrap(x + 4) = x + 4
  <2>1. x + 4 < m => x + 4 \in Word
    BY <1>1, <1>3 DEF Word
  <2> QED
    BY <2>1, WordIs
<1>5. x + 4 >= m => Wrap(x + 4) # x
  <2> SUFFICES ASSUME x + 4 >= m PROVE (x + 4) % m # x
    BY DEF Wrap
  <2> HIDE DEF x, m
  <2>1. x + 4 = m * 1 + (x + 4 - m) /\ x + 4 - m \in 0 .. (m - 1) /\ x + 4 \in Int
    BY <1>1, <1>3 DEF x, m
  <2>2. m \in Nat \ {0} /\ 1 \in Int
    BY <1>3
  <2>3. (x + 4) % m = x + 4 - m
    BY <2>1, <2>2, DividesOnce
  <2> QED
    BY <1>1, <1>3, <2>3 DEF x, m
<1> QED
  BY <1>1, <1>2, <1>3, <1>4, <1>5 DEF After

\* Sorts of instructions.
LEMMA Sorts ==
  ASSUME NEW i, Instruction(i)
  PROVE  /\ \/ i.op \in Valued \/ i.op \in Stores \/ i.op \in Branches
            \/ i.op = "jal" \/ i.op = "jalr" \/ i.op = "ecall" \/ i.op = "csrw"
         /\ i.op \in Valued => /\ i.op \notin Stores /\ i.op \notin Branches
                               /\ i.op \notin {"jal", "jalr", "ecall", "csrw"}
                               /\ i.op \in Loads \/ i.op \in Immediates \cup Registers
                                    \/ i.op \in UpperOps
         /\ i.op \in Immediates \cup Registers =>
              i.op \notin Loads /\ i.op \notin UpperOps /\ i.op \in Valued
         /\ i.op \in Loads => i.op \notin UpperOps /\ i.op \in Valued
BY DEF Instruction, Valued, Loads, Stores, Branches, Immediates, Registers, UpperOps

\* An instruction with a value, executed by each engine.
LEMMA ValuedForms ==
  ASSUME NEW i, NEW g, Ready(i, g), i.op \in Valued
  PROVE  /\ Interpret(i, g) = Guarded(g, i.rd, Value(i, g), After(g))
         /\ Emitted(i, g) = Guarded(g, i.rd, ValueX86(i, g), After(g))
         /\ \A x4 : i.op \notin NotListed =>
              EmittedA64(i, g, x4) = Put(g, i.rd, ValueA64(i, g), After(g))
<1> DEFINE p == Wrap(g.pc + 4)
           v == Value(i, g)
           w == ValueX86(i, g)
           z == ValueA64(i, g)
<1>1. g \in Guest /\ i.rd \in Regs /\ v \in Word /\ w \in Word /\ p \in Word
      /\ (i.op \notin NotListed => z \in Word)
  BY ValueTypes, Fields, AfterType DEF Ready, After
<1>2. /\ [SetReg(g, i.rd, v) EXCEPT !.pc = p] = Guarded(g, i.rd, v, p)
      /\ IncreasePc(WriteReg(g, i.rd, w)) = Guarded(g, i.rd, w, p)
      /\ i.op \notin NotListed => IncreasePcA64(StoreReg(g, i.rd, z)) = Put(g, i.rd, z, p)
  <2> HIDE DEF v, w, z, p
  <2>1. [SetReg(g, i.rd, v) EXCEPT !.pc = p] = Guarded(g, i.rd, v, p)
    BY <1>1, PutForms
  <2>2. IncreasePc(WriteReg(g, i.rd, w)) = Guarded(g, i.rd, w, p)
    BY <1>1, PutForms DEF p
  <2>3. i.op \notin NotListed => IncreasePcA64(StoreReg(g, i.rd, z)) = Put(g, i.rd, z, p)
    BY <1>1, PutForms DEF p
  <2> QED
    BY <2>1, <2>2, <2>3
<1>3. Interpret(i, g) = [SetReg(g, i.rd, v) EXCEPT !.pc = p]
  <2>1. CASE i.op \in Loads
    <3>1. Interpret(i, g) = [Load(i, g) EXCEPT !.pc = p]
      BY <2>1 DEF Interpret, Loads, Stores, Branches, Immediates, Registers
    <3> QED
      BY <2>1, <3>1 DEF Load, Value
  <2>2. CASE i.op \in Immediates \cup Registers
    <3>1. Interpret(i, g) = [Compute(i, g) EXCEPT !.pc = p]
      BY <2>2 DEF Interpret, Loads, Stores, Branches, Immediates, Registers
    <3>2. v = Computed(i.op, Reg(g, i.rs1), Operand(i, g))
      BY <2>2 DEF Value, Loads, Immediates, Registers
    <3> QED
      BY <3>1, <3>2 DEF Compute
  <2>3. CASE i.op \in UpperOps
    <3>1. Interpret(i, g) = [Upper(i, g) EXCEPT !.pc = p]
      BY <2>3 DEF Interpret, Loads, Stores, Branches, Immediates, Registers, UpperOps
    <3>2. v = IF i.op = "lui" THEN UpperImm(i) ELSE Wrap(g.pc + UpperImm(i))
      BY <2>3 DEF Value, Loads, UpperOps
    <3>3. Upper(i, g) = SetReg(g, i.rd, v)
      BY <3>2 DEF Upper, UpperImm
    <3> QED
      BY <3>1, <3>3
  <2> QED
    BY <2>1, <2>2, <2>3, Sorts DEF Ready
<1>4. Emitted(i, g) = IncreasePc(WriteReg(g, i.rd, w))
  <2>1. CASE i.op \in Loads
    <3>1. Emitted(i, g) = IncreasePc(LoadX86(i, g))
      BY <2>1 DEF Emitted, Loads, Stores, Branches, Immediates, Registers
    <3>2. MemAddress(i, g) = Address(i, g)
      BY Operands
    <3>3. v = ReadMem(g, MemAddress(i, g), Size(i.op))
      BY <2>1, <3>2, LoadReads
    <3>4. LoadX86(i, g) = WriteReg(g, i.rd, w)
      BY <2>1, <3>3 DEF LoadX86, ValueX86
    <3> QED
      BY <3>1, <3>4
  <2>2. CASE i.op \in Immediates \cup Registers
    <3>1. Emitted(i, g) = IncreasePc(ComputeX86(i, g))
      BY <2>2 DEF Emitted, Loads, Stores, Branches, Immediates, Registers
    <3>2. w = ComputedX86(i.op, Reg(g, i.rs1), Operand(i, g))
      BY <2>2 DEF ValueX86, Loads, Immediates, Registers
    <3>3. Source(i, g) = Operand(i, g) /\ RegAt(g, i.rs1) = Reg(g, i.rs1)
      BY Operands, Fields DEF Ready
    <3>4. ComputeX86(i, g) = WriteReg(g, i.rd, w)
      BY <3>2, <3>3 DEF ComputeX86
    <3> QED
      BY <3>1, <3>4
  <2>3. CASE i.op \in UpperOps
    <3>1. Emitted(i, g) = IncreasePc(UpperX86(i, g))
      BY <2>3 DEF Emitted, Loads, Stores, Branches, Immediates, Registers, UpperOps
    <3>2. w = IF i.op = "lui" THEN UpperImm(i)
              ELSE IF UpperImm(i) < 2 ^ (WLEN - 1) THEN Wrap(g.pc + UpperImm(i)) ELSE g.pc
      BY <2>3 DEF Value, ValueX86, Loads, UpperOps
    <3>3. UpperImm(i) = Wrap(i.imm * 2 ^ UpperShift)
      <4>1. UpperImm(i) = i.imm * 2 ^ UpperShift /\ UpperImm(i) \in Word
        BY <2>3, UpperIs
      <4> QED
        BY <4>1, WordIs
    <3>4. UpperX86(i, g) = WriteReg(g, i.rd, w)
      BY <3>2, <3>3 DEF UpperX86
    <3> QED
      BY <3>1, <3>4
  <2> QED
    BY <2>1, <2>2, <2>3, Sorts DEF Ready
<1>5. ASSUME NEW x4, i.op \notin NotListed
      PROVE  EmittedA64(i, g, x4) = IncreasePcA64(StoreReg(g, i.rd, z))
  <2>0. /\ SecondSource(i, g) = IF i.op \in {"subw", "srl", "sra"} THEN 0 ELSE Operand(i, g)
        /\ RegAtA64(g, i.rs1) = Reg(g, i.rs1) /\ MemAddressA64(i, g) = Address(i, g)
        /\ Mov(i) = Imm(i)
    BY Operands, Fields DEF Ready
  <2>1. CASE i.op \in Loads
    <3>1. EmittedA64(i, g, x4) = IncreasePcA64(LoadA64(i, g))
      BY <2>1 DEF EmittedA64, Loads, Stores, Branches, Immediates, Registers, NotListed
    <3>2. LoadA64(i, g) = StoreReg(g, i.rd, z)
      BY <2>0, <2>1 DEF LoadA64, ValueA64, Value
    <3> QED
      BY <3>1, <3>2
  <2>2. CASE i.op \in Immediates \cup Registers
    <3>1. EmittedA64(i, g, x4) = IncreasePcA64(ComputeA64(i, g))
      BY <1>5, <2>2 DEF EmittedA64, Loads, Stores, Branches, Immediates, Registers, NotListed
    <3>2. z = ComputedA64(i.op, Reg(g, i.rs1), SecondSource(i, g))
      BY <2>0, <2>2 DEF ValueA64, Loads, Immediates, Registers
    <3>3. ComputeA64(i, g) = StoreReg(g, i.rd, z)
      BY <2>0, <3>2 DEF ComputeA64
    <3> QED
      BY <3>1, <3>3
  <2>3. CASE i.op \in UpperOps
    <3>1. EmittedA64(i, g, x4) = IncreasePcA64(UpperA64(i, g))
      BY <2>3 DEF EmittedA64, Loads, Stores, Branches, Immediates, Registers, UpperOps,
                  NotListed
    <3>2. z = IF i.op = "lui" THEN UpperImm(i) ELSE Wrap(g.pc + UpperImm(i))
      BY <2>3 DEF Value, ValueA64, Loads, UpperOps
    <3>3. Wrap(UpperImm(i) + g.pc) = Wrap(g.pc + UpperImm(i))
      <4>1. UpperImm(i) \in Int /\ g.pc \in Int
        BY <2>3, UpperIs, WordIs, GuestFields DEF Ready
      <4>2. UpperImm(i) + g.pc = g.pc + UpperImm(i)
        BY <4>1
      <4> QED
        BY <4>2
    <3>4. UpperA64(i, g) = StoreReg(g, i.rd, z)
      BY <2>0, <3>2, <3>3 DEF UpperA64, UpperImm
    <3> QED
      BY <3>1, <3>4
  <2> QED
    BY <2>1, <2>2, <2>3, Sorts DEF Ready
<1> HIDE DEF v, w, z, p
<1>6. After(g) = p
  BY DEF After, p
<1>7. /\ Interpret(i, g) = Guarded(g, i.rd, v, p) /\ Emitted(i, g) = Guarded(g, i.rd, w, p)
      /\ \A x4 : i.op \notin NotListed => EmittedA64(i, g, x4) = Put(g, i.rd, z, p)
  BY <1>2, <1>3, <1>4, <1>5
<1> QED
  BY <1>6, <1>7 DEF v, w, z

\* Stores: all engines do the same.
LEMMA StoreForms ==
  ASSUME NEW i, NEW g, Ready(i, g), i.op \in Stores
  PROVE  /\ Emitted(i, g) = Interpret(i, g) /\ \A x4 : EmittedA64(i, g, x4) = Interpret(i, g)
         /\ Interpret(i, g) \in Guest /\ Interpret(i, g).regs[0] = 0
<1> DEFINE W == WriteMem(g, Address(i, g), Reg(g, i.rs2), Size(i.op))
<1>1. /\ MemAddress(i, g) = Address(i, g) /\ MemAddressA64(i, g) = Address(i, g)
      /\ RegAt(g, i.rs2) = Reg(g, i.rs2) /\ RegAtA64(g, i.rs2) = Reg(g, i.rs2)
      /\ Address(i, g) \in Int /\ Reg(g, i.rs2) \in Int
  BY Operands, Fields, WordIs, GuestFields DEF Ready
<1>2. Size(i.op) \in {1, 2, 4, 8}
  BY Sizes
<1>3. W \in Guest /\ W.regs = g.regs /\ W.pc = g.pc
  BY <1>1, <1>2, WriteMemType DEF Ready
<1>4. Interpret(i, g) = [Store(i, g) EXCEPT !.pc = Wrap(g.pc + 4)]
  BY DEF Interpret, Loads, Stores, Branches, Immediates, Registers
<1>5. Emitted(i, g) = IncreasePc(StoreX86(i, g))
  BY DEF Emitted, Loads, Stores, Branches, Immediates, Registers
<1>6. \A x4 : EmittedA64(i, g, x4) = IncreasePcA64(StoreA64(i, g))
  BY DEF EmittedA64, Loads, Stores, Branches, Immediates, Registers, NotListed
<1>7. Store(i, g) = W /\ StoreX86(i, g) = W /\ StoreA64(i, g) = W
  BY <1>1 DEF Store, StoreX86, StoreA64
<1> HIDE DEF W
<1>8. IncreasePc(W) = [W EXCEPT !.pc = Wrap(g.pc + 4)]
      /\ IncreasePcA64(W) = [W EXCEPT !.pc = Wrap(g.pc + 4)]
  BY <1>3 DEF IncreasePc, IncreasePcA64
<1>9. Interpret(i, g) \in Guest /\ Interpret(i, g).regs = W.regs
  <2>1. Wrap(g.pc + 4) \in Word
    BY AfterType DEF After, Ready
  <2>2. [W EXCEPT !.pc = Wrap(g.pc + 4)] \in Guest
        /\ [W EXCEPT !.pc = Wrap(g.pc + 4)].regs = W.regs
    BY <1>3, <2>1, MovedType
  <2> QED
    BY <1>4, <1>7, <2>2
<1>10. g.regs[0] = 0
  BY DEF Ready
<1>11. Emitted(i, g) = Interpret(i, g) /\ \A x4 : EmittedA64(i, g, x4) = Interpret(i, g)
  BY <1>4, <1>5, <1>6, <1>7, <1>8, Zenon
<1> QED
  BY <1>3, <1>9, <1>10, <1>11, Zenon

\* Targets relative to the PC.
LEMMA Relative ==
  ASSUME NEW i, NEW g, Ready(i, g)
  PROVE  /\ Wrap(g.pc + Imm(i)) = Wrap(g.pc + i.imm) /\ Wrap(g.pc + i.imm) \in Word
         /\ After(g) \in Word
<1>1. g.pc \in Int /\ i.imm \in Int /\ Imm(i) = Wrap(i.imm) /\ g.pc + i.imm \in Int
  BY GuestFields, Fields DEF Ready
<1>2. Wrap(g.pc + Wrap(i.imm)) = Wrap(g.pc + i.imm)
  BY <1>1, WrapAdds
<1>3. Wrap(g.pc + i.imm) \in Word
  BY <1>1, WordIs
<1>4. After(g) \in Word
  BY AfterType DEF Ready
<1> QED
  BY <1>1, <1>2, <1>3, <1>4

\* Branches.
LEMMA BranchForms ==
  ASSUME NEW i, NEW g, Ready(i, g), i.op \in Branches
  PROVE  /\ Interpret(i, g) = [g EXCEPT !.pc = Branch(i, g)] /\ Branch(i, g) \in Word
         /\ Emitted(i, g) = Interpret(i, g)
         /\ \A x4 : EmittedA64(i, g, x4) = [g EXCEPT !.pc = BranchA64(i, g, x4)]
         /\ \A x4 \in Word : BranchA64(i, g, x4) \in Word
         /\ \A x4 : i.imm >= 0 \/ (Branch(i, g) = After(g) /\ Wrap(g.pc + i.imm) # After(g))
                      => BranchA64(i, g, x4) = Branch(i, g)
<1> DEFINE a == g.regs[i.rs1]
           b == g.regs[i.rs2]
           near == Wrap(g.pc + 4)
           far == Wrap(g.pc + i.imm)
           taken == Taken(i.op, a, b)
<1>1. /\ Reg(g, i.rs1) = a /\ Reg(g, i.rs2) = b /\ RegAt(g, i.rs1) = a
      /\ RegAt(g, i.rs2) = b /\ RegAtA64(g, i.rs1) = a /\ RegAtA64(g, i.rs2) = b
      /\ a \in Int /\ b \in Int /\ i.imm \in Int
  BY Operands, Fields, GuestFields DEF Ready
<1>2. /\ Wrap(g.pc + Imm(i)) = far /\ far \in Word /\ near \in Word /\ After(g) = near
  BY Relative DEF After
<1>3. TakenX86(i.op, a, b) = taken /\ TakenA64(i.op, a, b) = taken
  <2>1. Signed(a, XLEN) \in Int /\ Signed(b, XLEN) \in Int
    <3>1. XLEN \in Nat \ {0} /\ 2 ^ (XLEN - 1) \in Nat
      BY Widths, WidthPowers
    <3>2. /\ Signed(a, XLEN) \in -(2 ^ (XLEN - 1)) .. (2 ^ (XLEN - 1) - 1)
          /\ Signed(b, XLEN) \in -(2 ^ (XLEN - 1)) .. (2 ^ (XLEN - 1) - 1)
      BY <1>1, <3>1, SignedIs
    <3> QED
      BY <3>1, <3>2
  <2> DEFINE s == Signed(a, XLEN)
             t == Signed(b, XLEN)
  <2>2. ~(s < t) <=> s >= t
    BY <2>1
  <2>3. ~(a < b) <=> a >= b
    BY <1>1
  <2> HIDE DEF a, b, s, t
  <2> QED
    BY <2>2, <2>3 DEF Taken, TakenX86, TakenA64, Branches, s, t
<1>4. Branch(i, g) = IF taken THEN far ELSE near
  BY <1>1, <1>2 DEF Branch
<1>5. BranchX86(i, g) = IF taken THEN far ELSE near
  BY <1>1, <1>3 DEF BranchX86
<1>6. \A x4 : BranchA64(i, g, x4) =
         IF taken THEN IF i.imm < 0 THEN x4 ELSE far ELSE near
  BY <1>1, <1>3 DEF BranchA64
<1>7. Interpret(i, g) = [g EXCEPT !.pc = Branch(i, g)]
  BY DEF Interpret, Loads, Stores, Branches, Immediates, Registers
<1>8. Emitted(i, g) = [g EXCEPT !.pc = BranchX86(i, g)]
  BY DEF Emitted, Loads, Stores, Branches, Immediates, Registers
<1>9. \A x4 : EmittedA64(i, g, x4) = [g EXCEPT !.pc = BranchA64(i, g, x4)]
  BY DEF EmittedA64, Loads, Stores, Branches, Immediates, Registers, NotListed
<1> HIDE DEF taken, far, near
<1>10. Branch(i, g) \in Word /\ \A x4 \in Word : BranchA64(i, g, x4) \in Word
  BY <1>2, <1>4, <1>6
<1>11. ASSUME NEW x4, i.imm >= 0 \/ (Branch(i, g) = After(g) /\ far # After(g))
       PROVE  BranchA64(i, g, x4) = Branch(i, g)
  BY <1>1, <1>2, <1>4, <1>6, <1>11
<1>12. Emitted(i, g) = Interpret(i, g)
  BY <1>4, <1>5, <1>7, <1>8
<1> QED
  BY <1>7, <1>9, <1>10, <1>11, <1>12 DEF far

\* JAL.
LEMMA JalForms ==
  ASSUME NEW i, NEW g, Ready(i, g), i.op = "jal"
  PROVE  /\ Interpret(i, g) = Guarded(g, i.rd, After(g), Wrap(g.pc + i.imm))
         /\ Emitted(i, g) = Interpret(i, g)
         /\ \A x4 : EmittedA64(i, g, x4) = Put(g, i.rd, After(g), Imm(i))
<1> DEFINE p == Wrap(g.pc + 4)
           q == Wrap(g.pc + i.imm)
<1>1. /\ g \in Guest /\ i.rd \in Regs /\ p \in Word /\ q \in Word /\ Imm(i) \in Word
      /\ Mov(i) = Imm(i) /\ Wrap(g.pc + Imm(i)) = q /\ After(g) = p
  BY Relative, Fields DEF Ready, After
<1>2. Interpret(i, g) = [SetReg(g, i.rd, p) EXCEPT !.pc = q]
  <2>1. Interpret(i, g) = Jump(i, g)
    BY DEF Interpret, Loads, Stores, Branches, Immediates, Registers
  <2> QED
    BY <1>1, <2>1 DEF Jump
<1>3. Emitted(i, g) = [WriteReg(g, i.rd, p) EXCEPT !.pc = q]
  <2>1. Emitted(i, g) = JalX86(i, g)
    BY DEF Emitted, Loads, Stores, Branches, Immediates, Registers
  <2> QED
    BY <2>1 DEF JalX86
<1>4. \A x4 : EmittedA64(i, g, x4) = [StoreReg(g, i.rd, p) EXCEPT !.pc = Imm(i)]
  <2>1. \A x4 : EmittedA64(i, g, x4) = JalA64(i, g)
    BY DEF EmittedA64, Loads, Stores, Branches, Immediates, Registers, NotListed
  <2> QED
    BY <1>1, <2>1 DEF JalA64
<1> HIDE DEF p, q
<1>5. [SetReg(g, i.rd, p) EXCEPT !.pc = q] = Guarded(g, i.rd, p, q)
  BY <1>1, PutForms
<1>6. [WriteReg(g, i.rd, p) EXCEPT !.pc = q] = Guarded(g, i.rd, p, q)
  BY <1>1, PutForms
<1>7. [StoreReg(g, i.rd, p) EXCEPT !.pc = Imm(i)] = Put(g, i.rd, p, Imm(i))
  BY <1>1, PutForms
<1>8. /\ Interpret(i, g) = Guarded(g, i.rd, After(g), q)
      /\ Emitted(i, g) = Interpret(i, g)
      /\ \A x4 : EmittedA64(i, g, x4) = Put(g, i.rd, After(g), Imm(i))
  BY <1>1, <1>2, <1>3, <1>4, <1>5, <1>6, <1>7
<1> QED
  BY <1>8 DEF q

\* Where compiled JALR goes.
Even(x) == x - (x % 2)
JalrPc(i, g) ==
  Even(IF i.rd = i.rs1 /\ i.rd # 0 THEN Relinked(i, g) ELSE Target(i, g))

LEMMA EvenIs ==
  ASSUME NEW x \in Word
  PROVE  Even(x) \in Word /\ Even(x) % 2 = 0 /\ (x % 2 = 1 <=> Even(x) # x)
BY WidthPowers DEF Word, Even

LEMMA JalrForms ==
  ASSUME NEW i, NEW g, Ready(i, g), i.op = "jalr"
  PROVE  /\ Interpret(i, g) = Guarded(g, i.rd, After(g), Target(i, g))
         /\ Emitted(i, g) = Guarded(g, i.rd, After(g), JalrPc(i, g))
         /\ \A x4 : EmittedA64(i, g, x4) = Put(g, i.rd, After(g), g.regs[i.rs1])
         /\ Target(i, g) \in Word /\ Relinked(i, g) \in Word /\ JalrPc(i, g) \in Word
<1> DEFINE p == Wrap(g.pc + 4)
           q == Target(i, g)
           t == JalrPc(i, g)
<1>1. /\ g \in Guest /\ i.rd \in Regs /\ i.rs1 \in Regs /\ p \in Word /\ After(g) = p
      /\ RegAtA64(g, i.rs1) = g.regs[i.rs1] /\ g.regs[i.rs1] \in Word
  BY Relative, Fields, Operands, GuestFields DEF Ready, After
<1>2. q \in Word /\ Address(i, g) = q
  BY Operands DEF Target
<1>3. Relinked(i, g) \in Word /\ Relinked(i, g) = Wrap(p + i.imm)
  <2>1. g.pc \in Int /\ i.imm \in Int /\ g.pc + 4 \in Int /\ g.pc + 4 + i.imm \in Int
        /\ (g.pc + 4) + i.imm = i.imm + (g.pc + 4) /\ p + i.imm = i.imm + p
    BY <1>1, GuestFields, Fields, WordIs DEF Ready
  <2>2. Wrap(i.imm + Wrap(g.pc + 4)) = Wrap(i.imm + (g.pc + 4))
    BY <2>1, WrapAdds
  <2> QED
    BY <2>1, <2>2, WordIs DEF Relinked
<1>4. t \in Word
  BY <1>2, <1>3, EvenIs DEF JalrPc
<1>5. Interpret(i, g) = [SetReg(g, i.rd, p) EXCEPT !.pc = q]
  <2>1. Interpret(i, g) = JumpRegister(i, g)
    BY DEF Interpret, Loads, Stores, Branches, Immediates, Registers
  <2> QED
    BY <1>2, <2>1 DEF JumpRegister
<1>6. Emitted(i, g) = [WriteReg(g, i.rd, p) EXCEPT !.pc = t]
  <2>1. Emitted(i, g) = JalrX86(i, g)
    BY DEF Emitted, Loads, Stores, Branches, Immediates, Registers
  <2>2. RegAt(WriteReg(g, i.rd, p), i.rs1) =
          IF i.rd = i.rs1 /\ i.rd # 0 THEN p ELSE g.regs[i.rs1]
    BY <1>1 DEF RegAt, WriteReg, Guest
  <2>3. Wrap(RegAt(WriteReg(g, i.rd, p), i.rs1) + i.imm) =
          IF i.rd = i.rs1 /\ i.rd # 0 THEN Relinked(i, g) ELSE q
    BY <1>3, <2>2 DEF Target
  <2> QED
    BY <2>1, <2>3 DEF JalrX86, JalrPc, Even
<1>7. \A x4 : EmittedA64(i, g, x4) = [StoreReg(g, i.rd, p) EXCEPT !.pc = g.regs[i.rs1]]
  <2>1. \A x4 : EmittedA64(i, g, x4) = JalrA64(i, g)
    BY DEF EmittedA64, Loads, Stores, Branches, Immediates, Registers, NotListed
  <2> QED
    BY <1>1, <2>1 DEF JalrA64
<1> HIDE DEF p, q, t
<1>8. [SetReg(g, i.rd, p) EXCEPT !.pc = q] = Guarded(g, i.rd, p, q)
  BY <1>1, <1>2, PutForms
<1>9. [WriteReg(g, i.rd, p) EXCEPT !.pc = t] = Guarded(g, i.rd, p, t)
  BY <1>1, <1>4, PutForms
<1>10. [StoreReg(g, i.rd, p) EXCEPT !.pc = g.regs[i.rs1]] = Put(g, i.rd, p, g.regs[i.rs1])
  BY <1>1, PutForms
<1>11. /\ Interpret(i, g) = Guarded(g, i.rd, After(g), q)
       /\ Emitted(i, g) = Guarded(g, i.rd, After(g), t)
       /\ \A x4 : EmittedA64(i, g, x4) = Put(g, i.rd, After(g), g.regs[i.rs1])
  BY <1>1, <1>5, <1>6, <1>7, <1>8, <1>9, <1>10
<1> QED
  BY <1>2, <1>3, <1>4, <1>11 DEF q, t

\* ECALL and CSRW on the interpreter and x86-64.
LEMMA EcallForms ==
  ASSUME NEW i, NEW g, Ready(i, g), i.op = "ecall"
  PROVE  /\ \A x4 : EmittedA64(i, g, x4) = Emitted(i, g)
         /\ Emitted(i, g) \in Guest /\ Emitted(i, g).regs[0] = 0
         /\ Interpret(i, g) \in Guest /\ Interpret(i, g).regs[0] = 0
         /\ Interpret(i, g) # Emitted(i, g) <=> Named(i, g)
<1> DEFINE p == Wrap(g.pc + 4)
           h == [g EXCEPT !.halt = TRUE]
           r == i.rd
           v == g.pc
<1>1. r \in Regs /\ v \in Word /\ p \in Word /\ g \in Guest /\ g.regs[0] = 0
  BY AfterType, Fields, GuestFields DEF Ready, After
<1>2. Interpret(i, g) = [[SetReg(g, r, v) EXCEPT !.halt = TRUE] EXCEPT !.pc = p]
  BY DEF Interpret, Ecall, Loads, Stores, Branches, Immediates, Registers
<1>3. Emitted(i, g) = [h EXCEPT !.pc = p]
  <2>1. Emitted(i, g) = EcallX86(g)
    BY DEF Emitted, Loads, Stores, Branches, Immediates, Registers
  <2>2. EcallX86(g) = [[g EXCEPT !.pc = p] EXCEPT !.halt = TRUE]
    BY DEF EcallX86, IncreasePc
  <2>3. [[g EXCEPT !.pc = p] EXCEPT !.halt = TRUE] = [h EXCEPT !.pc = p]
    BY <1>1 DEF Guest
  <2> QED
    BY <2>1, <2>2, <2>3, Zenon
<1>4. \A x4 : EmittedA64(i, g, x4) = [h EXCEPT !.pc = p]
  <2>1. \A x4 : EmittedA64(i, g, x4) = EcallA64(g)
    BY DEF EmittedA64, Loads, Stores, Branches, Immediates, Registers, NotListed
  <2>2. h.pc = g.pc
    BY <1>1 DEF Guest
  <2>3. EcallA64(g) = [h EXCEPT !.pc = p]
    BY <2>2 DEF EcallA64, IncreasePcA64
  <2> QED
    BY <2>1, <2>3
<1>5. h \in Guest /\ h.regs = g.regs
  BY <1>1 DEF Guest
<1> DEFINE a == [[SetReg(g, r, v) EXCEPT !.halt = TRUE] EXCEPT !.pc = p]
           b == [h EXCEPT !.pc = p]
<1>6. b \in Guest /\ b.regs = g.regs
  <2> HIDE DEF h, p
  <2> QED
    BY <1>1, <1>5, MovedType
<1>7. (r = 0 \/ g.regs[r] = v) => a = b
  <2>1. g.regs[r] = v => [g EXCEPT !.regs[r] = v] = g
    BY <1>1 DEF Guest
  <2>2. (r = 0 \/ g.regs[r] = v) => SetReg(g, r, v) = g
    BY <2>1 DEF SetReg
  <2> QED
    BY <2>2
<1>8. SetReg(g, r, v) \in Guest /\ SetReg(g, r, v).regs[0] = 0
      /\ (r # 0 => SetReg(g, r, v).regs[r] = v)
  BY <1>1, GuestFields DEF SetReg, Guest
<1>9. a \in Guest /\ a.regs = SetReg(g, r, v).regs
  <2> DEFINE s == SetReg(g, r, v)
             t == [s EXCEPT !.halt = TRUE]
  <2> HIDE DEF s, p
  <2>1. s \in Guest
    BY <1>8 DEF s
  <2>2. t \in Guest /\ t.regs = s.regs
    BY <2>1 DEF Guest
  <2> HIDE DEF t
  <2>3. [t EXCEPT !.pc = p] \in Guest /\ [t EXCEPT !.pc = p].regs = t.regs
    BY <1>1, <2>2, MovedType
  <2> QED
    BY <2>2, <2>3 DEF s, t
<1> HIDE DEF a, b
<1>10. a # b <=> (r # 0 /\ g.regs[r] # v)
  BY <1>6, <1>7, <1>8, <1>9
<1>11. Interpret(i, g) = a /\ Emitted(i, g) = b /\ \A x4 : EmittedA64(i, g, x4) = b
  BY <1>2, <1>3, <1>4, Zenon DEF a, b
<1>12. Named(i, g) <=> (r # 0 /\ g.regs[r] # v)
  BY DEF Named
<1> HIDE DEF r, v, p, h
<1> QED
  BY <1>1, <1>6, <1>8, <1>9, <1>10, <1>11, <1>12

LEMMA CsrwForms ==
  ASSUME NEW i, NEW g, Ready(i, g), i.op = "csrw"
  PROVE  /\ Emitted(i, g) = Interpret(i, g)
         /\ Interpret(i, g) \in Guest /\ Interpret(i, g).regs[0] = 0
         /\ Interpret(i, g) # g
<1> DEFINE p == Wrap(g.pc + 4)
           v == g.regs[i.rs1]
           h == SetCsr(g, i.imm, v)
           k == IF h.thrown THEN h ELSE [h EXCEPT !.pc = p]
<1>1. /\ p \in Word /\ p # g.pc /\ g \in Guest /\ g.regs[0] = 0 /\ ~g.thrown
      /\ v \in Word /\ Reg(g, i.rs1) = v /\ RegAt(g, i.rs1) = v
  BY AfterType, Operands, Fields, GuestFields DEF Ready, After
<1>2. Interpret(i, g) = k
  <2>1. Interpret(i, g) = Csrw(i, g)
    BY DEF Interpret, Loads, Stores, Branches, Immediates, Registers
  <2> QED
    BY <1>1, <2>1 DEF Csrw
<1> HIDE DEF p, v
<1>3. h \in Guest /\ h.regs = g.regs /\ h.pc = g.pc
  BY <1>1 DEF Guest, SetCsr
<1>4. Emitted(i, g) = k
  <2>1. Emitted(i, g) = CsrwX86(i, g)
    BY DEF Emitted, Loads, Stores, Branches, Immediates, Registers
  <2>2. CsrwX86(i, g) = IF h.thrown THEN h ELSE IncreasePc(h)
    BY <1>1 DEF CsrwX86
  <2>3. IncreasePc(h) = [h EXCEPT !.pc = p]
    <3> HIDE DEF h
    <3> QED
      BY <1>3 DEF IncreasePc, p
  <2> HIDE DEF h
  <2> QED
    BY <2>1, <2>2, <2>3
<1> HIDE DEF h
<1>5. [h EXCEPT !.pc = p] \in Guest /\ [h EXCEPT !.pc = p].regs = h.regs
      /\ [h EXCEPT !.pc = p].pc = p
  BY <1>1, <1>3, MovedType
<1>6. k \in Guest /\ k.regs[0] = 0 /\ k # g
  BY <1>1, <1>3, <1>5
<1> HIDE DEF k
<1> QED
  BY <1>2, <1>4, <1>6

\* A step of any engine leads to a guest, and x0 stays 0 but on AArch64.
LEMMA StepTypes ==
  ASSUME NEW i, NEW g, Ready(i, g)
  PROVE  /\ Interpret(i, g) \in Guest /\ Interpret(i, g).regs[0] = 0
         /\ Emitted(i, g) \in Guest /\ Emitted(i, g).regs[0] = 0
         /\ \A x4 \in Word : EmittedA64(i, g, x4) \in Guest
<1>1. /\ g \in Guest /\ g.regs[0] = 0 /\ i.rd \in Regs /\ Imm(i) \in Word
      /\ After(g) \in Word /\ Wrap(g.pc + i.imm) \in Word /\ g.regs[i.rs1] \in Word
  BY Fields, Relative, GuestFields DEF Ready
<1>9. \A v, p \in Word : /\ Guarded(g, i.rd, v, p) \in Guest
                         /\ Guarded(g, i.rd, v, p).regs[0] = 0
                         /\ Put(g, i.rd, v, p) \in Guest
  <2> DEFINE r == i.rd
  <2>1. r \in Regs /\ g \in Guest /\ g.regs[0] = 0
    BY <1>1
  <2> HIDE DEF r
  <2>2. ASSUME NEW v \in Word, NEW p \in Word
        PROVE  /\ Guarded(g, r, v, p) \in Guest /\ Put(g, r, v, p) \in Guest
               /\ Guarded(g, r, v, p).regs[0] = 0
    BY <2>1, PutTypes
  <2> QED
    BY <2>2 DEF r
<1>2. CASE i.op \in Valued
  <2>1. /\ Value(i, g) \in Word /\ ValueX86(i, g) \in Word
        /\ i.op \notin NotListed => ValueA64(i, g) \in Word
    BY <1>2, ValueTypes
  <2>2. /\ Interpret(i, g) = Guarded(g, i.rd, Value(i, g), After(g))
        /\ Emitted(i, g) = Guarded(g, i.rd, ValueX86(i, g), After(g))
        /\ \A x4 : i.op \notin NotListed =>
             EmittedA64(i, g, x4) = Put(g, i.rd, ValueA64(i, g), After(g))
    BY <1>2, ValuedForms
  <2>3. i.op \in NotListed => \A x4 : EmittedA64(i, g, x4) = g
    BY DEF EmittedA64, NotListed, Loads, Stores, Branches, Immediates, Registers
  <2>4. /\ Interpret(i, g) \in Guest /\ Interpret(i, g).regs[0] = 0
        /\ Emitted(i, g) \in Guest /\ Emitted(i, g).regs[0] = 0
    BY <1>1, <1>9, <2>1, <2>2
  <2>5. i.op \notin NotListed => Put(g, i.rd, ValueA64(i, g), After(g)) \in Guest
    BY <1>1, <1>9, <2>1
  <2> QED
    BY <1>1, <2>2, <2>3, <2>4, <2>5
<1>3. CASE i.op \in Stores
  BY <1>3, StoreForms
<1>4. CASE i.op \in Branches
  <2>1. /\ Interpret(i, g) = [g EXCEPT !.pc = Branch(i, g)] /\ Branch(i, g) \in Word
        /\ Emitted(i, g) = Interpret(i, g)
    BY <1>4, BranchForms
  <2>2. \A x4 \in Word : EmittedA64(i, g, x4) = [g EXCEPT !.pc = BranchA64(i, g, x4)]
                         /\ BranchA64(i, g, x4) \in Word
    BY <1>4, BranchForms
  <2>3. ASSUME NEW q \in Word
        PROVE  [g EXCEPT !.pc = q] \in Guest /\ [g EXCEPT !.pc = q].regs = g.regs
    BY <1>1, MovedType
  <2> QED
    BY <1>1, <2>1, <2>2, <2>3
<1>5. CASE i.op = "jal"
  <2>1. /\ Interpret(i, g) = Guarded(g, i.rd, After(g), Wrap(g.pc + i.imm))
        /\ Emitted(i, g) = Interpret(i, g)
        /\ \A x4 : EmittedA64(i, g, x4) = Put(g, i.rd, After(g), Imm(i))
    BY <1>5, JalForms
  <2> QED
    BY <1>1, <1>9, <2>1
<1>6. CASE i.op = "jalr"
  <2>1. /\ Interpret(i, g) = Guarded(g, i.rd, After(g), Target(i, g))
        /\ Emitted(i, g) = Guarded(g, i.rd, After(g), JalrPc(i, g))
        /\ \A x4 : EmittedA64(i, g, x4) = Put(g, i.rd, After(g), g.regs[i.rs1])
        /\ Target(i, g) \in Word /\ JalrPc(i, g) \in Word
    BY <1>6, JalrForms
  <2> QED
    BY <1>1, <1>9, <2>1
<1>7. CASE i.op = "ecall"
  <2>1. /\ \A x4 : EmittedA64(i, g, x4) = Emitted(i, g)
        /\ Emitted(i, g) \in Guest /\ Emitted(i, g).regs[0] = 0
        /\ Interpret(i, g) \in Guest /\ Interpret(i, g).regs[0] = 0
    BY <1>7, EcallForms
  <2> QED
    BY <2>1
<1>8. CASE i.op = "csrw"
  <2>1. \A x4 : EmittedA64(i, g, x4) = g
    BY <1>8 DEF EmittedA64, NotListed, Loads, Stores, Branches, Immediates, Registers
  <2> QED
    BY <1>1, <1>8, <2>1, CsrwForms
<1> QED
  BY <1>2, <1>3, <1>4, <1>5, <1>6, <1>7, <1>8, Sorts DEF Ready
-------------------------------------------------------------------------------
(* Where x86-64 code and the interpreter differ. *)

\* Sign extension changes what has its top bit set.
LEMMA ExtensionChanges ==
  ASSUME NEW n \in 1 .. WLEN, NEW v \in 0 .. (2 ^ n - 1)
  PROVE  SignExtended(v, n) # v <=> (v \div 2 ^ (n - 1)) % 2 = 1
<1>1. n \in Nat \ {0} /\ 2 ^ n \in Nat /\ n - 1 \in Nat /\ v \in Int
  <2>1. n \in Nat \ {0} /\ n - 1 \in Nat
    OBVIOUS
  <2> QED
    BY <2>1, PowerType
<1> DEFINE m == 2 ^ (n - 1)
<1>2. m \in Nat
  BY <1>1, PowerType
<1>3. Low(v, n) = v
  BY <1>1, LowOfSmall
<1>4. (v \div 2 ^ (n - 1)) % 2 = 1 <=> v >= m
  BY <1>1, TopBit
<1>5. /\ Low(v, n) < m => SignExtended(v, n) = Low(v, n)
      /\ Low(v, n) >= m => SignExtended(v, n) # Low(v, n)
  BY <1>1, SignExtendedIs
<1> HIDE DEF m
<1>6. v < m \/ v >= m
  BY <1>1, <1>2
<1> QED
  BY <1>3, <1>4, <1>5, <1>6

ShiftLefts == {"sllw", "slliw"}

\* Word arithmetic of low halves.
LEMMA WordAddsAgree ==
  ASSUME NEW op \in WordAdds, NEW a \in Int, NEW b \in Int
  PROVE  WordAddX86(op, a, b) = WordArith(op, a, b)
<1> DEFINE x == Low(a, WLEN)
           y == Low(b, WLEN)
<1>1. x \in Int /\ y \in Int /\ WLEN \in Nat
  BY LowType, Widths
<1>2. Low(x + y, WLEN) = Low(a + b, WLEN) /\ Low(x - y, WLEN) = Low(a - b, WLEN)
  BY <1>1, LowAdds
<1> HIDE DEF x, y
<1>3. /\ SignExtended(x + y, WLEN) = SignExtended(a + b, WLEN)
      /\ SignExtended(x - y, WLEN) = SignExtended(a - b, WLEN)
  <2>1. x + y \in Int /\ a + b \in Int /\ x - y \in Int /\ a - b \in Int
    BY <1>1
  <2> QED
    BY <1>1, <1>2, <2>1, SignExtendedOfLow
<1> QED
  BY <1>3 DEF WordAddX86, WordArith, x, y

LEMMA ComputedAgree ==
  ASSUME NEW op \in Immediates \cup Registers, NEW a \in Word, NEW b \in Word
  PROVE  /\ op \notin ShiftLefts => ComputedX86(op, a, b) = Computed(op, a, b)
         /\ op \in ShiftLefts =>
              /\ Computed(op, a, b) \in 0 .. (2 ^ WLEN - 1)
              /\ ComputedX86(op, a, b) = SignExtended(Computed(op, a, b), WLEN)
<1>1. a \in Int /\ b \in Int
  BY WordIs
<1>2. CASE op \in Adds
  BY <1>2, Families DEF Adds, ShiftLefts, Arith, AddX86
<1>3. CASE op \in Compares
  <2>1. Compare(op, a, b) = CompareX86(op, a, b)
    BY <1>3 DEF Compares, Compare, CompareX86
  <2> QED
    BY <1>3, <2>1, Families DEF Compares, ShiftLefts
<1>4. CASE op \in Logics
  <2>1. Logic(op, a, b) = LogicX86(op, a, b)
    BY DEF Logic, LogicX86
  <2> QED
    BY <1>4, <2>1, Families DEF Logics, ShiftLefts
<1>5. CASE op \in Shifts
  <2>1. Shift(op, a, b) = ShiftX86(op, a, b)
    BY DEF Shift, ShiftX86
  <2> QED
    BY <1>5, <2>1, Families DEF Shifts, ShiftLefts
<1>6. CASE op \in WordAdds
  <2>1. WordAddX86(op, a, b) = WordArith(op, a, b)
    BY <1>1, <1>6, WordAddsAgree
  <2> QED
    BY <1>6, <2>1, Families DEF WordAdds, ShiftLefts
<1>7. CASE op \in WordShifts
  <2>1. op \in ShiftLefts => /\ WordShift(op, a, b) = ShiftLeft(a, b, WLEN)
                             /\ WordShiftX86(op, a, b) = SignExtended(ShiftLeft(a, b, WLEN), WLEN)
    BY DEF ShiftLefts, WordShift, WordShiftX86
  <2>2. op \notin ShiftLefts => WordShift(op, a, b) = WordShiftX86(op, a, b)
    BY <1>7 DEF ShiftLefts, WordShifts, WordShift, WordShiftX86
  <2>3. ShiftLeft(a, b, WLEN) \in 0 .. (2 ^ WLEN - 1)
    BY <1>1, ShiftTypes, Widths
  <2> QED
    BY <1>7, <2>1, <2>2, <2>3, Families
<1> QED
  BY <1>2, <1>3, <1>4, <1>5, <1>6, <1>7, Families

\* Adding less than a whole turn changes a word.
LEMMA WrapMoves ==
  ASSUME NEW a \in Word, NEW x \in 1 .. (2 ^ XLEN - 1)
  PROVE  Wrap(a + x) # a
<1> DEFINE m == 2 ^ XLEN
<1>1. m \in Nat \ {0} /\ a \in 0 .. (m - 1)
  BY WidthPowers DEF Word
<1> SUFFICES (a + x) % m # a
  BY DEF Wrap
<1> HIDE DEF m
<1>2. x \in 1 .. (m - 1)
  BY DEF m
<1>3. CASE a + x < m
  <2>1. (a + x) % m = a + x
    BY <1>1, <1>2, <1>3, SmallMod
  <2> QED
    BY <1>1, <1>2, <2>1
<1>4. CASE a + x >= m
  <2>1. a + x = m * 1 + (a + x - m) /\ a + x - m \in 0 .. (m - 1) /\ a + x \in Int
    BY <1>1, <1>2, <1>4
  <2>2. 1 \in Int
    OBVIOUS
  <2>3. (a + x) % m = a + x - m
    BY <1>1, <2>1, <2>2, DividesOnce
  <2> QED
    BY <1>1, <1>2, <2>3
<1> QED
  BY <1>1, <1>2, <1>3, <1>4

\* Of the values instructions leave, v is what the interpreter computes.
Sign(v, n) == (v \div 2 ^ (n - 1)) % 2 = 1

LEMMA ValuesX86 ==
  ASSUME NEW i, NEW g, Ready(i, g), i.op \in Valued
  PROVE  Value(i, g) # ValueX86(i, g) <=>
           \/ i.op \in Signeds /\ Sign(Value(i, g), ByteBits * Size(i.op))
           \/ i.op \in ShiftLefts /\ Sign(Value(i, g), WLEN)
           \/ i.op = "auipc" /\ Signed(i.imm, WLEN - UpperShift) < 0
<1>1. /\ Reg(g, i.rs1) \in Word /\ Operand(i, g) \in Word
      /\ g.pc \in Word /\ g.pc \in Int
  BY Operands, GuestFields DEF Ready
<1>2. CASE i.op \in Signeds
  <2>1. i.op \in Loads
    BY <1>2 DEF Signeds, Loads
  <2> DEFINE n == ByteBits * Size(i.op)
             v == Value(i, g)
  <2>2. v \in 0 .. (2 ^ n - 1)
    BY <2>1, LoadReads
  <2>3. n \in 1 .. WLEN
    BY <1>2, <2>1, Sizes DEF Signeds
  <2>4. ValueX86(i, g) = SignExtended(v, n)
    BY <1>2 DEF ValueX86, Signeds
  <2>5. i.op \notin ShiftLefts /\ i.op # "auipc"
    BY <1>2 DEF Signeds, ShiftLefts
  <2> HIDE DEF v, n
  <2>6. SignExtended(v, n) # v <=> Sign(v, n)
    BY <2>2, <2>3, ExtensionChanges DEF Sign
  <2>7. v # ValueX86(i, g) <=> Sign(v, n)
    BY <2>4, <2>6
  <2> QED
    BY <1>2, <2>5, <2>7, Zenon DEF v, n
<1>3. CASE i.op \in Loads \cup {"lui"} /\ i.op \notin Signeds
  BY <1>3 DEF Signeds, Loads, ShiftLefts, ValueX86
<1>4. CASE i.op = "auipc"
  <2> DEFINE x == UpperImm(i)
             h == 2 ^ (WLEN - 1)
  <2>1. /\ x \in 0 .. (2 ^ WLEN - 1) /\ h \in Nat \ {0} /\ 2 ^ WLEN < 2 ^ XLEN
        /\ 2 ^ WLEN \in Nat /\ 2 ^ XLEN \in Nat
        /\ x >= h <=> Signed(i.imm, WLEN - UpperShift) < 0
    BY <1>4, UpperIs, WidthPowers DEF UpperOps
  <2>2. Value(i, g) = Wrap(g.pc + x)
        /\ ValueX86(i, g) = IF x < h THEN Wrap(g.pc + x) ELSE g.pc
    BY <1>4 DEF Value, ValueX86, Loads
  <2> HIDE DEF x, h
  <2>3. x >= h => Wrap(g.pc + x) # g.pc
    <3>1. x >= h => x \in 1 .. (2 ^ XLEN - 1)
      BY <2>1
    <3> QED
      BY <1>1, <3>1, WrapMoves
  <2>4. x < h <=> ~(x >= h)
    BY <2>1
  <2>5. i.op \notin Signeds /\ i.op \notin ShiftLefts
    BY <1>4 DEF Signeds, ShiftLefts
  <2> QED
    BY <1>4, <2>1, <2>2, <2>3, <2>4, <2>5
<1>5. CASE i.op \in Immediates \cup Registers
  <2> DEFINE v == Computed(i.op, Reg(g, i.rs1), Operand(i, g))
  <2>1. i.op \notin Loads /\ i.op \notin UpperOps
    BY <1>5, Sorts DEF Ready
  <2>2. Value(i, g) = v
        /\ ValueX86(i, g) = ComputedX86(i.op, Reg(g, i.rs1), Operand(i, g))
    BY <2>1 DEF Value, ValueX86, Loads, UpperOps
  <2>3. /\ i.op \notin ShiftLefts => ValueX86(i, g) = v
        /\ i.op \in ShiftLefts =>
             v \in 0 .. (2 ^ WLEN - 1) /\ ValueX86(i, g) = SignExtended(v, WLEN)
    BY <1>1, <1>5, <2>2, ComputedAgree
  <2>4. i.op \notin Signeds /\ i.op # "auipc"
    BY <2>1 DEF Signeds, Loads, UpperOps
  <2> HIDE DEF v
  <2>5. WLEN \in 1 .. WLEN
    BY Widths
  <2>6. i.op \in ShiftLefts => (SignExtended(v, WLEN) # v <=> Sign(v, WLEN))
    BY <2>3, <2>5, ExtensionChanges DEF Sign
  <2>7. CASE i.op \in ShiftLefts
    <3>1. v # ValueX86(i, g) <=> Sign(v, WLEN)
      BY <2>3, <2>6, <2>7
    <3> QED
      BY <2>2, <2>4, <2>7, <3>1, Zenon
  <2>8. CASE i.op \notin ShiftLefts
    BY <2>2, <2>3, <2>4, <2>8
  <2> QED
    BY <2>7, <2>8
<1> QED
  BY <1>2, <1>3, <1>4, <1>5, Sorts DEF Ready, UpperOps, Loads

LEMMA X86Step ==
  ASSUME NEW i, NEW g, Ready(i, g)
  PROVE  Interpret(i, g) # Emitted(i, g) <=> Diverges(i, g, Interpret(i, g))
<1> DEFINE h == Interpret(i, g)
<1>1. /\ g \in Guest /\ i.rd \in Regs /\ After(g) \in Word
  BY Fields, Relative DEF Ready
<1>2. CASE i.op \in Valued
  <2> DEFINE v == Value(i, g)
             w == ValueX86(i, g)
  <2>1. v \in Word /\ w \in Word
    BY <1>2, ValueTypes
  <2>2. h = Guarded(g, i.rd, v, After(g)) /\ Emitted(i, g) = Guarded(g, i.rd, w, After(g))
    BY <1>2, ValuedForms
  <2>3. v # w <=> \/ i.op \in Signeds /\ Sign(v, ByteBits * Size(i.op))
                  \/ i.op \in ShiftLefts /\ Sign(v, WLEN)
                  \/ i.op = "auipc" /\ Signed(i.imm, WLEN - UpperShift) < 0
    BY <1>2, ValuesX86
  <2>4. i.op # "jalr" /\ i.op # "ecall"
    BY <1>2, Sorts DEF Ready
  <2> HIDE DEF v, w, h
  <2>5. Guarded(g, i.rd, v, After(g)) = Guarded(g, i.rd, w, After(g)) <=> i.rd = 0 \/ v = w
    BY <1>1, <2>1, PutDiffers
  <2>6. i.rd # 0 => h.regs[i.rd] = v
    <3> DEFINE r == i.rd
               p == After(g)
    <3>1. r \in Regs /\ p \in Word /\ g \in Guest
      BY <1>1
    <3>2. h = Guarded(g, r, v, p)
      BY <2>2
    <3> HIDE DEF r, p
    <3>3. r # 0 => Guarded(g, r, v, p).regs[r] = v
      BY <2>1, <3>1, PutTypes
    <3> QED
      BY <3>2, <3>3 DEF r
  <2>7. \A n : Negative(h, i, n) <=> i.rd # 0 /\ Sign(v, n)
    BY <2>6 DEF Negative, Sign
  <2>8. Diverges(i, g, h) <=>
          /\ i.rd # 0
          /\ \/ i.op \in Signeds /\ Sign(v, ByteBits * Size(i.op))
             \/ i.op \in ShiftLefts /\ Sign(v, WLEN)
             \/ i.op = "auipc" /\ Signed(i.imm, WLEN - UpperShift) < 0
    BY <2>4, <2>7 DEF Diverges, Signeds, ShiftLefts
  <2>9. h # Emitted(i, g) <=> Diverges(i, g, h)
    BY <2>2, <2>3, <2>5, <2>8
  <2> QED
    BY <2>9 DEF h
<1>3. CASE i.op = "jalr"
  <2> DEFINE q == Target(i, g)
             r == Relinked(i, g)
             p == JalrPc(i, g)
  <2>1. /\ h = Guarded(g, i.rd, After(g), q) /\ Emitted(i, g) = Guarded(g, i.rd, After(g), p)
        /\ q \in Word /\ r \in Word /\ p \in Word
    BY <1>3, JalrForms
  <2>2. p = IF i.rd = i.rs1 /\ i.rd # 0 THEN Even(r) ELSE Even(q)
    BY DEF JalrPc
  <2>3. Diverges(i, g, h) <=> q % 2 = 1 \/ (i.rd = i.rs1 /\ i.rd # 0 /\ q # Even(r))
    BY <1>3 DEF Diverges, Even
  <2> HIDE DEF p, q, r, h
  <2>4. h = Emitted(i, g) <=> q = p
    BY <1>1, <2>1, PutDiffers
  <2>5. (q % 2 = 1 <=> Even(q) # q) /\ Even(r) % 2 = 0
    BY <2>1, EvenIs
  <2>6. h # Emitted(i, g) <=> Diverges(i, g, h)
    BY <2>2, <2>3, <2>4, <2>5
  <2> QED
    BY <2>6 DEF h
<1>4. CASE i.op = "ecall"
  <2>1. Diverges(i, g, h) <=> Named(i, g)
    BY <1>4 DEF Diverges
  <2>2. h # Emitted(i, g) <=> Named(i, g)
    BY <1>4, EcallForms
  <2> QED
    BY <2>1, <2>2
<1>5. CASE i.op \notin Valued /\ i.op \notin {"jalr", "ecall"}
  <2>1. ~Diverges(i, g, h)
    BY <1>5 DEF Diverges, Valued, Loads, Registers, Immediates
  <2>2. Interpret(i, g) = Emitted(i, g)
    BY <1>5, Sorts, StoreForms, BranchForms, JalForms, CsrwForms DEF Ready
  <2> QED
    BY <2>1, <2>2
<1> QED
  BY <1>2, <1>3, <1>4, <1>5
-------------------------------------------------------------------------------
(* Arithmetic of AArch64 code. *)

LEMMA LowOfSigned ==
  ASSUME NEW n \in Nat \ {0}, NEW a \in Int
  PROVE  Low(Signed(a, n), n) = Low(a, n) /\ Signed(a, n) \in Int
<1> DEFINE m == 2 ^ n
           l == a % m
<1>1. m \in Nat \ {0} /\ l \in 0 .. (m - 1)
  <2>1. m \in Nat \ {0}
    BY PowerType
  <2> HIDE DEF m
  <2> QED
    BY <2>1, Divides DEF l
<1>2. Signed(a, n) = l \/ Signed(a, n) = l - m
  BY DEF Signed, Low
<1> HIDE DEF m, l
<1>3. l % m = l
  BY <1>1, SmallMod
<1>4. (l - m) % m = l
  <2>1. l - m = m * (-1) + l /\ -1 \in Int /\ l - m \in Int
    BY <1>1
  <2> QED
    BY <1>1, <2>1, DividesOnce
<1> QED
  BY <1>1, <1>2, <1>3, <1>4 DEF Low, m, l

\* A sign-extended word is small and unchanged, or far up.
LEMMA SmallOrFar ==
  ASSUME NEW x \in Int
  PROVE  /\ Low(x, WLEN) < 2 ^ (WLEN - 1) => SignExtended(x, WLEN) = Low(x, WLEN)
         /\ Low(x, WLEN) >= 2 ^ (WLEN - 1) => SignExtended(x, WLEN) > 4 * 2 ^ WLEN
         /\ Low(x, WLEN) \in 0 .. (2 ^ WLEN - 1) /\ SignExtended(x, WLEN) \in Int
         /\ Low(x, WLEN) < 2 ^ (WLEN - 1) \/ Low(x, WLEN) >= 2 ^ (WLEN - 1)
<1> DEFINE l == Low(x, WLEN)
           v == SignExtended(x, WLEN)
           top == 2 ^ (WLEN - 1)
<1>1. WLEN \in 1 .. WLEN /\ WLEN \in Nat
  BY Widths
<1>2. /\ v \in Word /\ l < top => v = l
      /\ l >= top => v >= 2 ^ XLEN - top
  BY <1>1, SignExtendedIs
<1>3. l \in 0 .. (2 ^ WLEN - 1)
  BY <1>1, LowType
<1>4. /\ top \in Nat /\ 2 ^ WLEN = 2 * top /\ 2 ^ WLEN \in Nat \ {0} /\ 2 ^ XLEN \in Nat
      /\ 16 * 2 ^ WLEN <= 2 ^ XLEN
  BY WidthPowers
<1>5. v \in Int
  BY <1>1, SignExtendedIs, WordIs
<1> HIDE DEF l, v, top
<1>6. /\ l < top => v = l
      /\ l >= top => v > 4 * 2 ^ WLEN
      /\ l \in 0 .. (2 ^ WLEN - 1) /\ v \in Int /\ (l < top \/ l >= top)
  <2>1. l < top => v = l
    BY <1>1, SignExtendedIs DEF l, v, top
  <2> QED
    BY <1>2, <1>3, <1>4, <1>5, <2>1
<1> QED
  BY <1>6 DEF l, v, top

\* Shift amounts modulo either width.
LEMMA ShiftCounts ==
  ASSUME NEW b \in Int
  PROVE  /\ b % XLEN \in Nat /\ b % WLEN \in 0 .. (WLEN - 1) /\ b % WLEN \in Nat
         /\ b % XLEN < WLEN => b % WLEN = b % XLEN
         /\ b % XLEN >= WLEN => b % XLEN = WLEN + (b % WLEN)
<1> DEFINE X == XLEN
           W == WLEN
           k == b % X
           q == b \div X
<1>1. X \in Nat \ {0} /\ W \in Nat \ {0} /\ X = W + W
  BY Widths
<1> HIDE DEF X, W
<1>2. k \in 0 .. (X - 1) /\ q \in Int /\ b = X * q + k
  BY <1>1, Divides
<1> HIDE DEF k, q
<1>3. X * q = W * (2 * q) /\ W * (2 * q + 1) = W * (2 * q) + W * 1 /\ W * (2 * q) \in Int
  <2>1. (W + W) * q = W * q + W * q /\ W * q \in Int
    BY <1>1, <1>2
  <2>2. W * (q + q) = W * q + W * q /\ q + q = 2 * q
    BY <1>1, <1>2, Products
  <2>3. 2 * q \in Int /\ 1 \in Int /\ W \in Int
    BY <1>1, <1>2
  <2> DEFINE y == 2 * q
  <2>4. W * (y + 1) = W * y + W * 1 /\ W * y \in Int
    <3>1. y \in Int
      BY <2>3
    <3> HIDE DEF y
    <3> QED
      BY <2>3, <3>1
  <2> QED
    BY <1>1, <2>1, <2>2, <2>4
<1>4. k < W => b % W = k
  <2> SUFFICES ASSUME k < W PROVE b % W = k
    OBVIOUS
  <2> DEFINE y == 2 * q
  <2>1. y \in Int /\ k \in 0 .. (W - 1) /\ b = W * y + k
    BY <1>1, <1>2, <1>3
  <2> HIDE DEF y
  <2> QED
    BY <1>1, <2>1, DividesOnce
<1>5. k >= W => b % W = k - W
  <2> SUFFICES ASSUME k >= W PROVE b % W = k - W
    OBVIOUS
  <2> DEFINE y == 2 * q + 1
             r == k - W
  <2>1. y \in Int /\ r \in 0 .. (W - 1) /\ b = W * y + r
    BY <1>1, <1>2, <1>3
  <2> HIDE DEF y, r
  <2>2. b % W = r
    BY <1>1, <2>1, DividesOnce
  <2> QED
    BY <2>2 DEF r
<1>6. b % W \in 0 .. (W - 1)
  BY <1>1, Divides
<1> QED
  BY <1>1, <1>2, <1>4, <1>5, <1>6 DEF X, W, k

\* Left shifts of a masked word, in 64 bits or in 32.
LEMMA LeftShifts ==
  ASSUME NEW a \in Int, NEW b \in Int
  PROVE  ShiftLeft(a, b, WLEN) # ShiftLeft(Low(a, WLEN), b, XLEN)
           <=> ShiftLeft(Low(a, WLEN), b, XLEN) >= 2 ^ WLEN
<1> DEFINE M == 2 ^ WLEN
           l == a % M
           u == a \div M
           j == b % WLEN
           k == b % XLEN
           J == 2 ^ j
           K == 2 ^ k
           v == (a * J) % M
           z == (l * K) % (M * M)
<1>1. /\ M \in Nat \ {0} /\ 2 ^ XLEN = M * M /\ M > 1 /\ M * M \in Nat \ {0} /\ M * M \in Nat
  BY WidthPowers
<1>2. /\ k < WLEN => j = k
      /\ k >= WLEN => k = WLEN + j
      /\ k < WLEN \/ k >= WLEN
      /\ j \in Nat /\ k \in Nat
  <2>1. j \in Nat /\ k \in Nat /\ WLEN \in Nat
    BY ShiftCounts, Widths
  <2>2. (k < WLEN => j = k) /\ (k >= WLEN => k = WLEN + j)
    BY ShiftCounts
  <2> HIDE DEF j, k
  <2> QED
    BY <2>1, <2>2
<1>3. J \in Nat /\ K \in Nat
  BY <1>2, PowerType
<1>4. l \in 0 .. (M - 1) /\ u \in Int /\ a = M * u + l /\ l \in Int
  <2>1. M \in Nat \ {0}
    BY <1>1
  <2> HIDE DEF M
  <2> QED
    BY <2>1, Divides
<1>5. ShiftLeft(a, b, WLEN) = v /\ ShiftLeft(Low(a, WLEN), b, XLEN) = z
  BY <1>1 DEF ShiftLeft, Low
<1>6. k < WLEN => K = J
  BY <1>2
<1>7. k >= WLEN => K = M * J
  <2>1. k >= WLEN => 2 ^ k = 2 ^ (WLEN + j)
    BY <1>2
  <2>2. 2 ^ (WLEN + j) = 2 ^ WLEN * 2 ^ j
    <3>1. WLEN \in Nat /\ j \in Nat
      BY <1>2, Widths
    <3> QED
      BY <3>1, PowerAdds
  <2> QED
    BY <2>1, <2>2
<1> HIDE DEF M, l, u, J, K
<1> DEFINE Q == l * J
<1>8. v = Q % M
  <2>1. a * J = Q + M * (u * J) /\ u * J \in Int /\ Q \in Int
    <3>1. (M * u + l) * J = (M * u) * J + l * J
      BY <1>1, <1>3, <1>4
    <3>2. (M * u) * J = M * (u * J)
      BY <1>1, <1>3, <1>4
    <3>3. u * J \in Int /\ l * J \in Int /\ M * (u * J) \in Int
      BY <1>1, <1>3, <1>4
    <3> QED
      BY <1>4, <3>1, <3>2, <3>3
  <2> DEFINE y == u * J
  <2> HIDE DEF Q, y
  <2>2. (Q + M * y) % M = Q % M
    BY <1>1, <2>1, AddMultiple DEF y
  <2> QED
    BY <2>1, <2>2 DEF y
<1>9. Q \in Int
  BY <1>3, <1>4
<1>10. v \in 0 .. (M - 1)
  <2> HIDE DEF Q, v
  <2> QED
    BY <1>1, <1>8, <1>9, Divides
<1>11. CASE k < WLEN
  <2>1. z = Q % (M * M)
    BY <1>6, <1>11
  <2> DEFINE N == M * M
             w == Q \div N
  <2>2. N \in Nat \ {0}
    BY <1>1
  <2> HIDE DEF Q, N, z, v
  <2>3. z \in 0 .. (N - 1) /\ w \in Int /\ Q = N * w + z
    BY <1>9, <2>1, <2>2, Divides DEF N
  <2> HIDE DEF w
  <2>4. N * w = M * (M * w) /\ M * w \in Int /\ z \in Int
    BY <1>1, <2>2, <2>3 DEF N
  <2>5. Q = z + M * (M * w)
    BY <2>2, <2>3, <2>4
  <2> DEFINE y == M * w
  <2> HIDE DEF y
  <2>6. (z + M * y) % M = z % M
    BY <1>1, <2>4, AddMultiple DEF y
  <2>7. v = z % M
    BY <1>8, <2>5, <2>6 DEF y
  <2>8. z < M => z % M = z
    BY <1>1, <2>3, SmallMod
  <2> QED
    BY <1>1, <1>5, <1>10, <2>3, <2>4, <2>7, <2>8 DEF M
<1>12. CASE k >= WLEN
  <2>1. l * K = M * Q
    <3>1. l * (M * J) = M * (l * J)
      BY <1>1, <1>3, <1>4
    <3> QED
      BY <1>7, <1>12, <3>1
  <2> DEFINE w == Q \div M
             N == M * M
             y == M * v
  <2>2. z = (M * Q) % N
    BY <2>1
  <2> HIDE DEF Q, v, z
  <2>3. w \in Int /\ Q = M * w + v
    BY <1>1, <1>8, <1>9, Divides
  <2> HIDE DEF w
  <2>4. M * Q = N * w + y
    <3>1. M * (M * w + v) = M * (M * w) + M * v /\ M * (M * w) = (M * M) * w
      BY <1>1, <1>10, <2>3
    <3> QED
      BY <2>3, <3>1
  <2>5. y \in 0 .. (N - 1)
    <3>1. M * v <= M * (M - 1) /\ M * (M - 1) = M * M - M * 1 /\ M * v \in Nat
      BY <1>1, <1>10, ProductOrder, Products
    <3> QED
      BY <1>1, <3>1
  <2>6. N \in Nat \ {0} /\ M * Q \in Int
    BY <1>1, <1>9
  <2>7. z = y
    <3> DEFINE x == M * Q
    <3>1. x \in Int /\ x = N * w + y /\ z = x % N
      BY <2>2, <2>4, <2>6
    <3> HIDE DEF x, N, y
    <3> QED
      BY <2>3, <2>5, <2>6, <3>1, DividesOnce
  <2>8. v >= 1 => M * 1 <= M * v /\ 2 * v <= M * v
    <3>1. v >= 1 => M * 1 <= M * v
      BY <1>1, <1>10, ProductOrder
    <3>2. v * 2 <= v * M /\ v * M = M * v /\ v * 2 = 2 * v
      BY <1>1, <1>10, ProductOrder, Products
    <3> QED
      BY <1>1, <1>10, <3>1, <3>2
  <2>9. v = 0 => y = 0
    BY <1>1
  <2>10. v # z <=> z >= M
    <3>1. y \in Int /\ v \in Nat
      BY <1>1, <1>10
    <3> HIDE DEF N
    <3>2. v >= 1 => y >= M /\ y >= 2 * v
      BY <1>1, <1>10, <2>8
    <3> HIDE DEF y
    <3> QED
      BY <1>1, <2>7, <2>9, <3>1, <3>2
  <2> QED
    BY <1>5, <2>10 DEF M
<1> QED
  BY <1>2, <1>11, <1>12

\* Right shifts of a masked word.
LEMMA RightShifts ==
  ASSUME NEW a \in Int, NEW b \in Int
  PROVE  /\ ShiftRight(a, b, WLEN) # ShiftRight(Low(a, WLEN), b, XLEN)
              <=> b % XLEN >= WLEN /\ ShiftRight(a, b, WLEN) # 0
         /\ ShiftRight(Low(a, WLEN), b % WLEN, XLEN) = ShiftRight(a, b, WLEN)
<1> DEFINE M == 2 ^ WLEN
           l == Low(a, WLEN)
           j == b % WLEN
           k == b % XLEN
           v == l \div 2 ^ j
<1>1. l \in 0 .. (M - 1) /\ l \in Int /\ WLEN \in Nat /\ XLEN \in Nat \ {0} /\ WLEN < XLEN
  BY LowType, Widths
<1>2. l \in Word /\ Low(l, XLEN) = l /\ M \in Nat
  <2>1. WLEN \in 0 .. XLEN
    BY Widths
  <2> QED
    BY <1>1, <2>1, SmallIsWord, WordIs, WidthPowers
<1>3. /\ ShiftRight(a, b, WLEN) = v /\ ShiftRight(l, b, XLEN) = l \div 2 ^ k
      /\ ShiftRight(l, j, XLEN) = l \div 2 ^ (j % XLEN)
  BY <1>2 DEF ShiftRight
<1>4. /\ j \in 0 .. (WLEN - 1) /\ k \in Nat
      /\ k < WLEN => j = k
  BY ShiftCounts
<1>5. j % XLEN = j
  <2>1. j \in 0 .. (XLEN - 1)
    BY <1>1, <1>4
  <2> HIDE DEF j
  <2> QED
    BY <1>1, <2>1, SmallMod
<1>6. k >= WLEN => l \div 2 ^ k = 0
  <2> SUFFICES ASSUME k >= WLEN PROVE l \div 2 ^ k = 0
    OBVIOUS
  <2> HIDE DEF k, l
  <2>1. M <= 2 ^ k /\ 2 ^ k \in Nat \ {0}
    <3>1. WLEN \in 0 .. k /\ k \in Nat
      BY <1>1, <1>4
    <3> QED
      BY <3>1, PowerGrows, PowerType
  <2> DEFINE m == 2 ^ k
  <2>2. m \in Nat \ {0} /\ M <= m
    BY <2>1
  <2> HIDE DEF m, M
  <2>3. l \in 0 .. (m - 1)
    BY <1>1, <1>2, <2>2
  <2>4. l \div m = 0
    BY <2>2, <2>3, SmallMod
  <2> QED
    BY <2>4 DEF m
<1>7. k < WLEN => l \div 2 ^ k = v
  BY <1>4
<1>8. k < WLEN \/ k >= WLEN
  BY <1>1, <1>4
<1>9. k < WLEN <=> ~(k >= WLEN)
  BY <1>1, <1>4
<1> HIDE DEF k, l, v
<1>10. v # ShiftRight(l, b, XLEN) <=> k >= WLEN /\ v # 0
  BY <1>3, <1>6, <1>7, <1>8, <1>9
<1>11. ShiftRight(l, j, XLEN) = v
  BY <1>3, <1>5 DEF v
<1> QED
  BY <1>3, <1>10, <1>11 DEF k, l

\* An arithmetic right shift of a masked word sees no sign.
LEMMA SignedRightShifts ==
  ASSUME NEW a \in Int, NEW b \in Int
  PROVE  SignExtended(ShiftRightSigned(a, b, WLEN), WLEN)
           # ShiftRightSigned(Low(a, WLEN), b % WLEN, XLEN)
             <=> Low(a, WLEN) >= 2 ^ (WLEN - 1)
<1> DEFINE M == 2 ^ WLEN
           top == 2 ^ (WLEN - 1)
           l == Low(a, WLEN)
           j == b % WLEN
           m == 2 ^ j
           s == Signed(a, WLEN)
           t == s \div m
           q == l \div m
           z == ShiftRightSigned(l, j, XLEN)
           v == SignExtended(ShiftRightSigned(a, b, WLEN), WLEN)
<1>1. /\ l \in 0 .. (M - 1) /\ l \in Int /\ WLEN \in Nat \ {0} /\ XLEN \in Nat \ {0}
      /\ WLEN < XLEN
  BY LowType, Widths
<1>2. /\ l \in Word /\ Low(l, XLEN) = l /\ M \in Nat \ {0} /\ M = 2 * top /\ top \in Nat \ {0}
      /\ M < 2 ^ (XLEN - 1) /\ l < 2 ^ (XLEN - 1)
  <2>1. WLEN \in 0 .. XLEN
    BY Widths
  <2>2. l \in Word /\ Low(l, XLEN) = l
    BY <1>1, <2>1, SmallIsWord, WordIs
  <2>3. /\ M \in Nat \ {0} /\ M = 2 * top /\ top \in Nat \ {0} /\ 2 ^ XLEN \in Nat
        /\ 16 * M <= 2 ^ XLEN /\ 2 ^ XLEN = 2 * 2 ^ (XLEN - 1) /\ 2 ^ (XLEN - 1) \in Nat
    BY WidthPowers
  <2> HIDE DEF M, top, l
  <2> QED
    BY <1>1, <2>2, <2>3
<1>3. j \in 0 .. (WLEN - 1) /\ j % XLEN = j
  <2>1. j \in 0 .. (WLEN - 1)
    BY ShiftCounts
  <2> HIDE DEF j
  <2>2. j \in 0 .. (XLEN - 1)
    BY <1>1, <2>1
  <2> QED
    BY <1>1, <2>1, <2>2, SmallMod
<1>4. m \in Nat \ {0}
  <2>1. j \in Nat
    BY <1>3
  <2> QED
    BY <2>1, PowerType
<1>5. Signed(l, XLEN) = l
  <2>1. Low(l, XLEN) < 2 ^ (XLEN - 1) => Signed(l, XLEN) = Low(l, XLEN)
    BY <1>1, SignedIs
  <2> QED
    BY <1>2, <2>1
<1>6. q \in 0 .. l
  <2> HIDE DEF m, l
  <2>1. l \in 0 .. l /\ l \in Nat
    BY <1>1, <1>2
  <2> QED
    BY <1>4, <2>1, QuotientSmall
<1>7. z = q
  <2>1. z = Low(q, XLEN)
    BY <1>3, <1>5 DEF ShiftRightSigned
  <2> HIDE DEF q, z, l
  <2>2. q \in Word
    BY <1>1, <1>2, <1>6, WidthPowers DEF Word
  <2> QED
    BY <2>1, <2>2, WordIs
<1>8. ShiftRightSigned(a, b, WLEN) = Low(t, WLEN)
  BY DEF ShiftRightSigned
<1>9. s \in Int /\ s >= -top /\ (l < top => s = l) /\ (l >= top => s < 0)
  <2>1. s \in -top .. (top - 1)
    BY <1>1, SignedIs
  <2>2. (l < top => s = l) /\ (l >= top => s < 0)
    BY <1>1, SignedIs
  <2> HIDE DEF s, top
  <2> QED
    BY <1>2, <2>1, <2>2
<1> HIDE DEF M, top, l, m, s, z
<1>10. t \in Int
  BY <1>4, <1>9, Divides
<1> DEFINE x == Low(t, WLEN)
<1>11. Low(x, WLEN) = x /\ x \in Int /\ v = SignExtended(x, WLEN)
  <2>1. x \in 0 .. (2 ^ WLEN - 1) /\ x \in Int
    BY <1>1, <1>10, LowType
  <2> HIDE DEF x, t
  <2> QED
    BY <1>1, <1>8, <2>1, LowOfSmall DEF x
<1>12. /\ x < top => v = x
       /\ x >= top => v > 4 * M
       /\ v \in Int
  <2> HIDE DEF x, v
  <2>1. /\ Low(x, WLEN) < top => SignExtended(x, WLEN) = Low(x, WLEN)
        /\ Low(x, WLEN) >= top => SignExtended(x, WLEN) > 4 * M
        /\ SignExtended(x, WLEN) \in Int
    BY <1>11, SmallOrFar DEF top, M
  <2> QED
    BY <1>11, <2>1
<1> HIDE DEF v
<1>13. CASE l < top
  <2>1. t = q
    BY <1>9, <1>13
  <2>2. t \in 0 .. (2 ^ WLEN - 1) /\ t < top
    BY <1>1, <1>2, <1>6, <1>13, <2>1 DEF M
  <2> HIDE DEF q, t
  <2>3. x = t
    BY <1>1, <2>2, LowOfSmall
  <2>4. ~(l >= top)
    BY <1>1, <1>2, <1>13
  <2>5. v = z
    BY <1>7, <1>12, <2>1, <2>2, <2>3
  <2> QED
    BY <2>4, <2>5 DEF v, z, l, j, top
<1>14. CASE l >= top
  <2> DEFINE r == s % m
  <2>1. s < 0 /\ s >= -top
    BY <1>9, <1>14
  <2>2. t \in Int /\ r \in 0 .. (m - 1) /\ s = m * t + r
    BY <1>4, <1>9, Divides
  <2> HIDE DEF r, t, q
  <2>3. t < 0
    <3> SUFFICES ASSUME t >= 0 PROVE FALSE
      BY <2>2
    <3>1. m * 0 <= m * t
      BY <1>4, <2>2, ProductOrder
    <3> QED
      BY <1>4, <2>1, <2>2, <3>1
  <2>4. t >= -top
    <3> SUFFICES ASSUME t + 1 <= -top PROVE FALSE
      BY <1>2, <2>2
    <3>1. m * (t + 1) <= m * (-top)
      BY <1>2, <1>4, <2>2, ProductOrder
    <3>2. m * (t + 1) = m * t + m * 1
      BY <1>4, <2>2, Products
    <3>3. top * 1 <= top * m /\ m * (-top) = -(top * m) /\ top * m \in Int /\ m * t \in Int
      BY <1>2, <1>4, <2>2, ProductOrder
    <3> QED
      BY <1>2, <1>4, <2>1, <2>2, <3>1, <3>2, <3>3
  <2>5. x = t + M
    <3> DEFINE y == t + M
    <3>1. t = M * (-1) + y /\ y \in 0 .. (M - 1) /\ -1 \in Int
      BY <1>2, <2>2, <2>3, <2>4
    <3> HIDE DEF y
    <3>2. t % M = y
      BY <1>2, <2>2, <3>1, DividesOnce
    <3> QED
      BY <3>2 DEF Low, M, y
  <2>6. v > 4 * M
    BY <1>2, <1>12, <2>2, <2>4, <2>5
  <2>7. z < M
    BY <1>1, <1>2, <1>6, <1>7
  <2>8. z \in Int
    BY <1>1, <1>2, <1>6, <1>7
  <2>9. v # z
    BY <1>2, <1>12, <2>6, <2>7, <2>8
  <2> QED
    BY <1>14, <2>9 DEF v, z, l, j, top
<1>15. l < top \/ l >= top
  BY <1>1, <1>2
<1> QED
  BY <1>13, <1>14, <1>15

\* A shift by the zero immediate of the R format.
LEMMA NoShift ==
  ASSUME NEW a \in Word
  PROVE  ShiftRight(a, 0, XLEN) = a /\ ShiftRightSigned(a, 0, XLEN) = a
<1>1. XLEN \in Nat \ {0} /\ a \in Int /\ Low(a, XLEN) = a
  BY Widths, WordIs
<1>2. 0 % XLEN = 0
  <2>1. 0 \in 0 .. (XLEN - 1)
    BY <1>1
  <2> QED
    BY <1>1, <2>1, SmallMod
<1>3. \A x \in Int : x \div 1 = x
  OBVIOUS
<1>4. Low(Signed(a, XLEN), XLEN) = a /\ Signed(a, XLEN) \in Int
  BY <1>1, LowOfSigned
<1>5. ShiftRight(a, 0, XLEN) = a \div 1
        /\ ShiftRightSigned(a, 0, XLEN) = Low(Signed(a, XLEN) \div 1, XLEN)
  BY <1>1, <1>2, PowerZero DEF ShiftRight, ShiftRightSigned
<1> QED
  BY <1>1, <1>3, <1>4, <1>5

\* Sums and differences of masked words, not sign-extended.
LEMMA WordSums ==
  ASSUME NEW a \in Int, NEW b \in Int
  PROVE  /\ SignExtended(a + b, WLEN) # Low(a, WLEN) + Low(b, WLEN)
              <=> Low(a, WLEN) + Low(b, WLEN) >= 2 ^ (WLEN - 1)
         /\ SignExtended(a - b, WLEN) # Low(a, WLEN)
              <=> ~(Low(a, WLEN) < 2 ^ (WLEN - 1) /\ Low(b, WLEN) = 0)
<1> DEFINE M == 2 ^ WLEN
           top == 2 ^ (WLEN - 1)
           x == Low(a, WLEN)
           y == Low(b, WLEN)
           sum == Low(a + b, WLEN)
           difference == Low(a - b, WLEN)
           v == SignExtended(a + b, WLEN)
           w == SignExtended(a - b, WLEN)
<1>1. a + b \in Int /\ a - b \in Int /\ WLEN \in Nat
  BY Widths
<1>2. M \in Nat \ {0} /\ M = 2 * top /\ top \in Nat \ {0}
  BY WidthPowers
<1>3. x \in 0 .. (M - 1) /\ y \in 0 .. (M - 1)
  BY <1>1, LowType
<1>4. /\ sum < top => v = sum
      /\ sum >= top => v > 4 * M
      /\ sum \in 0 .. (M - 1) /\ v \in Int /\ (sum < top \/ sum >= top)
  BY <1>1, SmallOrFar
<1>5. /\ difference < top => w = difference
      /\ difference >= top => w > 4 * M
      /\ difference \in 0 .. (M - 1) /\ w \in Int /\ (difference < top \/ difference >= top)
  BY <1>1, SmallOrFar
<1>6. sum = (x + y) % M /\ difference = (x - y) % M
  <2>1. Low(x + y, WLEN) = sum /\ Low(x - y, WLEN) = difference
    BY <1>1, LowAdds
  <2> QED
    BY <2>1 DEF Low
<1> HIDE DEF M, top, x, y, sum, difference, v, w
<1>7. x + y < M => (x + y) % M = x + y
  <2> SUFFICES ASSUME x + y < M PROVE (x + y) % M = x + y
    OBVIOUS
  <2> DEFINE s == x + y
  <2>1. s \in 0 .. (M - 1)
    BY <1>2, <1>3
  <2> HIDE DEF s
  <2>2. s % M = s
    BY <1>2, <2>1, SmallMod
  <2> QED
    BY <2>2 DEF s
<1>8. v # x + y <=> x + y >= top
  <2>1. CASE x + y < top
    <3>1. sum = x + y
      BY <1>2, <1>3, <1>6, <1>7, <2>1
    <3> QED
      BY <1>2, <1>3, <1>4, <2>1, <3>1
  <2>2. CASE x + y >= top
    BY <1>2, <1>3, <1>4, <2>2
  <2> QED
    BY <1>2, <1>3, <2>1, <2>2
<1>9. w # x <=> ~(x < top /\ y = 0)
  <2>1. CASE y = 0
    <3>1. difference = x
      <4>1. x - y = x
        BY <1>3, <2>1
      <4>2. x % M = x
        BY <1>2, <1>3, SmallMod
      <4> QED
        BY <1>6, <4>1, <4>2
    <3> QED
      BY <1>2, <1>3, <1>5, <2>1, <3>1
  <2>2. CASE y # 0
    <3>1. difference # x
      <4>1. CASE x >= y
        <5> DEFINE s == x - y
        <5>1. s \in 0 .. (M - 1) /\ s # x
          BY <1>2, <1>3, <2>2, <4>1
        <5> HIDE DEF s
        <5>2. s % M = s
          BY <1>2, <5>1, SmallMod
        <5> QED
          BY <1>6, <5>1, <5>2 DEF s
      <4>2. CASE x < y
        <5> DEFINE s == x - y
                   r == s + M
        <5>1. s = M * (-1) + r /\ r \in 0 .. (M - 1) /\ s \in Int /\ -1 \in Int /\ r # x
          BY <1>2, <1>3, <2>2, <4>2
        <5> HIDE DEF s, r
        <5>2. s % M = r
          BY <1>2, <5>1, DividesOnce
        <5> QED
          BY <1>6, <5>1, <5>2 DEF s
      <4> QED
        BY <1>2, <1>3, <4>1, <4>2
    <3> QED
      BY <1>2, <1>3, <1>5, <2>2, <3>1
  <2> QED
    BY <2>1, <2>2
<1> QED
  BY <1>8, <1>9 DEF M, top, x, y, v, w

\* What AArch64 code computes otherwise, z being the operand it takes.
LEMMA ComputedA64Differs ==
  ASSUME NEW op \in (Immediates \cup Registers) \ NotListed, NEW a \in Word, NEW b \in Word
  PROVE  LET v == Computed(op, a, b)
             z == ComputedA64(op, a, IF op \in {"subw", "srl", "sra"} THEN 0 ELSE b)
             top == 2 ^ (WLEN - 1)
         IN  v # z <=>
               \/ op \in {"or", "ori"} /\ a # 2 ^ XLEN - 1
               \/ op \in {"addw", "addiw"} /\ Low(a, WLEN) + Low(b, WLEN) >= top
               \/ op = "subw" /\ ~(Low(a, WLEN) < top /\ Low(b, WLEN) = 0)
               \/ op \in {"srl", "sra"} /\ v # a
               \/ op \in ShiftLefts /\ ShiftLeft(Low(a, WLEN), b, XLEN) >= 2 ^ WLEN
               \/ op = "srlw" /\ b % XLEN >= WLEN /\ v # 0
               \/ op = "sraiw" /\ Low(a, WLEN) >= top
<1> DEFINE c == IF op \in {"subw", "srl", "sra"} THEN 0 ELSE b
           v == Computed(op, a, b)
           z == ComputedA64(op, a, c)
<1>1. a \in Int /\ b \in Int /\ op # "srai" /\ op # "sraw"
  BY WordIs DEF NotListed
<1>2. CASE op \in Adds
  <2>1. v = z
    BY <1>2, Families DEF Adds, Arith, AddA64
  <2> QED
    BY <1>2, <2>1 DEF Adds, ShiftLefts
<1>3. CASE op \in Compares
  <2>1. v = Compare(op, a, b) /\ z = CompareA64(op, a, b)
    BY <1>3, Families DEF Compares
  <2>2. Compare(op, a, b) = CompareA64(op, a, b)
    BY <1>3 DEF Compares, Compare, CompareA64
  <2> HIDE DEF v, z
  <2>3. v = z
    BY <2>1, <2>2
  <2> QED
    BY <1>3, <2>3 DEF Compares, ShiftLefts, v, z
<1>4. CASE op \in Logics
  <2>1. v = Logic(op, a, b) /\ z = LogicA64(op, a, b)
    BY <1>4, Families DEF Logics
  <2>2. op \notin {"or", "ori"} => Logic(op, a, b) = LogicA64(op, a, b)
    BY <1>4 DEF Logics, Logic, LogicA64
  <2>3. op \in {"or", "ori"} => Logic(op, a, b) = Or(a, b) /\ LogicA64(op, a, b) = Or(a, Not(b))
    BY DEF Logic, LogicA64
  <2>4. Or(a, Not(b)) = Or(a, b) <=> a = 2 ^ XLEN - 1
    BY OrNot
  <2> HIDE DEF v, z
  <2>5. v # z <=> op \in {"or", "ori"} /\ a # 2 ^ XLEN - 1
    BY <2>1, <2>2, <2>3, <2>4
  <2> QED
    BY <1>4, <2>5 DEF Logics, ShiftLefts, v, z
<1>5. CASE op \in Shifts
  <2>1. v = Shift(op, a, b) /\ z = ShiftA64(op, a, c)
    BY <1>1, <1>5, Families
  <2>2. op \in {"sll", "slli", "srli"} => Shift(op, a, b) = ShiftA64(op, a, c)
    BY DEF Shift, ShiftA64
  <2>3. op \in {"srl", "sra"} => ShiftA64(op, a, c) = a
    BY NoShift DEF ShiftA64
  <2> HIDE DEF v, z
  <2>4. v # z <=> op \in {"srl", "sra"} /\ v # a
    BY <1>1, <1>5, <2>1, <2>2, <2>3 DEF Shifts
  <2> QED
    BY <1>5, <2>4 DEF Shifts, ShiftLefts, v, z
<1>6. CASE op \in WordAdds
  <2>1. v = WordArith(op, a, b) /\ z = WordAddA64(op, a, c)
    BY <1>6, Families
  <2>2. op # "subw" => /\ v = SignExtended(a + b, WLEN)
                       /\ z = Low(a, WLEN) + Low(b, WLEN)
    BY <1>6, <2>1 DEF WordAdds, WordArith, WordAddA64
  <2>3. op = "subw" => v = SignExtended(a - b, WLEN) /\ z = Low(a, WLEN)
    <3>1. Low(0, WLEN) = 0
      <4>1. WLEN \in Nat /\ 0 \in 0 .. (2 ^ WLEN - 1)
        BY Widths, WidthPowers
      <4> QED
        BY <4>1, LowOfSmall
    <3>2. Wrap(Low(a, WLEN) - 0) = Low(a, WLEN)
      <4>1. Low(a, WLEN) \in 0 .. (2 ^ WLEN - 1) /\ Low(a, WLEN) \in Int /\ WLEN \in 0 .. XLEN
        BY <1>1, LowType, Widths
      <4>2. Low(a, WLEN) - 0 = Low(a, WLEN) /\ Low(a, WLEN) \in Word
        BY <4>1, SmallIsWord
      <4> QED
        BY <4>2, WordIs
    <3> QED
      BY <2>1, <3>1, <3>2 DEF WordArith, WordAddA64
  <2>4. /\ SignExtended(a + b, WLEN) # Low(a, WLEN) + Low(b, WLEN)
             <=> Low(a, WLEN) + Low(b, WLEN) >= 2 ^ (WLEN - 1)
        /\ SignExtended(a - b, WLEN) # Low(a, WLEN)
             <=> ~(Low(a, WLEN) < 2 ^ (WLEN - 1) /\ Low(b, WLEN) = 0)
    BY <1>1, WordSums
  <2> HIDE DEF v, z
  <2>5. op # "subw" => (v # z <=> Low(a, WLEN) + Low(b, WLEN) >= 2 ^ (WLEN - 1))
    BY <2>2, <2>4
  <2>6. op = "subw" => (v # z <=> ~(Low(a, WLEN) < 2 ^ (WLEN - 1) /\ Low(b, WLEN) = 0))
    BY <2>3, <2>4
  <2> QED
    BY <1>6, <2>5, <2>6, Zenon DEF WordAdds, ShiftLefts, v, z
<1>7. CASE op \in WordShifts
  <2>1. v = WordShift(op, a, b) /\ z = WordShiftA64(op, a, b)
    BY <1>7, Families DEF WordShifts
  <2>2. op \in ShiftLefts => v = ShiftLeft(a, b, WLEN) /\ z = ShiftLeft(Low(a, WLEN), b, XLEN)
    BY <2>1 DEF ShiftLefts, WordShift, WordShiftA64
  <2>3. op = "srlw" => v = ShiftRight(a, b, WLEN) /\ z = ShiftRight(Low(a, WLEN), b, XLEN)
    BY <2>1 DEF WordShift, WordShiftA64
  <2>4. op = "srliw" => v = ShiftRight(a, b, WLEN)
                        /\ z = ShiftRight(Low(a, WLEN), b % WLEN, XLEN)
    BY <2>1 DEF WordShift, WordShiftA64
  <2>5. op = "sraiw" => v = SignExtended(ShiftRightSigned(a, b, WLEN), WLEN)
                        /\ z = ShiftRightSigned(Low(a, WLEN), b % WLEN, XLEN)
    BY <2>1 DEF WordShift, WordShiftA64
  <2> HIDE DEF v, z
  <2>6. op \in ShiftLefts => (v # z <=> ShiftLeft(Low(a, WLEN), b, XLEN) >= 2 ^ WLEN)
    BY <1>1, <2>2, LeftShifts
  <2>7. op = "srlw" => (v # z <=> b % XLEN >= WLEN /\ v # 0)
    BY <1>1, <2>3, RightShifts
  <2>8. op = "srliw" => v = z
    BY <1>1, <2>4, RightShifts
  <2>9. op = "sraiw" => (v # z <=> Low(a, WLEN) >= 2 ^ (WLEN - 1))
    BY <1>1, <2>5, SignedRightShifts
  <2>10. op \in ShiftLefts \cup {"srlw", "srliw", "sraiw"}
    BY <1>1, <1>7 DEF WordShifts, ShiftLefts
  <2>11. v # z <=> \/ op \in ShiftLefts /\ ShiftLeft(Low(a, WLEN), b, XLEN) >= 2 ^ WLEN
                   \/ op = "srlw" /\ b % XLEN >= WLEN /\ v # 0
                   \/ op = "sraiw" /\ Low(a, WLEN) >= 2 ^ (WLEN - 1)
    BY <2>6, <2>7, <2>8, <2>9, <2>10 DEF ShiftLefts
  <2>12. op \notin {"or", "ori", "addw", "addiw", "subw", "srl", "sra"}
    BY <2>10 DEF ShiftLefts
  <2> QED
    BY <2>11, <2>12 DEF v, z
<1> QED
  BY <1>2, <1>3, <1>4, <1>5, <1>6, <1>7, Families

\* The guest after an instruction when x0 is a register like the others.
LEMMA UnguardedForms ==
  ASSUME NEW i, NEW g, Ready(i, g)
  PROVE  /\ i.op \in Valued => Unguarded(i, g) = Put(g, i.rd, Value(i, g), After(g))
         /\ i.op = "jal" =>
              Unguarded(i, g) = Put(g, i.rd, After(g), Wrap(g.pc + i.imm))
         /\ i.op = "jalr" => Unguarded(i, g) = Put(g, i.rd, After(g), Target(i, g))
         /\ i.op \notin Valued \cup {"jal", "jalr"} => Unguarded(i, g) = Interpret(i, g)
<1> DEFINE k == [i EXCEPT !.rd = 1]
           writes == Valued \cup {"jal", "jalr"}
<1>1. /\ g \in Guest /\ i.rd \in Regs /\ 1 \in Regs /\ 0 \in Regs /\ After(g) \in Word
      /\ Wrap(g.pc + i.imm) \in Word
  BY Fields, Relative, GuestFields DEF Ready
<1>2. Unguarded(i, g) = IF i.op \in writes /\ i.rd = 0
                          THEN [Interpret(i, g) EXCEPT !.regs[0] = Interpret(k, g).regs[1]]
                          ELSE Interpret(i, g)
  BY DEF Unguarded, Valued
<1>3. i.op \in writes => /\ Ready(k, g) /\ k.rd = 1 /\ k.op = i.op /\ k.rs1 = i.rs1
                         /\ k.rs2 = i.rs2 /\ k.imm = i.imm
  <2>1. Instruction(i)
    BY DEF Ready
  <2>2. /\ k.rd = 1 /\ k.op = i.op /\ k.rs1 = i.rs1 /\ k.rs2 = i.rs2 /\ k.imm = i.imm
        /\ i.op \in writes => Instruction(k)
    BY <1>1, <2>1 DEF Instruction, Valued, Loads, Immediates, Registers
  <2> HIDE DEF k, writes
  <2>3. Address(k, g) = Address(i, g)
    BY <2>2 DEF Address, Imm
  <2> QED
    BY <2>2, <2>3 DEF Ready, Executable
<1> HIDE DEF k
<1>4. i.op \in writes => /\ Value(k, g) = Value(i, g) /\ Target(k, g) = Target(i, g)
  <2> SUFFICES ASSUME i.op \in writes
               PROVE  Value(k, g) = Value(i, g) /\ Target(k, g) = Target(i, g)
    OBVIOUS
  <2>1. /\ Imm(k) = Imm(i) /\ Address(k, g) = Address(i, g) /\ UpperImm(k) = UpperImm(i)
        /\ Operand(k, g) = Operand(i, g)
    BY <1>3 DEF Imm, Address, UpperImm, Operand
  <2> QED
    BY <1>3, <2>1 DEF Value, Target
<1>5. ASSUME NEW v \in Word, NEW p \in Word,
             Interpret(i, g) = Guarded(g, i.rd, v, p),
             i.op \in writes => Interpret(k, g) = Guarded(g, 1, v, p), i.op \in writes
      PROVE  Unguarded(i, g) = Put(g, i.rd, v, p)
  <2>1. CASE i.rd # 0
    BY <1>2, <1>5, <2>1 DEF Guarded
  <2>2. CASE i.rd = 0
    <3>1. Interpret(i, g) = [g EXCEPT !.pc = p]
      BY <1>5, <2>2 DEF Guarded
    <3>2. Interpret(k, g).regs[1] = v
      <4>1. Guarded(g, 1, v, p).regs[1] = v
        BY <1>1, <1>5 DEF Guarded, Put, Guest
      <4> QED
        BY <1>5, <4>1
    <3>3. Unguarded(i, g) = [[g EXCEPT !.pc = p] EXCEPT !.regs[0] = v]
      BY <1>2, <1>5, <2>2, <3>1, <3>2
    <3>4. [[g EXCEPT !.pc = p] EXCEPT !.regs[0] = v] = Put(g, 0, v, p)
      BY <1>1 DEF Put, Guest
    <3> QED
      BY <2>2, <3>3, <3>4
  <2> QED
    BY <2>1, <2>2
<1>6. ASSUME i.op \in Valued PROVE Unguarded(i, g) = Put(g, i.rd, Value(i, g), After(g))
  <2>1. i.op \in writes /\ k.op \in Valued
    BY <1>3, <1>6
  <2>2. Value(i, g) \in Word /\ Interpret(i, g) = Guarded(g, i.rd, Value(i, g), After(g))
    BY <1>6, ValueTypes, ValuedForms
  <2>3. Interpret(k, g) = Guarded(g, 1, Value(i, g), After(g))
    <3>1. Interpret(k, g) = Guarded(g, k.rd, Value(k, g), After(g))
      BY <1>3, <2>1, ValuedForms
    <3> QED
      BY <1>3, <1>4, <2>1, <3>1
  <2> HIDE DEF writes
  <2> QED
    BY <1>1, <1>5, <2>1, <2>2, <2>3
<1>7. ASSUME i.op = "jal"
      PROVE  Unguarded(i, g) = Put(g, i.rd, After(g), Wrap(g.pc + i.imm))
  <2>1. i.op \in writes
    BY <1>7
  <2>2. Interpret(i, g) = Guarded(g, i.rd, After(g), Wrap(g.pc + i.imm))
    BY <1>7, JalForms
  <2>3. Interpret(k, g) = Guarded(g, 1, After(g), Wrap(g.pc + i.imm))
    <3>1. Interpret(k, g) = Guarded(g, k.rd, After(g), Wrap(g.pc + k.imm))
      BY <1>3, <1>7, <2>1, JalForms
    <3> QED
      BY <1>3, <2>1, <3>1
  <2> HIDE DEF writes
  <2> QED
    BY <1>1, <1>5, <2>1, <2>2, <2>3
<1>8. ASSUME i.op = "jalr"
      PROVE  Unguarded(i, g) = Put(g, i.rd, After(g), Target(i, g))
  <2>1. i.op \in writes
    BY <1>8
  <2>2. Interpret(i, g) = Guarded(g, i.rd, After(g), Target(i, g)) /\ Target(i, g) \in Word
    BY <1>8, JalrForms
  <2>3. Interpret(k, g) = Guarded(g, 1, After(g), Target(i, g))
    <3>1. Interpret(k, g) = Guarded(g, k.rd, After(g), Target(k, g))
      BY <1>3, <1>8, <2>1, JalrForms
    <3> QED
      BY <1>3, <1>4, <2>1, <3>1
  <2> HIDE DEF writes
  <2> QED
    BY <1>1, <1>5, <2>1, <2>2, <2>3
<1>9. i.op \notin Valued \cup {"jal", "jalr"} => Unguarded(i, g) = Interpret(i, g)
  BY <1>2
<1> QED
  BY <1>6, <1>7, <1>8, <1>9

\* Small immediates, wrapped.
LEMMA WrappedImm ==
  ASSUME NEW i, Instruction(i)
  PROVE  (Imm(i) = 0 <=> i.imm = 0) /\ 4 - i.imm \in Int /\ 4 - i.imm < 2 ^ XLEN
<1>1. /\ i.imm \in Int /\ Imm(i) = Wrap(i.imm)
      /\ i.imm >= -(2 ^ (XLEN - 1)) /\ i.imm < 2 ^ (XLEN - 1)
  BY Fields
<1>2. /\ 2 ^ XLEN \in Nat \ {0} /\ 2 ^ XLEN = 2 * 2 ^ (XLEN - 1) /\ 2 ^ XLEN > 16
      /\ 2 ^ (XLEN - 1) \in Nat
  BY WidthPowers
<1> DEFINE m == 2 ^ XLEN
           h == 2 ^ (XLEN - 1)
           v == i.imm
<1> HIDE DEF m, h, v
<1>3. v \in Int /\ v >= -h /\ v < h /\ m = 2 * h /\ h \in Nat /\ m > 16
  BY <1>1, <1>2 DEF m, h, v
<1>4. Wrap(v) = IF v >= 0 THEN v ELSE v + m
  <2>1. v >= -m /\ v < m
    BY <1>3
  <2> QED
    BY <1>3, <2>1, WrapSmall DEF m
<1>5. (Wrap(v) = 0 <=> v = 0) /\ 4 - v \in Int /\ 4 - v < m
  BY <1>3, <1>4
<1> QED
  BY <1>1, <1>5 DEF m, v

\* A branch backwards never goes to the next instruction.
LEMMA BackwardsMoves ==
  ASSUME NEW i, NEW g, Ready(i, g), i.imm < 0
  PROVE  Wrap(g.pc + i.imm) # After(g)
<1> DEFINE a == Wrap(g.pc + i.imm)
           x == 4 - i.imm
<1>1. a \in Word /\ g.pc \in Int /\ i.imm \in Int /\ a \in Int
  BY Relative, GuestFields, Fields, WordIs DEF Ready
<1>2. x \in 1 .. (2 ^ XLEN - 1)
  BY <1>1, WrappedImm, WidthPowers DEF Ready
<1>3. Wrap(a + x) = After(g)
  <2>1. g.pc + i.imm \in Int /\ x \in Int
        /\ x + (g.pc + i.imm) = g.pc + 4 /\ a + x = x + a
    BY <1>1
  <2>2. Wrap(x + Wrap(g.pc + i.imm)) = Wrap(x + (g.pc + i.imm))
    BY <2>1, WrapAdds
  <2> QED
    BY <2>1, <2>2 DEF After
<1> HIDE DEF a, x
<1>4. Wrap(a + x) # a
  BY <1>1, <1>2, WrapMoves
<1> QED
  BY <1>3, <1>4 DEF a

\* Where AArch64 code and the interpreter differ.
LEMMA A64Step ==
  ASSUME NEW i, NEW g, Ready(i, g), NEW x4 \in Word, ~Backwards(i, g, Interpret(i, g))
  PROVE  EmittedA64(i, g, x4) # Unguarded(i, g) <=> DivergesA64(i, g, Unguarded(i, g))
<1> DEFINE h == Unguarded(i, g)
           e == EmittedA64(i, g, x4)
           a == g.regs[i.rs1]
           b == Operand(i, g)
<1>1. /\ g \in Guest /\ i.rd \in Regs /\ i.rs1 \in Regs /\ After(g) \in Word
      /\ After(g) # g.pc /\ Wrap(g.pc + i.imm) \in Word /\ Imm(i) \in Word
      /\ a \in Word /\ b \in Word /\ Reg(g, i.rs1) = a /\ g.pc \in Word
  BY Fields, Relative, AfterType, Operands, GuestFields DEF Ready
<1>2. i.op \in NotListed => e = g
  BY DEF EmittedA64, Loads, Stores, Branches, Immediates, Registers, NotListed
<1>3. CASE i.op \in Valued /\ i.op \in NotListed
  <2>1. h = Put(g, i.rd, Value(i, g), After(g)) /\ Value(i, g) \in Word
    BY <1>3, UnguardedForms, ValueTypes
  <2>2. h.pc = After(g)
    BY <2>1 DEF Put, Guest
  <2>3. DivergesA64(i, g, h)
    BY <1>3 DEF DivergesA64, NotListed
  <2> QED
    BY <1>1, <1>2, <1>3, <2>2, <2>3
<1>4. CASE i.op \in Valued /\ i.op \notin NotListed
  <2> DEFINE v == Value(i, g)
             z == ValueA64(i, g)
             top == 2 ^ (WLEN - 1)
             D == \/ i.op \in {"or", "ori"} /\ a # 2 ^ XLEN - 1
                  \/ i.op \in {"addw", "addiw"} /\ Low(a, WLEN) + Low(b, WLEN) >= top
                  \/ i.op = "subw" /\ ~(Low(a, WLEN) < top /\ Low(b, WLEN) = 0)
                  \/ i.op \in {"srl", "sra"} /\ v # a
                  \/ i.op \in ShiftLefts /\ ShiftLeft(Low(a, WLEN), b, XLEN) >= 2 ^ WLEN
                  \/ i.op = "srlw" /\ b % XLEN >= WLEN /\ v # 0
                  \/ i.op = "sraiw" /\ Low(a, WLEN) >= top
  <2>1. v \in Word /\ z \in Word
    BY <1>4, ValueTypes
  <2>2. h = Put(g, i.rd, v, After(g)) /\ e = Put(g, i.rd, z, After(g))
    BY <1>4, UnguardedForms, ValuedForms
  <2>3. h.regs[i.rd] = v
    <3>1. Put(g, i.rd, v, After(g)).regs[i.rd] = v
      <4> HIDE DEF v
      <4> QED
        BY <1>1 DEF Put, Guest
    <3> QED
      BY <2>2, <3>1
  <2>4. DivergesA64(i, g, h) <=> D
    <3>1. i.op \notin {"srai", "sraw", "csrw", "jal", "jalr", "ecall"}
      BY <1>4, Sorts DEF Ready, NotListed
    <3> HIDE DEF v, h, a, b
    <3> QED
      BY <2>3, <3>1 DEF DivergesA64, ShiftLefts, a, b
  <2>5. v # z <=> D
    <3>1. CASE i.op \in Loads \cup UpperOps
      <4>1. v = z
        BY <3>1 DEF ValueA64, UpperOps
      <4>2. ~D
        BY <3>1 DEF Loads, UpperOps, ShiftLefts
      <4> QED
        BY <4>1, <4>2
    <3>2. CASE i.op \in Immediates \cup Registers
      <4>1. i.op \in (Immediates \cup Registers) \ NotListed /\ i.op \notin Loads \cup UpperOps
        BY <1>4, <3>2, Sorts DEF Ready
      <4>2. /\ v = Computed(i.op, a, b)
            /\ z = ComputedA64(i.op, a, IF i.op \in {"subw", "srl", "sra"} THEN 0 ELSE b)
        BY <1>1, <4>1 DEF Value, ValueA64, Loads, UpperOps
      <4> HIDE DEF v, z, a, b
      <4> QED
        BY <1>1, <4>1, <4>2, ComputedA64Differs
    <3> QED
      BY <1>4, <3>1, <3>2, Sorts DEF Ready
  <2> HIDE DEF v, z, D, h, e
  <2>6. Put(g, i.rd, z, After(g)) = Put(g, i.rd, v, After(g)) <=> z = v
    BY <1>1, <2>1, PutDiffers
  <2>7. e # h <=> DivergesA64(i, g, h)
    BY <2>2, <2>4, <2>5, <2>6
  <2> QED
    BY <2>7 DEF e, h
<1>5. CASE i.op = "csrw"
  <2>1. h = Interpret(i, g) /\ Interpret(i, g) # g
    BY <1>5, UnguardedForms, CsrwForms, Sorts DEF Ready
  <2>2. DivergesA64(i, g, h)
    BY <1>5 DEF DivergesA64
  <2>3. e = g
    BY <1>2, <1>5 DEF NotListed
  <2> QED
    BY <1>1, <2>1, <2>2, <2>3
<1>6. CASE i.op = "jal"
  <2> DEFINE p == Wrap(g.pc + i.imm)
             q == Imm(i)
  <2>1. h = Put(g, i.rd, After(g), p) /\ e = Put(g, i.rd, After(g), q)
    BY <1>6, UnguardedForms, JalForms
  <2>2. p = q <=> g.pc = 0
    <3>1. g.pc \in Int /\ i.imm \in Int /\ q = Wrap(i.imm) /\ g.pc >= 0 /\ g.pc < 2 ^ XLEN
          /\ q \in Int
      BY <1>1, Fields, WordIs DEF Ready
    <3>2. p = Wrap(q + g.pc)
      <4>1. Wrap(g.pc + Wrap(i.imm)) = Wrap(g.pc + i.imm)
        BY <3>1, WrapAdds
      <4>2. g.pc + q = q + g.pc
        BY <3>1
      <4> QED
        BY <3>1, <4>1, <4>2
    <3> HIDE DEF p, q
    <3>3. g.pc = 0 => p = q
      <4>1. q + 0 = q /\ Wrap(q) = q
        BY <1>1, <3>1, WordIs DEF q
      <4> QED
        BY <3>2, <4>1
    <3>4. g.pc # 0 => p # q
      <4> SUFFICES ASSUME g.pc # 0 PROVE Wrap(q + g.pc) # q
        BY <3>2
      <4> DEFINE x == g.pc
      <4>1. x \in 1 .. (2 ^ XLEN - 1)
        BY <3>1, WidthPowers
      <4>2. q \in Word
        BY <1>1 DEF q
      <4> HIDE DEF x
      <4>3. Wrap(q + x) # q
        BY <4>1, <4>2, WrapMoves
      <4> QED
        BY <4>3 DEF x
    <3> QED
      BY <3>3, <3>4
  <2>3. DivergesA64(i, g, h) <=> g.pc # 0
    BY <1>6 DEF DivergesA64
  <2>4. p \in Word /\ q \in Word
    BY <1>1
  <2> HIDE DEF p, q, h, e
  <2>5. Put(g, i.rd, After(g), q) = Put(g, i.rd, After(g), p) <=> q = p
    BY <1>1, <2>4, PutDiffers
  <2>6. e # h <=> DivergesA64(i, g, h)
    BY <2>1, <2>2, <2>3, <2>5
  <2> QED
    BY <2>6 DEF e, h
<1>7. CASE i.op = "jalr"
  <2> DEFINE p == Target(i, g)
  <2>1. h = Put(g, i.rd, After(g), p) /\ e = Put(g, i.rd, After(g), a) /\ p \in Word
    BY <1>7, UnguardedForms, JalrForms
  <2>2. p = a <=> i.imm = 0
    <3>1. a \in Int /\ i.imm \in Int /\ Imm(i) = Wrap(i.imm) /\ Wrap(a) = a
          /\ p = Wrap(a + i.imm)
      BY <1>1, Fields, WordIs DEF Ready, Target
    <3> DEFINE x == Imm(i)
    <3>2. p = Wrap(a + x)
      <4> HIDE DEF a
      <4>1. Wrap(a + Wrap(i.imm)) = Wrap(a + i.imm)
        BY <3>1, WrapAdds
      <4> QED
        BY <3>1, <4>1
    <3>3. (x = 0 <=> i.imm = 0) /\ x \in Int /\ x >= 0 /\ x < 2 ^ XLEN
      BY <1>1, WrappedImm, WordIs DEF Ready
    <3>4. x # 0 => x \in 1 .. (2 ^ XLEN - 1)
      BY <3>3, WidthPowers
    <3>5. a \in Word
      BY <1>1
    <3> HIDE DEF x, a, p
    <3>6. x # 0 => p # a
      BY <3>2, <3>4, <3>5, WrapMoves
    <3>7. x = 0 => p = a
      <4>1. a + 0 = a
        BY <3>1
      <4> QED
        BY <3>1, <3>2, <4>1
    <3> QED
      BY <3>3, <3>6, <3>7
  <2>3. DivergesA64(i, g, h) <=> i.imm # 0
    BY <1>7 DEF DivergesA64
  <2>4. a \in Word
    BY <1>1
  <2> HIDE DEF p, h, e, a
  <2>5. Put(g, i.rd, After(g), a) = Put(g, i.rd, After(g), p) <=> a = p
    BY <1>1, <2>1, <2>4, PutDiffers
  <2>6. e # h <=> DivergesA64(i, g, h)
    BY <2>1, <2>2, <2>3, <2>5
  <2> QED
    BY <2>6 DEF e, h
<1>8. CASE i.op = "ecall"
  <2>1. i.op \notin Valued /\ i.op \notin {"jal", "jalr", "csrw"}
    BY <1>8, Sorts DEF Ready
  <2>2. h = Interpret(i, g)
    BY <2>1, UnguardedForms
  <2>3. DivergesA64(i, g, h) <=> Named(i, g)
    BY <1>8 DEF DivergesA64
  <2>4. e = Emitted(i, g) /\ (Interpret(i, g) # Emitted(i, g) <=> Named(i, g))
    BY <1>8, EcallForms
  <2> QED
    BY <2>2, <2>3, <2>4
<1>9. CASE i.op \in Stores \cup Branches
  <2>1. i.op \notin Valued /\ i.op \notin {"jal", "jalr", "csrw", "ecall"}
    BY <1>9, Sorts DEF Ready, Stores, Branches
  <2>2. h = Interpret(i, g)
    BY <2>1, UnguardedForms
  <2>3. ~DivergesA64(i, g, h)
    BY <2>1 DEF DivergesA64, Valued, Immediates, Registers
  <2>4. i.op \in Stores => e = Interpret(i, g)
    BY StoreForms
  <2>5. i.op \in Branches => e = Interpret(i, g)
    <3> SUFFICES ASSUME i.op \in Branches PROVE e = Interpret(i, g)
      OBVIOUS
    <3>1. /\ Interpret(i, g) = [g EXCEPT !.pc = Branch(i, g)]
          /\ e = [g EXCEPT !.pc = BranchA64(i, g, x4)]
      BY BranchForms
    <3>2. i.imm >= 0 \/ (Branch(i, g) = After(g) /\ Wrap(g.pc + i.imm) # After(g))
      <4>1. Interpret(i, g).pc = Branch(i, g)
        BY <1>1, <3>1 DEF Guest
      <4>2. i.imm < 0 => Branch(i, g) = After(g)
        BY <4>1 DEF Backwards, After
      <4>3. i.imm < 0 => Wrap(g.pc + i.imm) # After(g)
        BY BackwardsMoves
      <4>4. i.imm < 0 \/ i.imm >= 0
        BY Fields DEF Ready
      <4> QED
        BY <4>2, <4>3, <4>4
    <3>3. BranchA64(i, g, x4) = Branch(i, g)
      BY <3>2, BranchForms
    <3> QED
      BY <3>1, <3>3
  <2> QED
    BY <1>9, <2>2, <2>3, <2>4, <2>5
<1> QED
  BY <1>3, <1>4, <1>5, <1>6, <1>7, <1>8, <1>9, Sorts DEF Ready
-------------------------------------------------------------------------------
(* Theorems. *)

Inv == TypeOK /\ ZeroRegister

\* A step that is not a stutter: an instruction both engines were ready for.
LEMMA Steps ==
  ASSUME Inv, Next
  PROVE  LET i == last'
             g == interp
         IN  /\ i \in Menu /\ Ready(i, g) /\ interp' = Interpret(i, g)
             /\ host' = host
             /\ host = "x86" => jit' = Emitted(i, g)
             /\ host # "x86" => \E x4 \in X4 : jit' = EmittedA64(i, g, x4)
             /\ steps' \in 0 .. MaxSteps
<1>1. PICK i \in Menu : /\ Executable(i, interp)
                        /\ interp' = Interpret(i, interp)
                        /\ jit' \in Compiled(i, jit)
                        /\ last' = i
  BY DEF Next
<1>2. Instruction(i)
  BY LockstepAssumption
<1>3. jit = interp /\ host' = host /\ steps' \in 0 .. MaxSteps
  BY LockstepAssumption DEF Next, Inv, TypeOK
<1>4. Ready(i, interp)
  BY <1>1, <1>2 DEF Ready, Next, Inv, TypeOK, ZeroRegister
<1>5. /\ host = "x86" => jit' = Emitted(i, interp)
      /\ host # "x86" => \E x4 \in X4 : jit' = EmittedA64(i, interp, x4)
  BY <1>1, <1>3 DEF Compiled
<1> QED
  BY <1>1, <1>3, <1>4, <1>5

LEMMA InvInit == Init => Inv
<1> SUFFICES ASSUME Init PROVE Inv
  OBVIOUS
<1>1. interp \in Guest /\ interp.regs[0] = 0 /\ jit = interp
  BY LockstepAssumption DEF Init
<1> QED
  BY <1>1, LockstepAssumption DEF Init, Inv, TypeOK, ZeroRegister

LEMMA InvStep == Inv /\ [Next]_vars => Inv'
<1> SUFFICES ASSUME Inv, [Next]_vars PROVE Inv'
  OBVIOUS
<1>1. CASE Next
  <2> DEFINE i == last'
             g == interp
  <2>1. /\ i \in Menu /\ Ready(i, g) /\ interp' = Interpret(i, g) /\ host' = host
        /\ host = "x86" => jit' = Emitted(i, g)
        /\ host # "x86" => \E x4 \in X4 : jit' = EmittedA64(i, g, x4)
        /\ steps' \in 0 .. MaxSteps
    BY <1>1, Steps
  <2>2. /\ Interpret(i, g) \in Guest /\ Interpret(i, g).regs[0] = 0
        /\ Emitted(i, g) \in Guest /\ Emitted(i, g).regs[0] = 0
        /\ \A x4 \in Word : EmittedA64(i, g, x4) \in Guest
    BY <2>1, StepTypes
  <2>3. X4 \subseteq Word
    BY LockstepAssumption
  <2>4. interp' \in Guest /\ interp'.regs[0] = 0 /\ jit' \in Guest
        /\ (host = "x86" => jit'.regs[0] = 0)
    BY <2>1, <2>2, <2>3
  <2> QED
    BY <2>1, <2>4 DEF Inv, TypeOK, ZeroRegister
<1>2. CASE UNCHANGED vars
  BY <1>2 DEF vars, Inv, TypeOK, ZeroRegister
<1> QED
  BY <1>1, <1>2

\* Registers, memory and satp of both guests keep their widths, whatever program of
\* decoded instructions runs: execute_* and the code of either backend.
THEOREM LockstepTypes == Spec => []TypeOK
<1>1. Inv => TypeOK
  BY DEF Inv
<1> QED
  BY <1>1, InvInit, InvStep, PTL DEF Spec

\* x0 stays 0 in the interpreter (set_reg) and in x86-64 code (write_reg_x86), which
\* reads it from memory.
THEOREM ZeroStays == Spec => []ZeroRegister
<1>1. Inv => ZeroRegister
  BY DEF Inv
<1> QED
  BY <1>1, InvInit, InvStep, PTL DEF Spec

\* For words of every width, every program and every state: the interpreter and
\* x86-64 code leave different guests exactly after signed loads and left word
\* shifts of a negative value, AUIPC with its top bit set, JALR to odd addresses and
\* through the register it links, and ECALL words with a destination.
THEOREM X86Diverges == Spec => DivergesExactly
<1>1. Inv /\ [Next]_vars =>
        [host = "x86" => ((interp' # jit') <=> Diverges(last', interp, interp'))]_vars
  <2> SUFFICES ASSUME Inv, Next, host = "x86"
               PROVE  (interp' # jit') <=> Diverges(last', interp, interp')
    OBVIOUS
  <2> DEFINE i == last'
             g == interp
  <2>1. Ready(i, g) /\ interp' = Interpret(i, g) /\ jit' = Emitted(i, g)
    BY Steps
  <2>2. Interpret(i, g) # Emitted(i, g) <=> Diverges(i, g, Interpret(i, g))
    BY <2>1, X86Step
  <2> QED
    BY <2>1, <2>2
<1> QED
  BY <1>1, InvInit, InvStep, PTL DEF Spec, DivergesExactly

\* The same of AArch64 code, taken backward branches aside: it differs from an
\* interpreter that writes x0 exactly where DivergesA64 says.
THEOREM A64Diverges == Spec => DivergesExactlyA64
<1>1. Inv /\ [Next]_vars =>
        [host = "a64" /\ ~Backwards(last', interp, interp') =>
           LET h == Unguarded(last', interp)
           IN  (jit' # h) <=> DivergesA64(last', interp, h)]_vars
  <2> SUFFICES ASSUME Inv, Next, host = "a64", ~Backwards(last', interp, interp')
               PROVE  LET h == Unguarded(last', interp)
                      IN  (jit' # h) <=> DivergesA64(last', interp, h)
    OBVIOUS
  <2> DEFINE i == last'
             g == interp
  <2>1. /\ Ready(i, g) /\ interp' = Interpret(i, g)
        /\ host # "x86" => \E x4 \in X4 : jit' = EmittedA64(i, g, x4)
    BY Steps
  <2>2. PICK x4 \in X4 : jit' = EmittedA64(i, g, x4)
    BY <2>1
  <2>3. x4 \in Word
    BY LockstepAssumption
  <2>4. EmittedA64(i, g, x4) # Unguarded(i, g) <=> DivergesA64(i, g, Unguarded(i, g))
    BY <2>1, <2>3, A64Step
  <2> QED
    BY <2>2, <2>4
<1> QED
  BY <1>1, InvInit, InvStep, PTL DEF Spec, DivergesExactlyA64
================================================================================
