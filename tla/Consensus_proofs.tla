-------------------------- MODULE Consensus_proofs --------------------------
(***************************************************************************)
(* For every even radix from 8 on, every sequence of adjustments and every *)
(* block: the compact targets of a chain are sound and a merkle root       *)
(* identifies the tree of transactions under it.                           *)
(*                                                                         *)
(* Targets.  The inductive invariant adds to TargetsSound that the bits    *)
(* are Canonical: those of the genesis block, or a positive target up to   *)
(* that of the genesis block that survives decoding and encoding.  An      *)
(* encoding keeps the three leading digits, cut off at the largest         *)
(* mantissa: it never gives more than the target, gives the same bits when *)
(* repeated and loses at most a half and a digit of a quarter of the       *)
(* target before (StepDown).                                               *)
(*                                                                         *)
(* Merkle roots.  The rounds of compute_merkle_root are the levels of a    *)
(* tree.  A path from the root leads to a node of each level, equal nodes  *)
(* have equal children, and all leaves are reached: equal roots mean equal *)
(* leaves, and equal leaves equal roots.                                   *)
(*                                                                         *)
(* Powers, rounds and descents are recursive functions.  That there is     *)
(* such a function, and what it satisfies, is shown by smallest            *)
(* counterexamples, with the property as a set (UpTo, Induct).             *)
(***************************************************************************)
EXTENDS Consensus, WellFoundedInduction, TLAPS

-----------------------------------------------------------------------------
(* Induction, powers and quotients *)

LEMMA LeastNat ==
    ASSUME NEW B \in SUBSET Nat, B # {}
    PROVE  \E n \in B : \A m \in B : n <= m
<1>1. IsWellFoundedOn(OpToRel(<, Nat), Nat)
  BY NatLessThanWellFounded
<1>2. PICK n \in B : \A m \in B : ~(<<m, n>> \in OpToRel(<, Nat))
  BY <1>1, WFMin
<1>3. \A m \in B : ~(m < n)
  BY <1>2 DEF OpToRel
<1> QED
  BY <1>3

LEMMA MinIs ==
    ASSUME NEW S, \A x \in S : x \in Int, NEW m \in S, \A x \in S : m <= x
    PROVE  Min(S) = m
<1>1. \A y \in S : (\A x \in S : y <= x) => y = m
  OBVIOUS
<1>2. Min(S) \in S /\ \A x \in S : Min(S) <= x
  BY DEF Min
<1> QED
  BY <1>1, <1>2

\* Induction up to a bound, with the property as a set.
LEMMA UpTo ==
    ASSUME NEW N \in Nat, NEW S, 0 \in S, \A n \in 0 .. N - 1 : n \in S => n + 1 \in S
    PROVE  0 .. N \subseteq S
<1> DEFINE B == {n \in 0 .. N : n \notin S}
<1>1. SUFFICES ASSUME B # {} PROVE FALSE
  OBVIOUS
<1>2. B \in SUBSET Nat
  OBVIOUS
<1>3. PICK n \in B : \A m \in B : n <= m
  <2> HIDE DEF B
  <2> QED
    BY <1>1, <1>2, LeastNat
<1>4. n # 0 /\ n - 1 \in 0 .. N - 1 /\ n - 1 \notin B
  BY <1>3
<1>5. n - 1 \in S
  BY <1>4
<1> QED
  BY <1>3, <1>4, <1>5

LEMMA Induct ==
    ASSUME NEW S, 0 \in S, \A n \in Nat : n \in S => n + 1 \in S
    PROVE  \A n \in Nat : n \in S
<1> TAKE n \in Nat
<1>1. 0 .. n \subseteq S
  BY UpTo
<1> QED
  BY <1>1

\* The equation of Power up to n.
Powers(b, n, p) == p = [k \in 0 .. n |-> IF k = 0 THEN 1 ELSE b * p[k - 1]]

LEMMA PowersAt ==
    ASSUME NEW b \in Nat, NEW n \in Nat, NEW p, Powers(b, n, p)
    PROVE  p[0] = 1 /\ \A k \in 1 .. n : p[k] = b * p[k - 1]
<1> DEFINE F(k) == IF k = 0 THEN 1 ELSE b * p[k - 1]
<1>1. p = [k \in 0 .. n |-> F(k)]
  BY DEF Powers
<1> HIDE DEF F
<1>2. \A k \in 0 .. n : p[k] = F(k)
  BY <1>1
<1> QED
  BY <1>2 DEF F

LEMMA PowersExist ==
    ASSUME NEW b \in Nat
    PROVE  \A n \in Nat : \E p : Powers(b, n, p)
<1> DEFINE S == {n \in Nat : \E p : Powers(b, n, p)}
<1>1. 0 \in S
  <2> DEFINE p == [k \in 0 .. 0 |-> 1]
  <2>1. Powers(b, 0, p)
    BY DEF Powers
  <2> QED
    BY <2>1
<1>2. ASSUME NEW n \in Nat, n \in S
      PROVE  n + 1 \in S
  <2>1. PICK p : Powers(b, n, p)
    BY <1>2
  <2>2. p[0] = 1 /\ \A k \in 1 .. n : p[k] = b * p[k - 1]
    BY <2>1, PowersAt
  <2> DEFINE q == [k \in 0 .. n + 1 |-> IF k = n + 1 THEN b * p[n] ELSE p[k]]
             F(k) == IF k = 0 THEN 1 ELSE b * q[k - 1]
  <2>3. ASSUME NEW k \in 0 .. n + 1
        PROVE  q[k] = F(k)
    <3>1. CASE k = 0
      BY <2>2, <3>1
    <3>2. CASE k \in 1 .. n
      BY <2>2, <3>2
    <3>3. CASE k = n + 1
      BY <3>3
    <3> QED
      BY <3>1, <3>2, <3>3
  <2>4. q = [k \in 0 .. n + 1 |-> F(k)]
    <3> HIDE DEF F
    <3> QED
      BY <2>3
  <2>5. Powers(b, n + 1, q)
    BY <2>4 DEF Powers
  <2> QED
    BY <2>5
<1>3. \A n \in Nat : n \in S
  <2> HIDE DEF S
  <2> QED
    BY <1>1, <1>2, Induct
<1> QED
  BY <1>3

LEMMA PowersAgree ==
    ASSUME NEW b \in Nat, NEW n \in Nat, NEW m \in 0 .. n,
           NEW p, Powers(b, n, p), NEW q, Powers(b, m, q)
    PROVE  p[m] = q[m]
<1> DEFINE S == {k \in 0 .. m : p[k] = q[k]}
<1>1. /\ p[0] = 1 /\ \A k \in 1 .. n : p[k] = b * p[k - 1]
      /\ q[0] = 1 /\ \A k \in 1 .. m : q[k] = b * q[k - 1]
  BY PowersAt
<1>2. 0 \in S
  BY <1>1
<1>3. ASSUME NEW k \in 0 .. m - 1, k \in S
      PROVE  k + 1 \in S
  BY <1>1, <1>3
<1>4. 0 .. m \subseteq S
  <2> HIDE DEF S
  <2> QED
    BY <1>2, <1>3, UpTo
<1> QED
  BY <1>4

\* Power is what its recursive definition says.
LEMMA PowerStep ==
    ASSUME NEW b \in Nat
    PROVE  /\ Power(b, 0) = 1
           /\ \A n \in Nat : Power(b, n + 1) = b * Power(b, n)
<1> DEFINE P(n) == CHOOSE p : Powers(b, n, p)
           f == [n \in Nat |-> P(n)[n]]
           F(g, k) == IF k = 0 THEN 1 ELSE b * g[k - 1]
<1>1. \A n \in Nat : Powers(b, n, P(n))
  BY PowersExist
<1>2. ASSUME NEW n \in Nat
      PROVE  f[n] = F(f, n)
  <2>1. CASE n = 0
    <3>1. P(0)[0] = 1
      BY <1>1, PowersAt
    <3> QED
      BY <2>1, <3>1
  <2>2. CASE n # 0
    <3>1. P(n)[n] = b * P(n)[n - 1]
      <4>1. Powers(b, n, P(n))
        BY <1>1
      <4> HIDE DEF P
      <4>2. n \in 1 .. n
        BY <2>2
      <4> QED
        BY <4>1, <4>2, PowersAt
    <3>2. P(n)[n - 1] = P(n - 1)[n - 1]
      <4>1. n - 1 \in Nat /\ n - 1 \in 0 .. n
        BY <2>2
      <4>2. Powers(b, n, P(n)) /\ Powers(b, n - 1, P(n - 1))
        BY <1>1, <4>1
      <4> HIDE DEF P
      <4> QED
        BY <4>1, <4>2, PowersAgree
    <3>3. n - 1 \in Nat
      BY <2>2
    <3> HIDE DEF P
    <3> QED
      BY <2>2, <3>1, <3>2, <3>3
  <2> QED
    BY <2>1, <2>2
<1>3. f = [n \in Nat |-> F(f, n)]
  <2> HIDE DEF F, P
  <2> QED
    BY <1>2
<1> DEFINE g == CHOOSE h : h = [n \in Nat |-> F(h, n)]
<1>4. g = [n \in Nat |-> F(g, n)]
  <2> HIDE DEF f, F
  <2> QED
    BY <1>3
<1>5. \A n : Power(b, n) = g[n]
  BY DEF Power
<1>6. \A n \in Nat : g[n] = F(g, n)
  <2> HIDE DEF g, F
  <2> QED
    BY <1>4
<1> HIDE DEF g
<1> QED
  BY <1>5, <1>6

LEMMA PowerPositive ==
    ASSUME NEW b \in Nat, b >= 1
    PROVE  \A n \in Nat : Power(b, n) \in Nat /\ Power(b, n) >= 1
<1> DEFINE S == {n \in Nat : Power(b, n) \in Nat /\ Power(b, n) >= 1}
<1>1. 0 \in S
  BY PowerStep
<1>2. ASSUME NEW n \in Nat, n \in S
      PROVE  n + 1 \in S
  <2> DEFINE p == Power(b, n)
  <2>1. p \in Nat /\ p >= 1 /\ Power(b, n + 1) = b * p
    BY <1>2, PowerStep
  <2> HIDE DEF p
  <2>2. b * p \in Nat /\ b * p >= 1
    BY ONLY <2>1, b \in Nat, b >= 1
  <2> QED
    BY <2>1, <2>2
<1>3. \A n \in Nat : n \in S
  <2> HIDE DEF S
  <2> QED
    BY <1>1, <1>2, Induct
<1> QED
  BY <1>3

\* A higher power is a multiple of a lower one.
LEMMA PowerMultiple ==
    ASSUME NEW b \in Nat, b >= 1, NEW m \in Nat, NEW n \in Nat, m <= n
    PROVE  \E k \in Nat : k >= 1 /\ Power(b, n) = k * Power(b, m)
<1> DEFINE p == Power(b, m)
           S == {j \in Nat : \E k \in Nat : k >= 1 /\ Power(b, m + j) = k * p}
<1>1. p \in Nat
  BY PowerPositive
<1>2. 0 \in S
  <2>1. m + 0 = m /\ 1 * p = p
    BY <1>1
  <2> QED
    BY <2>1
<1>3. ASSUME NEW j \in Nat, j \in S
      PROVE  j + 1 \in S
  <2> HIDE DEF p
  <2>1. PICK k \in Nat : k >= 1 /\ Power(b, m + j) = k * p
    BY <1>3
  <2>2. m + (j + 1) = (m + j) + 1 /\ m + j \in Nat
    OBVIOUS
  <2>3. Power(b, m + (j + 1)) = b * (k * p)
    BY <2>1, <2>2, PowerStep
  <2>4. b * k \in Nat /\ b * k >= 1 /\ b * (k * p) = (b * k) * p
    BY ONLY <1>1, <2>1, k \in Nat, b \in Nat, b >= 1
  <2> QED
    BY <2>3, <2>4
<1>4. \A j \in Nat : j \in S
  <2> HIDE DEF S
  <2> QED
    BY <1>2, <1>3, Induct
<1>5. n - m \in Nat /\ m + (n - m) = n
  OBVIOUS
<1>6. n - m \in S
  BY <1>4, <1>5
<1> QED
  BY <1>5, <1>6

LEMMA PowerMonotone ==
    ASSUME NEW b \in Nat, b >= 1, NEW m \in Nat, NEW n \in Nat, m <= n
    PROVE  Power(b, m) <= Power(b, n)
<1> DEFINE p == Power(b, m)
<1>1. PICK k \in Nat : k >= 1 /\ Power(b, n) = k * p
  BY PowerMultiple
<1>2. p \in Nat
  BY PowerPositive
<1> HIDE DEF p
<1>3. k * p >= p
  BY ONLY <1>1, <1>2
<1> QED
  BY <1>1, <1>2, <1>3 DEF p

LEMMA Quotient ==
    ASSUME NEW t \in Nat, NEW d \in Nat, d >= 1
    PROVE  /\ t \div d \in Nat
           /\ (t \div d) * d <= t
           /\ t < (t \div d) * d + d
OBVIOUS

LEMMA QuotientIs ==
    ASSUME NEW t \in Nat, NEW d \in Nat, d >= 1, NEW q \in Nat,
           q * d <= t, t < q * d + d
    PROVE  t \div d = q
<1> DEFINE r == t \div d
<1>1. r \in Nat /\ r * d <= t /\ t < r * d + d
  BY Quotient
<1> HIDE DEF r
<1>2. ~(r < q)
  <2> SUFFICES ASSUME r + 1 <= q PROVE FALSE
    BY <1>1
  <2>1. (r + 1) * d <= q * d
    BY <1>1
  <2>2. (r + 1) * d = r * d + d
    BY <1>1
  <2> QED
    BY <1>1, <2>1, <2>2
<1>3. ~(q < r)
  <2> SUFFICES ASSUME q + 1 <= r PROVE FALSE
    BY <1>1
  <2>1. (q + 1) * d <= r * d
    BY <1>1
  <2>2. (q + 1) * d = q * d + d
    OBVIOUS
  <2> QED
    BY <1>1, <2>1, <2>2
<1> QED
  BY <1>1, <1>2, <1>3 DEF r

-----------------------------------------------------------------------------
(* Compact targets *)

\* The number of digits of a target, and the other way round.
LEMMA SizeIs ==
    ASSUME NEW t \in Nat, NEW s \in 1 .. MaxTargetSize,
           Power(Radix, s - 1) <= t, t < Power(Radix, s)
    PROVE  SizeOf(t) = s
<1> DEFINE N == {n \in 0 .. MaxTargetSize + 1 :
                   t < Power(Radix, n) \/ n = MaxTargetSize + 1}
<1>1. MaxTargetSize \in Nat /\ Radix \in Nat /\ Radix >= 1
  BY ConsensusAssumption
<1>2. s \in N
  BY <1>1
<1>3. ASSUME NEW n \in N
      PROVE  s <= n
  <2>1. SUFFICES ASSUME n <= s - 1 PROVE FALSE
    BY <1>1
  <2>2. n \in Nat /\ s - 1 \in Nat
    BY <1>1
  <2>3. Power(Radix, n) <= Power(Radix, s - 1)
    BY <1>1, <2>1, <2>2, PowerMonotone
  <2>4. Power(Radix, n) \in Nat /\ Power(Radix, s - 1) \in Nat
    BY <1>1, <2>2, PowerPositive
  <2>5. t < Power(Radix, n)
    BY <1>1, <2>1
  <2> QED
    BY <2>3, <2>4, <2>5
<1>4. SizeOf(t) = Min(N)
  BY DEF SizeOf
<1>5. \A n \in N : n \in Int
  BY <1>1
<1> HIDE DEF N
<1>6. Min(N) = s
  BY <1>2, <1>3, <1>5, MinIs
<1> QED
  BY <1>4, <1>6

LEMMA SizeOfTarget ==
    ASSUME NEW t \in Nat, t >= 1, NEW m \in 1 .. MaxTargetSize, t < Power(Radix, m)
    PROVE  /\ SizeOf(t) \in 1 .. m
           /\ Power(Radix, SizeOf(t) - 1) <= t
           /\ t < Power(Radix, SizeOf(t))
<1>1. MaxTargetSize \in Nat /\ Radix \in Nat /\ Radix >= 1
  BY ConsensusAssumption
<1> DEFINE B == {n \in Nat : t < Power(Radix, n)}
<1>2. m \in B
  BY <1>1
<1>3. PICK s \in B : \A n \in B : s <= n
  <2>1. B \in SUBSET Nat /\ B # {}
    BY <1>2
  <2> HIDE DEF B
  <2> QED
    BY <2>1, LeastNat
<1>4. s # 0
  BY <1>1, <1>3, PowerStep
<1>5. s - 1 \in Nat /\ s - 1 \notin B /\ s <= m
  BY <1>2, <1>3, <1>4
<1>6. Power(Radix, s - 1) <= t
  <2>1. Power(Radix, s - 1) \in Nat
    BY <1>1, <1>5, PowerPositive
  <2> QED
    BY <1>5, <2>1
<1>7. s \in 1 .. MaxTargetSize /\ s \in 1 .. m
  BY <1>1, <1>4, <1>5
<1>8. SizeOf(t) = s
  BY <1>3, <1>6, <1>7, SizeIs
<1> QED
  BY <1>3, <1>6, <1>7, <1>8

LEMMA RadixFacts ==
    /\ Radix \in Nat /\ Radix >= 8 /\ MaxTargetSize \in Nat
    /\ GenesisExp \in Nat /\ GenesisExp >= 3 /\ GenesisExp <= MaxTargetSize
BY ConsensusAssumption

\* Twice the sign bit is the first number of four digits.
LEMMA SignFacts ==
    /\ SignBit \in Nat
    /\ 2 * SignBit = Radix * (Radix * Radix)
    /\ 4 * (Radix * Radix) <= SignBit
<1> DEFINE h == Radix \div 2
           z == Radix * Radix
<1>1. h \in Nat /\ Radix = 2 * h /\ h >= 4 /\ z \in Nat
  BY ConsensusAssumption
<1>2. Radix * Radix * Radix = 2 * (h * z)
  <2>1. Radix * Radix * Radix = Radix * z
    BY RadixFacts
  <2> HIDE DEF h, z
  <2>2. Radix * z = (2 * h) * z
    BY <1>1
  <2>3. (2 * h) * z = 2 * (h * z)
    BY <1>1
  <2> QED
    BY <2>1, <2>2, <2>3
<1>3. h * z \in Nat
  BY <1>1
<1>4. SignBit = h * z
  <2> DEFINE v == h * z
  <2>1. v \in Nat /\ SignBit = (2 * v) \div 2
    BY <1>2, <1>3 DEF SignBit
  <2> HIDE DEF v
  <2>2. (2 * v) \div 2 = v
    BY <2>1
  <2> QED
    BY <2>1, <2>2 DEF v
<1>5. 4 * z <= h * z
  <2> HIDE DEF h, z
  <2> QED
    BY <1>1
<1>6. Radix * Radix * Radix = Radix * z
  BY RadixFacts
<1> QED
  BY <1>2, <1>3, <1>4, <1>5, <1>6

LEMMA RadixPositive == \A n \in Nat : Power(Radix, n) \in Nat /\ Power(Radix, n) >= 1
BY RadixFacts, PowerPositive

\* Powers of the radix, three digits at a time.
LEMMA RadixPower ==
    /\ \A n \in Nat : Power(Radix, n) \in Nat /\ Power(Radix, n) >= 1
    /\ Power(Radix, 0) = 1 /\ Power(Radix, 1) = Radix /\ Power(Radix, 2) = Radix * Radix
    /\ \A n \in Nat : /\ Power(Radix, n + 1) = Radix * Power(Radix, n)
                      /\ Power(Radix, n + 2) = (Radix * Radix) * Power(Radix, n)
                      /\ Power(Radix, n + 3) = (Radix * (Radix * Radix)) * Power(Radix, n)
<1>1. \A n \in Nat : Power(Radix, n) \in Nat /\ Power(Radix, n) >= 1
  BY RadixPositive
<1>2. Power(Radix, 0) = 1 /\ \A n \in Nat : Power(Radix, n + 1) = Radix * Power(Radix, n)
  BY RadixFacts, PowerStep
<1>3. ASSUME NEW n \in Nat
      PROVE  /\ Power(Radix, n + 2) = (Radix * Radix) * Power(Radix, n)
             /\ Power(Radix, n + 3) = (Radix * (Radix * Radix)) * Power(Radix, n)
  <2> DEFINE p == Power(Radix, n)
  <2>1. p \in Nat
    BY <1>1
  <2>2. Power(Radix, n + 1) = Radix * p
    BY <1>2
  <2>3. Power(Radix, (n + 1) + 1) = Radix * (Radix * p)
    BY <1>2, <2>2
  <2>4. Power(Radix, ((n + 1) + 1) + 1) = Radix * (Radix * (Radix * p))
    BY <1>2, <2>3
  <2>5. (n + 1) + 1 = n + 2 /\ ((n + 1) + 1) + 1 = n + 3
    OBVIOUS
  <2> HIDE DEF p
  <2>6. Radix * (Radix * p) = (Radix * Radix) * p
    BY <2>1, RadixFacts
  <2>7. Radix * ((Radix * Radix) * p) = (Radix * (Radix * Radix)) * p
    BY <2>1, RadixFacts
  <2> QED
    BY <2>3, <2>4, <2>5, <2>6, <2>7 DEF p
<1>4. Power(Radix, 1) = Radix
  <2>1. Power(Radix, 0 + 1) = Radix * 1
    BY <1>2
  <2> QED
    BY <2>1, RadixFacts
<1>5. Power(Radix, 2) = Radix * Radix
  <2>1. Power(Radix, 1 + 1) = Radix * Power(Radix, 1)
    BY <1>2
  <2> QED
    BY <2>1, <1>4
<1> QED
  BY <1>1, <1>2, <1>3, <1>4, <1>5

LEMMA MinOfTwo ==
    ASSUME NEW a \in Int, NEW b \in Int
    PROVE  Min({a, b}) = IF a <= b THEN a ELSE b
<1>1. CASE a <= b
  <2>1. Min({a, b}) = a
    BY <1>1, MinIs
  <2> QED
    BY <1>1, <2>1
<1>2. CASE ~(a <= b)
  <2>1. Min({a, b}) = b
    BY <1>2, MinIs
  <2> QED
    BY <1>2, <2>1
<1> QED
  BY <1>1, <1>2

\* Targets of three digits and more: the three leading digits, cut off at the
\* largest mantissa.
LEMMA EncodeLarge ==
    ASSUME NEW t \in Nat, NEW s \in 3 .. MaxTargetSize,
           Power(Radix, s - 1) <= t, t < Power(Radix, s),
           NEW p, p = Power(Radix, s - 3)
    PROVE  \E m \in Nat :
             /\ TargetToCompact(t) = [exp |-> s, mant |-> m]
             /\ CompactToTarget(TargetToCompact(t)) = m * p
             /\ Radix * Radix <= m /\ m <= SignBit - 1
             /\ m * p <= t
             /\ m = SignBit - 1 \/ t < m * p + p
             /\ t < (2 * SignBit) * p
             /\ m = (IF t \div p <= SignBit - 1 THEN t \div p ELSE SignBit - 1)
<1> DEFINE q == t \div p
           z == Radix * Radix
           m == IF q <= SignBit - 1 THEN q ELSE SignBit - 1
<1>1. s - 3 \in Nat /\ (s - 3) + 2 = s - 1 /\ (s - 3) + 3 = s /\ s \in 1 .. MaxTargetSize
  BY RadixFacts
<1>2. /\ p \in Nat /\ p >= 1
      /\ Power(Radix, s - 1) = z * p
      /\ Power(Radix, s) = (Radix * z) * p
  BY <1>1, RadixPower
<1>3. z \in Nat /\ SignBit \in Nat /\ 2 * SignBit = Radix * z /\ 4 * z <= SignBit /\ z >= 1
  BY SignFacts, RadixFacts
<1>4. q \in Nat /\ q * p <= t /\ t < q * p + p
  BY <1>2, Quotient
<1>5. SizeOf(t) = s
  BY <1>1, SizeIs
<1>6. z <= q
  <2> HIDE DEF q, z
  <2>1. z * p < (q + 1) * p
    BY <1>2, <1>4, <1>3
  <2> QED
    BY <1>2, <1>3, <1>4, <2>1
<1>7. m \in Nat /\ z <= m /\ m <= SignBit - 1 /\ m <= q
  <2> HIDE DEF q, z
  <2> QED
    BY <1>3, <1>4, <1>6
<1>8. m * p <= t
  <2> HIDE DEF q, m
  <2>1. m * p <= q * p
    BY <1>2, <1>4, <1>7
  <2>2. m * p \in Nat /\ q * p \in Nat
    BY <1>2, <1>4, <1>7
  <2> QED
    BY <1>4, <2>1, <2>2
<1>9. m = SignBit - 1 \/ t < m * p + p
  BY <1>4
<1>10. t < (2 * SignBit) * p
  BY <1>2, <1>3
<1>11. TargetToCompact(t) = [exp |-> s, mant |-> m]
  <2> DEFINE top == Min({IF s <= 3 THEN t ELSE t \div Power(Radix, s - 3), SignBit - 1})
             mant == IF s <= 3 THEN top * Power(Radix, 3 - s) ELSE top
  <2>1. TargetToCompact(t) =
           IF t = 0 \/ s > MaxTargetSize THEN GenesisBits
           ELSE IF mant >= SignBit
                THEN [exp |-> s + 1, mant |-> mant \div Radix]
                ELSE [exp |-> s, mant |-> mant]
    BY <1>5 DEF TargetToCompact
  <2>2. (IF s <= 3 THEN t ELSE t \div Power(Radix, s - 3)) = q
    <3>1. CASE s = 3
      <4>1. p = 1
        BY <3>1, RadixPower
      <4> QED
        BY <3>1, <4>1
    <3>2. CASE s > 3
      BY <3>2
    <3> QED
      BY <3>1, <3>2
  <2>3. top = m
    <3>1. top = Min({q, SignBit - 1})
      BY <2>2
    <3> HIDE DEF q
    <3> QED
      BY <1>3, <1>4, <3>1, MinOfTwo
  <2>4. mant = m
    <3> HIDE DEF top, m
    <3>1. CASE s = 3
      <4>1. Power(Radix, 3 - s) = 1
        BY <3>1, RadixPower
      <4> QED
        BY <1>7, <2>3, <3>1, <4>1
    <3>2. CASE s > 3
      BY <2>3, <3>2
    <3> QED
      BY <3>1, <3>2
  <2>5. t # 0 /\ ~(s > MaxTargetSize)
    <3>1. z * p >= 1
      BY <1>2, <1>3
    <3>2. z * p <= t
      BY <1>2
    <3> HIDE DEF z
    <3> QED
      BY <3>1, <3>2, <1>1, <1>2, <1>3, RadixFacts
  <2> HIDE DEF mant, m
  <2> QED
    BY <1>3, <1>7, <2>1, <2>4, <2>5
<1>12. CompactToTarget(TargetToCompact(t)) = m * p
  <2> HIDE DEF m
  <2> QED
    BY <1>11 DEF CompactToTarget
<1> HIDE DEF m
<1> QED
  BY <1>7, <1>8, <1>9, <1>10, <1>11, <1>12 DEF m

\* Targets of one and two digits are encoded exactly.
LEMMA EncodeSmall ==
    ASSUME NEW t \in Nat, t >= 1, t < Radix * Radix
    PROVE  CompactToTarget(TargetToCompact(t)) = t
<1> DEFINE z == Radix * Radix
           s == SizeOf(t)
           w == Power(Radix, 3 - s)
           mant == t * w
<1>1. z \in Nat /\ SignBit \in Nat /\ 4 * z <= SignBit /\ z >= 1
  BY SignFacts, RadixFacts
<1>2. s \in 1 .. 2 /\ s <= MaxTargetSize
  <2>1. 2 \in 1 .. MaxTargetSize
    BY RadixFacts
  <2>2. t < Power(Radix, 2)
    BY RadixPower
  <2>3. s \in 1 .. 2
    BY <2>1, <2>2, SizeOfTarget
  <2> QED
    BY <2>3, RadixFacts
<1>3. w \in Nat /\ w >= 1
  <2>1. 3 - s \in Nat
    BY <1>2
  <2> QED
    BY ONLY <2>1, RadixPositive
<1>4. Min({IF s <= 3 THEN t ELSE t \div Power(Radix, s - 3), SignBit - 1}) = t
  <2>1. (IF s <= 3 THEN t ELSE t \div Power(Radix, s - 3)) = t
    BY <1>2
  <2>2. t <= SignBit - 1
    BY <1>1
  <2>3. Min({t, SignBit - 1}) = t
    BY <1>1, <2>2, MinOfTwo
  <2> QED
    BY ONLY <2>1, <2>3
<1>5. TargetToCompact(t) = IF mant >= SignBit
                           THEN [exp |-> s + 1, mant |-> mant \div Radix]
                           ELSE [exp |-> s, mant |-> mant]
  <2>1. s <= 3 /\ ~(s > MaxTargetSize) /\ t # 0
    BY <1>2, RadixFacts
  <2> QED
    BY <1>4, <2>1 DEF TargetToCompact
<1>6. mant \in Nat /\ mant \div w = t
  <2> HIDE DEF w
  <2>1. t * w \in Nat /\ t * w < t * w + w
    BY <1>3
  <2> QED
    BY <1>3, <2>1, QuotientIs
<1>7. CASE ~(mant >= SignBit)
  <2>1. TargetToCompact(t) = [exp |-> s, mant |-> mant]
    BY <1>5, <1>7
  <2>2. ~(s >= 3)
    BY <1>2
  <2> HIDE DEF mant
  <2> QED
    BY <1>6, <2>1, <2>2 DEF CompactToTarget
<1>8. CASE mant >= SignBit
  <2> DEFINE v == Power(Radix, 2 - s)
  <2>1. v \in Nat /\ v >= 1 /\ w = Radix * v
    <3>1. 2 - s \in Nat /\ (2 - s) + 1 = 3 - s
      BY <1>2
    <3> QED
      BY <3>1, RadixPower
  <2>2. mant \div Radix = t * v
    <3> HIDE DEF v, w
    <3>1. t * w = (t * v) * Radix
      BY <2>1, RadixFacts
    <3>2. t * v \in Nat
      BY <2>1
    <3> DEFINE u == t * v
    <3> HIDE DEF u
    <3>3. u * Radix \in Nat /\ u * Radix < u * Radix + Radix
      BY <3>2, RadixFacts DEF u
    <3>4. (u * Radix) \div Radix = u
      BY <3>2, <3>3, RadixFacts, QuotientIs DEF u
    <3> QED
      BY <3>1, <3>4 DEF u
  <2>3. TargetToCompact(t) = [exp |-> s + 1, mant |-> t * v]
    BY <1>5, <1>8, <2>2
  <2>4. CASE s = 2
    <3>1. v = 1 /\ Power(Radix, (s + 1) - 3) = 1
      BY <2>4, RadixPower
    <3> HIDE DEF v
    <3> QED
      BY <2>3, <2>4, <3>1 DEF CompactToTarget
  <2>5. CASE s = 1
    <3>1. ~(s + 1 >= 3) /\ 3 - (s + 1) = 2 - s
      BY <2>5
    <3>2. (t * v) \div v = t
      <4> HIDE DEF v
      <4>1. t * v \in Nat /\ t * v < t * v + v
        BY <2>1
      <4> QED
        BY <2>1, <4>1, QuotientIs
    <3>3. CompactToTarget([exp |-> s + 1, mant |-> t * v]) = (t * v) \div v
      <4> HIDE DEF s
      <4> QED
        BY <3>1 DEF CompactToTarget
    <3> QED
      BY <2>3, <3>2, <3>3
  <2> QED
    BY <1>2, <2>4, <2>5
<1> QED
  BY <1>7, <1>8

\* Where the two meet.
LEMMA LargeOrSmall ==
    ASSUME NEW t \in Nat, t >= 1, NEW n \in 1 .. MaxTargetSize, t < Power(Radix, n)
    PROVE  \/ t < Radix * Radix
           \/ /\ SizeOf(t) \in 3 .. n
              /\ Power(Radix, SizeOf(t) - 1) <= t
              /\ t < Power(Radix, SizeOf(t))
<1> DEFINE s == SizeOf(t)
<1>1. s \in 1 .. n /\ Power(Radix, s - 1) <= t /\ t < Power(Radix, s)
  BY SizeOfTarget
<1>2. CASE s \in 1 .. 2
  <2> HIDE DEF s
  <2>1. Power(Radix, s) <= Power(Radix, 2)
    BY <1>2, RadixFacts, PowerMonotone
  <2>2. Power(Radix, s) \in Nat /\ Power(Radix, 2) = Radix * Radix /\ Power(Radix, 2) \in Nat
    <3>1. s \in Nat
      BY <1>2
    <3>2. Power(Radix, s) \in Nat /\ Power(Radix, 2) \in Nat
      BY ONLY <3>1, RadixPositive
    <3> QED
      BY <3>2, RadixPower
  <2> DEFINE a == Power(Radix, s)
             z == Radix * Radix
  <2>3. a \in Nat /\ z \in Nat /\ a <= z /\ t < a
    BY <1>1, <2>1, <2>2
  <2> HIDE DEF a, z
  <2>4. t < z
    BY <2>3
  <2> QED
    BY <2>4 DEF z
<1>3. CASE s \in 3 .. n
  BY <1>1, <1>3
<1> QED
  BY <1>1, <1>2, <1>3

\* What an encoding gives back: never more than the target and not zero, and
\* encoding it again changes nothing.
LEMMA EncodeDecode ==
    ASSUME NEW t \in Nat, t >= 1, NEW n \in 1 .. MaxTargetSize, t < Power(Radix, n)
    PROVE  LET d == CompactToTarget(TargetToCompact(t))
           IN /\ d \in Nat /\ d >= 1 /\ d <= t
              /\ TargetToCompact(d) = TargetToCompact(t)
              /\ \E m \in Nat, j \in Nat : m < SignBit /\ d = m * Power(Radix, j)
<1> DEFINE d == CompactToTarget(TargetToCompact(t))
           z == Radix * Radix
<1>1. z \in Nat /\ SignBit \in Nat /\ 2 * SignBit = Radix * z /\ 4 * z <= SignBit /\ z >= 1
  BY SignFacts, RadixFacts
<1>2. CASE t < z
  <2>1. d = t
    BY <1>2, EncodeSmall
  <2>2. t < SignBit /\ t = t * Power(Radix, 0)
    BY <1>1, <1>2, RadixPower
  <2> HIDE DEF d
  <2> QED
    BY <2>1, <2>2 DEF d
<1>3. CASE ~(t < z)
  <2> DEFINE s == SizeOf(t)
             p == Power(Radix, s - 3)
  <2>1. s \in 3 .. MaxTargetSize /\ Power(Radix, s - 1) <= t /\ t < Power(Radix, s)
    BY <1>3, LargeOrSmall, RadixFacts
  <2> HIDE DEF s
  <2>2. PICK m \in Nat :
             /\ TargetToCompact(t) = [exp |-> s, mant |-> m]
             /\ CompactToTarget(TargetToCompact(t)) = m * p
             /\ Radix * Radix <= m /\ m <= SignBit - 1
             /\ m * p <= t
    <3> HIDE DEF p
    <3>1. p = Power(Radix, s - 3)
      BY DEF p
    <3> QED
      BY <2>1, <3>1, EncodeLarge
  <2>3. /\ p \in Nat /\ p >= 1 /\ s - 3 \in Nat
        /\ Power(Radix, s - 1) = z * p
        /\ Power(Radix, s) = (2 * SignBit) * p
    <3>1. s - 3 \in Nat /\ (s - 3) + 2 = s - 1 /\ (s - 3) + 3 = s
      BY <2>1, RadixFacts
    <3> QED
      BY <1>1, <3>1, RadixPower
  <2>4. d = m * p /\ m * p \in Nat /\ m * p >= 1
    BY <1>1, <2>2, <2>3
  <2>5. z * p <= m * p /\ m * p < (2 * SignBit) * p
    <3> HIDE DEF p, z
    <3>1. z <= m /\ m < 2 * SignBit
      BY <1>1, <2>2 DEF z
    <3> DEFINE k == 2 * SignBit
    <3>2. k \in Nat /\ m < k
      BY <1>1, <3>1
    <3> HIDE DEF k
    <3>3. m * p < k * p
      BY <2>3, <3>2
    <3>4. z * p <= m * p
      BY <1>1, <2>3, <3>1
    <3> QED
      BY <3>3, <3>4 DEF k
  <2>6. (m * p) \div p = m
    <3> HIDE DEF p
    <3>1. m * p < m * p + p
      BY <2>3, <2>4
    <3> QED
      BY <2>3, <2>4, <3>1, QuotientIs
  <2>7. TargetToCompact(m * p) = [exp |-> s, mant |-> m]
    <3> DEFINE u == m * p
    <3>1. u \in Nat /\ Power(Radix, s - 1) <= u /\ u < Power(Radix, s) /\ u \div p = m
      BY <2>3, <2>4, <2>5, <2>6
    <3>2. p = Power(Radix, s - 3)
      OBVIOUS
    <3> HIDE DEF u, p
    <3>3. PICK k \in Nat :
               /\ TargetToCompact(u) = [exp |-> s, mant |-> k]
               /\ k = (IF u \div p <= SignBit - 1 THEN u \div p ELSE SignBit - 1)
      BY <2>1, <3>1, <3>2, EncodeLarge
    <3>4. k = m
      BY <2>2, <3>1, <3>3
    <3> QED
      BY <3>3, <3>4 DEF u
  <2>8. m < SignBit
    BY <1>1, <2>2
  <2> HIDE DEF d
  <2>9. TargetToCompact(d) = TargetToCompact(t)
    BY <2>2, <2>4, <2>7
  <2>10. d \in Nat /\ d >= 1 /\ d <= t
    BY <2>2, <2>4
  <2>11. \E k \in Nat, j \in Nat : k < SignBit /\ d = k * Power(Radix, j)
    BY <2>3, <2>4, <2>8
  <2> QED
    BY <2>9, <2>10, <2>11 DEF d
<1> QED
  BY <1>2, <1>3

LEMMA GenesisTarget ==
    LET g == CompactToTarget(GenesisBits)
    IN /\ g \in Nat /\ g >= 1
       /\ GenesisExp - 1 \in 1 .. MaxTargetSize
       /\ g < Power(Radix, GenesisExp - 1)
       /\ \E m \in Nat, j \in Nat : m < SignBit /\ g = m * Power(Radix, j)
<1> DEFINE g == CompactToTarget(GenesisBits)
           p == Power(Radix, GenesisExp - 3)
           z == Radix * Radix
<1>1. GenesisExp - 3 \in Nat /\ GenesisExp - 1 = (GenesisExp - 3) + 2
  BY RadixFacts
<1>2. p \in Nat /\ p >= 1 /\ Power(Radix, GenesisExp - 1) = z * p
  BY <1>1, RadixPower
<1>3. z \in Nat /\ z >= 64 /\ z - 1 \in Nat /\ z - 1 < SignBit /\ SignBit \in Nat
  BY SignFacts, RadixFacts
<1>4. g = (z - 1) * p
  <2>1. GenesisExp >= 3
    BY RadixFacts
  <2> QED
    BY <2>1 DEF CompactToTarget, GenesisBits
<1>5. (z - 1) * p \in Nat /\ (z - 1) * p >= 1 /\ (z - 1) * p < z * p
  <2> HIDE DEF z, p
  <2>1. z * p = (z - 1) * p + p
    BY <1>2, <1>3
  <2>2. (z - 1) * p \in Nat /\ (z - 1) * p >= 1
    BY <1>2, <1>3
  <2> QED
    BY <1>2, <2>1, <2>2
<1>6. GenesisExp - 1 \in 1 .. MaxTargetSize
  BY RadixFacts
<1>7. \E m \in Nat, j \in Nat : m < SignBit /\ g = m * Power(Radix, j)
  <2> HIDE DEF g, z
  <2> QED
    BY <1>1, <1>3, <1>4
<1> HIDE DEF g, p, z
<1> QED
  BY <1>2, <1>4, <1>5, <1>6, <1>7 DEF g

\* Bits that are those of the genesis block or survive their decoding.
Canonical(b) ==
    b = GenesisBits
    \/ (/\ CompactToTarget(b) \in 1 .. CompactToTarget(GenesisBits)
        /\ TargetToCompact(CompactToTarget(b)) = b)

\* A target up to that of the genesis block has an encoding.
LEMMA Encodable ==
    ASSUME NEW t \in 1 .. CompactToTarget(GenesisBits)
    PROVE  /\ t \in Nat /\ t >= 1
           /\ GenesisExp - 1 \in 1 .. MaxTargetSize
           /\ t < Power(Radix, GenesisExp - 1)
<1> DEFINE g == CompactToTarget(GenesisBits)
           p == Power(Radix, GenesisExp - 1)
<1>1. g \in Nat /\ GenesisExp - 1 \in 1 .. MaxTargetSize /\ g < p
  BY GenesisTarget
<1>2. p \in Nat
  BY <1>1, RadixPositive, RadixFacts
<1>3. t \in 1 .. g
  OBVIOUS
<1> HIDE DEF g, p
<1>4. t \in Nat /\ t >= 1 /\ t < p
  BY <1>1, <1>2, <1>3
<1> QED
  BY <1>1, <1>4 DEF p

LEMMA CanonicalTarget ==
    ASSUME NEW b, Canonical(b)
    PROVE  LET d == CompactToTarget(b)
           IN /\ d \in 1 .. CompactToTarget(GenesisBits)
              /\ d \in Nat
              /\ \E m \in Nat, j \in Nat : m < SignBit /\ d = m * Power(Radix, j)
<1> DEFINE d == CompactToTarget(b)
           g == CompactToTarget(GenesisBits)
<1>1. g \in Nat /\ g >= 1
  BY GenesisTarget
<1>2. CASE b = GenesisBits
  BY <1>1, <1>2, GenesisTarget
<1>3. CASE b # GenesisBits
  <2>1. d \in 1 .. g /\ TargetToCompact(d) = b
    BY <1>3 DEF Canonical
  <2>2. /\ d \in Nat /\ d >= 1 /\ GenesisExp - 1 \in 1 .. MaxTargetSize
        /\ d < Power(Radix, GenesisExp - 1)
    BY <2>1, Encodable
  <2>3. \E m \in Nat, j \in Nat :
          m < SignBit /\ CompactToTarget(TargetToCompact(d)) = m * Power(Radix, j)
    <3> HIDE DEF d
    <3> QED
      BY <2>2, EncodeDecode
  <2>4. CompactToTarget(TargetToCompact(d)) = d
    BY <2>1
  <2> HIDE DEF d
  <2> QED
    BY <2>1, <2>2, <2>3, <2>4 DEF d
<1> QED
  BY <1>2, <1>3

\* Encoding makes bits canonical.
LEMMA EncodeCanonical ==
    ASSUME NEW t \in 0 .. CompactToTarget(GenesisBits)
    PROVE  Canonical(TargetToCompact(t))
<1> DEFINE g == CompactToTarget(GenesisBits)
<1>1. g \in Nat
  BY GenesisTarget
<1>2. CASE t = 0
  BY <1>2 DEF TargetToCompact, Canonical
<1>3. CASE t # 0
  <2>1. t \in 1 .. g
    BY <1>1, <1>3
  <2>2. /\ t \in Nat /\ t >= 1 /\ GenesisExp - 1 \in 1 .. MaxTargetSize
        /\ t < Power(Radix, GenesisExp - 1)
    BY <2>1, Encodable
  <2> DEFINE b == TargetToCompact(t)
             d == CompactToTarget(b)
  <2>3. d \in Nat /\ d >= 1 /\ d <= t /\ TargetToCompact(d) = b
    BY <2>2, EncodeDecode
  <2> HIDE DEF d, b
  <2>4. d \in 1 .. g
    BY <1>1, <2>1, <2>3
  <2> QED
    BY <2>3, <2>4 DEF Canonical, d, b
<1> QED
  BY <1>2, <1>3

\* The digits that an encoding cuts off: with the largest mantissa, a target
\* whose quarter is still above would have been a multiple of the next power.
LEMMA StepDown ==
    ASSUME NEW old \in Nat, NEW k \in Nat, NEW j \in Nat,
           k < SignBit, old = k * Power(Radix, j),
           NEW t \in Nat, t >= 1, old \div 4 <= t,
           NEW n \in 1 .. MaxTargetSize, t < Power(Radix, n)
    PROVE  2 * CompactToTarget(TargetToCompact(t)) + 2 >= old \div 4
<1> DEFINE z == Radix * Radix
           o == old \div 4
<1>1. z \in Nat /\ SignBit \in Nat /\ 2 * SignBit = Radix * z /\ 4 * z <= SignBit /\ z >= 1
  BY SignFacts, RadixFacts
<1>2. o \in Nat /\ 4 * o <= old /\ old <= 4 * o + 3
  OBVIOUS
<1>3. CASE t < z
  <2>1. CompactToTarget(TargetToCompact(t)) = t
    BY <1>3, EncodeSmall
  <2> HIDE DEF o
  <2>2. o <= t
    BY DEF o
  <2> QED
    BY <1>2, <2>1, <2>2 DEF o
<1>4. CASE ~(t < z)
  <2> DEFINE s == SizeOf(t)
             p == Power(Radix, s - 3)
  <2>1. s \in 3 .. MaxTargetSize /\ Power(Radix, s - 1) <= t /\ t < Power(Radix, s)
    BY <1>4, LargeOrSmall, RadixFacts
  <2> HIDE DEF s
  <2>2. PICK m \in Nat :
             /\ CompactToTarget(TargetToCompact(t)) = m * p
             /\ Radix * Radix <= m
             /\ m = SignBit - 1 \/ t < m * p + p
             /\ t < (2 * SignBit) * p
    <3> HIDE DEF p
    <3>1. p = Power(Radix, s - 3)
      BY DEF p
    <3> QED
      BY <2>1, <3>1, EncodeLarge
  <2>3. s - 3 \in Nat /\ p \in Nat /\ p >= 1
    <3>1. s - 3 \in Nat
      BY <2>1, RadixFacts
    <3> QED
      BY ONLY <3>1, RadixPositive
  <2>4. o <= t
    OBVIOUS
  <2>5. m \in Nat /\ m >= 1
    BY <1>1, <2>2
  <2> HIDE DEF o, z
  <2>6. CASE t < m * p + p
    <3> HIDE DEF p
    <3>1. m * p >= p /\ m * p \in Nat
      BY <2>3, <2>5
    <3>2. 2 * (m * p) + 2 >= o
      BY <1>2, <2>3, <2>4, <2>6, <3>1
    <3> QED
      BY <2>2, <3>2 DEF o
  <2>7. CASE m = SignBit - 1
    <3>1. SUFFICES ASSUME 2 * (m * p) + 3 <= o PROVE FALSE
      <4> DEFINE c == m * p
      <4>1. c \in Nat
        BY <2>3, <2>5
      <4> HIDE DEF c
      <4>2. ~(2 * c + 2 >= o) => 2 * c + 3 <= o
        BY <1>2, <4>1
      <4> QED
        BY <2>2, <4>2 DEF c, o
    <3> DEFINE c == m * p
               P == Power(Radix, j)
    <3>2. c \in Nat /\ (2 * SignBit) * p = 2 * c + 2 * p
      <4> HIDE DEF p
      <4>1. SignBit = m + 1
        BY <1>1, <2>7
      <4>2. (2 * (m + 1)) * p = 2 * (m * p) + 2 * p
        BY <2>3, <2>5
      <4>3. m * p \in Nat
        BY <2>3, <2>5
      <4> QED
        BY <4>1, <4>2, <4>3
    <3>3. 8 * c < old /\ old < 8 * c + 8 * p
      <4>1. t < 2 * c + 2 * p /\ 2 * c + 3 <= o
        BY <2>2, <3>1, <3>2
      <4> HIDE DEF c, p
      <4> QED
        BY <1>2, <2>3, <2>4, <3>2, <4>1
    <3>4. P \in Nat /\ P >= 1
      BY ONLY j \in Nat, RadixPositive
    <3>5. ~(P <= p)
      <4>1. SUFFICES ASSUME P <= p PROVE FALSE
        OBVIOUS
      <4>2. k <= m
        BY <1>1, <2>7
      <4> HIDE DEF P, p
      <4>3. k * P <= m * P /\ m * P <= m * p
        BY <2>3, <2>5, <3>4, <4>1, <4>2
      <4>4. k * P \in Nat /\ m * P \in Nat
        BY <2>5, <3>4
      <4>5. old = k * P
        BY DEF P
      <4> HIDE DEF c
      <4>6. m * p = c
        BY DEF c
      <4> QED
        BY <3>2, <3>3, <4>3, <4>4, <4>5, <4>6
    <3>6. (s - 3) + 1 \in Nat /\ (s - 3) + 1 <= j
      <4>1. CASE j <= s - 3
        <5>1. P <= p
          BY <2>3, <4>1, RadixFacts, PowerMonotone
        <5> QED
          BY <3>5, <5>1
      <4> QED
        BY <2>3, <4>1
    <3>7. PICK y \in Nat : y >= 1 /\ P = y * Power(Radix, (s - 3) + 1)
      <4> DEFINE i == (s - 3) + 1
      <4>1. Radix \in Nat /\ Radix >= 1 /\ i \in Nat /\ i <= j
        BY <3>6, RadixFacts
      <4> HIDE DEF i
      <4>2. \E y \in Nat : y >= 1 /\ Power(Radix, j) = y * Power(Radix, i)
        BY ONLY <4>1, j \in Nat, PowerMultiple
      <4> QED
        BY ONLY <4>2 DEF i, P
    <3>8. Power(Radix, (s - 3) + 1) = Radix * p
      BY <2>3, RadixFacts, PowerStep
    <3> DEFINE x == k * y
    <3>9. x \in Nat /\ old = (x * Radix) * p
      <4>1. old = k * (y * (Radix * p))
        BY <3>7, <3>8
      <4> HIDE DEF p
      <4>2. k * (y * (Radix * p)) = ((k * y) * Radix) * p
        BY <2>3, RadixFacts
      <4> QED
        BY <4>1, <4>2
    <3> HIDE DEF x, P
    <3> DEFINE v == x * Radix
    <3>10. v \in Nat /\ v = Radix * x
      BY <3>9, RadixFacts
    <3>11. 8 * m < v /\ v < 8 * m + 8
      <4> HIDE DEF v, p
      <4>1. v * p = old
        BY <3>9 DEF v
      <4>2. 8 * (m * p) = (8 * m) * p /\ 8 * (m * p) + 8 * p = (8 * m + 8) * p
        BY <2>3, <2>5
      <4>3. (8 * m) * p < v * p /\ v * p < (8 * m + 8) * p
        BY <3>3, <4>1, <4>2
      <4> DEFINE e == 8 * m
                 f == 8 * m + 8
      <4>4. e \in Nat /\ f \in Nat /\ e * p < v * p /\ v * p < f * p
        BY <2>5, <4>3
      <4> HIDE DEF e, f
      <4>5. e < v /\ v < f
        BY <2>3, <3>10, <4>4
      <4> QED
        BY <4>5 DEF e, f
    <3>12. Radix * (4 * z) = 8 * m + 8
      <4>1. Radix * (4 * z) = 4 * (Radix * z)
        BY <1>1, RadixFacts
      <4> QED
        BY <1>1, <2>7, <4>1
    <3> HIDE DEF v
    <3> DEFINE w == 4 * z - x
    <3>13. w \in Int /\ Radix * w = Radix * (4 * z) - Radix * x
      BY <1>1, <3>9, RadixFacts
    <3>14. 0 < Radix * w /\ Radix * w < 8
      <4> DEFINE a == Radix * (4 * z)
      <4>1. a = 8 * m + 8 /\ Radix * w = a - v
        BY <3>10, <3>12, <3>13
      <4> HIDE DEF a, w
      <4> QED
        BY <2>5, <3>10, <3>11, <4>1
    <3> HIDE DEF w
    <3>15. w >= 1
      BY <3>13, <3>14, RadixFacts
    <3>16. Radix * w >= 8
      BY <3>13, <3>15, RadixFacts
    <3> QED
      BY <3>13, <3>14, <3>16, RadixFacts
  <2> QED
    BY <2>2, <2>6, <2>7
<1> QED
  BY <1>3, <1>4

LEMMA MaxOfTwo ==
    ASSUME NEW a \in Int, NEW b \in Int
    PROVE  Max({a, b}) = IF a >= b THEN a ELSE b
<1>1. \E x \in {a, b} : \A y \in {a, b} : x >= y
  OBVIOUS
<1>2. Max({a, b}) \in {a, b} /\ \A y \in {a, b} : Max({a, b}) >= y
  BY <1>1 DEF Max
<1> QED
  BY <1>2

LEMMA MinOfThree ==
    ASSUME NEW a \in Int, NEW b \in Int, NEW c \in Int
    PROVE  /\ Min({a, b, c}) \in {a, b, c}
           /\ Min({a, b, c}) <= a /\ Min({a, b, c}) <= b /\ Min({a, b, c}) <= c
<1>1. \E x \in {a, b, c} : \A y \in {a, b, c} : x <= y
  OBVIOUS
<1>2. Min({a, b, c}) \in {a, b, c} /\ \A y \in {a, b, c} : Min({a, b, c}) <= y
  BY <1>1 DEF Min
<1> QED
  BY <1>2

\* The target that calculate_next_bits encodes.
LEMMA NextTarget ==
    ASSUME NEW b, Canonical(b), NEW end \in Ends, NEW late \in BOOLEAN
    PROVE  \E t \in 0 .. CompactToTarget(GenesisBits) :
             /\ NextBits(b, 0, end, late) = TargetToCompact(t)
             /\ CompactToTarget(b) \div 4 <= t
             /\ t <= 4 * CompactToTarget(b)
<1> DEFINE old == CompactToTarget(b)
           g == CompactToTarget(GenesisBits)
           a == ActualTime(0, end)
           x == (old * a) \div Expected
           y == Max({x, old \div 4})
           new == Min({y, old * 4, g})
           t == IF late THEN old ELSE new
<1>1. g \in Nat /\ g >= 1 /\ old \in Nat /\ old <= g
  BY GenesisTarget, CanonicalTarget
<1>2. a \in Nat
  <2> DEFINE e == (end - 0) % TimeMod
  <2>1. Expected \in Nat /\ e \in Nat /\ Expected \div 4 \in Nat /\ Expected * 4 \in Nat
    BY ConsensusAssumption
  <2>2. a = Max({Expected \div 4, Min({Expected * 4, e})})
    BY DEF ActualTime
  <2> HIDE DEF e, a
  <2> DEFINE u == Expected \div 4
             v == Expected * 4
             w == Min({v, e})
  <2> HIDE DEF u, v
  <2>3. u \in Nat /\ v \in Nat
    BY <2>1 DEF u, v
  <2>4. w \in Nat
    BY <2>1, <2>3, MinOfTwo
  <2>5. a = Max({u, w})
    BY <2>2 DEF u, v
  <2> HIDE DEF w
  <2> QED
    BY <2>3, <2>4, <2>5, MaxOfTwo
<1>3. x \in Nat
  <2>1. Expected \in Nat /\ Expected >= 1
    BY ConsensusAssumption
  <2> HIDE DEF old, a
  <2> DEFINE h == old * a
  <2>2. h \in Nat
    BY <1>1, <1>2
  <2> HIDE DEF h
  <2>3. h \div Expected \in Nat
    BY <2>1, <2>2
  <2> QED
    BY <2>3 DEF h
<1> HIDE DEF x, old, g
<1>4. old \div 4 \in Nat /\ old \div 4 <= old
  BY <1>1
<1> DEFINE q == old \div 4
<1>5. y \in Nat /\ q <= y
  <2> HIDE DEF q
  <2>1. q \in Nat
    BY <1>4 DEF q
  <2>2. Max({x, q}) \in Nat /\ q <= Max({x, q})
    BY <1>3, <2>1, MaxOfTwo
  <2> QED
    BY <2>2 DEF q
<1> HIDE DEF y
<1>6. /\ new \in {y, old * 4, g}
      /\ new <= y /\ new <= old * 4 /\ new <= g
  <2> DEFINE f == old * 4
  <2>1. y \in Int /\ f \in Int /\ g \in Int
    BY <1>1, <1>5
  <2> HIDE DEF f
  <2>2. Min({y, f, g}) \in {y, f, g} /\ Min({y, f, g}) <= y /\ Min({y, f, g}) <= f
        /\ Min({y, f, g}) <= g
    BY ONLY <2>1, MinOfThree
  <2> QED
    BY <2>2 DEF f
<1> HIDE DEF new
<1>7. new \in 0 .. g /\ old \div 4 <= new /\ new <= 4 * old
  BY <1>1, <1>4, <1>5, <1>6
<1>8. t \in 0 .. g /\ old \div 4 <= t /\ t <= 4 * old
  BY <1>1, <1>4, <1>7
<1>9. NextBits(b, 0, end, late) = TargetToCompact(t)
  BY DEF NextBits, new, y, x, old, g
<1> HIDE DEF t
<1> QED
  BY <1>8, <1>9 DEF old, g

-----------------------------------------------------------------------------
(* The chain at its adjustments *)

\* The inductive invariant.
TargetsInv == TargetsSound /\ Canonical(bits)

\* Along every sequence of adjustments the target stays at or below that of
\* the genesis block, changes by bounded steps and survives its encoding:
\* calculate_next_bits with compact_to_target and target_to_compact, for
\* every even radix from 8 on, every limit and sequence of timestamps.
THEOREM TargetsAlwaysSound == ConsensusSpec => []TargetsSound
<1>1. ConsensusInit => TargetsInv
  <2>1. SUFFICES ASSUME ConsensusInit PROVE TargetsInv
    OBVIOUS
  <2>2. bits = GenesisBits /\ last_bits = GenesisBits
    BY <2>1 DEF ConsensusInit
  <2> DEFINE g == CompactToTarget(GenesisBits)
  <2>3. g \in Nat
    BY GenesisTarget
  <2>4. NeverEasier
    BY <2>2, <2>3 DEF NeverEasier
  <2>5. StepBounded
    <3> HIDE DEF g
    <3>1. g <= 4 * g /\ 2 * g + 2 >= g \div 4
      BY <2>3
    <3> QED
      BY <2>2, <3>1 DEF StepBounded, g
  <2> QED
    BY <2>2, <2>4, <2>5 DEF TargetsInv, TargetsSound, EncodingStable, Canonical
<1>2. TargetsInv /\ [ConsensusNext]_consensus_vars => TargetsInv'
  <2>1. SUFFICES ASSUME TargetsInv, [ConsensusNext]_consensus_vars PROVE TargetsInv'
    OBVIOUS
  <2>2. CASE UNCHANGED consensus_vars
    BY <2>1, <2>2 DEF consensus_vars, TargetsInv, TargetsSound, NeverEasier, StepBounded,
       EncodingStable, Canonical
  <2>3. CASE ConsensusNext
    <3>1. PICK end \in Ends, late \in BOOLEAN :
            bits' = NextBits(bits, 0, end, late) /\ last_bits' = bits
      BY <2>3 DEF ConsensusNext, Retarget
    <3>2. Canonical(bits)
      BY <2>1 DEF TargetsInv
    <3>3. PICK t \in 0 .. CompactToTarget(GenesisBits) :
             /\ bits' = TargetToCompact(t)
             /\ CompactToTarget(bits) \div 4 <= t
             /\ t <= 4 * CompactToTarget(bits)
      BY <3>1, <3>2, NextTarget
    <3>4. Canonical(bits')
      BY <3>3, EncodeCanonical
    <3> DEFINE old == CompactToTarget(bits)
               new == CompactToTarget(bits')
               g == CompactToTarget(GenesisBits)
    <3>5. new \in 1 .. g /\ new \in Nat /\ g \in Nat
      BY <3>4, CanonicalTarget, GenesisTarget
    <3>6. NeverEasier'
      BY <3>5 DEF NeverEasier
    <3>7. EncodingStable'
      BY <3>4 DEF EncodingStable, Canonical
    <3>8. old \in Nat /\ \E m \in Nat, j \in Nat : m < SignBit /\ old = m * Power(Radix, j)
      BY <3>2, CanonicalTarget
    <3>9. ASSUME old >= 4
          PROVE  new <= 4 * old /\ 2 * new + 2 >= old \div 4
      <4>1. t \in 1 .. g
        BY <3>3, <3>5, <3>8, <3>9
      <4>2. /\ t \in Nat /\ t >= 1 /\ GenesisExp - 1 \in 1 .. MaxTargetSize
            /\ t < Power(Radix, GenesisExp - 1)
        BY <4>1, Encodable
      <4>3. CompactToTarget(TargetToCompact(t)) <= t
        BY <4>2, EncodeDecode
      <4>4. old \div 4 <= t /\ t <= 4 * old /\ new = CompactToTarget(TargetToCompact(t))
        BY <3>3
      <4> HIDE DEF old
      <4>5. PICK m \in Nat, j \in Nat : m < SignBit /\ old = m * Power(Radix, j)
        BY <3>8
      <4>6. 2 * CompactToTarget(TargetToCompact(t)) + 2 >= old \div 4
        BY <3>8, <4>2, <4>4, <4>5, StepDown
      <4> HIDE DEF new
      <4> QED
        BY <3>5, <3>8, <4>2, <4>3, <4>4, <4>6
    <3>10. StepBounded'
      BY <3>1, <3>9 DEF StepBounded
    <3>11. Canonical(bits)'
      BY <3>4 DEF Canonical
    <3> QED
      BY <3>6, <3>7, <3>10, <3>11 DEF TargetsInv, TargetsSound
  <2> QED
    BY <2>1, <2>2, <2>3
<1>3. TargetsInv => TargetsSound
  BY DEF TargetsInv
<1> QED
  BY <1>1, <1>2, <1>3, PTL DEF ConsensusSpec

-----------------------------------------------------------------------------
(* The merkle tree *)

\* A list of n elements, whatever these are.
List(x, n) == n \in Nat /\ x = [i \in 1 .. n |-> x[i]]

LEMMA LenOfList ==
    ASSUME NEW x, NEW n, List(x, n)
    PROVE  n \in Nat /\ Len(x) = n /\ DOMAIN x = 1 .. n
<1>1. n \in Nat /\ DOMAIN x = 1 .. n
  BY DEF List
<1> DEFINE S == {x[i] : i \in 1 .. n}
<1>2. x \in Seq(S)
  BY <1>1 DEF List
<1>3. Len(x) \in Nat /\ DOMAIN x = 1 .. Len(x)
  BY <1>2
<1> QED
  BY <1>1, <1>3

LEMMA ListsEqual ==
    ASSUME NEW x, NEW y, NEW n, List(x, n), List(y, n), \A i \in 1 .. n : x[i] = y[i]
    PROVE  x = y
BY DEF List

\* One level of the tree: its width, its pairs, and that it determines the
\* level below it.
LEMMA PairUpList ==
    ASSUME NEW x, NEW n, List(x, n)
    PROVE  /\ List(PairUp(x), (n + 1) \div 2)
           /\ \A i \in 1 .. (n + 1) \div 2 :
                PairUp(x)[i] = <<x[2 * i - 1], x[IF 2 * i <= n THEN 2 * i ELSE n]>>
<1>1. n \in Nat /\ Len(x) = n
  BY LenOfList
<1> DEFINE h == (n + 1) \div 2
           F(i) == <<x[2 * i - 1], x[Min({2 * i, n})]>>
<1>2. h \in Nat
  BY <1>1
<1>3. PairUp(x) = [i \in 1 .. h |-> F(i)]
  BY <1>1 DEF PairUp
<1> HIDE DEF h, F
<1>4. List(PairUp(x), h) /\ \A i \in 1 .. h : PairUp(x)[i] = F(i)
  BY <1>2, <1>3 DEF List
<1>5. ASSUME NEW i \in 1 .. h
      PROVE  Min({2 * i, n}) = IF 2 * i <= n THEN 2 * i ELSE n
  <2>1. 2 * i \in Int /\ n \in Int
    BY <1>1, <1>2
  <2> QED
    BY <2>1, MinOfTwo
<1> QED
  BY <1>4, <1>5 DEF F, h

LEMMA PairUpInjective ==
    ASSUME NEW x, NEW y, NEW n, List(x, n), List(y, n), PairUp(x) = PairUp(y)
    PROVE  x = y
<1>1. n \in Nat
  BY LenOfList
<1> DEFINE h == (n + 1) \div 2
<1>2. /\ \A i \in 1 .. h : PairUp(x)[i] = <<x[2 * i - 1], x[IF 2 * i <= n THEN 2 * i ELSE n]>>
      /\ \A i \in 1 .. h : PairUp(y)[i] = <<y[2 * i - 1], y[IF 2 * i <= n THEN 2 * i ELSE n]>>
  BY PairUpList
<1>3. \A i \in 1 .. h : /\ x[2 * i - 1] = y[2 * i - 1]
                        /\ 2 * i <= n => x[2 * i] = y[2 * i]
  BY <1>2
<1>4. ASSUME NEW j \in 1 .. n
      PROVE  x[j] = y[j]
  <2>1. CASE j % 2 = 1
    <3> DEFINE i == (j + 1) \div 2
    <3>1. i \in 1 .. h /\ 2 * i - 1 = j
      BY <1>1, <2>1
    <3> QED
      BY <1>3, <3>1
  <2>2. CASE j % 2 = 0
    <3> DEFINE i == j \div 2
    <3>1. i \in 1 .. h /\ 2 * i = j /\ 2 * i <= n
      BY <1>1, <2>2
    <3> QED
      BY <1>3, <3>1
  <2>3. j % 2 \in {0, 1}
    BY <1>1
  <2> QED
    BY <2>1, <2>2, <2>3
<1> QED
  BY <1>4, ListsEqual

NextRound(x) == IF Len(x) > 1 THEN PairUp(x) ELSE x

\* The equation of Rounds, up to round n.
IsRounds(h, n, r) ==
    r = [k \in 0 .. n |-> IF k = 0 THEN h ELSE NextRound(r[k - 1])]

LEMMA IsRoundsAt ==
    ASSUME NEW h, NEW n \in Nat, NEW r, IsRounds(h, n, r)
    PROVE  r[0] = h /\ \A k \in 1 .. n : r[k] = NextRound(r[k - 1])
<1> DEFINE F(k) == IF k = 0 THEN h ELSE NextRound(r[k - 1])
<1>1. r = [k \in 0 .. n |-> F(k)]
  BY DEF IsRounds
<1> HIDE DEF F
<1>2. \A k \in 0 .. n : r[k] = F(k)
  BY <1>1
<1> QED
  BY <1>2 DEF F

LEMMA RoundsExist ==
    ASSUME NEW h
    PROVE  \A n \in Nat : \E r : IsRounds(h, n, r)
<1> DEFINE S == {n \in Nat : \E r : IsRounds(h, n, r)}
<1>1. 0 \in S
  <2> DEFINE r == [k \in 0 .. 0 |-> h]
  <2>1. IsRounds(h, 0, r)
    BY DEF IsRounds
  <2> QED
    BY <2>1
<1>2. ASSUME NEW n \in Nat, n \in S
      PROVE  n + 1 \in S
  <2>1. PICK r : IsRounds(h, n, r)
    BY <1>2
  <2>2. r[0] = h /\ \A k \in 1 .. n : r[k] = NextRound(r[k - 1])
    BY <2>1, IsRoundsAt
  <2> DEFINE q == [k \in 0 .. n + 1 |-> IF k = n + 1 THEN NextRound(r[n]) ELSE r[k]]
             F(k) == IF k = 0 THEN h ELSE NextRound(q[k - 1])
  <2>3. ASSUME NEW k \in 0 .. n + 1
        PROVE  q[k] = F(k)
    <3>1. CASE k = 0
      BY <2>2, <3>1
    <3>2. CASE k \in 1 .. n
      <4>1. q[k] = r[k] /\ q[k - 1] = r[k - 1]
        BY <3>2
      <4> QED
        BY <2>2, <3>2, <4>1
    <3>3. CASE k = n + 1
      <4>1. q[k] = NextRound(r[n]) /\ q[k - 1] = r[n] /\ k # 0
        BY <3>3
      <4> QED
        BY <4>1
    <3> QED
      BY <3>1, <3>2, <3>3
  <2>4. q = [k \in 0 .. n + 1 |-> F(k)]
    <3> HIDE DEF F
    <3> QED
      BY <2>3
  <2>5. IsRounds(h, n + 1, q)
    BY <2>4 DEF IsRounds
  <2> QED
    BY <2>5
<1>3. \A n \in Nat : n \in S
  <2> HIDE DEF S
  <2> QED
    BY <1>1, <1>2, Induct
<1> QED
  BY <1>3

LEMMA RoundStep ==
    ASSUME NEW h, NEW n, List(h, n)
    PROVE  /\ Rounds(h)[0] = h
           /\ \A k \in 1 .. n : Rounds(h)[k] = NextRound(Rounds(h)[k - 1])
<1>1. n \in Nat /\ Len(h) = n
  BY LenOfList
<1>2. Rounds(h) = CHOOSE r : IsRounds(h, n, r)
  BY <1>1 DEF Rounds, IsRounds, NextRound
<1>3. IsRounds(h, n, Rounds(h))
  BY <1>1, <1>2, RoundsExist
<1>4. ASSUME NEW r, IsRounds(h, n, r)
      PROVE  r[0] = h /\ \A k \in 1 .. n : r[k] = NextRound(r[k - 1])
  BY ONLY <1>1, <1>4, IsRoundsAt
<1> QED
  BY ONLY <1>3, <1>4
LEMMA TwoPositive == \A l \in Nat : Power(2, l) \in Nat /\ Power(2, l) >= 1
BY PowerPositive

\* The number of levels and their widths.
LEMMA LevelsAre ==
    ASSUME NEW n \in Nat, n >= 1
    PROVE  /\ Levels(n) \in 0 .. n
           /\ Power(2, Levels(n)) >= n
           /\ \A l \in 0 .. Levels(n) - 1 : Power(2, l) < n
<1>1. \A l \in Nat : Power(2, l) \in Nat /\ Power(2, l) >= 1
  BY TwoPositive
<1>2. Power(2, n) >= n
  <2> DEFINE S == {k \in Nat : Power(2, k) >= k + 1}
  <2>1. 0 \in S
    BY PowerStep
  <2>2. ASSUME NEW k \in Nat, k \in S
        PROVE  k + 1 \in S
    <3>1. Power(2, k + 1) = 2 * Power(2, k)
      BY PowerStep
    <3> DEFINE p == Power(2, k)
    <3>2. p \in Nat /\ p >= k + 1
      BY <1>1, <2>2
    <3> HIDE DEF p
    <3>3. 2 * p >= (k + 1) + 1
      BY <3>2
    <3> QED
      BY <3>1, <3>3 DEF p
  <2>3. \A k \in Nat : k \in S
    <3> HIDE DEF S
    <3> QED
      BY <2>1, <2>2, Induct
  <2>4. Power(2, n) >= n + 1 /\ Power(2, n) \in Nat
    BY <1>1, <2>3
  <2> QED
    BY <2>4
<1> DEFINE K == {k \in 0 .. n : Power(2, k) >= n}
<1>3. K \in SUBSET Nat /\ K # {}
  BY <1>2
<1>4. PICK k \in K : \A l \in K : k <= l
  <2> HIDE DEF K
  <2> QED
    BY <1>3, LeastNat
<1>5. Levels(n) = k
  <2>1. Levels(n) = Min(K)
    BY DEF Levels
  <2> HIDE DEF K
  <2>2. \A x \in K : x \in Int
    BY <1>3
  <2>3. Min(K) = k
    BY <1>4, <2>2, MinIs
  <2> QED
    BY <2>1, <2>3
<1>6. ASSUME NEW l \in 0 .. k - 1
      PROVE  Power(2, l) < n
  <2>1. l \in 0 .. n /\ l \notin K
    BY <1>4
  <2>2. Power(2, l) \in Nat
    BY <1>1, <2>1
  <2> QED
    BY <2>1, <2>2
<1> QED
  BY <1>4, <1>5, <1>6

LEMMA Widths ==
    ASSUME NEW n \in Nat, n >= 1
    PROVE  /\ Width(n, 0) = n
           /\ \A l \in Nat : /\ Width(n, l) \in Nat /\ Width(n, l) >= 1
                             /\ Width(n, l + 1) = (Width(n, l) + 1) \div 2
                             /\ n <= Power(2, l) => Width(n, l) = 1
                             /\ Power(2, l) < n => Width(n, l) >= 2
<1>1. Width(n, 0) = n
  <2>1. Power(2, 0) = 1
    BY PowerStep
  <2> QED
    BY <2>1 DEF Width
<1>2. ASSUME NEW l \in Nat
      PROVE  /\ Width(n, l) \in Nat /\ Width(n, l) >= 1
             /\ Width(n, l + 1) = (Width(n, l) + 1) \div 2
             /\ n <= Power(2, l) => Width(n, l) = 1
             /\ Power(2, l) < n => Width(n, l) >= 2
  <2> DEFINE D == Power(2, l)
             w == (n + D - 1) \div D
             v == (w + 1) \div 2
  <2>1. D \in Nat /\ D >= 1 /\ Power(2, l + 1) = 2 * D
    BY PowerPositive, PowerStep
  <2>2. Width(n, l) = w /\ Width(n, l + 1) = (n + 2 * D - 1) \div (2 * D)
    BY <2>1 DEF Width
  <2> HIDE DEF D
  <2>3. w \in Nat /\ w * D <= n + D - 1 /\ n + D - 1 < w * D + D
    <3>1. n + D - 1 \in Nat
      BY <2>1
    <3> QED
      BY <2>1, <3>1, Quotient
  <2> HIDE DEF w
  <2>4. w >= 1
    <3>1. SUFFICES ASSUME w = 0 PROVE FALSE
      BY <2>3
    <3>2. w * D = 0
      BY <2>1, <3>1
    <3> QED
      BY <2>1, <2>3, <3>2
  <2>5. v \in Nat /\ 2 * v <= w + 1 /\ w <= 2 * v
    BY <2>3
  <2> HIDE DEF v
  <2>6. (n + 2 * D - 1) \div (2 * D) = v
    <3> DEFINE a == v * (2 * D)
    <3>1. a = (2 * v) * D /\ a \in Nat
      BY <2>1, <2>5
    <3> DEFINE u == 2 * v
    <3>2. u \in Nat /\ u <= w + 1 /\ w <= u
      BY <2>5
    <3> HIDE DEF u
    <3>3. u * D <= (w + 1) * D /\ w * D <= u * D /\ (w + 1) * D = w * D + D
      BY <2>1, <2>3, <3>2
    <3>4. a = u * D /\ w * D \in Nat
      BY <2>1, <2>3, <3>1 DEF u
    <3> HIDE DEF a
    <3>5. a <= n + 2 * D - 1 /\ n + 2 * D - 1 < a + 2 * D
      BY <2>1, <2>3, <3>1, <3>3, <3>4
    <3> DEFINE e == 2 * D
               t == n + 2 * D - 1
    <3>6. e \in Nat /\ e >= 1 /\ t \in Nat /\ v * e <= t /\ t < v * e + e
      BY <2>1, <3>5 DEF a
    <3> HIDE DEF e, t
    <3>7. t \div e = v
      BY ONLY <2>5, <3>6, QuotientIs
    <3> QED
      BY <3>7 DEF e, t
  <2>7. ASSUME n <= D
        PROVE  w = 1
    <3>1. SUFFICES ASSUME w >= 2 PROVE FALSE
      BY <2>3, <2>4
    <3>2. w * D >= 2 * D
      BY <2>1, <2>3, <3>1
    <3> QED
      BY <2>1, <2>3, <2>7, <3>2
  <2>8. ASSUME D < n
        PROVE  w >= 2
    <3>1. SUFFICES ASSUME w = 1 PROVE FALSE
      BY <2>3, <2>4
    <3>2. w * D = D
      BY <2>1, <3>1
    <3> QED
      BY <2>1, <2>3, <2>8, <3>2
  <2> QED
    BY <2>2, <2>3, <2>4, <2>6, <2>7, <2>8 DEF D, v
<1> QED
  BY <1>1, <1>2

\* The lists of the rounds; the loop has ended after Levels(n) of them.
LEMMA RoundLists ==
    ASSUME NEW h, NEW n, List(h, n), n >= 1
    PROVE  /\ \A k \in 0 .. n : List(Rounds(h)[k], Width(n, k))
           /\ \A k \in 0 .. Levels(n) - 1 : Rounds(h)[k + 1] = PairUp(Rounds(h)[k])
           /\ Rounds(h)[n] = Rounds(h)[Levels(n)]
<1> DEFINE r == Rounds(h)
           K == Levels(n)
<1>1. n \in Nat
  BY LenOfList
<1>2. r[0] = h /\ \A k \in 1 .. n : r[k] = NextRound(r[k - 1])
  BY RoundStep
<1>3. /\ K \in 0 .. n /\ Power(2, K) >= n
      /\ \A l \in 0 .. K - 1 : Power(2, l) < n
  BY <1>1, LevelsAre
<1>4. /\ Width(n, 0) = n
      /\ \A l \in Nat : /\ Width(n, l) \in Nat /\ Width(n, l) >= 1
                        /\ Width(n, l + 1) = (Width(n, l) + 1) \div 2
                        /\ n <= Power(2, l) => Width(n, l) = 1
                        /\ Power(2, l) < n => Width(n, l) >= 2
  BY <1>1, Widths
<1> HIDE DEF r, K
<1> DEFINE S == {k \in 0 .. n : List(r[k], Width(n, k))}
<1>5. 0 \in S
  BY <1>1, <1>2, <1>4
<1>6. ASSUME NEW k \in 0 .. n - 1, k \in S
      PROVE  k + 1 \in S
  <2>1. k \in Nat /\ k + 1 \in 1 .. n /\ k + 1 \in 0 .. n /\ (k + 1) - 1 = k
    BY <1>1
  <2>2. List(r[k], Width(n, k)) /\ r[k + 1] = NextRound(r[k])
    BY <1>2, <1>6, <2>1
  <2>3. Len(r[k]) = Width(n, k)
    BY <2>2, LenOfList
  <2>4. Width(n, k) \in Nat /\ Width(n, k) >= 1 /\ Width(n, k + 1) = (Width(n, k) + 1) \div 2
    BY <1>4, <2>1
  <2>5. CASE Width(n, k) > 1
    <3>1. r[k + 1] = PairUp(r[k])
      BY <2>2, <2>3, <2>5 DEF NextRound
    <3>2. List(PairUp(r[k]), (Width(n, k) + 1) \div 2)
      BY <2>2, PairUpList
    <3> QED
      BY <2>1, <2>4, <3>1, <3>2
  <2>6. CASE ~(Width(n, k) > 1)
    <3>1. Width(n, k) = 1 /\ Width(n, k + 1) = 1
      BY <2>4, <2>6
    <3>2. r[k + 1] = r[k]
      BY <2>2, <2>3, <2>6 DEF NextRound
    <3> QED
      BY <2>1, <2>2, <3>1, <3>2
  <2> QED
    BY <2>5, <2>6
<1>7. 0 .. n \subseteq S
  <2> HIDE DEF S
  <2> QED
    BY <1>1, <1>5, <1>6, UpTo
<1>8. \A k \in 0 .. n : List(r[k], Width(n, k)) /\ Len(r[k]) = Width(n, k)
  <2>1. \A k \in 0 .. n : List(r[k], Width(n, k))
    BY <1>7
  <2> QED
    BY <2>1, LenOfList
<1>9. ASSUME NEW k \in 0 .. K - 1
      PROVE  r[k + 1] = PairUp(r[k])
  <2>1. k \in Nat /\ k \in 0 .. n /\ k + 1 \in 1 .. n /\ (k + 1) - 1 = k
    BY <1>1, <1>3
  <2>2. Width(n, k) >= 2 /\ Width(n, k) \in Nat
    BY <1>3, <1>4, <2>1
  <2>3. Len(r[k]) > 1
    BY <1>8, <2>1, <2>2
  <2>4. r[k + 1] = NextRound(r[k])
    BY <1>2, <2>1
  <2> QED
    BY <2>3, <2>4 DEF NextRound
<1>10. r[n] = r[K]
  <2> DEFINE T == {j \in 0 .. n - K : r[K + j] = r[K]}
  <2>1. 0 \in T /\ n - K \in Nat
    BY <1>1, <1>3
  <2>2. ASSUME NEW j \in 0 .. (n - K) - 1, j \in T
        PROVE  j + 1 \in T
    <3>1. K + j \in 0 .. n /\ K + (j + 1) \in 1 .. n /\ (K + (j + 1)) - 1 = K + j /\ K \in Nat
          /\ j + 1 \in 0 .. n - K
      BY <1>1, <1>3
    <3>2. r[K + (j + 1)] = NextRound(r[K + j])
      BY <1>2, <3>1
    <3>3. r[K + j] = r[K]
      BY <2>2
    <3>4. Len(r[K]) = 1
      <4>1. Width(n, K) = 1
        <5>1. Power(2, K) \in Nat
          BY ONLY <3>1, TwoPositive
        <5>2. n <= Power(2, K)
          BY <1>1, <1>3, <5>1
        <5> QED
          BY <1>4, <3>1, <5>2
      <4> QED
        BY <1>3, <1>8, <4>1
    <3> QED
      BY <3>1, <3>2, <3>3, <3>4 DEF NextRound
  <2>3. 0 .. n - K \subseteq T
    <3> DEFINE N == n - K
    <3>1. N \in Nat /\ 0 \in T /\ \A j \in 0 .. N - 1 : j \in T => j + 1 \in T
      BY <2>1, <2>2
    <3> HIDE DEF T, N
    <3>2. 0 .. N \subseteq T
      BY ONLY <3>1, UpTo
    <3> QED
      BY <3>2 DEF N
  <2>4. n - K \in T /\ K + (n - K) = n
    BY <1>1, <1>3, <2>1, <2>3
  <2> QED
    BY <2>4
<1> QED
  BY <1>8, <1>9, <1>10 DEF r, K

\* One step down, and the equation of Descent, up to depth m.
Down(n, d, x, turn) == Min({2 * x + turn, Width(n, Levels(n) - d) - 1})

IsDescent(n, path, m, at) ==
    at = [d \in 0 .. m |-> IF d = 0 THEN 0 ELSE Down(n, d, at[d - 1], path[d])]

LEMMA IsDescentAt ==
    ASSUME NEW n, NEW path, NEW m \in Nat, NEW at, IsDescent(n, path, m, at)
    PROVE  /\ at[0] = 0
           /\ \A d \in 1 .. m : at[d] = Down(n, d, at[d - 1], path[d])
<1> DEFINE F(d) == IF d = 0 THEN 0 ELSE Down(n, d, at[d - 1], path[d])
<1>1. at = [d \in 0 .. m |-> F(d)]
  BY DEF IsDescent
<1> HIDE DEF F
<1>2. \A d \in 0 .. m : at[d] = F(d)
  BY <1>1
<1> QED
  BY <1>2 DEF F

LEMMA DescentExists ==
    ASSUME NEW n, NEW path
    PROVE  \A m \in Nat : \E at : IsDescent(n, path, m, at)
<1> DEFINE S == {m \in Nat : \E at : IsDescent(n, path, m, at)}
<1>1. 0 \in S
  <2> DEFINE at == [d \in 0 .. 0 |-> 0]
  <2>1. IsDescent(n, path, 0, at)
    BY DEF IsDescent
  <2> QED
    BY <2>1
<1>2. ASSUME NEW m \in Nat, m \in S
      PROVE  m + 1 \in S
  <2>1. PICK at : IsDescent(n, path, m, at)
    BY <1>2
  <2>2. at[0] = 0 /\ \A d \in 1 .. m : at[d] = Down(n, d, at[d - 1], path[d])
    <3>1. ASSUME NEW f, IsDescent(n, path, m, f)
          PROVE  f[0] = 0 /\ \A d \in 1 .. m : f[d] = Down(n, d, f[d - 1], path[d])
      BY ONLY m \in Nat, <3>1, IsDescentAt
    <3> QED
      BY ONLY <2>1, <3>1
  <2> DEFINE q == [d \in 0 .. m + 1 |->
                     IF d = m + 1 THEN Down(n, d, at[m], path[d]) ELSE at[d]]
             F(d) == IF d = 0 THEN 0 ELSE Down(n, d, q[d - 1], path[d])
  <2>3. ASSUME NEW d \in 0 .. m + 1
        PROVE  q[d] = F(d)
    <3>1. CASE d = 0
      BY <2>2, <3>1
    <3>2. CASE d \in 1 .. m
      <4>1. q[d] = at[d] /\ q[d - 1] = at[d - 1]
        BY <3>2
      <4> QED
        BY <2>2, <3>2, <4>1
    <3>3. CASE d = m + 1
      <4>1. q[d] = Down(n, d, at[m], path[d]) /\ q[d - 1] = at[m] /\ d # 0
        BY <3>3
      <4> HIDE DEF q
      <4> QED
        BY ONLY <4>1
    <3>4. d = 0 \/ d \in 1 .. m \/ d = m + 1
      BY ONLY m \in Nat, d \in 0 .. m + 1
    <3> HIDE DEF q, F
    <3> QED
      BY ONLY <3>1, <3>2, <3>3, <3>4
  <2>4. q = [d \in 0 .. m + 1 |-> F(d)]
    <3> HIDE DEF F
    <3> QED
      BY <2>3
  <2>5. IsDescent(n, path, m + 1, q)
    BY <2>4 DEF IsDescent
  <2> QED
    BY <2>5
<1>3. \A m \in Nat : m \in S
  <2> HIDE DEF S
  <2> QED
    BY <1>1, <1>2, Induct
<1> QED
  BY <1>3

LEMMA DescentStep ==
    ASSUME NEW n \in Nat, n >= 1, NEW path
    PROVE  /\ Descent(n, path)[0] = 0
           /\ \A d \in 1 .. Levels(n) :
                Descent(n, path)[d] = Down(n, d, Descent(n, path)[d - 1], path[d])
<1> DEFINE K == Levels(n)
<1>1. K \in Nat
  BY LevelsAre
<1>2. Descent(n, path) = CHOOSE at : IsDescent(n, path, K, at)
  BY DEF Descent, IsDescent, Down
<1>3. IsDescent(n, path, K, Descent(n, path))
  BY <1>1, <1>2, DescentExists
<1>4. ASSUME NEW at, IsDescent(n, path, K, at)
      PROVE  /\ at[0] = 0
             /\ \A d \in 1 .. K : at[d] = Down(n, d, at[d - 1], path[d])
  <2> HIDE DEF K
  <2> QED
    BY ONLY <1>1, <1>4, IsDescentAt
<1> QED
  BY ONLY <1>3, <1>4

Paths(n) == [1 .. Levels(n) -> {0, 1}]

\* The way down stays within the levels, and goes to the left or to the right
\* element of a pair.
LEMMA DescentWithin ==
    ASSUME NEW n \in Nat, n >= 1, NEW path \in Paths(n)
    PROVE  \A d \in 0 .. Levels(n) :
             Descent(n, path)[d] \in 0 .. Width(n, Levels(n) - d) - 1
<1> DEFINE K == Levels(n)
           at == Descent(n, path)
           W(d) == Width(n, K - d)
           S == {d \in 0 .. K : at[d] \in 0 .. W(d) - 1}
<1>1. K \in Nat /\ K \in 0 .. n /\ Power(2, K) >= n
  BY LevelsAre
<1>2. \A l \in Nat : Width(n, l) \in Nat /\ Width(n, l) >= 1
  BY Widths
<1>3. at[0] = 0 /\ \A d \in 1 .. K : at[d] = Min({2 * at[d - 1] + path[d], W(d) - 1})
  BY DescentStep DEF Down
<1>4. path \in [1 .. K -> {0, 1}]
  BY DEF Paths
<1> HIDE DEF K, at
<1>5. \A d \in 0 .. K : W(d) \in Nat /\ W(d) >= 1
  <2>1. \A d \in 0 .. K : K - d \in Nat
    BY <1>1
  <2> QED
    BY <1>2, <2>1
<1> HIDE DEF W
<1>6. 0 \in S
  BY <1>1, <1>3, <1>5
<1>7. ASSUME NEW d \in 0 .. K - 1, d \in S
      PROVE  d + 1 \in S
  <2>1. d + 1 \in 1 .. K /\ d + 1 \in 0 .. K /\ (d + 1) - 1 = d
    BY <1>1
  <2> DEFINE a == 2 * at[d] + path[d + 1]
             b == W(d + 1) - 1
  <2>2. at[d + 1] = Min({a, b})
    BY <1>3, <2>1
  <2>3. a \in Nat /\ b \in Nat
    <3>1. at[d] \in Nat /\ path[d + 1] \in {0, 1}
      BY <1>4, <1>5, <1>7, <2>1
    <3>2. b \in Nat
      BY <1>5, <2>1
    <3> QED
      BY <3>1, <3>2
  <2> HIDE DEF a
  <2>4. at[d + 1] = IF a <= b THEN a ELSE b
    <3> HIDE DEF b
    <3> QED
      BY <2>2, <2>3, MinOfTwo
  <2>5. at[d + 1] \in 0 .. b
    <3> HIDE DEF b
    <3> QED
      BY <2>3, <2>4
  <2> QED
    BY <2>1, <2>5
<1>8. 0 .. K \subseteq S
  <2> HIDE DEF S
  <2> QED
    BY <1>1, <1>6, <1>7, UpTo
<1> QED
  BY <1>8 DEF K, at, W

\* What a path has passed does not depend on where it goes next.
LEMMA DescentPrefix ==
    ASSUME NEW n \in Nat, n >= 1, NEW p, NEW q, NEW m \in 0 .. Levels(n),
           \A d \in 1 .. m : p[d] = q[d]
    PROVE  Descent(n, p)[m] = Descent(n, q)[m]
<1> DEFINE K == Levels(n)
           f == Descent(n, p)
           g == Descent(n, q)
           S == {d \in 0 .. m : f[d] = g[d]}
<1>1. K \in Nat /\ m \in Nat
  BY LevelsAre
<1>2. /\ f[0] = 0 /\ \A d \in 1 .. K : f[d] = Down(n, d, f[d - 1], p[d])
      /\ g[0] = 0 /\ \A d \in 1 .. K : g[d] = Down(n, d, g[d - 1], q[d])
  BY DescentStep
<1>3. m <= K
  BY <1>1
<1> HIDE DEF K, f, g
<1>4. 0 \in S
  BY <1>1, <1>2
<1>5. ASSUME NEW d \in 0 .. m - 1, d \in S
      PROVE  d + 1 \in S
  <2>1. d + 1 \in 1 .. K /\ d + 1 \in 1 .. m /\ d + 1 \in 0 .. m /\ (d + 1) - 1 = d
    BY <1>1, <1>3
  <2>2. f[d] = g[d] /\ p[d + 1] = q[d + 1]
    BY <1>5, <2>1
  <2>3. f[d + 1] = g[d + 1]
    BY <1>2, <2>1, <2>2
  <2> QED
    BY <2>1, <2>3
<1>6. 0 .. m \subseteq S
  <2> HIDE DEF S
  <2> QED
    BY <1>1, <1>4, <1>5, UpTo
<1>7. m \in S
  BY <1>1, <1>6
<1> QED
  BY <1>7 DEF f, g

\* The node at depth d of a path through the tree over h.
Node(h, n, path, d) == Rounds(h)[Levels(n) - d][Descent(n, path)[d] + 1]

LEMMA NodeRoot ==
    ASSUME NEW h, NEW n, List(h, n), n >= 1, NEW path
    PROVE  Node(h, n, path, 0) = Rounds(h)[n][1]
<1>1. n \in Nat
  BY LenOfList
<1>2. Levels(n) \in Nat
  BY <1>1, LevelsAre
<1>3. Levels(n) - 0 = Levels(n) /\ Descent(n, path)[0] + 1 = 1
  BY <1>1, <1>2, DescentStep
<1>4. Rounds(h)[n] = Rounds(h)[Levels(n)]
  BY RoundLists
<1> QED
  BY <1>3, <1>4 DEF Node

LEMMA NodeLeaf ==
    ASSUME NEW h, NEW n, List(h, n), n >= 1, NEW path \in Paths(n)
    PROVE  /\ Descent(n, path)[Levels(n)] + 1 \in 1 .. n
           /\ Node(h, n, path, Levels(n)) = h[Descent(n, path)[Levels(n)] + 1]
<1>1. n \in Nat
  BY LenOfList
<1> DEFINE K == Levels(n)
<1>2. K \in Nat /\ K \in 0 .. K /\ K - K = 0
  BY <1>1, LevelsAre
<1>3. Descent(n, path)[K] \in 0 .. Width(n, K - K) - 1
  BY <1>1, <1>2, DescentWithin
<1>4. Width(n, 0) = n
  BY <1>1, Widths
<1>5. Rounds(h)[0] = h
  BY RoundStep
<1>6. Descent(n, path)[K] \in 0 .. n - 1
  BY <1>2, <1>3, <1>4
<1> HIDE DEF K
<1>7. Descent(n, path)[K] + 1 \in 1 .. n
  BY <1>1, <1>6
<1> QED
  BY <1>2, <1>5, <1>7 DEF Node, K

\* A node above the leaves is the pair of its two successors.
LEMMA NodeStep ==
    ASSUME NEW h, NEW n, List(h, n), n >= 1, NEW path \in Paths(n), NEW d \in 1 .. Levels(n)
    PROVE  \E u, v : /\ Node(h, n, path, d - 1) = <<u, v>>
                     /\ Node(h, n, path, d) = (IF path[d] = 0 THEN u ELSE v)
<1> DEFINE K == Levels(n)
           at == Descent(n, path)
           l == K - d
           w == Width(n, l)
           x == Rounds(h)[l]
           j == at[d - 1]
           t == path[d]
<1>1. n \in Nat /\ K \in 0 .. n
  BY LenOfList, LevelsAre
<1>2. /\ d \in Nat /\ d - 1 \in 0 .. K /\ l \in Nat /\ l \in 0 .. n /\ l \in 0 .. K - 1
      /\ K - (d - 1) = l + 1
  BY <1>1
<1>3. List(x, w) /\ Rounds(h)[l + 1] = PairUp(x)
  BY <1>2, RoundLists
<1>4. w \in Nat /\ Width(n, l + 1) = (w + 1) \div 2
  BY <1>1, <1>2, Widths
<1>5. j \in 0 .. (w + 1) \div 2 - 1
  <2>1. j \in 0 .. Width(n, K - (d - 1)) - 1
    BY <1>1, <1>2, DescentWithin
  <2> QED
    BY <1>2, <1>4, <2>1
<1>6. at[d] = Min({2 * j + t, w - 1})
  <2>1. at[d] = Down(n, d, j, t)
    BY <1>1, DescentStep
  <2> QED
    BY <2>1 DEF Down
<1>7. t \in {0, 1}
  BY DEF Paths
<1> HIDE DEF K, at, x, j, t, w, l
<1>8. j \in Nat /\ j + 1 \in 1 .. (w + 1) \div 2 /\ 2 * j + 1 <= w
  BY <1>4, <1>5
<1> DEFINE u == x[2 * j + 1]
           v == x[IF 2 * j + 2 <= w THEN 2 * j + 2 ELSE w]
<1>9. PairUp(x)[j + 1] = <<u, v>>
  <2>1. PairUp(x)[j + 1] =
           <<x[2 * (j + 1) - 1], x[IF 2 * (j + 1) <= w THEN 2 * (j + 1) ELSE w]>>
    BY ONLY <1>3, <1>8, PairUpList
  <2>2. 2 * (j + 1) - 1 = 2 * j + 1 /\ 2 * (j + 1) = 2 * j + 2
    BY <1>8
  <2> QED
    BY <2>1, <2>2
<1>10. at[d] = IF 2 * j + t <= w - 1 THEN 2 * j + t ELSE w - 1
  <2> DEFINE a == 2 * j + t
             b == w - 1
  <2>1. a \in Int /\ b \in Int
    BY <1>4, <1>7, <1>8
  <2>2. at[d] = Min({a, b})
    BY <1>6
  <2> HIDE DEF a, b
  <2>3. at[d] = IF a <= b THEN a ELSE b
    BY ONLY <2>1, <2>2, MinOfTwo
  <2> QED
    BY <2>3 DEF a, b
<1>11. x[at[d] + 1] = IF t = 0 THEN u ELSE v
  <2>1. CASE t = 0
    <3>1. at[d] + 1 = 2 * j + 1
      BY <1>4, <1>8, <1>10, <2>1
    <3> QED
      BY <2>1, <3>1
  <2>2. CASE t = 1
    <3>1. at[d] + 1 = IF 2 * j + 2 <= w THEN 2 * j + 2 ELSE w
      BY <1>4, <1>8, <1>10, <2>2
    <3> QED
      BY <2>2, <3>1
  <2> QED
    BY <1>7, <2>1, <2>2
<1>12. Node(h, n, path, d) = x[at[d] + 1]
  BY DEF Node, x, at, l, K
<1>13. Node(h, n, path, d - 1) = PairUp(x)[j + 1]
  <2>1. Node(h, n, path, d - 1) = Rounds(h)[K - (d - 1)][j + 1]
    BY DEF Node, K, j, at
  <2> QED
    BY <1>2, <1>3, <2>1
<1> HIDE DEF u, v
<1>14. /\ Node(h, n, path, d - 1) = <<u, v>>
       /\ Node(h, n, path, d) = (IF path[d] = 0 THEN u ELSE v)
  BY <1>9, <1>11, <1>12, <1>13 DEF t
<1> QED
  BY <1>14

LEMMA PairsEqual ==
    ASSUME NEW a, NEW b, NEW c, NEW d
    PROVE  <<a, b>> = <<c, d>> <=> (a = c /\ b = d)
OBVIOUS

\* Two trees with the same root have the same nodes along a path.
SameRoot(h, n, g, m) ==
    /\ List(h, n) /\ n >= 1 /\ List(g, m) /\ m >= 1
    /\ Rounds(h)[n][1] = Rounds(g)[m][1]

SamePath(p, n, q, m, N) ==
    /\ p \in Paths(n) /\ q \in Paths(m)
    /\ N \in Nat /\ N <= Levels(n) /\ N <= Levels(m)
    /\ \A d \in 1 .. N : p[d] = q[d]

LEMMA SameRootSteps ==
    ASSUME NEW h, NEW n, NEW g, NEW m, SameRoot(h, n, g, m),
           NEW p, NEW q, NEW N, SamePath(p, n, q, m, N)
    PROVE  Node(h, n, p, N) = Node(g, m, q, N)
<1>a. /\ List(h, n) /\ n >= 1 /\ List(g, m) /\ m >= 1
      /\ Rounds(h)[n][1] = Rounds(g)[m][1]
  BY DEF SameRoot
<1>b. /\ p \in Paths(n) /\ q \in Paths(m)
      /\ N \in Nat /\ N <= Levels(n) /\ N <= Levels(m)
      /\ \A d \in 1 .. N : p[d] = q[d]
  BY DEF SamePath
<1> DEFINE S == {d \in 0 .. N : Node(h, n, p, d) = Node(g, m, q, d)}
<1>1. Levels(n) \in Nat /\ Levels(m) \in Nat
  <2>1. n \in Nat /\ m \in Nat
    BY ONLY <1>a, LenOfList
  <2>2. \A k \in Nat : k >= 1 => Levels(k) \in Nat
    BY LevelsAre
  <2> QED
    BY ONLY <1>a, <2>1, <2>2
<1>2. 0 \in S
  <2>1. Node(h, n, p, 0) = Rounds(h)[n][1]
    BY ONLY <1>a, <1>b, NodeRoot
  <2>2. Node(g, m, q, 0) = Rounds(g)[m][1]
    BY ONLY <1>a, <1>b, NodeRoot
  <2>3. 0 \in 0 .. N
    BY ONLY <1>b
  <2> QED
    BY ONLY <1>a, <2>1, <2>2, <2>3
<1>3. ASSUME NEW d \in 0 .. N - 1, d \in S
      PROVE  d + 1 \in S
  <2> DEFINE e == d + 1
  <2>1. e \in 1 .. Levels(n) /\ e \in 1 .. Levels(m) /\ e \in 1 .. N /\ e - 1 = d /\ e \in 0 .. N
    BY <1>1, <1>b
  <2> HIDE DEF e
  <2>2. PICK u, v : /\ Node(h, n, p, e - 1) = <<u, v>>
                    /\ Node(h, n, p, e) = (IF p[e] = 0 THEN u ELSE v)
    BY ONLY <1>a, <1>b, <2>1, NodeStep
  <2>3. PICK x, y : /\ Node(g, m, q, e - 1) = <<x, y>>
                    /\ Node(g, m, q, e) = (IF q[e] = 0 THEN x ELSE y)
    BY ONLY <1>a, <1>b, <2>1, NodeStep
  <2>4. Node(h, n, p, e - 1) = Node(g, m, q, e - 1)
    BY <1>3, <2>1
  <2>5. <<u, v>> = <<x, y>>
    BY ONLY <2>2, <2>3, <2>4
  <2>6. u = x /\ v = y
    BY ONLY <2>5, PairsEqual
  <2>7. p[e] = q[e]
    BY ONLY <1>b, <2>1
  <2>8. Node(h, n, p, e) = Node(g, m, q, e)
    BY ONLY <2>2, <2>3, <2>6, <2>7
  <2> QED
    BY <2>1, <2>8 DEF e
<1>4. 0 .. N \subseteq S
  <2> HIDE DEF S
  <2> QED
    BY ONLY <1>b, <1>2, <1>3, UpTo
<1> QED
  BY <1>b, <1>4

HashesOf(s) == [i \in DOMAIN s |-> TxHash(s[i])]

LEMMA Hashed ==
    ASSUME NEW s, NEW n, List(s, n)
    PROVE  /\ List(HashesOf(s), n)
           /\ \A i \in 1 .. n : HashesOf(s)[i] = <<s[i]>>
           /\ n >= 1 => MerkleRoot(s) = Rounds(HashesOf(s))[n][1]
<1>1. n \in Nat /\ DOMAIN s = 1 .. n /\ Len(s) = n
  BY LenOfList
<1>2. HashesOf(s) = [i \in 1 .. n |-> <<s[i]>>]
  BY <1>1 DEF HashesOf, TxHash
<1>3. List(HashesOf(s), n) /\ \A i \in 1 .. n : HashesOf(s)[i] = <<s[i]>>
  BY <1>1, <1>2 DEF List
<1>4. Len(HashesOf(s)) = n
  BY <1>3, LenOfList
<1>5. ASSUME n >= 1
      PROVE  s # <<>>
  BY <1>1, <1>5
<1>6. s # <<>> => MerkleRoot(s) = Rounds(HashesOf(s))[Len(HashesOf(s))][1]
  BY DEF MerkleRoot, HashesOf
<1> QED
  BY <1>3, <1>4, <1>5, <1>6

\* One of two paths to the left ends first, and a leaf is no pair.
LEMMA NotShorter ==
    ASSUME NEW s, NEW n, List(s, n), n >= 1, NEW o, NEW m, List(o, m), m >= 1,
           Rounds(HashesOf(s))[n][1] = Rounds(HashesOf(o))[m][1]
    PROVE  ~(Levels(n) < Levels(m))
<1>1. SUFFICES ASSUME Levels(n) < Levels(m) PROVE FALSE
  OBVIOUS
<1> DEFINE h == HashesOf(s)
           g == HashesOf(o)
           K == Levels(n)
           p == [d \in 1 .. K |-> 0]
           q == [d \in 1 .. Levels(m) |-> 0]
<1>2. List(h, n) /\ List(g, m) /\ \A i \in 1 .. n : h[i] = <<s[i]>>
  BY Hashed
<1>3. K \in Nat /\ Levels(m) \in Nat
  BY LenOfList, LevelsAre
<1>4. p \in Paths(n) /\ q \in Paths(m)
  BY DEF Paths
<1>5. \A d \in 1 .. K : p[d] = q[d]
  BY <1>1, <1>3
<1>6. K <= Levels(n) /\ K <= Levels(m) /\ K + 1 \in 1 .. Levels(m) /\ (K + 1) - 1 = K
  BY <1>1, <1>3
<1> HIDE DEF p, q, h, g, K
<1>7. Rounds(h)[n][1] = Rounds(g)[m][1]
  BY DEF h, g
<1>8. Node(h, n, p, K) = Node(g, m, q, K)
  <2>1. SameRoot(h, n, g, m)
    BY ONLY n >= 1, m >= 1, <1>2, <1>7 DEF SameRoot
  <2>2. SamePath(p, n, q, m, K)
    BY ONLY <1>3, <1>4, <1>5, <1>6 DEF SamePath
  <2> QED
    BY ONLY <2>1, <2>2, SameRootSteps
<1>9. PICK i \in 1 .. n : Node(h, n, p, K) = h[i]
  BY ONLY n >= 1, <1>2, <1>4, NodeLeaf DEF K
<1>10. Node(h, n, p, K) = <<s[i]>>
  BY <1>2, <1>9
<1>11. PICK u, v : Node(g, m, q, (K + 1) - 1) = <<u, v>>
  BY ONLY m >= 1, <1>2, <1>4, <1>6, NodeStep
<1>12. <<s[i]>> = <<u, v>>
  BY <1>6, <1>8, <1>10, <1>11
<1>13. Len(<<s[i]>>) = 1 /\ Len(<<u, v>>) = 2
  OBVIOUS
<1> QED
  BY <1>12, <1>13

LEMMA LeavesAre ==
    ASSUME NEW s, NEW n, List(s, n), n >= 1
    PROVE  /\ Leaves(s) = [path \in Paths(n) |-> s[Descent(n, path)[Levels(n)] + 1]]
           /\ \A path \in Paths(n) :
                Node(HashesOf(s), n, path, Levels(n)) = <<Leaves(s)[path]>>
<1>1. Len(s) = n
  BY LenOfList
<1>2. Leaves(s) = [path \in Paths(n) |-> s[Descent(n, path)[Levels(n)] + 1]]
  BY <1>1 DEF Leaves, Paths
<1>3. List(HashesOf(s), n) /\ \A i \in 1 .. n : HashesOf(s)[i] = <<s[i]>>
  BY Hashed
<1>4. ASSUME NEW path \in Paths(n)
      PROVE  Node(HashesOf(s), n, path, Levels(n)) = <<Leaves(s)[path]>>
  <2> DEFINE i == Descent(n, path)[Levels(n)] + 1
             h == HashesOf(s)
  <2> HIDE DEF h
  <2>1. List(h, n)
    BY <1>3 DEF h
  <2>2. i \in 1 .. n /\ Node(h, n, path, Levels(n)) = h[i]
    BY ONLY <2>1, n >= 1, path \in Paths(n), NodeLeaf
  <2>3. Leaves(s)[path] = s[i]
    BY <1>2
  <2> HIDE DEF i
  <2> QED
    BY <1>3, <2>2, <2>3 DEF h
<1> QED
  BY <1>2, <1>4

LEMMA SinglesEqual ==
    ASSUME NEW a, NEW b, <<a>> = <<b>>
    PROVE  a = b
<1>1. <<a>>[1] = a /\ <<b>>[1] = b
  OBVIOUS
<1> QED
  BY <1>1

LEMMA RootGivesLeaves ==
    ASSUME NEW s, NEW n, List(s, n), n >= 1, NEW o, NEW m, List(o, m), m >= 1,
           MerkleRoot(s) = MerkleRoot(o)
    PROVE  Leaves(s) = Leaves(o)
<1> DEFINE h == HashesOf(s)
           g == HashesOf(o)
           K == Levels(n)
<1>1. Rounds(h)[n][1] = Rounds(g)[m][1] /\ List(h, n) /\ List(g, m)
  BY Hashed
<1>2. K \in Nat /\ Levels(m) \in Nat
  BY LenOfList, LevelsAre
<1>3. Levels(m) = K
  <2>1. ~(Levels(n) < Levels(m))
    BY <1>1, NotShorter
  <2>2. ~(Levels(m) < Levels(n))
    BY <1>1, NotShorter
  <2> QED
    BY <1>2, <2>1, <2>2
<1>4. Paths(m) = Paths(n)
  BY <1>3 DEF Paths
<1>5. /\ Leaves(s) = [path \in Paths(n) |-> s[Descent(n, path)[Levels(n)] + 1]]
      /\ \A path \in Paths(n) : Node(h, n, path, Levels(n)) = <<Leaves(s)[path]>>
  BY LeavesAre
<1>6. /\ Leaves(o) = [path \in Paths(m) |-> o[Descent(m, path)[Levels(m)] + 1]]
      /\ \A path \in Paths(m) : Node(g, m, path, Levels(m)) = <<Leaves(o)[path]>>
  BY LeavesAre
<1> HIDE DEF h, g
<1>7. ASSUME NEW path \in Paths(n)
      PROVE  Leaves(s)[path] = Leaves(o)[path]
  <2>1. path \in Paths(m) /\ K <= Levels(n) /\ K <= Levels(m)
    BY <1>2, <1>3, <1>4
  <2> HIDE DEF K
  <2>2. Node(h, n, path, K) = Node(g, m, path, K)
    <3>1. SameRoot(h, n, g, m)
      BY ONLY n >= 1, m >= 1, <1>1 DEF SameRoot
    <3>2. SamePath(path, n, path, m, K)
      BY ONLY <1>2, <2>1, path \in Paths(n) DEF SamePath
    <3> QED
      BY ONLY <3>1, <3>2, SameRootSteps
  <2>3. Node(h, n, path, K) = <<Leaves(s)[path]>>
    BY <1>5 DEF K
  <2>4. Node(g, m, path, K) = <<Leaves(o)[path]>>
    BY <1>3, <1>6, <2>1
  <2>5. <<Leaves(s)[path]>> = <<Leaves(o)[path]>>
    BY ONLY <2>2, <2>3, <2>4
  <2> QED
    BY ONLY <2>5, SinglesEqual
<1> DEFINE f == Leaves(s)
           e == Leaves(o)
           D == Paths(n)
<1>8. f = [path \in D |-> f[path]] /\ e = [path \in D |-> e[path]]
  BY <1>4, <1>5, <1>6
<1>9. \A path \in D : f[path] = e[path]
  BY <1>7
<1> HIDE DEF f, e, D
<1>10. f = e
  BY ONLY <1>8, <1>9
<1> QED
  BY <1>10 DEF f, e

\* From the leaves back to the root: at each depth all nodes agree.
LEMMA LeavesGiveRoot ==
    ASSUME NEW s, NEW n, List(s, n), n >= 1, NEW o, NEW m, List(o, m), m >= 1,
           Leaves(s) = Leaves(o)
    PROVE  MerkleRoot(s) = MerkleRoot(o)
<1> DEFINE h == HashesOf(s)
           g == HashesOf(o)
           K == Levels(n)
<1>1. /\ MerkleRoot(s) = Rounds(h)[n][1] /\ MerkleRoot(o) = Rounds(g)[m][1]
      /\ List(h, n) /\ List(g, m)
  BY Hashed
<1>2. K \in Nat /\ Levels(m) \in Nat /\ n \in Nat /\ m \in Nat
  BY LenOfList, LevelsAre
<1>3. /\ Leaves(s) = [path \in Paths(n) |-> s[Descent(n, path)[Levels(n)] + 1]]
      /\ \A path \in Paths(n) : Node(h, n, path, Levels(n)) = <<Leaves(s)[path]>>
  BY LeavesAre
<1>4. /\ Leaves(o) = [path \in Paths(m) |-> o[Descent(m, path)[Levels(m)] + 1]]
      /\ \A path \in Paths(m) : Node(g, m, path, Levels(m)) = <<Leaves(o)[path]>>
  BY LeavesAre
<1>5. Paths(m) = Paths(n)
  <2>1. DOMAIN Leaves(s) = Paths(n) /\ DOMAIN Leaves(o) = Paths(m)
    BY <1>3, <1>4
  <2> QED
    BY <2>1
<1>6. Levels(m) = K
  <2> DEFINE p == [d \in 1 .. K |-> 0]
  <2>1. p \in Paths(n) /\ DOMAIN p = 1 .. K
    BY DEF Paths
  <2>2. DOMAIN p = 1 .. Levels(m)
    BY <1>5, <2>1 DEF Paths
  <2> HIDE DEF p
  <2> QED
    BY <1>2, <2>1, <2>2
<1> HIDE DEF h, g
<1> DEFINE S == {j \in 0 .. K : \A path \in Paths(n) :
                   Node(h, n, path, K - j) = Node(g, m, path, K - j)}
<1>7. 0 \in S
  <2>1. K - 0 = K
    BY <1>2
  <2>2. ASSUME NEW path \in Paths(n)
        PROVE  Node(h, n, path, K) = Node(g, m, path, K)
    BY <1>3, <1>4, <1>5, <1>6
  <2> HIDE DEF K
  <2> QED
    BY <1>2, <2>1, <2>2
<1>8. ASSUME NEW j \in 0 .. K - 1, j \in S
      PROVE  j + 1 \in S
  <2> DEFINE d == K - j
  <2>1. d \in 1 .. K /\ d \in 1 .. Levels(n) /\ d \in 1 .. Levels(m) /\ K - (j + 1) = d - 1
        /\ j + 1 \in 0 .. K /\ d - 1 \in 0 .. Levels(n) /\ d - 1 \in 0 .. Levels(m)
    BY <1>2, <1>6
  <2>2. \A path \in Paths(n) : Node(h, n, path, d) = Node(g, m, path, d)
    BY <1>8
  <2> HIDE DEF d
  <2>3. ASSUME NEW path \in Paths(n)
        PROVE  Node(h, n, path, d - 1) = Node(g, m, path, d - 1)
    <3> DEFINE p == [i \in 1 .. K |-> IF i = d THEN 0 ELSE path[i]]
               q == [i \in 1 .. K |-> IF i = d THEN 1 ELSE path[i]]
    <3>1. p \in Paths(n) /\ q \in Paths(n) /\ p \in Paths(m) /\ q \in Paths(m)
      <4>1. \A i \in 1 .. K : path[i] \in {0, 1}
        BY DEF Paths
      <4>2. p \in Paths(n) /\ q \in Paths(n)
        BY <4>1 DEF Paths
      <4> QED
        BY <1>5, <4>2
    <3>2. p[d] = 0 /\ q[d] = 1 /\ \A i \in 1 .. d - 1 : p[i] = q[i]
      BY <1>2, <2>1
    <3>3. \A i \in 1 .. d - 1 : p[i] = path[i] /\ q[i] = path[i]
      BY <1>2, <2>1
    <3> HIDE DEF p, q
    <3> DEFINE c == d - 1
    <3>4. /\ c \in 0 .. Levels(n) /\ c \in 0 .. Levels(m)
          /\ \A i \in 1 .. c : p[i] = path[i]
          /\ \A i \in 1 .. c : q[i] = path[i]
      BY <2>1, <3>3
    <3>5. /\ Descent(n, p)[d - 1] = Descent(n, path)[d - 1]
          /\ Descent(n, q)[d - 1] = Descent(n, path)[d - 1]
          /\ Descent(m, p)[d - 1] = Descent(m, path)[d - 1]
          /\ Descent(m, q)[d - 1] = Descent(m, path)[d - 1]
      <4> HIDE DEF c
      <4>1. ASSUME NEW N \in Nat, N >= 1, c \in 0 .. Levels(N),
                   NEW f, \A i \in 1 .. c : f[i] = path[i]
            PROVE  Descent(N, f)[c] = Descent(N, path)[c]
        BY ONLY <4>1, DescentPrefix
      <4>2. Descent(n, p)[c] = Descent(n, path)[c]
        BY ONLY <1>2, <3>4, n >= 1, <4>1
      <4>3. Descent(n, q)[c] = Descent(n, path)[c]
        BY ONLY <1>2, <3>4, n >= 1, <4>1
      <4>4. Descent(m, p)[c] = Descent(m, path)[c]
        BY ONLY <1>2, <3>4, m >= 1, <4>1
      <4>5. Descent(m, q)[c] = Descent(m, path)[c]
        BY ONLY <1>2, <3>4, m >= 1, <4>1
      <4> QED
        BY ONLY <4>2, <4>3, <4>4, <4>5 DEF c
    <3>6. /\ Node(h, n, p, d - 1) = Node(h, n, path, d - 1)
          /\ Node(h, n, q, d - 1) = Node(h, n, path, d - 1)
          /\ Node(g, m, p, d - 1) = Node(g, m, path, d - 1)
          /\ Node(g, m, q, d - 1) = Node(g, m, path, d - 1)
      BY ONLY <3>5 DEF Node
    <3>7. PICK u, v : Node(h, n, p, d - 1) = <<u, v>> /\ Node(h, n, p, d) = u
      <4>1. PICK u, v : /\ Node(h, n, p, d - 1) = <<u, v>>
                        /\ Node(h, n, p, d) = (IF p[d] = 0 THEN u ELSE v)
        BY ONLY <1>1, <2>1, <3>1, n >= 1, NodeStep
      <4> QED
        BY ONLY <3>2, <4>1
    <3>8. PICK x, y : Node(h, n, q, d - 1) = <<x, y>> /\ Node(h, n, q, d) = y
      <4>1. PICK x, y : /\ Node(h, n, q, d - 1) = <<x, y>>
                        /\ Node(h, n, q, d) = (IF q[d] = 0 THEN x ELSE y)
        BY ONLY <1>1, <2>1, <3>1, n >= 1, NodeStep
      <4> QED
        BY ONLY <3>2, <4>1
    <3>9. PICK a, b : Node(g, m, p, d - 1) = <<a, b>> /\ Node(g, m, p, d) = a
      <4>1. PICK a, b : /\ Node(g, m, p, d - 1) = <<a, b>>
                        /\ Node(g, m, p, d) = (IF p[d] = 0 THEN a ELSE b)
        BY ONLY <1>1, <2>1, <3>1, m >= 1, NodeStep
      <4> QED
        BY ONLY <3>2, <4>1
    <3>10. PICK e, f : Node(g, m, q, d - 1) = <<e, f>> /\ Node(g, m, q, d) = f
      <4>1. PICK e, f : /\ Node(g, m, q, d - 1) = <<e, f>>
                        /\ Node(g, m, q, d) = (IF q[d] = 0 THEN e ELSE f)
        BY ONLY <1>1, <2>1, <3>1, m >= 1, NodeStep
      <4> QED
        BY ONLY <3>2, <4>1
    <3>11. <<u, v>> = <<x, y>> /\ <<a, b>> = <<e, f>>
      BY ONLY <3>6, <3>7, <3>8, <3>9, <3>10
    <3>12. v = y /\ b = f
      BY ONLY <3>11, PairsEqual
    <3>13. u = a /\ y = f
      BY ONLY <2>2, <3>1, <3>7, <3>8, <3>9, <3>10
    <3> QED
      BY ONLY <3>6, <3>7, <3>9, <3>12, <3>13
  <2> HIDE DEF K
  <2> QED
    BY <2>1, <2>3
<1>9. 0 .. K \subseteq S
  <2> HIDE DEF S, K
  <2> QED
    BY <1>2, <1>7, <1>8, UpTo
<1>10. \A path \in Paths(n) : Node(h, n, path, 0) = Node(g, m, path, 0)
  <2>1. K \in S /\ K - K = 0
    BY <1>2, <1>9
  <2> QED
    BY <2>1
<1>11. PICK path \in Paths(n) : TRUE
  <2>1. [d \in 1 .. K |-> 0] \in Paths(n)
    BY DEF Paths
  <2> QED
    BY <2>1
<1>12. Node(h, n, path, 0) = Rounds(h)[n][1] /\ Node(g, m, path, 0) = Rounds(g)[m][1]
  BY ONLY <1>1, n >= 1, m >= 1, NodeRoot
<1> QED
  BY <1>1, <1>10, <1>12

\* Lists of the same length: each round can be taken back.
LEMMA SameLengthSameRoot ==
    ASSUME NEW s, NEW o, NEW n, List(s, n), List(o, n), n >= 1,
           MerkleRoot(s) = MerkleRoot(o)
    PROVE  s = o
<1> DEFINE h == HashesOf(s)
           g == HashesOf(o)
<1>1. /\ Rounds(h)[n][1] = Rounds(g)[n][1]
      /\ List(h, n) /\ \A i \in 1 .. n : h[i] = <<s[i]>>
      /\ List(g, n) /\ \A i \in 1 .. n : g[i] = <<o[i]>>
  <2>1. Rounds(h)[n][1] = MerkleRoot(s) /\ List(h, n) /\ \A i \in 1 .. n : h[i] = <<s[i]>>
    BY ONLY List(s, n), n >= 1, Hashed
  <2>2. Rounds(g)[n][1] = MerkleRoot(o) /\ List(g, n) /\ \A i \in 1 .. n : g[i] = <<o[i]>>
    BY ONLY List(o, n), n >= 1, Hashed
  <2> HIDE DEF h, g
  <2> QED
    BY ONLY <2>1, <2>2, MerkleRoot(s) = MerkleRoot(o)
<1>2. n \in Nat
  BY LenOfList
<1> HIDE DEF h, g
<1> DEFINE x == Rounds(h)
           y == Rounds(g)
           S == {j \in 0 .. n : x[n - j] = y[n - j]}
<1>3. \A k \in 0 .. n : List(x[k], Width(n, k)) /\ List(y[k], Width(n, k))
  BY ONLY <1>1, n >= 1, RoundLists
<1>4. /\ x[0] = h /\ \A k \in 1 .. n : x[k] = NextRound(x[k - 1])
      /\ y[0] = g /\ \A k \in 1 .. n : y[k] = NextRound(y[k - 1])
  BY ONLY <1>1, RoundStep
<1>5. Width(n, n) = 1
  <2>1. Levels(n) \in 0 .. n /\ Power(2, Levels(n)) >= n
    BY <1>2, LevelsAre
  <2>2. Power(2, Levels(n)) <= Power(2, n)
    BY <1>2, <2>1, PowerMonotone
  <2>3. Power(2, Levels(n)) \in Nat /\ Power(2, n) \in Nat
    <3>1. Levels(n) \in Nat
      BY <1>2, <2>1
    <3> QED
      BY ONLY <1>2, <3>1, TwoPositive
  <2>4. n <= Power(2, n)
    BY <1>2, <2>1, <2>2, <2>3
  <2> QED
    BY <1>2, <2>4, Widths
<1> HIDE DEF x, y
<1>6. 0 \in S
  <2>1. n - 0 = n /\ n \in 0 .. n
    BY <1>2
  <2>2. List(x[n], 1) /\ List(y[n], 1)
    BY <1>3, <1>5, <2>1
  <2>3. x[n][1] = y[n][1]
    BY <1>1 DEF x, y
  <2>4. x[n] = y[n]
    BY ONLY <2>2, <2>3, ListsEqual
  <2> QED
    BY <1>2, <2>1, <2>4
<1>7. ASSUME NEW j \in 0 .. n - 1, j \in S
      PROVE  j + 1 \in S
  <2> DEFINE k == n - j
             w == Width(n, k - 1)
  <2>1. k \in 1 .. n /\ k - 1 \in 0 .. n /\ n - (j + 1) = k - 1 /\ j + 1 \in 0 .. n
    BY <1>2
  <2>2. x[k] = y[k]
    BY <1>7
  <2> HIDE DEF k
  <2>3. x[k] = NextRound(x[k - 1]) /\ y[k] = NextRound(y[k - 1])
    BY <1>4, <2>1
  <2>4. List(x[k - 1], w) /\ List(y[k - 1], w)
    BY <1>3, <2>1
  <2> HIDE DEF w
  <2>5. Len(x[k - 1]) = w /\ Len(y[k - 1]) = w
    BY ONLY <2>4, LenOfList
  <2>6. x[k - 1] = y[k - 1]
    <3>1. CASE w > 1
      <4>1. PairUp(x[k - 1]) = PairUp(y[k - 1])
        <5>1. ASSUME NEW a, Len(a) = w
              PROVE  NextRound(a) = PairUp(a)
          BY ONLY <3>1, <5>1 DEF NextRound
        <5>2. NextRound(x[k - 1]) = PairUp(x[k - 1]) /\ NextRound(y[k - 1]) = PairUp(y[k - 1])
          BY ONLY <2>5, <5>1
        <5> QED
          BY ONLY <2>2, <2>3, <5>2
      <4> QED
        BY ONLY <2>4, <4>1, PairUpInjective
    <3>2. CASE ~(w > 1)
      BY ONLY <2>2, <2>3, <2>5, <3>2 DEF NextRound
    <3> QED
      BY <3>1, <3>2
  <2> QED
    BY <2>1, <2>6
<1>8. 0 .. n \subseteq S
  <2> HIDE DEF S
  <2> QED
    BY <1>2, <1>6, <1>7, UpTo
<1>9. h = g
  <2>1. n \in S /\ n - n = 0
    BY <1>2, <1>8
  <2> QED
    BY <1>4, <2>1
<1>10. \A i \in 1 .. n : s[i] = o[i]
  <2> TAKE i \in 1 .. n
  <2>1. <<s[i]>> = <<o[i]>>
    BY <1>1, <1>9
  <2> QED
    BY ONLY <2>1, SinglesEqual
<1> QED
  BY <1>10, ListsEqual

BlockTyped == block_txs \in UNION {[1 .. n -> BlockTxs] : n \in 0 .. MaxTxs}

LEMMA RootsOfBlocks ==
    ASSUME BlockTyped
    PROVE  RootIdentifies
<1>1. PICK n \in 0 .. MaxTxs : block_txs \in [1 .. n -> BlockTxs]
  BY DEF BlockTyped
<1>2. n \in Nat
  BY ConsensusAssumption
<1> DEFINE s == block_txs
<1>3. List(s, n)
  BY <1>1, <1>2 DEF List
<1> HIDE DEF s
<1>4. Len(s) = n
  BY ONLY <1>3, LenOfList
<1>5. SUFFICES ASSUME s # <<>>, NEW m \in 1 .. MaxTxs, NEW o \in [1 .. m -> BlockTxs]
               PROVE  /\ (MerkleRoot(s) = MerkleRoot(o)) <=> (Leaves(s) = Leaves(o))
                      /\ (m = Len(s) /\ MerkleRoot(s) = MerkleRoot(o)) => s = o
  BY DEF RootIdentifies, s
<1>6. n >= 1
  <2>1. SUFFICES ASSUME n = 0 PROVE FALSE
    BY <1>2
  <2>2. s = <<>>
    BY <1>1, <2>1 DEF s
  <2> QED
    BY <1>5, <2>2
<1>7. m \in Nat /\ m >= 1
  BY ConsensusAssumption
<1>8. List(o, m)
  BY <1>7 DEF List
<1>9. MerkleRoot(s) = MerkleRoot(o) => Leaves(s) = Leaves(o)
  BY ONLY <1>3, <1>6, <1>7, <1>8, RootGivesLeaves
<1>10. Leaves(s) = Leaves(o) => MerkleRoot(s) = MerkleRoot(o)
  BY ONLY <1>3, <1>6, <1>7, <1>8, LeavesGiveRoot
<1>11. (m = Len(s) /\ MerkleRoot(s) = MerkleRoot(o)) => s = o
  BY ONLY <1>3, <1>4, <1>6, <1>8, SameLengthSameRoot
<1> QED
  BY <1>9, <1>10, <1>11

\* For blocks of any length: compute_merkle_root gives two lists of
\* transactions the same root exactly when they fill the same tree, and two
\* lists of the same length only when they are equal.
THEOREM RootAlwaysIdentifies == ConsensusSpec => []RootIdentifies
<1>1. ConsensusInit => BlockTyped
  BY DEF ConsensusInit, BlockTyped
<1>2. BlockTyped /\ [ConsensusNext]_consensus_vars => BlockTyped'
  <2>1. SUFFICES ASSUME BlockTyped, [ConsensusNext]_consensus_vars PROVE BlockTyped'
    OBVIOUS
  <2>2. CASE UNCHANGED consensus_vars
    BY <2>1, <2>2 DEF consensus_vars, BlockTyped
  <2>3. CASE ConsensusNext
    <3>1. block_txs' = <<>>
      BY <2>3 DEF ConsensusNext, Retarget
    <3>2. <<>> \in [1 .. 0 -> BlockTxs] /\ 0 \in 0 .. MaxTxs
      BY ConsensusAssumption
    <3> QED
      BY <3>1, <3>2 DEF BlockTyped
  <2> QED
    BY <2>1, <2>2, <2>3
<1>3. BlockTyped => RootIdentifies
  BY RootsOfBlocks
<1> QED
  BY <1>1, <1>2, <1>3, PTL DEF ConsensusSpec

=============================================================================
