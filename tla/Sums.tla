-------------------------------- MODULE Sums --------------------------------
(***************************************************************************)
(* Sums over finite sets: what MapThenSumSet computes for a function of    *)
(* naturals.  The fold is a recursive function that removes one element    *)
(* after the other.  That there is such a function, that it is unique and  *)
(* that the order does not matter are shown by smallest counterexamples.   *)
(* FoldLeft removes the greatest index of a sequence first: a sum over a   *)
(* sequence is the sum over its indices.                                   *)
(***************************************************************************)
EXTENDS Integers, Sequences, SequencesExt, FiniteSetsExt, FiniteSetTheorems,
        WellFoundedInduction, TLAPS

SumOver(w, S) == MapThenSumSet(LAMBDA x : w[x], S)

\* The element the fold removes, the equation of the fold, and its solution.
Pick(s) == CHOOSE x \in s : TRUE

IsIter(w, S, g) ==
    g = [s \in SUBSET S |-> IF s = {} THEN 0 ELSE w[Pick(s)] + g[s \ {Pick(s)}]]

Iter(w, S) == CHOOSE g : IsIter(w, S, g)

LEMMA SumIsIter ==
    ASSUME NEW w, NEW S
    PROVE  SumOver(w, S) = Iter(w, S)[S]
BY Zenon DEF SumOver, MapThenSumSet, MapThenFoldSet, Iter, IsIter, Pick

\* A nonempty set of subsets of a finite set has a minimal element.
LEMMA MinimalSubset ==
    ASSUME NEW S, IsFiniteSet(S), NEW B \in SUBSET (SUBSET S), B # {}
    PROVE  \E T \in B : \A U \in B : U \subseteq T => U = T
<1>1. IsWellFoundedOn(StrictSubsetOrdering(S), SUBSET S)
  BY FS_StrictSubsetOrderingWellFounded, FS_FiniteSubsetsOfFinite
<1>2. PICK T \in B : \A U \in B : ~(<<U, T>> \in StrictSubsetOrdering(S))
  BY <1>1, WFMin
<1> QED
  BY <1>2 DEF StrictSubsetOrdering

LEMMA PickIn ==
    ASSUME NEW s, s # {}
    PROVE  Pick(s) \in s
BY DEF Pick

LEMMA IterAt ==
    ASSUME NEW w, NEW S, NEW g, IsIter(w, S, g)
    PROVE  /\ g[{}] = 0
           /\ \A s \in SUBSET S : s # {} => g[s] = w[Pick(s)] + g[s \ {Pick(s)}]
<1> DEFINE F(x) == IF x = {} THEN 0 ELSE w[Pick(x)] + g[x \ {Pick(x)}]
<1>1. g = [x \in SUBSET S |-> F(x)]
  BY DEF IsIter
<1> HIDE DEF F
<1>2. \A s \in SUBSET S : g[s] = F(s)
  BY <1>1
<1>3. g[{}] = F({})
  BY <1>1
<1> QED
  BY <1>2, <1>3 DEF F

LEMMA IterUnique ==
    ASSUME NEW w, NEW A, NEW B \in SUBSET A, IsFiniteSet(B),
           NEW g, IsIter(w, A, g), NEW h, IsIter(w, B, h)
    PROVE  \A s \in SUBSET B : g[s] = h[s]
<1> DEFINE Bad == {s \in SUBSET B : g[s] # h[s]}
<1>1. SUFFICES ASSUME Bad # {} PROVE FALSE
  OBVIOUS
<1>2. PICK T \in Bad : \A U \in Bad : U \subseteq T => U = T
  <2>1. Bad \in SUBSET (SUBSET B)
    OBVIOUS
  <2> HIDE DEF Bad
  <2> QED
    BY <1>1, <2>1, MinimalSubset
<1>3. /\ g[{}] = 0 /\ h[{}] = 0
      /\ \A s \in SUBSET A : s # {} => g[s] = w[Pick(s)] + g[s \ {Pick(s)}]
      /\ \A s \in SUBSET B : s # {} => h[s] = w[Pick(s)] + h[s \ {Pick(s)}]
  BY IterAt
<1>4. T # {}
  BY <1>3
<1>5. g[T \ {Pick(T)}] = h[T \ {Pick(T)}]
  BY <1>2, <1>4, PickIn
<1> QED
  BY <1>3, <1>4, <1>5

LEMMA IterExists ==
    ASSUME NEW w, NEW S, IsFiniteSet(S)
    PROVE  IsIter(w, S, Iter(w, S))
<1> DEFINE Bad == {T \in SUBSET S : ~IsIter(w, T, Iter(w, T))}
<1>1. SUFFICES ASSUME Bad # {} PROVE FALSE
  OBVIOUS
<1>2. PICK T \in Bad : \A U \in Bad : U \subseteq T => U = T
  <2>1. Bad \in SUBSET (SUBSET S)
    OBVIOUS
  <2> HIDE DEF Bad
  <2> QED
    BY <1>1, <2>1, MinimalSubset
<1>3. \A U \in SUBSET T : U # T => IsIter(w, U, Iter(w, U))
  BY <1>2
<1>4. \A U \in SUBSET T : IsFiniteSet(U)
  BY FS_Subset
<1> HIDE DEF Bad
<1> DEFINE V(s) == IF s = T THEN (IF s = {} THEN 0
                                  ELSE w[Pick(T)] + Iter(w, T \ {Pick(T)})[T \ {Pick(T)}])
                   ELSE Iter(w, s)[s]
           g == [s \in SUBSET T |-> V(s)]
           F(s) == IF s = {} THEN 0 ELSE w[Pick(s)] + g[s \ {Pick(s)}]
<1>5. ASSUME NEW s \in SUBSET T
      PROVE  V(s) = F(s)
  <2>1. CASE s = {}
    <3>1. CASE s = T
      BY <2>1, <3>1
    <3>2. CASE s # T
      <4>1. Iter(w, s)[s] = 0
        BY <1>3, <2>1, <3>2, IterAt
      <4> QED
        BY <2>1, <3>2, <4>1
    <3> QED
      BY <3>1, <3>2
  <2>2. CASE s # {} /\ s = T
    <3>1. T \ {Pick(T)} \in SUBSET T /\ T \ {Pick(T)} # T
      BY <2>2, PickIn
    <3>2. g[T \ {Pick(T)}] = Iter(w, T \ {Pick(T)})[T \ {Pick(T)}]
      BY <3>1
    <3> QED
      BY <2>2, <3>2
  <2>3. CASE s # {} /\ s # T
    <3> DEFINE r == s \ {Pick(s)}
    <3>1. r \in SUBSET T /\ r # T /\ r \in SUBSET s
      BY <2>3, PickIn
    <3>2. g[r] = Iter(w, r)[r]
      BY <3>1
    <3>3. IsIter(w, s, Iter(w, s)) /\ IsIter(w, r, Iter(w, r)) /\ IsFiniteSet(r)
      BY <1>3, <1>4, <2>3, <3>1
    <3>4. Iter(w, s)[r] = Iter(w, r)[r]
      <4> HIDE DEF r
      <4>1. r \in SUBSET s /\ IsFiniteSet(r)
        BY <3>1, <3>3
      <4>2. ASSUME NEW p, NEW q, IsIter(w, s, p), IsIter(w, r, q)
            PROVE  \A x \in SUBSET r : p[x] = q[x]
        BY ONLY <4>1, <4>2, IterUnique
      <4>3. \A x \in SUBSET r : Iter(w, s)[x] = Iter(w, r)[x]
        BY ONLY <3>3, <4>2
      <4> QED
        BY ONLY <4>3
    <3>5. Iter(w, s)[s] = w[Pick(s)] + Iter(w, s)[r]
      BY <2>3, <3>3, IterAt
    <3> HIDE DEF r
    <3>6. V(s) = w[Pick(s)] + g[r]
      BY <2>3, <3>2, <3>4, <3>5
    <3> QED
      BY <2>3, <3>6 DEF r
  <2> QED
    BY <2>1, <2>2, <2>3
<1> HIDE DEF V
<1>6. g = [s \in SUBSET T |-> F(s)]
  <2> HIDE DEF F
  <2> QED
    BY <1>5
<1>7. IsIter(w, T, g)
  BY <1>6 DEF IsIter
<1> HIDE DEF g
<1>8. IsIter(w, T, Iter(w, T))
  BY <1>7 DEF Iter
<1> QED
  BY <1>8 DEF Bad

LEMMA SumStep ==
    ASSUME NEW w, NEW S, IsFiniteSet(S)
    PROVE  SumOver(w, S) = IF S = {} THEN 0
                           ELSE w[Pick(S)] + SumOver(w, S \ {Pick(S)})
<1> DEFINE r == S \ {Pick(S)}
<1>1. r \in SUBSET S /\ IsFiniteSet(r)
  BY FS_Subset
<1>2. IsIter(w, S, Iter(w, S)) /\ IsIter(w, r, Iter(w, r))
  BY <1>1, IterExists
<1>3. Iter(w, S)[r] = Iter(w, r)[r]
  <2> HIDE DEF r
  <2>1. r \in SUBSET S /\ IsFiniteSet(r) /\ r \in SUBSET r
    BY <1>1
  <2> QED
    BY ONLY <1>2, <2>1, IterUnique, SMTT(20)
<1>4. Iter(w, S)[S] = IF S = {} THEN 0 ELSE w[Pick(S)] + Iter(w, S)[r]
  <2>1. \A s \in SUBSET S :
          s # {} => Iter(w, S)[s] = w[Pick(s)] + Iter(w, S)[s \ {Pick(s)}]
    BY ONLY <1>2, IterAt
  <2>2. Iter(w, S)[{}] = 0
    BY ONLY <1>2, IterAt
  <2> QED
    BY <2>1, <2>2
<1>5. SumOver(w, S) = Iter(w, S)[S] /\ SumOver(w, r) = Iter(w, r)[r]
  BY SumIsIter
<1> QED
  BY <1>3, <1>4, <1>5

LEMMA SumEmpty ==
    ASSUME NEW w
    PROVE  SumOver(w, {}) = 0
BY SumStep, FS_EmptySet

LEMMA SumNat ==
    ASSUME NEW D, NEW w \in [D -> Nat], NEW S \in SUBSET D, IsFiniteSet(S)
    PROVE  SumOver(w, S) \in Nat
<1> DEFINE Bad == {T \in SUBSET S : SumOver(w, T) \notin Nat}
<1>1. SUFFICES ASSUME Bad # {} PROVE FALSE
  OBVIOUS
<1>2. PICK T \in Bad : \A U \in Bad : U \subseteq T => U = T
  <2>1. Bad \in SUBSET (SUBSET S)
    OBVIOUS
  <2> HIDE DEF Bad
  <2> QED
    BY <1>1, <2>1, MinimalSubset
<1>3. IsFiniteSet(T)
  BY FS_Subset
<1>4. T # {}
  BY SumEmpty
<1>5. SumOver(w, T \ {Pick(T)}) \in Nat /\ w[Pick(T)] \in Nat
  BY <1>2, <1>4, PickIn
<1>6. SumOver(w, T) = w[Pick(T)] + SumOver(w, T \ {Pick(T)})
  BY <1>3, <1>4, SumStep
<1> QED
  BY <1>5, <1>6

\* The order of the summands does not matter.
LEMMA SumAdd ==
    ASSUME NEW D, NEW w \in [D -> Nat], NEW S \in SUBSET D, IsFiniteSet(S),
           NEW x \in D \ S
    PROVE  SumOver(w, S \cup {x}) = w[x] + SumOver(w, S)
<1> DEFINE Good(T) == \A y \in D \ T : SumOver(w, T \cup {y}) = w[y] + SumOver(w, T)
           Bad == {T \in SUBSET S : ~Good(T)}
<1>1. SUFFICES ASSUME Bad # {} PROVE FALSE
  BY DEF Good
<1>2. PICK T \in Bad : \A U \in Bad : U \subseteq T => U = T
  <2>1. Bad \in SUBSET (SUBSET S)
    OBVIOUS
  <2> HIDE DEF Bad
  <2> QED
    BY <1>1, <2>1, MinimalSubset
<1>3. PICK y \in D \ T : SumOver(w, T \cup {y}) # w[y] + SumOver(w, T)
  BY DEF Good
<1> DEFINE A == T \cup {y}
           z == Pick(A)
<1>4. IsFiniteSet(T) /\ IsFiniteSet(A) /\ A \in SUBSET D
  BY FS_Subset, FS_AddElement
<1>5. z \in A
  BY PickIn
<1>6. SumOver(w, A) = w[z] + SumOver(w, A \ {z})
  BY <1>4, <1>5, SumStep
<1> HIDE DEF z
<1>7. CASE z = y
  <2>1. A \ {y} = T
    OBVIOUS
  <2> QED
    BY <1>3, <1>6, <1>7, <2>1
<1>8. CASE z # y
  <2> DEFINE R == T \ {z}
  <2>1. z \in T /\ z \in D \ R /\ y \in D \ R /\ R \in SUBSET S /\ R # T
    BY <1>5, <1>8
  <2>2. Good(R)
    BY <1>2, <2>1
  <2>3. R \cup {z} = T /\ A \ {z} = R \cup {y}
    BY <1>8, <2>1
  <2>4. SumOver(w, T) = w[z] + SumOver(w, R) /\ SumOver(w, A \ {z}) = w[y] + SumOver(w, R)
    BY <2>1, <2>2, <2>3
  <2>5. R \in SUBSET D /\ IsFiniteSet(R)
    BY <2>1, FS_Subset
  <2>6. w[z] \in Nat /\ w[y] \in Nat /\ SumOver(w, R) \in Nat
    BY <2>1, <2>5, SumNat
  <2> QED
    BY <1>3, <1>6, <2>4, <2>6
<1> QED
  BY <1>7, <1>8

LEMMA SumTake ==
    ASSUME NEW D, NEW w \in [D -> Nat], NEW S \in SUBSET D, IsFiniteSet(S), NEW x \in S
    PROVE  SumOver(w, S) = SumOver(w, S \ {x}) + w[x]
<1> DEFINE R == S \ {x}
<1>1. R \in SUBSET D /\ x \in D \ R /\ R \cup {x} = S
  OBVIOUS
<1>2. IsFiniteSet(R)
  BY FS_Subset
<1> HIDE DEF R
<1>3. SumOver(w, S) = w[x] + SumOver(w, R)
  BY <1>1, <1>2, SumAdd
<1>4. SumOver(w, R) \in Nat /\ w[x] \in Nat
  BY <1>1, <1>2, SumNat
<1> QED
  BY <1>3, <1>4 DEF R

LEMMA SumUnion ==
    ASSUME NEW D, NEW w \in [D -> Nat], NEW A \in SUBSET D, IsFiniteSet(A),
           NEW B \in SUBSET D, IsFiniteSet(B), A \cap B = {}
    PROVE  SumOver(w, A \cup B) = SumOver(w, A) + SumOver(w, B)
<1> DEFINE Bad == {T \in SUBSET B : SumOver(w, A \cup T) # SumOver(w, A) + SumOver(w, T)}
<1>1. SUFFICES ASSUME Bad # {} PROVE FALSE
  OBVIOUS
<1>2. PICK T \in Bad : \A U \in Bad : U \subseteq T => U = T
  <2>1. Bad \in SUBSET (SUBSET B)
    OBVIOUS
  <2> HIDE DEF Bad
  <2> QED
    BY <1>1, <2>1, MinimalSubset
<1>3. IsFiniteSet(T) /\ SumOver(w, A) \in Nat
  BY FS_Subset, SumNat
<1>4. T # {}
  <2>1. A \cup {} = A /\ SumOver(w, {}) = 0
    BY SumEmpty
  <2> QED
    BY <1>3, <2>1
<1>5. PICK x \in T : TRUE
  BY <1>4
<1> DEFINE R == T \ {x}
<1>6. /\ R \in SUBSET D /\ x \in D \ R /\ A \cup R \in SUBSET D /\ x \in D \ (A \cup R)
      /\ R \cup {x} = T /\ (A \cup R) \cup {x} = A \cup T
  OBVIOUS
<1>7. IsFiniteSet(R) /\ IsFiniteSet(A \cup R)
  BY <1>3, FS_Subset, FS_Union
<1>8. SumOver(w, A \cup R) = SumOver(w, A) + SumOver(w, R)
  BY <1>2
<1>9. /\ SumOver(w, T) = w[x] + SumOver(w, R)
      /\ SumOver(w, A \cup T) = w[x] + SumOver(w, A \cup R)
  BY <1>6, <1>7, SumAdd
<1>10. SumOver(w, R) \in Nat /\ w[x] \in Nat
  BY <1>6, <1>7, SumNat
<1> QED
  BY <1>3, <1>8, <1>9, <1>10

\* Taking a part away takes its sum away.
LEMMA SumDifference ==
    ASSUME NEW D, NEW w \in [D -> Nat], NEW A \in SUBSET D, IsFiniteSet(A),
           NEW B \in SUBSET A
    PROVE  /\ SumOver(w, A \ B) = SumOver(w, A) - SumOver(w, B)
           /\ SumOver(w, B) <= SumOver(w, A)
<1>1. /\ IsFiniteSet(A \ B) /\ IsFiniteSet(B) /\ A \ B \in SUBSET D /\ B \in SUBSET D
      /\ (A \ B) \cap B = {} /\ (A \ B) \cup B = A
  BY FS_Subset
<1>2. SumOver(w, A) = SumOver(w, A \ B) + SumOver(w, B)
  BY <1>1, SumUnion
<1>3. SumOver(w, A \ B) \in Nat /\ SumOver(w, B) \in Nat
  BY <1>1, SumNat
<1> QED
  BY <1>2, <1>3

\* The fold has no solution but the sum.
LEMMA PickFold ==
    ASSUME NEW D, NEW w \in [D -> Nat], NEW S \in SUBSET D, IsFiniteSet(S),
           NEW g, g[{}] = 0,
           \A t \in SUBSET S : t # {} => g[t] = w[Pick(t)] + g[t \ {Pick(t)}]
    PROVE  g[S] = SumOver(w, S)
<1> DEFINE Bad == {t \in SUBSET S : g[t] # SumOver(w, t)}
<1>1. SUFFICES ASSUME Bad # {} PROVE FALSE
  OBVIOUS
<1>2. PICK T \in Bad : \A U \in Bad : U \subseteq T => U = T
  <2>1. Bad \in SUBSET (SUBSET S)
    OBVIOUS
  <2> HIDE DEF Bad
  <2> QED
    BY <1>1, <2>1, MinimalSubset
<1>3. T \in SUBSET S /\ g[T] # SumOver(w, T) /\ IsFiniteSet(T)
  BY FS_Subset
<1>4. T # {}
  BY <1>3, SumEmpty
<1>5. Pick(T) \in T
  BY <1>4, PickIn
<1>6. g[T \ {Pick(T)}] = SumOver(w, T \ {Pick(T)})
  BY <1>2, <1>3, <1>5
<1>7. SumOver(w, T) = w[Pick(T)] + SumOver(w, T \ {Pick(T)})
  BY <1>3, <1>4, SumStep
<1> QED
  BY <1>3, <1>4, <1>6, <1>7

\* Summands under other names: v has the weights that w has behind f.
Renames(f, E, D, v, w, S, F) ==
    /\ w \in [D -> Nat] /\ v \in [E -> Nat] /\ f \in [E -> D]
    /\ S \subseteq E /\ IsFiniteSet(S) /\ F = {f[i] : i \in S}
    /\ \A i \in S : v[i] = w[f[i]]
    /\ \A i, j \in S : f[i] = f[j] => i = j

LEMMA SumImage ==
    ASSUME NEW f, NEW E, NEW D, NEW v, NEW w, NEW S, NEW F, Renames(f, E, D, v, w, S, F)
    PROVE  SumOver(v, S) = SumOver(w, F)
<1> USE DEF Renames
<1> DEFINE Im(T) == {f[i] : i \in T}
           Bad == {T \in SUBSET S : SumOver(v, T) # SumOver(w, Im(T))}
<1>1. SUFFICES ASSUME Bad # {} PROVE FALSE
  OBVIOUS
<1>2. PICK T \in Bad : \A U \in Bad : U \subseteq T => U = T
  <2>1. Bad \in SUBSET (SUBSET S)
    OBVIOUS
  <2> HIDE DEF Bad
  <2> QED
    BY <1>1, <2>1, MinimalSubset
<1>3. T # {}
  <2>1. Im({}) = {}
    OBVIOUS
  <2> QED
    BY <2>1, SumEmpty
<1>4. PICK x \in T : TRUE
  BY <1>3
<1> DEFINE R == T \ {x}
<1>5. /\ R \in SUBSET E /\ x \in E \ R /\ R \cup {x} = T /\ R \in SUBSET S /\ R # T
      /\ Im(R) \in SUBSET D /\ f[x] \in D \ Im(R) /\ Im(R) \cup {f[x]} = Im(T)
  OBVIOUS
<1>6. IsFiniteSet(R) /\ IsFiniteSet(Im(R))
  <2>1. IsFiniteSet(R)
    BY <1>5, FS_Subset
  <2> DEFINE k == [i \in R |-> f[i]]
  <2>2. k \in Surjection(R, Im(R))
    BY <1>5 DEF Surjection
  <2> QED
    BY <2>1, <2>2, FS_Surjection
<1>7. SumOver(v, R) = SumOver(w, Im(R))
  BY <1>2, <1>5
<1> HIDE DEF R, Im
<1>8. SumOver(v, T) = v[x] + SumOver(v, R)
  BY <1>5, <1>6, SumAdd
<1>9. SumOver(w, Im(T)) = w[f[x]] + SumOver(w, Im(R))
  BY <1>5, <1>6, SumAdd
<1>10. SumOver(v, T) = SumOver(w, Im(T))
  BY <1>2, <1>4, <1>7, <1>8, <1>9
<1> QED
  BY <1>10 DEF Im

-----------------------------------------------------------------------------
(* Sequences *)

LEMMA MaxIn ==
    ASSUME NEW n \in Nat, NEW S \in SUBSET (1 .. n), S # {}
    PROVE  Max(S) \in S
<1> DEFINE B == {n - x : x \in S}
<1>1. B \in SUBSET Nat /\ B # {}
  <2>1. \A x \in S : x \in 1 .. n
    OBVIOUS
  <2>2. \A x \in S : n - x \in Nat
    BY <2>1
  <2> QED
    BY <2>2
<1>2. IsWellFoundedOn(OpToRel(<, Nat), Nat)
  BY NatLessThanWellFounded
<1> HIDE DEF B
<1>3. PICK b \in B : \A c \in B : ~(<<c, b>> \in OpToRel(<, Nat))
  BY <1>1, <1>2, WFMin
<1>4. \A c \in B : ~(c < b)
  BY <1>1, <1>3 DEF OpToRel
<1>5. PICK x \in S : b = n - x
  BY <1>3 DEF B
<1>6. \A y \in S : ~(n - y < n - x)
  BY <1>4, <1>5 DEF B
<1>7. \A y \in S : x >= y
  BY <1>6
<1> QED
  BY <1>7 DEF Max

\* The equation of FoldLeft has the sum over the indices as its solution, and
\* no other one.
LEMMA MaxFold ==
    ASSUME NEW n \in Nat, NEW v \in [1 .. n -> Nat]
    PROVE  /\ \A t \in SUBSET (1 .. n) : t # {} =>
                SumOver(v, t) = SumOver(v, t \ {Max(t)}) + v[Max(t)]
           /\ \A g : (/\ g[{}] = 0
                      /\ \A t \in SUBSET (1 .. n) : t # {} =>
                           g[t] = g[t \ {Max(t)}] + v[Max(t)])
                     => g[1 .. n] = SumOver(v, 1 .. n)
<1>0. IsFiniteSet(1 .. n) /\ \A t \in SUBSET (1 .. n) : IsFiniteSet(t)
  <2>1. IsFiniteSet(1 .. n)
    BY FS_Interval
  <2> DEFINE I == 1 .. n
  <2> HIDE DEF I
  <2>2. IsFiniteSet(I) => \A t \in SUBSET I : IsFiniteSet(t)
    BY FS_Subset
  <2> QED
    BY <2>1, <2>2 DEF I
<1>1. ASSUME NEW t \in SUBSET (1 .. n), t # {}
      PROVE  SumOver(v, t) = SumOver(v, t \ {Max(t)}) + v[Max(t)]
  <2>1. Max(t) \in t /\ IsFiniteSet(t)
    BY <1>0, <1>1, MaxIn
  <2> QED
    BY <2>1, SumTake
<1>2. ASSUME NEW g, g[{}] = 0,
             \A t \in SUBSET (1 .. n) : t # {} => g[t] = g[t \ {Max(t)}] + v[Max(t)]
      PROVE  g[1 .. n] = SumOver(v, 1 .. n)
  <2> DEFINE Bad == {t \in SUBSET (1 .. n) : g[t] # SumOver(v, t)}
  <2>1. SUFFICES ASSUME Bad # {} PROVE FALSE
    OBVIOUS
  <2>2. PICK T \in Bad : \A U \in Bad : U \subseteq T => U = T
    <3> DEFINE I == 1 .. n
    <3>1. Bad \in SUBSET (SUBSET I) /\ IsFiniteSet(I)
      BY <1>0
    <3> HIDE DEF Bad, I
    <3> QED
      BY <2>1, <3>1, MinimalSubset
  <2>3. T \in SUBSET (1 .. n) /\ g[T] # SumOver(v, T)
    OBVIOUS
  <2>4. T # {}
    BY <1>2, <2>3, SumEmpty
  <2>5. Max(T) \in T
    BY <2>3, <2>4, MaxIn
  <2>6. g[T \ {Max(T)}] = SumOver(v, T \ {Max(T)})
    BY <2>2, <2>3, <2>5
  <2> QED
    BY <1>1, <1>2, <2>3, <2>4, <2>6
<1> QED
  BY <1>1, <1>2

\* The sums of the weights of a sequence, and of its elements.
Weigh(w, s) == FoldLeft(LAMBDA n, t : n + w[t], 0, s)
Add(s) == FoldLeft(LAMBDA a, b : a + b, 0, s)

Weights(w, s) == [i \in 1 .. Len(s) |-> w[s[i]]]

LEMMA WeighIsSum ==
    ASSUME NEW w, NEW s, Len(s) \in Nat, DOMAIN s = 1 .. Len(s),
           \A i \in 1 .. Len(s) : w[s[i]] \in Nat
    PROVE  Weigh(w, s) = SumOver(Weights(w, s), 1 .. Len(s))
<1> DEFINE n == Len(s)
           v == Weights(w, s)
           F(g) == [t \in SUBSET (1 .. n) |->
                      IF t = {} THEN 0 ELSE g[t \ {Max(t)}] + w[s[Max(t)]]]
           h == [t \in SUBSET (1 .. n) |-> SumOver(v, t)]
           c == CHOOSE g : g = F(g)
<1>1. n \in Nat /\ v \in [1 .. n -> Nat] /\ \A i \in 1 .. n : v[i] = w[s[i]]
  BY DEF Weights
<1>2. Weigh(w, s) = c[1 .. n]
  BY Zenon DEF Weigh, FoldLeft, MapThenFoldSet
<1> HIDE DEF n, v
<1>3. \A t \in SUBSET (1 .. n) : t # {} => Max(t) \in 1 .. n /\ t \ {Max(t)} \in SUBSET (1 .. n)
  BY <1>1, MaxIn
<1>4. h = F(h)
  <2>1. ASSUME NEW t \in SUBSET (1 .. n)
        PROVE  SumOver(v, t) = IF t = {} THEN 0 ELSE h[t \ {Max(t)}] + w[s[Max(t)]]
    <3>1. CASE t = {}
      BY <3>1, SumEmpty
    <3>2. CASE t # {}
      <4>1. SumOver(v, t) = SumOver(v, t \ {Max(t)}) + v[Max(t)]
        BY <1>1, <3>2, MaxFold
      <4> QED
        BY <1>1, <1>3, <3>2, <4>1
    <3> QED
      BY <3>1, <3>2
  <2> QED
    BY <2>1
<1> HIDE DEF F, h
<1>5. c = F(c)
  BY <1>4
<1> HIDE DEF c
<1>6. \A t \in SUBSET (1 .. n) :
        c[t] = IF t = {} THEN 0 ELSE c[t \ {Max(t)}] + w[s[Max(t)]]
  BY <1>5 DEF F
<1>7. c[{}] = 0 /\ \A t \in SUBSET (1 .. n) : t # {} => c[t] = c[t \ {Max(t)}] + v[Max(t)]
  BY <1>1, <1>3, <1>6
<1>8. c[1 .. n] = SumOver(v, 1 .. n)
  BY <1>1, <1>7, MaxFold
<1> QED
  BY <1>2, <1>8 DEF n, v

LEMMA AddIsSum ==
    ASSUME NEW s \in Seq(Nat)
    PROVE  Add(s) = SumOver(s, 1 .. Len(s))
<1> DEFINE n == Len(s)
           F(g) == [t \in SUBSET (1 .. n) |->
                      IF t = {} THEN 0 ELSE g[t \ {Max(t)}] + s[Max(t)]]
           h == [t \in SUBSET (1 .. n) |-> SumOver(s, t)]
           c == CHOOSE g : g = F(g)
<1>1. n \in Nat /\ s \in [1 .. n -> Nat] /\ DOMAIN s = 1 .. n
  OBVIOUS
<1>2. Add(s) = c[1 .. n]
  BY Zenon, <1>1 DEF Add, FoldLeft, MapThenFoldSet
<1> HIDE DEF n
<1>3. \A t \in SUBSET (1 .. n) : t # {} => Max(t) \in 1 .. n /\ t \ {Max(t)} \in SUBSET (1 .. n)
  BY <1>1, MaxIn
<1>4. h = F(h)
  <2>1. ASSUME NEW t \in SUBSET (1 .. n)
        PROVE  SumOver(s, t) = IF t = {} THEN 0 ELSE h[t \ {Max(t)}] + s[Max(t)]
    <3>1. CASE t = {}
      BY <3>1, SumEmpty
    <3>2. CASE t # {}
      <4>1. SumOver(s, t) = SumOver(s, t \ {Max(t)}) + s[Max(t)]
        BY <1>1, <3>2, MaxFold
      <4> QED
        BY <1>3, <3>2, <4>1
    <3> QED
      BY <3>1, <3>2
  <2> QED
    BY <2>1
<1> HIDE DEF F, h
<1>5. c = F(c)
  BY <1>4
<1> HIDE DEF c
<1>6. \A t \in SUBSET (1 .. n) :
        c[t] = IF t = {} THEN 0 ELSE c[t \ {Max(t)}] + s[Max(t)]
  BY <1>5 DEF F
<1>7. c[{}] = 0 /\ \A t \in SUBSET (1 .. n) : t # {} => c[t] = c[t \ {Max(t)}] + s[Max(t)]
  BY <1>3, <1>6
<1>8. c[1 .. n] = SumOver(s, 1 .. n)
  BY <1>1, <1>7, MaxFold
<1> QED
  BY <1>2, <1>8 DEF n

LEMMA WeightsAre ==
    ASSUME NEW D, NEW w \in [D -> Nat], NEW s \in Seq(D)
    PROVE  /\ Len(s) \in Nat /\ IsFiniteSet(1 .. Len(s))
           /\ Weights(w, s) \in [1 .. Len(s) -> Nat]
           /\ \A i \in 1 .. Len(s) : s[i] \in D /\ Weights(w, s)[i] = w[s[i]]
           /\ Weigh(w, s) = SumOver(Weights(w, s), 1 .. Len(s))
           /\ Weigh(w, s) \in Nat
<1>1. Len(s) \in Nat /\ DOMAIN s = 1 .. Len(s) /\ \A i \in 1 .. Len(s) : s[i] \in D
  OBVIOUS
<1>2. \A i \in 1 .. Len(s) : w[s[i]] \in Nat
  BY <1>1
<1>3. IsFiniteSet(1 .. Len(s))
  BY <1>1, FS_Interval
<1>4. /\ Weights(w, s) \in [1 .. Len(s) -> Nat]
      /\ \A i \in 1 .. Len(s) : Weights(w, s)[i] = w[s[i]]
  BY <1>2 DEF Weights
<1>5. Weigh(w, s) = SumOver(Weights(w, s), 1 .. Len(s))
  BY <1>1, <1>2, WeighIsSum
<1>6. SumOver(Weights(w, s), 1 .. Len(s)) \in Nat
  <2> DEFINE I == 1 .. Len(s)
  <2>1. Weights(w, s) \in [I -> Nat] /\ I \in SUBSET I /\ IsFiniteSet(I)
    BY <1>3, <1>4
  <2> HIDE DEF I
  <2>2. SumOver(Weights(w, s), I) \in Nat
    BY ONLY <2>1, SumNat
  <2> QED
    BY <2>2 DEF I
<1> QED
  BY <1>1, <1>3, <1>4, <1>5, <1>6

LEMMA WeighConcat ==
    ASSUME NEW D, NEW w \in [D -> Nat], NEW s \in Seq(D), NEW t \in Seq(D)
    PROVE  Weigh(w, s \o t) = Weigh(w, s) + Weigh(w, t)
<1> DEFINE n == Len(s)
           m == Len(t)
           u == Weights(w, s \o t)
           A == 1 .. n
           B == (n + 1) .. (n + m)
           C == 1 .. m
           N == 1 .. (n + m)
           f == [i \in A |-> i]
           g == [i \in C |-> n + i]
<1>1. s \o t \in Seq(D) /\ Len(s \o t) = n + m /\ n \in Nat /\ m \in Nat
  OBVIOUS
<1>0. ASSUME NEW q \in Seq(D), NEW I, I = 1 .. Len(q)
      PROVE  /\ Weights(w, q) \in [I -> Nat] /\ IsFiniteSet(I)
             /\ Weigh(w, q) = SumOver(Weights(w, q), I)
             /\ \A i \in I : Weights(w, q)[i] = w[q[i]]
  <2>1. Len(q) \in Nat /\ DOMAIN q = 1 .. Len(q) /\ \A i \in 1 .. Len(q) : w[q[i]] \in Nat
    OBVIOUS
  <2>2. Weigh(w, q) = SumOver(Weights(w, q), 1 .. Len(q))
    BY <2>1, WeighIsSum
  <2>3. IsFiniteSet(1 .. Len(q))
    BY <2>1, FS_Interval
  <2>4. /\ Weights(w, q) \in [1 .. Len(q) -> Nat]
        /\ \A i \in 1 .. Len(q) : Weights(w, q)[i] = w[q[i]]
    BY <2>1 DEF Weights
  <2> QED
    BY <1>0, <2>2, <2>3, <2>4
<1>2. /\ u \in [N -> Nat] /\ IsFiniteSet(N) /\ Weigh(w, s \o t) = SumOver(u, N)
      /\ \A i \in N : u[i] = w[(s \o t)[i]]
  <2>1. N = 1 .. Len(s \o t)
    BY <1>1
  <2> HIDE DEF N
  <2> QED
    BY ONLY <1>0, <1>1, <2>1
<1>3. /\ Weights(w, s) \in [A -> Nat] /\ IsFiniteSet(A)
      /\ Weigh(w, s) = SumOver(Weights(w, s), A)
      /\ \A i \in A : Weights(w, s)[i] = w[s[i]]
  BY <1>0
<1>4. /\ Weights(w, t) \in [C -> Nat] /\ IsFiniteSet(C)
      /\ Weigh(w, t) = SumOver(Weights(w, t), C)
      /\ \A i \in C : Weights(w, t)[i] = w[t[i]]
  BY <1>0
<1>5. A \in SUBSET N /\ B \in SUBSET N /\ A \cap B = {} /\ A \cup B = N
  BY <1>1
<1>6. /\ f \in [A -> N] /\ (\A i \in A : f[i] = i) /\ A = {f[i] : i \in A}
      /\ \A i \in A : (s \o t)[i] = s[i]
  BY <1>1, <1>5
<1>7. /\ g \in [C -> N] /\ (\A i \in C : g[i] = n + i)
      /\ \A i \in C : (s \o t)[n + i] = t[i]
  BY <1>1
<1>8. B = {g[i] : i \in C}
  <2>1. \A j \in B : j - n \in C /\ n + (j - n) = j
    BY <1>1
  <2>2. \A i \in C : n + i \in B
    BY <1>1
  <2>3. \A i \in C : g[i] = n + i
    BY <1>7
  <2> HIDE DEF B, C, g
  <2> QED
    BY ONLY <2>1, <2>2, <2>3
<1>9. /\ \A i \in A : Weights(w, s)[i] = u[f[i]]
      /\ \A i, j \in A : f[i] = f[j] => i = j
  BY <1>2, <1>3, <1>5, <1>6
<1>10. /\ \A i \in C : Weights(w, t)[i] = u[g[i]]
       /\ \A i, j \in C : g[i] = g[j] => i = j
  <2>1. \A i \in C : n + i \in N
    BY <1>1
  <2>2. \A i, j \in C : n + i = n + j => i = j
    BY <1>1
  <2> QED
    BY <1>2, <1>4, <1>7, <2>1, <2>2
<1>11. IsFiniteSet(B)
  BY <1>1, FS_Interval
<1> DEFINE v == Weights(w, s)
           x == Weights(w, t)
<1>12. v \in [A -> Nat] /\ x \in [C -> Nat] /\ A \in SUBSET A /\ C \in SUBSET C
  BY <1>3, <1>4
<1> HIDE DEF A, B, C, N, f, g, u, v, x
<1>13. \A i \in A : v[i] = u[f[i]]
  BY <1>9 DEF v
<1>14. \A i \in C : x[i] = u[g[i]]
  BY <1>10 DEF x
<1>15. f \in [A -> N] /\ g \in [C -> N]
  BY <1>6, <1>7
<1>16. SumOver(v, A) = SumOver(u, A)
  <2>1. Renames(f, A, N, v, u, A, A)
    BY ONLY <1>2, <1>3, <1>6, <1>9, <1>12, <1>13, <1>15 DEF Renames
  <2> QED
    BY ONLY <2>1, SumImage
<1>17. SumOver(x, C) = SumOver(u, B)
  <2>1. Renames(g, C, N, x, u, C, B)
    BY ONLY <1>2, <1>4, <1>8, <1>10, <1>12, <1>14, <1>15 DEF Renames
  <2> QED
    BY ONLY <2>1, SumImage
<1>18. SumOver(u, N) = SumOver(u, A) + SumOver(u, B)
  <2>1. u \in [N -> Nat] /\ IsFiniteSet(N) /\ N \in SUBSET N
    BY ONLY <1>2
  <2>2. A \in SUBSET N /\ N \ A = B
    BY ONLY <1>5
  <2>3. SumOver(u, N \ A) = SumOver(u, N) - SumOver(u, A)
    BY ONLY <2>1, <2>2, SumDifference
  <2>4. SumOver(u, N) \in Nat /\ SumOver(u, A) \in Nat
    BY ONLY <1>3, <2>1, <2>2, SumNat
  <2>5. SumOver(u, B) = SumOver(u, N) - SumOver(u, A)
    BY ONLY <2>2, <2>3, Zenon
  <2> QED
    BY ONLY <2>4, <2>5
<1> QED
  BY <1>2, <1>3, <1>4, <1>16, <1>17, <1>18 DEF v, x

\* A sequence without repetitions weighs what the set of its elements does.
LEMMA WeighInjective ==
    ASSUME NEW D, NEW w \in [D -> Nat], NEW s \in Seq(D),
           \A i, j \in 1 .. Len(s) : s[i] = s[j] => i = j,
           NEW R, R = {s[i] : i \in 1 .. Len(s)}
    PROVE  Weigh(w, s) = SumOver(w, R)
<1> DEFINE I == 1 .. Len(s)
           v == Weights(w, s)
<1>1. /\ v \in [I -> Nat] /\ s \in [I -> D] /\ IsFiniteSet(I) /\ I \in SUBSET I
      /\ (\A i \in I : v[i] = w[s[i]]) /\ Weigh(w, s) = SumOver(v, I)
      /\ (\A i, j \in I : s[i] = s[j] => i = j) /\ R = {s[i] : i \in I}
  BY WeightsAre
<1> HIDE DEF I, v
<1>2. Renames(s, I, D, v, w, I, R)
  BY ONLY <1>1, w \in [D -> Nat] DEF Renames
<1>3. SumOver(v, I) = SumOver(w, R)
  BY ONLY <1>2, SumImage
<1> QED
  BY <1>1, <1>3
=============================================================================
