------------------------------ MODULE SumProofs ------------------------------
(***************************************************************************)
(* Sums over finite sets, as the folds of the community modules compute    *)
(* them: a recursive function on the subsets that takes out one element    *)
(* after the other.  It exists, and the order does not matter.             *)
(***************************************************************************)
EXTENDS Integers, FiniteSets, FiniteSetTheorems, WellFoundedInduction, TLAPS

\* The element that a fold takes next.
Pick(s) == CHOOSE x \in s : TRUE

\* g is the fold of + over h on the subsets of S.
Summing(g, h, S) ==
  g = [s \in SUBSET S |-> IF s = {} THEN 0 ELSE h[Pick(s)] + g[s \ {Pick(s)}]]

SumOver(h, S) == CHOOSE n : \E g : Summing(g, h, S) /\ n = g[S]

-----------------------------------------------------------------------------
\* What holds of 0, and of n + 1 whenever of n, holds of all: there is no least exception.
LEMMA InductionOnSet ==
  ASSUME NEW N \in SUBSET Nat, 0 \in N, \A n \in N : n + 1 \in N
  PROVE  N = Nat
<1> DEFINE T == Nat \ N
<1>1. SUFFICES ASSUME T # {} PROVE FALSE
  BY Zenon
<1>2. PICK x \in T : \A y \in T : ~(<<y, x>> \in OpToRel(<, Nat))
  <2>1. T \subseteq Nat
    OBVIOUS
  <2> HIDE DEF T
  <2> QED
    BY <1>1, <2>1, NatLessThanWellFounded, WFMin, Zenon
<1>3. \A y \in T : ~(y < x)
  BY <1>2, Zenon DEF OpToRel
<1>4. x - 1 \in Nat /\ x - 1 < x
  OBVIOUS
<1>5. x - 1 \in N /\ (x - 1) + 1 = x
  BY <1>3, <1>4
<1> QED
  BY <1>5

\* The next element is one, and taking it out leaves one less.
LEMMA PickSmaller ==
  ASSUME NEW S, IsFiniteSet(S), NEW s \in SUBSET S, s # {}
  PROVE  /\ Pick(s) \in s /\ s \ {Pick(s)} \in SUBSET S
         /\ Cardinality(s) \in Nat \ {0}
         /\ \A x \in s : Cardinality(s \ {x}) = Cardinality(s) - 1
<1>1. Pick(s) \in s
  BY DEF Pick
<1>2. IsFiniteSet(s)
  BY FS_Subset
<1>3. Cardinality(s) \in Nat /\ Cardinality(s) # 0
  BY <1>2, FS_CardinalityType, FS_EmptySet
<1>4. \A x \in s : Cardinality(s \ {x}) = Cardinality(s) - 1
  BY <1>2, FS_RemoveElement, Zenon
<1> QED
  BY <1>1, <1>3, <1>4

\* The fold exists: it is built on the subsets of at most n elements, for growing n.
LEMMA SummingExists ==
  ASSUME NEW S, IsFiniteSet(S), NEW h
  PROVE  \E g : Summing(g, h, S)
<1> DEFINE Upto(n) == {s \in SUBSET S : Cardinality(s) <= n}
           Step(g, s) == IF s = {} THEN 0 ELSE h[Pick(s)] + g[s \ {Pick(s)}]
           Ok(g, n) == \A s \in Upto(n) : g[s] = Step(g, s)
           N == {n \in Nat : \E g : Ok(g, n)}
<1>1. \A s \in SUBSET S : Cardinality(s) \in Nat /\ Cardinality(s) <= Cardinality(S)
      /\ (Cardinality(s) = 0 <=> s = {})
  <2>1. ASSUME NEW s \in SUBSET S
        PROVE  Cardinality(s) \in Nat /\ Cardinality(s) <= Cardinality(S)
               /\ (Cardinality(s) = 0 <=> s = {})
    <3>1. IsFiniteSet(s) /\ Cardinality(s) <= Cardinality(S)
      BY FS_Subset
    <3> QED
      BY <3>1, FS_CardinalityType, FS_EmptySet
  <2> QED
    BY <2>1
<1>2. 0 \in N
  <2> DEFINE g == [s \in SUBSET S |-> 0]
  <2>1. ASSUME NEW s \in Upto(0) PROVE g[s] = Step(g, s)
    <3>1. s = {}
      BY <1>1
    <3> QED
      BY <3>1
  <2> QED
    BY <2>1
<1>3. ASSUME NEW n \in N PROVE n + 1 \in N
  <2>1. PICK g : Ok(g, n)
    BY Zenon
  <2> DEFINE k == [s \in SUBSET S |-> Step(g, s)]
  <2>2. \A s \in Upto(n) : s \in SUBSET S /\ k[s] = g[s]
    BY <2>1
  <2>3. ASSUME NEW s \in Upto(n + 1) PROVE k[s] = Step(k, s)
    <3>1. s \in SUBSET S
      OBVIOUS
    <3>2. k[s] = Step(g, s)
      BY <3>1
    <3>3. CASE s = {}
      BY <3>2, <3>3
    <3>4. CASE s # {}
      <4>1. s \ {Pick(s)} \in SUBSET S /\ Cardinality(s \ {Pick(s)}) = Cardinality(s) - 1
        BY <3>1, <3>4, PickSmaller
      <4>2. Cardinality(s) - 1 <= n
        BY <1>1, <3>1
      <4>3. s \ {Pick(s)} \in Upto(n)
        BY <4>1, <4>2
      <4>4. k[s \ {Pick(s)}] = g[s \ {Pick(s)}]
        BY <2>2, <4>3, Zenon
      <4> HIDE DEF k
      <4> QED
        BY <3>2, <3>4, <4>4
    <3> QED
      BY <3>3, <3>4
  <2> HIDE DEF k
  <2>4. \E l : Ok(l, n + 1)
    BY <2>3, Zenon
  <2>5. n + 1 \in Nat
    OBVIOUS
  <2> HIDE DEF Ok
  <2> QED
    BY <2>4, <2>5
<1>4. N = Nat
  <2>1. N \in SUBSET Nat
    OBVIOUS
  <2> HIDE DEF N
  <2> QED
    BY <1>2, <1>3, <2>1, InductionOnSet
<1>5. Cardinality(S) \in Nat
  BY FS_CardinalityType
<1>6. PICK g : Ok(g, Cardinality(S))
  BY <1>4, <1>5, Zenon
<1>7. Upto(Cardinality(S)) = SUBSET S
  BY <1>1
<1> DEFINE k == [s \in SUBSET S |-> g[s]]
<1>8. ASSUME NEW s \in SUBSET S PROVE k[s] = Step(k, s)
  <2>1. k[s] = Step(g, s)
    BY <1>6, <1>7
  <2>2. CASE s = {}
    BY <2>1, <2>2
  <2>3. CASE s # {}
    <3>1. s \ {Pick(s)} \in SUBSET S
      OBVIOUS
    <3>2. k[s \ {Pick(s)}] = g[s \ {Pick(s)}]
      BY <3>1
    <3> HIDE DEF k
    <3> QED
      BY <2>1, <2>3, <3>2
  <2> QED
    BY <2>2, <2>3
<1>9. k = [s \in SUBSET S |-> k[s]]
  OBVIOUS
<1> HIDE DEF k
<1>10. k = [s \in SUBSET S |-> Step(k, s)]
  BY <1>8, <1>9, Zenon
<1> QED
  BY <1>10 DEF Summing


\* What is closed under + contains the sums of its members.
LEMMA SummingClosed ==
  ASSUME NEW S, IsFiniteSet(S), NEW D, 0 \in D, \A a, b \in D : a + b \in D,
         NEW h, \A x \in S : h[x] \in D, NEW g, Summing(g, h, S)
  PROVE  \A s \in SUBSET S : g[s] \in D
<1> DEFINE N == {n \in Nat : \A s \in SUBSET S : Cardinality(s) = n => g[s] \in D}
<1>1. \A s \in SUBSET S : g[s] = IF s = {} THEN 0 ELSE h[Pick(s)] + g[s \ {Pick(s)}]
  BY Zenon DEF Summing
<1>2. \A s \in SUBSET S : Cardinality(s) \in Nat /\ (Cardinality(s) = 0 <=> s = {})
  BY FS_Subset, FS_CardinalityType, FS_EmptySet
<1>3. \A s \in SUBSET S : Cardinality(s) = 0 => g[s] \in D
  <2>1. g[{}] = 0
    BY <1>1, Zenon
  <2> QED
    BY <1>2, <2>1, Zenon
<1>4. ASSUME NEW n \in N PROVE n + 1 \in N
  <2>1. n + 1 \in Nat /\ n + 1 # 0 /\ n + 1 - 1 = n
    OBVIOUS
  <2>2. ASSUME NEW s \in SUBSET S, Cardinality(s) = n + 1 PROVE g[s] \in D
    <3>1. s # {}
      BY <1>2, <2>1, <2>2
    <3>2. Pick(s) \in s /\ s \ {Pick(s)} \in SUBSET S /\ Cardinality(s \ {Pick(s)}) = n
      BY <2>1, <2>2, <3>1, PickSmaller
    <3>3. g[s \ {Pick(s)}] \in D /\ h[Pick(s)] \in D
      BY <3>2
    <3>4. g[s] = h[Pick(s)] + g[s \ {Pick(s)}]
      BY <1>1, <3>1, Zenon
    <3> QED
      BY <3>3, <3>4
  <2> QED
    BY <2>1, <2>2
<1>5. N = Nat
  <2>1. N \in SUBSET Nat /\ 0 \in N
    BY <1>3
  <2> HIDE DEF N
  <2> QED
    BY <1>4, <2>1, InductionOnSet
<1> QED
  BY <1>2, <1>5

\* The fold of integers is an integer.
LEMMA SummingType ==
  ASSUME NEW S, IsFiniteSet(S), NEW h, \A x \in S : h[x] \in Int, NEW g, Summing(g, h, S)
  PROVE  \A s \in SUBSET S : g[s] \in Int
<1>1. \A a, b \in Int : a + b \in Int
  OBVIOUS
<1> QED
  BY <1>1, SummingClosed

\* Whatever is taken out first, the fold of a set adds one element to that of the rest.
LEMMA SummingAny ==
  ASSUME NEW S, IsFiniteSet(S), NEW h, \A x \in S : h[x] \in Int, NEW g, Summing(g, h, S)
  PROVE  \A s \in SUBSET S : \A x \in s : g[s] = h[x] + g[s \ {x}]
<1> DEFINE Ok(s) == \A x \in s : g[s] = h[x] + g[s \ {x}]
           N == {n \in Nat : \A s \in SUBSET S : Cardinality(s) = n => Ok(s)}
<1>1. \A s \in SUBSET S : g[s] = IF s = {} THEN 0 ELSE h[Pick(s)] + g[s \ {Pick(s)}]
  BY Zenon DEF Summing
<1>2. \A s \in SUBSET S : g[s] \in Int
  BY SummingType
<1>3. \A s \in SUBSET S : Cardinality(s) \in Nat /\ (Cardinality(s) = 0 <=> s = {})
  BY FS_Subset, FS_CardinalityType, FS_EmptySet
<1>4. \A s \in SUBSET S : Cardinality(s) = 0 => Ok(s)
  BY <1>3
<1>5. ASSUME NEW n \in N PROVE n + 1 \in N
  <2>1. n + 1 \in Nat /\ n + 1 # 0 /\ n + 1 - 1 = n
    OBVIOUS
  <2>2. \A s \in SUBSET S : Cardinality(s) = n => Ok(s)
    OBVIOUS
  <2>3. ASSUME NEW s \in SUBSET S, Cardinality(s) = n + 1, NEW x \in s
        PROVE  g[s] = h[x] + g[s \ {x}]
    <3> DEFINE y == Pick(s)
               r == (s \ {x}) \ {y}
    <3>1. s # {}
      OBVIOUS
    <3>2. y \in s /\ g[s] = h[y] + g[s \ {y}]
      BY <1>1, <3>1, PickSmaller
    <3> HIDE DEF y
    <3>3. CASE x = y
      BY <3>2, <3>3
    <3>4. CASE x # y
      <4>1. r = (s \ {y}) \ {x} /\ x \in s \ {y} /\ y \in s \ {x} /\ r \in SUBSET S
        BY <3>2, <3>4
      <4>2. s \ {x} \in SUBSET S /\ Cardinality(s \ {x}) = n
            /\ s \ {y} \in SUBSET S /\ Cardinality(s \ {y}) = n
        BY <2>1, <2>3, <3>1, <3>2, PickSmaller
      <4>3. Ok(s \ {x}) /\ Ok(s \ {y})
        BY <2>2, <4>2
      <4>4. g[s \ {x}] = h[y] + g[r] /\ g[s \ {y}] = h[x] + g[r]
        BY <4>1, <4>3, Zenon
      <4>5. h[x] \in Int /\ h[y] \in Int /\ g[r] \in Int
        BY <1>2, <3>2, <4>1
      <4> HIDE DEF r
      <4> QED
        BY <3>2, <4>4, <4>5
    <3> QED
      BY <3>3, <3>4
  <2> QED
    BY <2>1, <2>3
<1>6. N = Nat
  <2>1. N \in SUBSET Nat /\ 0 \in N
    BY <1>4, Zenon
  <2> HIDE DEF N
  <2> QED
    BY <1>5, <2>1, InductionOnSet
<1> QED
  BY <1>3, <1>6, Zenon

\* Two folds agree on a set where the functions do.
LEMMA SummingAgree ==
  ASSUME NEW S, IsFiniteSet(S), NEW h, NEW g, Summing(g, h, S),
         NEW T, IsFiniteSet(T), NEW k, NEW f, Summing(f, k, T),
         NEW U \in SUBSET (S \cap T), \A x \in U : h[x] = k[x]
  PROVE  g[U] = f[U]
<1> DEFINE N == {n \in Nat : \A s \in SUBSET U : Cardinality(s) = n => g[s] = f[s]}
<1>1. \A s \in SUBSET U :
        /\ g[s] = IF s = {} THEN 0 ELSE h[Pick(s)] + g[s \ {Pick(s)}]
        /\ f[s] = IF s = {} THEN 0 ELSE k[Pick(s)] + f[s \ {Pick(s)}]
  BY Zenon DEF Summing
<1>2. IsFiniteSet(U)
  BY FS_Subset
<1>3. \A s \in SUBSET U : Cardinality(s) \in Nat /\ (Cardinality(s) = 0 <=> s = {})
  BY <1>2, FS_Subset, FS_CardinalityType, FS_EmptySet
<1>4. \A s \in SUBSET U : Cardinality(s) = 0 => g[s] = f[s]
  BY <1>1, <1>3, Zenon
<1>5. ASSUME NEW n \in N PROVE n + 1 \in N
  <2>1. n + 1 \in Nat /\ n + 1 # 0 /\ n + 1 - 1 = n
    OBVIOUS
  <2>2. ASSUME NEW s \in SUBSET U, Cardinality(s) = n + 1 PROVE g[s] = f[s]
    <3>1. s # {}
      BY <1>3, <2>1, <2>2
    <3>2. Pick(s) \in s /\ s \ {Pick(s)} \in SUBSET U /\ Cardinality(s \ {Pick(s)}) = n
      BY <1>2, <2>1, <2>2, <3>1, PickSmaller
    <3>3. g[s \ {Pick(s)}] = f[s \ {Pick(s)}] /\ h[Pick(s)] = k[Pick(s)]
      BY <3>2
    <3> QED
      BY <1>1, <3>1, <3>3, Zenon
  <2> QED
    BY <2>1, <2>2
<1>6. N = Nat
  <2>1. N \in SUBSET Nat /\ 0 \in N
    BY <1>4
  <2> HIDE DEF N
  <2> QED
    BY <1>5, <2>1, InductionOnSet
<1> QED
  BY <1>3, <1>6

-----------------------------------------------------------------------------
(***************************************************************************)
(* The sum, by its laws.                                                   *)
(***************************************************************************)
\* Any fold gives the sum.
LEMMA SumIsFold ==
  ASSUME NEW S, IsFiniteSet(S), NEW h, NEW g, Summing(g, h, S)
  PROVE  SumOver(h, S) = g[S]
<1>1. \E n : \E f : Summing(f, h, S) /\ n = f[S]
  OBVIOUS
<1>2. PICK f : Summing(f, h, S) /\ SumOver(h, S) = f[S]
  BY <1>1 DEF SumOver
<1>3. S \in SUBSET (S \cap S)
  OBVIOUS
<1> QED
  BY <1>2, <1>3, SummingAgree

\* A sum of integers is an integer.
LEMMA SumType ==
  ASSUME NEW S, IsFiniteSet(S), NEW h, \A x \in S : h[x] \in Int
  PROVE  SumOver(h, S) \in Int
<1>1. PICK g : Summing(g, h, S)
  BY SummingExists
<1> QED
  BY <1>1, SumIsFold, SummingType

\* A sum of natural numbers is a natural number.
LEMMA SumNat ==
  ASSUME NEW S, IsFiniteSet(S), NEW h, \A x \in S : h[x] \in Nat
  PROVE  SumOver(h, S) \in Nat
<1>1. PICK g : Summing(g, h, S)
  BY SummingExists
<1>2. \A a, b \in Nat : a + b \in Nat
  OBVIOUS
<1>3. g[S] \in Nat
  BY <1>1, <1>2, SummingClosed, Zenon
<1> QED
  BY <1>1, <1>3, SumIsFold

\* The empty sum.
LEMMA SumEmpty ==
  ASSUME NEW h
  PROVE  SumOver(h, {}) = 0
<1>1. IsFiniteSet({})
  BY FS_EmptySet
<1>2. PICK g : Summing(g, h, {})
  BY <1>1, SummingExists
<1>3. g[{}] = 0
  BY <1>2 DEF Summing
<1> QED
  BY <1>1, <1>2, <1>3, SumIsFold

\* The sum depends on the values on its set only.
LEMMA SumAgree ==
  ASSUME NEW S, IsFiniteSet(S), NEW h, NEW k, \A x \in S : h[x] = k[x]
  PROVE  SumOver(h, S) = SumOver(k, S)
<1>1. PICK g : Summing(g, h, S)
  BY SummingExists
<1>2. PICK f : Summing(f, k, S)
  BY SummingExists
<1>3. S \in SUBSET (S \cap S)
  OBVIOUS
<1>4. g[S] = f[S]
  BY <1>1, <1>2, <1>3, SummingAgree
<1> QED
  BY <1>1, <1>2, <1>4, SumIsFold

\* A sum is one of its terms and the sum of the others.
LEMMA SumRemove ==
  ASSUME NEW S, IsFiniteSet(S), NEW h, \A x \in S : h[x] \in Int, NEW x \in S
  PROVE  SumOver(h, S) = h[x] + SumOver(h, S \ {x})
<1> DEFINE T == S \ {x}
<1>1. IsFiniteSet(T) /\ T \in SUBSET (S \cap T) /\ T \in SUBSET S /\ S \in SUBSET S
  BY FS_Subset
<1> HIDE DEF T
<1>2. PICK g : Summing(g, h, S)
  BY SummingExists
<1>3. PICK f : Summing(f, h, T)
  BY <1>1, SummingExists
<1>4. g[T] = f[T]
  BY <1>1, <1>2, <1>3, SummingAgree
<1>5. g[S] = h[x] + g[T]
  BY <1>1, <1>2, SummingAny DEF T
<1> QED
  BY <1>1, <1>2, <1>3, <1>4, <1>5, SumIsFold DEF T

\* A sum in which one term is replaced.
LEMMA SumReplace ==
  ASSUME NEW S, IsFiniteSet(S), NEW h, \A y \in S : h[y] \in Int, NEW x \in S,
         NEW k, k[x] \in Int, \A y \in S \ {x} : k[y] = h[y]
  PROVE  SumOver(k, S) = SumOver(h, S) - h[x] + k[x]
<1>1. IsFiniteSet(S \ {x}) /\ \A y \in S \ {x} : h[y] \in Int
  BY FS_RemoveElement
<1>2. \A y \in S : k[y] \in Int
  OBVIOUS
<1>3. SumOver(h, S) = h[x] + SumOver(h, S \ {x})
  BY SumRemove
<1>4. SumOver(k, S) = k[x] + SumOver(k, S \ {x})
  BY <1>2, SumRemove
<1>5. SumOver(k, S \ {x}) = SumOver(h, S \ {x})
  BY <1>1, SumAgree
<1>6. SumOver(h, S \ {x}) \in Int /\ h[x] \in Int
  BY <1>1, SumType
<1> QED
  BY <1>3, <1>4, <1>5, <1>6

\* Sums of the first n terms.
LEMMA SumNext ==
  ASSUME NEW n \in Nat, NEW h, \A i \in 1 .. n + 1 : h[i] \in Int
  PROVE  SumOver(h, 1 .. n + 1) = SumOver(h, 1 .. n) + h[n + 1]
<1> DEFINE S == 1 .. n + 1
<1>1. IsFiniteSet(S) /\ n + 1 \in S /\ S \ {n + 1} = 1 .. n
  BY FS_Interval
<1>2. SumOver(h, S) = h[n + 1] + SumOver(h, S \ {n + 1})
  <2> HIDE DEF S
  <2>1. \A i \in S : h[i] \in Int
    BY DEF S
  <2> QED
    BY <1>1, <2>1, SumRemove
<1>3. IsFiniteSet(1 .. n) /\ \A i \in 1 .. n : h[i] \in Int
  BY FS_Interval
<1>4. SumOver(h, 1 .. n) \in Int /\ h[n + 1] \in Int
  BY <1>3, SumType
<1>5. SumOver(h, S) = h[n + 1] + SumOver(h, 1 .. n)
  BY <1>1, <1>2, Zenon
<1> DEFINE a == SumOver(h, S)
           b == SumOver(h, 1 .. n)
<1>6. a = b + h[n + 1]
  <2> HIDE DEF a, b
  <2>1. a = h[n + 1] + b /\ b \in Int /\ h[n + 1] \in Int
    BY <1>4, <1>5 DEF a, b
  <2> QED
    BY <2>1
<1> QED
  BY <1>6
=============================================================================
