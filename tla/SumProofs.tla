------------------------------ MODULE SumProofs ------------------------------
(***************************************************************************)
(* The laws of SumOver.  The library computes a sum by a function over the *)
(* subsets of a set, defined by recursion: such a function exists and is   *)
(* unique, by induction over the subsets of a finite set, and what a sum   *)
(* does when an element is added or its terms change follows.              *)
(***************************************************************************)
EXTENDS Sums, FiniteSetTheorems, TLAPS

-----------------------------------------------------------------------------
(* Induction *)

\* Induction over the subsets of a finite set: a set T of subsets that contains
\* every set whose parts, smaller by one element, it contains, contains them all.
LEMMA SubsetInduction ==
    ASSUME NEW S, IsFiniteSet(S), NEW T,
           \A s \in SUBSET S : (\A x \in s : s \ {x} \in T) => s \in T
    PROVE  \A s \in SUBSET S : s \in T
  <1> DEFINE Bad == {s \in SUBSET S : s \notin T}
  <1>1. SUFFICES ASSUME Bad # {} PROVE FALSE
    OBVIOUS
  <1>2. IsWellFoundedOn(StrictSubsetOrdering(S), SUBSET S)
    BY FS_StrictSubsetOrderingWellFounded, FS_FiniteSubsetsOfFinite
  <1>3. PICK s \in Bad : \A t \in Bad : <<t, s>> \notin StrictSubsetOrdering(S)
    <2>1. Bad \subseteq SUBSET S
      OBVIOUS
    <2> HIDE DEF Bad
    <2> QED BY <1>1, <1>2, <2>1, WFMin
  <1>4. ASSUME NEW x \in s PROVE s \ {x} \in T
    <2>1. <<s \ {x}, s>> \in StrictSubsetOrdering(S)
      BY DEF StrictSubsetOrdering
    <2> QED BY <1>3, <2>1
  <1> QED BY <1>3, <1>4

\* Induction over the natural numbers, for a set.
LEMMA NatSetInduction ==
    ASSUME NEW T, 0 \in T, \A n \in Nat : n \in T => n + 1 \in T
    PROVE  \A n \in Nat : n \in T
  <1> DEFINE Bad == {n \in Nat : n \notin T}
  <1>1. SUFFICES ASSUME Bad # {} PROVE FALSE
    OBVIOUS
  <1> DEFINE Rel == OpToRel(<, Nat)
  <1>2. IsWellFoundedOn(Rel, Nat)
    BY NatLessThanWellFounded
  <1>3. \A m, n \in Nat : m < n => <<m, n>> \in Rel
    BY DEF OpToRel
  <1> HIDE DEF Rel
  <1>4. PICK n \in Bad : \A m \in Bad : <<m, n>> \notin Rel
    <2>1. Bad \subseteq Nat
      OBVIOUS
    <2> HIDE DEF Bad
    <2> QED BY <1>1, <1>2, <2>1, WFMin
  <1>5. n \in Nat /\ n # 0
    BY <1>4
  <1>6. n - 1 \in Nat /\ <<n - 1, n>> \in Rel
    BY <1>3, <1>5
  <1>7. n - 1 \in T
    BY <1>4, <1>6
  <1> QED BY <1>4, <1>5, <1>6, <1>7

-----------------------------------------------------------------------------
(* The recursion *)

\* The element taken out of a set next.
Element(s) == CHOOSE x \in s : TRUE

\* g is a function by which the sum of f over S is computed.
Steps(f, S, g) ==
    g = [s \in SUBSET S |-> IF s = {} THEN 0 ELSE f[Element(s)] + g[s \ {Element(s)}]]

\* SumOver is computed by such a function.
LEMMA SumSteps ==
    ASSUME NEW f, NEW S
    PROVE  SumOver(f, S) = (CHOOSE g : Steps(f, S, g))[S]
  BY DEF SumOver, MapThenSumSet, MapThenFoldSet, Steps, Element

\* The element is one of the set.
LEMMA ElementIn ==
    ASSUME NEW s, s # {}
    PROVE  Element(s) \in s
  BY DEF Element

\* One step of the computation.
LEMMA StepsUnfold ==
    ASSUME NEW f, NEW S, NEW g, Steps(f, S, g), NEW s \in SUBSET S
    PROVE  g[s] = IF s = {} THEN 0 ELSE f[Element(s)] + g[s \ {Element(s)}]
  <1> DEFINE h == [t \in SUBSET S |-> IF t = {} THEN 0 ELSE f[Element(t)] + g[t \ {Element(t)}]]
  <1>1. g = h
    BY DEF Steps
  <1>2. h[s] = IF s = {} THEN 0 ELSE f[Element(s)] + g[s \ {Element(s)}]
    OBVIOUS
  <1> QED BY <1>1, <1>2

\* There is such a function.
LEMMA StepsExist ==
    ASSUME NEW S, IsFiniteSet(S), NEW f, \A x \in S : f[x] \in Int
    PROVE  \E g \in [SUBSET S -> Int] : Steps(f, S, g)
  <1> DEFINE Value(g, s) == IF s = {} THEN 0 ELSE f[Element(s)] + g[s \ {Element(s)}]
             Good(g, n) == \A s \in SUBSET S : Cardinality(s) <= n => g[s] = Value(g, s)
             T == {n \in Nat : \E g \in [SUBSET S -> Int] : Good(g, n)}
  <1>1. \A s \in SUBSET S : IsFiniteSet(s) /\ Cardinality(s) \in Nat
    BY FS_Subset, FS_CardinalityType
  <1>2. ASSUME NEW s \in SUBSET S, s # {}
        PROVE  /\ Element(s) \in S /\ s \ {Element(s)} \in SUBSET S
               /\ Cardinality(s \ {Element(s)}) = Cardinality(s) - 1
    <2>1. Element(s) \in s
      BY <1>2, ElementIn
    <2> QED BY <1>1, <2>1, FS_RemoveElement
  <1>3. 0 \in T
    <2> DEFINE g == [s \in SUBSET S |-> 0]
    <2>1. g \in [SUBSET S -> Int]
      OBVIOUS
    <2>2. Good(g, 0)
      <3> SUFFICES ASSUME NEW s \in SUBSET S, Cardinality(s) <= 0
                   PROVE  g[s] = Value(g, s)
        OBVIOUS
      <3>1. s = {}
        BY <1>1, FS_EmptySet
      <3> QED BY <3>1
    <2> QED BY <2>1, <2>2
  <1>4. ASSUME NEW n \in Nat, n \in T PROVE n + 1 \in T
    <2>1. PICK g \in [SUBSET S -> Int] : Good(g, n)
      BY <1>4
    <2> DEFINE h == [s \in SUBSET S |-> Value(g, s)]
    <2>2. h \in [SUBSET S -> Int]
      <3> SUFFICES ASSUME NEW s \in SUBSET S PROVE Value(g, s) \in Int
        OBVIOUS
      <3>1. CASE s = {}
        BY <3>1
      <3>2. CASE s # {}
        <4>1. Element(s) \in S /\ s \ {Element(s)} \in SUBSET S
          BY <3>2, <1>2
        <4>2. f[Element(s)] \in Int /\ g[s \ {Element(s)}] \in Int
          BY <4>1
        <4> QED BY <3>2, <4>2
      <3> QED BY <3>1, <3>2
    <2>3. Good(h, n + 1)
      <3> SUFFICES ASSUME NEW s \in SUBSET S, Cardinality(s) <= n + 1
                   PROVE  h[s] = Value(h, s)
        OBVIOUS
      <3>1. CASE s = {}
        BY <3>1
      <3>2. CASE s # {}
        <4> DEFINE t == s \ {Element(s)}
        <4>1. t \in SUBSET S /\ Cardinality(t) = Cardinality(s) - 1
          BY <3>2, <1>2
        <4>2. Cardinality(t) <= n
          BY <1>1, <4>1
        <4>3. g[t] = Value(g, t)
          BY <2>1, <4>1, <4>2
        <4>4. h[t] = Value(g, t)
          BY <4>1
        <4>5. h[s] = f[Element(s)] + g[t]
          BY <3>2
        <4> QED BY <3>2, <4>3, <4>4, <4>5
      <3> QED BY <3>1, <3>2
    <2> HIDE DEF h, Good
    <2>4. \E k \in [SUBSET S -> Int] : Good(k, n + 1)
      BY <2>2, <2>3
    <2> QED BY <2>4
  <1>5. Cardinality(S) \in T
    <2> HIDE DEF T
    <2>1. \A n \in Nat : n \in T
      BY <1>3, <1>4, NatSetInduction
    <2> QED BY <1>1, <2>1
  <1>6. PICK g \in [SUBSET S -> Int] : Good(g, Cardinality(S))
    BY <1>5
  <1>7. \A s \in SUBSET S : g[s] = Value(g, s)
    BY <1>6, FS_Subset
  <1> HIDE DEF Value
  <1>8. g = [s \in SUBSET S |-> Value(g, s)]
    BY <1>7
  <1> QED BY <1>8 DEF Steps, Value

\* And only one: on the subsets of both S and R, those of S and R agree.
LEMMA StepsUnique ==
    ASSUME NEW S, IsFiniteSet(S), NEW R \in SUBSET S, NEW f, NEW g, NEW h,
           Steps(f, S, g), Steps(f, R, h)
    PROVE  \A s \in SUBSET R : g[s] = h[s]
  <1> DEFINE T == {s \in SUBSET R : g[s] = h[s]}
  <1>1. IsFiniteSet(R)
    BY FS_Subset
  <1>2. ASSUME NEW s \in SUBSET R, \A x \in s : s \ {x} \in T PROVE s \in T
    <2>1. /\ g[s] = IF s = {} THEN 0 ELSE f[Element(s)] + g[s \ {Element(s)}]
          /\ h[s] = IF s = {} THEN 0 ELSE f[Element(s)] + h[s \ {Element(s)}]
      BY StepsUnfold
    <2>2. s # {} => g[s \ {Element(s)}] = h[s \ {Element(s)}]
      BY <1>2, ElementIn
    <2> QED BY <2>1, <2>2
  <1>3. \A s \in SUBSET R : s \in T
    <2> HIDE DEF T
    <2> QED BY <1>1, <1>2, SubsetInduction
  <1> QED BY <1>3

\* The sum over a set is computed from the sums over its subsets.
LEMMA SumUnfold ==
    ASSUME NEW S, IsFiniteSet(S), NEW f, \A x \in S : f[x] \in Int, NEW s \in SUBSET S
    PROVE  /\ SumOver(f, s) \in Int
           /\ SumOver(f, s) = IF s = {} THEN 0
                              ELSE f[Element(s)] + SumOver(f, s \ {Element(s)})
  <1>1. PICK g \in [SUBSET S -> Int] : Steps(f, S, g)
    BY StepsExist
  <1>2. ASSUME NEW t \in SUBSET S PROVE SumOver(f, t) = g[t]
    <2>1. \E h : Steps(f, t, h)
      BY FS_Subset, StepsExist
    <2>2. Steps(f, t, CHOOSE h : Steps(f, t, h))
      BY <2>1
    <2>3. \A r \in SUBSET t : g[r] = (CHOOSE h : Steps(f, t, h))[r]
      BY <1>1, <2>2, StepsUnique
    <2> QED BY <2>3, SumSteps
  <1>3. g[s] = IF s = {} THEN 0 ELSE f[Element(s)] + g[s \ {Element(s)}]
    BY <1>1, StepsUnfold
  <1>4. SumOver(f, s) = g[s] /\ SumOver(f, s \ {Element(s)}) = g[s \ {Element(s)}]
    BY <1>2
  <1> QED BY <1>1, <1>3, <1>4

-----------------------------------------------------------------------------
(* What the proofs use *)

\* The sum over no element.
LEMMA SumEmpty == \A f : SumOver(f, {}) = 0
  <1> TAKE f
  <1>1. IsFiniteSet({}) /\ \A x \in {} : f[x] \in Int
    BY FS_EmptySet
  <1> QED BY <1>1, SumUnfold

\* The sums are integers, and each element can be taken out of a sum.
LEMMA SumRemove ==
    ASSUME NEW S, IsFiniteSet(S), NEW f, \A x \in S : f[x] \in Int
    PROVE  \A s \in SUBSET S :
              /\ SumOver(f, s) \in Int
              /\ \A x \in s : SumOver(f, s) = f[x] + SumOver(f, s \ {x})
  <1>1. \A s \in SUBSET S : SumOver(f, s) \in Int
    BY SumUnfold
  <1>2. ASSUME NEW s \in SUBSET S, s # {}
        PROVE  SumOver(f, s) = f[Element(s)] + SumOver(f, s \ {Element(s)})
    BY <1>2, SumUnfold
  <1> DEFINE T == {s \in SUBSET S : \A x \in s : SumOver(f, s) = f[x] + SumOver(f, s \ {x})}
  <1>3. ASSUME NEW s \in SUBSET S, \A x \in s : s \ {x} \in T PROVE s \in T
    <2> SUFFICES ASSUME NEW x \in s PROVE SumOver(f, s) = f[x] + SumOver(f, s \ {x})
      OBVIOUS
    <2> DEFINE e == Element(s)
    <2>1. e \in s /\ SumOver(f, s) = f[e] + SumOver(f, s \ {e})
      BY <1>2, ElementIn
    <2> HIDE DEF e
    <2>2. CASE x = e
      BY <2>1, <2>2
    <2>3. CASE x # e
      <3>1. s \ {e} \in T /\ s \ {x} \in T
        BY <1>3, <2>1
      <3>2. /\ SumOver(f, s \ {e}) = f[x] + SumOver(f, (s \ {e}) \ {x})
            /\ SumOver(f, s \ {x}) = f[e] + SumOver(f, (s \ {x}) \ {e})
        BY <2>1, <2>3, <3>1
      <3>3. (s \ {e}) \ {x} = (s \ {x}) \ {e}
        OBVIOUS
      <3>4. /\ SumOver(f, (s \ {e}) \ {x}) \in Int
            /\ f[x] \in Int /\ f[e] \in Int
        BY <1>1, <2>1
      <3>5. SumOver(f, s) = f[e] + (f[x] + SumOver(f, (s \ {x}) \ {e}))
        BY <2>1, <3>2, <3>3
      <3>6. f[x] + SumOver(f, s \ {x}) = f[x] + (f[e] + SumOver(f, (s \ {x}) \ {e}))
        BY <3>2
      <3> QED BY <3>3, <3>4, <3>5, <3>6
    <2> QED BY <2>2, <2>3
  <1>4. \A s \in SUBSET S : s \in T
    <2> HIDE DEF T
    <2> QED BY <1>3, SubsetInduction
  <1> QED BY <1>1, <1>4

\* A sum of integers is an integer.
LEMMA SumType ==
    ASSUME NEW S, IsFiniteSet(S), NEW f, \A x \in S : f[x] \in Int
    PROVE  SumOver(f, S) \in Int
  BY SumRemove

\* Adding an element to a sum.
LEMMA SumAdd ==
    ASSUME NEW S, IsFiniteSet(S), NEW f, NEW x, x \notin S,
           \A y \in S \cup {x} : f[y] \in Int
    PROVE  SumOver(f, S \cup {x}) = SumOver(f, S) + f[x]
  <1>1. IsFiniteSet(S \cup {x}) /\ (S \cup {x}) \ {x} = S
    BY FS_AddElement
  <1>2. SumOver(f, S \cup {x}) = f[x] + SumOver(f, S)
    BY <1>1, SumRemove
  <1> QED BY <1>2, SumType

\* A sum grows with what is summed.
LEMMA SumMonotone ==
    ASSUME NEW S, IsFiniteSet(S), NEW f, NEW g,
           \A x \in S : f[x] \in Int /\ g[x] \in Int /\ f[x] <= g[x]
    PROVE  SumOver(f, S) <= SumOver(g, S)
  <1> DEFINE T == {s \in SUBSET S : SumOver(f, s) <= SumOver(g, s)}
  <1>1. ASSUME NEW s \in SUBSET S, \A x \in s : s \ {x} \in T PROVE s \in T
    <2>1. CASE s = {}
      BY <2>1, SumEmpty
    <2>2. CASE s # {}
      <3> PICK x \in s : TRUE
        BY <2>2
      <3>1. /\ SumOver(f, s) = f[x] + SumOver(f, s \ {x})
            /\ SumOver(f, s \ {x}) \in Int
        BY SumRemove
      <3>2. /\ SumOver(g, s) = g[x] + SumOver(g, s \ {x})
            /\ SumOver(g, s \ {x}) \in Int
        BY SumRemove
      <3>3. SumOver(f, s \ {x}) <= SumOver(g, s \ {x})
        BY <1>1
      <3> QED BY <3>1, <3>2, <3>3
    <2> QED BY <2>1, <2>2
  <1>2. \A s \in SUBSET S : s \in T
    <2> HIDE DEF T
    <2> QED BY <1>1, SubsetInduction
  <1> QED BY <1>2

\* A sum depends only on what is summed.
LEMMA SumEqual ==
    ASSUME NEW S, IsFiniteSet(S), NEW f, NEW g,
           \A x \in S : f[x] \in Int /\ g[x] = f[x]
    PROVE  SumOver(f, S) = SumOver(g, S)
  <1>1. SumOver(f, S) <= SumOver(g, S)
    BY SumMonotone
  <1>2. SumOver(g, S) <= SumOver(f, S)
    BY SumMonotone
  <1>3. SumOver(f, S) \in Int /\ SumOver(g, S) \in Int
    BY SumType
  <1> QED BY <1>1, <1>2, <1>3

\* A sum of zeros.
LEMMA SumZero ==
    ASSUME NEW S, IsFiniteSet(S), NEW f, \A x \in S : f[x] = 0
    PROVE  SumOver(f, S) = 0
  <1> DEFINE T == {s \in SUBSET S : SumOver(f, s) = 0}
  <1>1. ASSUME NEW s \in SUBSET S, \A x \in s : s \ {x} \in T PROVE s \in T
    <2>1. CASE s = {}
      BY <2>1, SumEmpty
    <2>2. CASE s # {}
      <3> PICK x \in s : TRUE
        BY <2>2
      <3>1. SumOver(f, s) = f[x] + SumOver(f, s \ {x})
        BY SumRemove
      <3> QED BY <1>1, <3>1
    <2> QED BY <2>1, <2>2
  <1>2. \A s \in SUBSET S : s \in T
    <2> HIDE DEF T
    <2> QED BY <1>1, SubsetInduction
  <1> QED BY <1>2

\* A sum of natural numbers is one.
LEMMA SumNat ==
    ASSUME NEW S, IsFiniteSet(S), NEW f, \A x \in S : f[x] \in Nat
    PROVE  SumOver(f, S) \in Nat
  <1> DEFINE zero == [x \in S |-> 0]
  <1>1. SumOver(zero, S) = 0
    BY SumZero
  <1>2. SumOver(zero, S) <= SumOver(f, S)
    BY SumMonotone
  <1>3. SumOver(f, S) \in Int
    BY SumType
  <1> QED BY <1>1, <1>2, <1>3

\* A sum with one term changed by d.
LEMMA SumChange ==
    ASSUME NEW S, IsFiniteSet(S), NEW f, NEW g, NEW x \in S, NEW d \in Int,
           \A y \in S : f[y] \in Int, g[x] = f[x] + d, \A y \in S \ {x} : g[y] = f[y]
    PROVE  SumOver(g, S) = SumOver(f, S) + d
  <1>1. f[x] \in Int /\ g[x] \in Int /\ \A y \in S : g[y] \in Int
    OBVIOUS
  <1>2. IsFiniteSet(S \ {x}) /\ S \ {x} \in SUBSET S /\ S \in SUBSET S
    BY FS_RemoveElement
  <1>3. SumOver(f, S) = f[x] + SumOver(f, S \ {x}) /\ SumOver(f, S \ {x}) \in Int
    BY <1>2, SumRemove
  <1>4. SumOver(g, S) = g[x] + SumOver(g, S \ {x})
    BY <1>1, <1>2, SumRemove
  <1>5. SumOver(f, S \ {x}) = SumOver(g, S \ {x})
    BY <1>2, SumEqual
  <1> QED BY <1>1, <1>3, <1>4, <1>5

\* Sums are linear.
LEMMA SumLinear ==
    ASSUME NEW S, IsFiniteSet(S), NEW f, NEW g, NEW h, NEW m \in Int,
           \A x \in S : f[x] \in Int /\ g[x] \in Int /\ h[x] = f[x] + m * g[x]
    PROVE  SumOver(h, S) = SumOver(f, S) + m * SumOver(g, S)
  <1> DEFINE T == {s \in SUBSET S : SumOver(h, s) = SumOver(f, s) + m * SumOver(g, s)}
  <1>1. ASSUME NEW s \in SUBSET S, \A x \in s : s \ {x} \in T PROVE s \in T
    <2>1. CASE s = {}
      BY <2>1, SumEmpty
    <2>2. CASE s # {}
      <3> PICK x \in s : TRUE
        BY <2>2
      <3>1. PICK a \in Int, A \in Int : /\ a = f[x] /\ A = SumOver(f, s \ {x})
                                        /\ SumOver(f, s) = a + A
        <4>1. /\ SumOver(f, s) = f[x] + SumOver(f, s \ {x})
              /\ f[x] \in Int /\ SumOver(f, s \ {x}) \in Int
          BY SumRemove
        <4> QED BY <4>1
      <3>2. PICK b \in Int, B \in Int : /\ b = g[x] /\ B = SumOver(g, s \ {x})
                                        /\ SumOver(g, s) = b + B
        <4>1. /\ SumOver(g, s) = g[x] + SumOver(g, s \ {x})
              /\ g[x] \in Int /\ SumOver(g, s \ {x}) \in Int
          BY SumRemove
        <4> QED BY <4>1
      <3>3. \A y \in S : h[y] \in Int
        OBVIOUS
      <3>4. SumOver(h, s) = (a + m * b) + SumOver(h, s \ {x})
        BY <3>1, <3>2, <3>3, SumRemove
      <3>5. SumOver(h, s \ {x}) = A + m * B
        BY <1>1, <3>1, <3>2
      <3>6. (a + m * b) + (A + m * B) = (a + A) + m * (b + B)
        OBVIOUS
      <3> QED BY <3>1, <3>2, <3>4, <3>5, <3>6
    <2> QED BY <2>1, <2>2
  <1>2. \A s \in SUBSET S : s \in T
    <2> HIDE DEF T
    <2> QED BY <1>1, SubsetInduction
  <1> QED BY <1>2

\* A sum whose terms are bounded.
LEMMA SumBounded ==
    ASSUME NEW S, IsFiniteSet(S), NEW f, NEW m \in Int, \A x \in S : f[x] \in Int /\ f[x] <= m
    PROVE  SumOver(f, S) <= Cardinality(S) * m
  <1> DEFINE T == {s \in SUBSET S : SumOver(f, s) <= Cardinality(s) * m}
  <1>1. ASSUME NEW s \in SUBSET S, \A x \in s : s \ {x} \in T PROVE s \in T
    <2>1. CASE s = {}
      BY <2>1, SumEmpty, FS_EmptySet
    <2>2. CASE s # {}
      <3> PICK x \in s : TRUE
        BY <2>2
      <3>1. PICK a \in Int, A \in Int : /\ a = f[x] /\ A = SumOver(f, s \ {x})
                                        /\ SumOver(f, s) = a + A
        <4>1. /\ SumOver(f, s) = f[x] + SumOver(f, s \ {x})
              /\ f[x] \in Int /\ SumOver(f, s \ {x}) \in Int
          BY SumRemove
        <4> QED BY <4>1
      <3>2. IsFiniteSet(s) /\ Cardinality(s) \in Nat
        BY FS_Subset, FS_CardinalityType
      <3>3. PICK n \in Int : n = Cardinality(s) /\ Cardinality(s \ {x}) = n - 1
        <4>1. Cardinality(s \ {x}) = Cardinality(s) - 1
          BY <3>2, FS_RemoveElement
        <4>2. Cardinality(s) \in Int
          BY <3>2
        <4> QED BY <4>1, <4>2
      <3>4. A <= (n - 1) * m /\ a <= m
        BY <1>1, <3>1, <3>3
      <3>5. (n - 1) * m + m = n * m
        OBVIOUS
      <3> QED BY <3>1, <3>3, <3>4, <3>5
    <2> QED BY <2>1, <2>2
  <1>2. \A s \in SUBSET S : s \in T
    <2> HIDE DEF T
    <2> QED BY <1>1, SubsetInduction
  <1> QED BY <1>2

\* Zeros do not count.
LEMMA SumExtend ==
    ASSUME NEW S, IsFiniteSet(S), NEW R \in SUBSET S, NEW f,
           \A x \in S : f[x] \in Int, \A x \in S \ R : f[x] = 0
    PROVE  SumOver(f, S) = SumOver(f, R)
  <1> DEFINE Q == S \ R
             T == {s \in SUBSET Q : SumOver(f, R \cup s) = SumOver(f, R)}
  <1>1. IsFiniteSet(Q)
    BY FS_Subset
  <1>2. ASSUME NEW s \in SUBSET Q, \A x \in s : s \ {x} \in T PROVE s \in T
    <2>1. CASE s = {}
      BY <2>1
    <2>2. CASE s # {}
      <3> PICK x \in s : TRUE
        BY <2>2
      <3>1. R \cup s \in SUBSET S /\ (R \cup s) \ {x} = R \cup (s \ {x})
        OBVIOUS
      <3>2. SumOver(f, R \cup s) = f[x] + SumOver(f, R \cup (s \ {x}))
        BY <3>1, SumRemove
      <3>3. SumOver(f, R \cup (s \ {x})) = SumOver(f, R) /\ f[x] = 0
        BY <1>2
      <3>4. SumOver(f, R) \in Int
        BY SumRemove
      <3> QED BY <3>2, <3>3, <3>4
    <2> QED BY <2>1, <2>2
  <1>3. \A s \in SUBSET Q : s \in T
    <2> HIDE DEF T, Q
    <2> QED BY <1>1, <1>2, SubsetInduction
  <1>4. Q \in T
    <2> HIDE DEF T
    <2> QED BY <1>3
  <1>5. R \cup Q = S
    OBVIOUS
  <1> QED BY <1>4, <1>5

\* A sum does not depend on the names of its terms.
LEMMA SumReindex ==
    ASSUME NEW S, IsFiniteSet(S), NEW f, NEW R, IsFiniteSet(R), NEW g, NEW h \in [S -> R],
           \A x \in S : f[x] \in Int /\ g[h[x]] = f[x],
           \A y \in R : g[y] \in Int,
           \A x, y \in S : h[x] = h[y] => x = y
    PROVE  SumOver(f, S) = SumOver(g, {h[x] : x \in S})
  <1> DEFINE Image(s) == {h[x] : x \in s}
             T == {s \in SUBSET S : SumOver(f, s) = SumOver(g, Image(s))}
  <1>1. ASSUME NEW s \in SUBSET S, \A x \in s : s \ {x} \in T PROVE s \in T
    <2>1. CASE s = {}
      <3>1. Image(s) = {}
        BY <2>1
      <3> QED BY <2>1, <3>1, SumEmpty
    <2>2. CASE s # {}
      <3> PICK x \in s : TRUE
        BY <2>2
      <3>1. /\ Image(s) \in SUBSET R /\ h[x] \in Image(s)
            /\ Image(s) \ {h[x]} = Image(s \ {x})
        OBVIOUS
      <3>2. SumOver(f, s \ {x}) = SumOver(g, Image(s \ {x}))
        BY <1>1
      <3> HIDE DEF Image
      <3>3. SumOver(f, s) = f[x] + SumOver(f, s \ {x})
        BY SumRemove
      <3>4. SumOver(g, Image(s)) = g[h[x]] + SumOver(g, Image(s) \ {h[x]})
        BY <3>1, SumRemove
      <3> QED BY <3>1, <3>2, <3>3, <3>4
    <2> QED BY <2>1, <2>2
  <1>2. \A s \in SUBSET S : s \in T
    <2> HIDE DEF T
    <2> QED BY <1>1, SubsetInduction
  <1> QED BY <1>2

\* One element taken out of a sum.
LEMMA SumWithout ==
    ASSUME NEW S, IsFiniteSet(S), NEW f, \A y \in S : f[y] \in Int, NEW x \in S
    PROVE  /\ SumOver(f, S) = f[x] + SumOver(f, S \ {x})
           /\ SumOver(f, S \ {x}) \in Int /\ SumOver(f, S) \in Int
  BY SumRemove

\* A sum over an interval, and one term more.
LEMMA SumInterval ==
    ASSUME NEW n \in Nat, NEW f, \A i \in 1..(n + 1) : f[i] \in Int
    PROVE  SumOver(f, 1..(n + 1)) = SumOver(f, 1..n) + f[n + 1]
  <1> DEFINE S == 1..n
             x == n + 1
  <1>1. S \cup {x} = 1..(n + 1) /\ x \notin S
    OBVIOUS
  <1>2. IsFiniteSet(S)
    <2>1. 1 \in Int /\ n \in Int
      OBVIOUS
    <2> QED BY <2>1, FS_Interval
  <1>3. \A y \in S \cup {x} : f[y] \in Int
    BY <1>1
  <1> HIDE DEF S, x
  <1>4. SumOver(f, S \cup {x}) = SumOver(f, S) + f[x]
    BY <1>1, <1>2, <1>3, SumAdd
  <1> QED BY <1>1, <1>4 DEF S, x

\* g is f over an interval without the term at i: the later ones move up.
Shifted(f, g, i, n) ==
    /\ \A j \in 1..n : f[j] \in Int
    /\ \A j \in 1..(i - 1) : g[j] = f[j]
    /\ \A j \in i..(n - 1) : g[j] = f[j + 1]

\* A sum over an interval with one term taken out.
LEMMA SumShift ==
    ASSUME NEW n \in Nat, NEW i \in 1..n, NEW f, NEW g, Shifted(f, g, i, n)
    PROVE  /\ SumOver(g, 1..(n - 1)) = SumOver(f, 1..n) - f[i]
           /\ SumOver(f, 1..n) \in Int
  <1> DEFINE S == 1..n
             R == 1..(n - 1)
             D == S \ {i}
             h == [j \in D |-> IF j < i THEN j ELSE j - 1]
  <1> USE DEF Shifted
  <1>1. IsFiniteSet(S) /\ IsFiniteSet(R) /\ IsFiniteSet(D)
    <2>1. 1 \in Int /\ n \in Int /\ n - 1 \in Int
      OBVIOUS
    <2>2. IsFiniteSet(1..n) /\ IsFiniteSet(1..(n - 1))
      BY <2>1, FS_Interval
    <2> QED BY <2>2, FS_RemoveElement
  <1>2. h \in [D -> R] /\ \A x, y \in D : h[x] = h[y] => x = y
    OBVIOUS
  <1>3. ASSUME NEW j \in D PROVE f[j] \in Int /\ g[h[j]] = f[j]
    <2>1. CASE j < i
      <3>1. h[j] = j /\ j \in 1..(i - 1)
        BY <2>1
      <3> QED BY <3>1
    <2>2. CASE ~(j < i)
      <3>1. h[j] = j - 1 /\ j - 1 \in i..(n - 1) /\ (j - 1) + 1 = j
        BY <2>2
      <3>2. g[j - 1] = f[(j - 1) + 1]
        BY <3>1
      <3> QED BY <3>1, <3>2
    <2> QED BY <2>1, <2>2
  <1>4. ASSUME NEW m \in R PROVE g[m] \in Int /\ \E j \in D : h[j] = m
    <2>1. CASE m < i
      <3>1. m \in D /\ h[m] = m /\ m \in 1..(i - 1)
        BY <2>1
      <3> QED BY <3>1
    <2>2. CASE ~(m < i)
      <3>1. m + 1 \in D /\ h[m + 1] = m /\ m \in i..(n - 1)
        BY <2>2
      <3> QED BY <3>1
    <2> QED BY <2>1, <2>2
  <1>5. {h[j] : j \in D} = R
    <2> HIDE DEF h, D, R
    <2>1. \A j \in D : h[j] \in R
      BY <1>2
    <2> QED BY <1>4, <2>1
  <1>6. i \in S /\ \A j \in S : f[j] \in Int
    OBVIOUS
  <1> HIDE DEF h, S, R, Shifted
  <1>7. SumOver(f, S) = f[i] + SumOver(f, D) /\ SumOver(f, D) \in Int /\ SumOver(f, S) \in Int
    <2>1. /\ SumOver(f, S) = f[i] + SumOver(f, S \ {i})
          /\ SumOver(f, S \ {i}) \in Int /\ SumOver(f, S) \in Int
      BY <1>1, <1>6, SumWithout
    <2> QED BY <2>1
  <1> HIDE DEF D
  <1>8. SumOver(f, D) = SumOver(g, {h[j] : j \in D})
    BY <1>1, <1>2, <1>3, <1>4, SumReindex
  <1>9. SumOver(f, D) = SumOver(g, R)
    BY <1>5, <1>8
  <1>10. SumOver(g, R) = SumOver(f, S) - f[i]
    BY <1>6, <1>7, <1>9
  <1> QED BY <1>7, <1>10 DEF S, R
==============================================================================
