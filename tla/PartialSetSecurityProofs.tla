---------------------- MODULE PartialSetSecurityProofs ----------------------
(***************************************************************************)
(* Opt-in, opt-out and power shaping are correct for any number of         *)
(* validators, any stakes, any parameters and any sequence of messages and *)
(* blocks.  The first part is about the lists of the code: sorting,        *)
(* filtering and truncating them.  Then come the validators that are       *)
(* selected, the powers they are given, and the steps of the system.       *)
(***************************************************************************)
EXTENDS PartialSetSecurity, SumProofs, SequenceTheorems

-----------------------------------------------------------------------------
(* Lists *)

\* s lists every element of S once.
Enumerates(s, S) ==
    /\ s \in Seq(S)
    /\ \A i, j \in 1..Len(s) : s[i] = s[j] => i = j
    /\ \A v \in S : \E i \in 1..Len(s) : s[i] = v

\* What a list says about its set.
LEMMA EnumerationFacts ==
    ASSUME NEW s, NEW S, Enumerates(s, S)
    PROVE  /\ Len(s) \in Nat /\ DOMAIN s = 1..Len(s) /\ s \in [1..Len(s) -> S]
           /\ Range(s) = S /\ IsFiniteSet(S) /\ Cardinality(S) = Len(s)
  <1>1. Len(s) \in Nat /\ DOMAIN s = 1..Len(s) /\ s \in [1..Len(s) -> S]
    BY LenProperties DEF Enumerates
  <1>2. Range(s) = S
    BY <1>1 DEF Range, Enumerates
  <1>3. s \in Bijection(1..Len(s), S)
    BY <1>1 DEF Enumerates, Bijection, Injection, Surjection, IsInjective
  <1>4. IsFiniteSet(1..Len(s)) /\ Cardinality(1..Len(s)) = Len(s)
    BY <1>1, FS_Interval
  <1>5. ExistsBijection(1..Len(s), S)
    BY <1>3 DEF ExistsBijection
  <1>6. IsFiniteSet(S) /\ Cardinality(S) = Len(s)
    BY <1>4, <1>5, FS_Bijection
  <1> QED BY <1>1, <1>2, <1>6

\* before gives the elements before each element of I in a strict total order.
Ordering(I, before) ==
    /\ \A i \in I : before[i] \in SUBSET I /\ i \notin before[i]
    /\ \A i, j \in I : i = j \/ i \in before[j] \/ j \in before[i]
    /\ \A i, j, k \in I : i \in before[j] /\ j \in before[k] => i \in before[k]

\* Arrange lists the elements of a finite set in the given order.
LEMMA ArrangeFacts ==
    ASSUME NEW I, IsFiniteSet(I), NEW before, Ordering(I, before), NEW r, r = Arrange(I, before)
    PROVE  /\ r \in [1..Cardinality(I) -> I]
           /\ \A i \in I : \E n \in 1..Cardinality(I) : r[n] = i
           /\ \A m, n \in 1..Cardinality(I) : m < n => r[m] \in before[r[n]]
           /\ \A m, n \in 1..Cardinality(I) : r[m] = r[n] => m = n
  <1> DEFINE N == Cardinality(I)
             rank == [i \in I |-> Cardinality(before[i]) + 1]
  <1>1. N \in Nat
    BY FS_CardinalityType
  <1>2. \A i \in I : /\ before[i] \in SUBSET I /\ IsFiniteSet(before[i])
                     /\ Cardinality(before[i]) \in Nat
    <2> TAKE i \in I
    <2>1. before[i] \in SUBSET I
      BY DEF Ordering
    <2>2. IsFiniteSet(before[i])
      BY <2>1, FS_Subset
    <2> QED BY <2>1, <2>2, FS_CardinalityType
  <1>3. ASSUME NEW i \in I, NEW j \in I, i \in before[j]
        PROVE  Cardinality(before[i]) < Cardinality(before[j])
    <2>1. before[i] \in SUBSET (before[j] \ {i})
      BY <1>2, <1>3 DEF Ordering
    <2>2. IsFiniteSet(before[j] \ {i}) /\ Cardinality(before[j] \ {i}) = Cardinality(before[j]) - 1
      BY <1>2, <1>3, FS_RemoveElement
    <2>3. Cardinality(before[i]) <= Cardinality(before[j] \ {i})
      BY <2>1, <2>2, FS_Subset
    <2> QED BY <1>2, <2>2, <2>3
  <1>4. ASSUME NEW i \in I PROVE Cardinality(before[i]) + 1 \in 1..N
    <2>1. before[i] \in SUBSET (I \ {i})
      BY <1>2 DEF Ordering
    <2>2. IsFiniteSet(I \ {i}) /\ Cardinality(I \ {i}) = N - 1
      BY FS_RemoveElement
    <2>3. Cardinality(before[i]) <= N - 1
      BY <2>1, <2>2, FS_Subset
    <2> QED BY <1>1, <1>2, <2>3
  <1>5. ASSUME NEW i \in I, NEW j \in I, Cardinality(before[i]) = Cardinality(before[j])
        PROVE  i = j
    <2>1. ~(i \in before[j]) /\ ~(j \in before[i])
      BY <1>2, <1>3, <1>5
    <2> QED BY <2>1 DEF Ordering
  <1>6. rank \in Injection(I, 1..N)
    <2>1. rank \in [I -> 1..N]
      BY <1>4
    <2>2. \A i, j \in I : rank[i] = rank[j] => i = j
      BY <1>2, <1>5
    <2> QED BY <2>1, <2>2 DEF Injection, IsInjective
  <1>7. rank \in Surjection(I, 1..N)
    <2>1. IsFiniteSet(1..N) /\ Cardinality(1..N) = N
      BY <1>1, FS_Interval
    <2> HIDE DEF rank
    <2> QED BY <1>6, <2>1, FS_Injection
  <1>8. ASSUME NEW n \in 1..N
        PROVE  r[n] \in I /\ Cardinality(before[r[n]]) = n - 1
    <2>1. PICK i \in I : rank[i] = n
      BY <1>7 DEF Surjection
    <2>2. Cardinality(before[i]) = n - 1
      BY <1>1, <1>2, <2>1
    <2>3. r[n] = CHOOSE j \in I : Cardinality(before[j]) = n - 1
      BY DEF Arrange
    <2> QED BY <2>2, <2>3
  <1>9. r \in [1..N -> I]
    <2>1. r = [n \in 1..N |-> r[n]]
      BY DEF Arrange
    <2> QED BY <1>8, <2>1
  <1>10. ASSUME NEW i \in I PROVE \E n \in 1..N : r[n] = i
    <2>1. rank[i] \in 1..N /\ rank[i] = Cardinality(before[i]) + 1
      BY <1>4
    <2>2. Cardinality(before[r[rank[i]]]) = Cardinality(before[i])
      BY <1>2, <1>8, <2>1
    <2>3. r[rank[i]] = i
      BY <1>5, <1>8, <2>1, <2>2
    <2> QED BY <2>1, <2>3
  <1>11. ASSUME NEW m \in 1..N, NEW n \in 1..N, m < n PROVE r[m] \in before[r[n]]
    <2>1. /\ r[m] \in I /\ r[n] \in I
          /\ Cardinality(before[r[m]]) = m - 1 /\ Cardinality(before[r[n]]) = n - 1
      BY <1>8
    <2>2. r[m] # r[n]
      BY <1>1, <1>11, <2>1
    <2>3. r[n] \notin before[r[m]]
      BY <1>1, <1>3, <1>11, <2>1
    <2> QED BY <2>1, <2>2, <2>3 DEF Ordering
  <1>12. ASSUME NEW m \in 1..N, NEW n \in 1..N, r[m] = r[n] PROVE m = n
    BY <1>1, <1>8, <1>12
  <1> QED BY <1>9, <1>10, <1>11, <1>12

\* s is a list of the same length, by decreasing f.  The order of equal elements is left
\* open: sort.Slice keeps it in short lists only, and nothing below depends on it.
Sorted(s, list, f) ==
    /\ Len(s) = Len(list)
    /\ \A i, j \in 1..Len(s) : i < j => f[s[i]] >= f[s[j]]

\* SortDescending lists the same elements, by decreasing f.
LEMMA SortFacts ==
    ASSUME NEW S, NEW list, Enumerates(list, S), NEW f, \A v \in S : f[v] \in Int
    PROVE  /\ Enumerates(SortDescending(list, f), S)
           /\ Sorted(SortDescending(list, f), list, f)
  <1> DEFINE N == Len(list)
             D == 1..N
             ahead == [i \in D |->
                         {j \in D : \/ f[list[j]] > f[list[i]]
                                    \/ f[list[j]] = f[list[i]] /\ j < i}]
             order == Arrange(D, ahead)
             g == [n \in D |-> list[order[n]]]
             s == SortDescending(list, f)
  <1>1. N \in Nat /\ DOMAIN list = D /\ (\A i \in D : list[i] \in S /\ f[list[i]] \in Int)
    BY EnumerationFacts
  <1>2. IsFiniteSet(D) /\ Cardinality(D) = N
    BY <1>1, FS_Interval
  <1>3. Ordering(D, ahead)
    <2>1. D \in SUBSET Int
      BY <1>1
    <2> HIDE DEF D
    <2> QED BY <1>1, <2>1 DEF Ordering
  <1>4. s = SubSeq(g, 1, N)
    BY <1>1 DEF SortDescending
  <1> HIDE DEF s, ahead
  <1>5. /\ order \in [1..N -> D]
        /\ \A i \in D : \E n \in 1..N : order[n] = i
        /\ \A m, n \in 1..N : m < n => order[m] \in ahead[order[n]]
        /\ \A m, n \in 1..N : order[m] = order[n] => m = n
    <2> HIDE DEF D, N
    <2>1. Cardinality(D) = N
      BY <1>2
    <2> QED BY <1>2, <1>3, <2>1, ArrangeFacts
  <1> HIDE DEF order
  <1>6. \A i \in 1..N : g[i] \in S
    BY <1>1, <1>5
  <1>7. s \in Seq(S) /\ Len(s) = N /\ \A i \in 1..N : s[i] = list[order[i]]
    <2> HIDE DEF g
    <2>1. s \in Seq(S) /\ Len(s) = N /\ \A i \in 1..N : s[i] = g[i]
      BY <1>1, <1>4, <1>6, SubSeqProperties
    <2> QED BY <2>1 DEF g
  <1>8. Enumerates(s, S)
    <2>1. ASSUME NEW i \in 1..N, NEW j \in 1..N, s[i] = s[j] PROVE i = j
      <3>1. order[i] \in 1..N /\ order[j] \in 1..N /\ list[order[i]] = list[order[j]]
        BY <1>5, <1>7, <2>1
      <3>2. order[i] = order[j]
        BY <3>1 DEF Enumerates
      <3> QED BY <1>5, <3>2
    <2>2. ASSUME NEW v \in S PROVE \E i \in 1..N : s[i] = v
      <3>1. PICK k \in 1..N : list[k] = v
        BY DEF Enumerates
      <3>2. PICK n \in 1..N : order[n] = k
        BY <1>5
      <3> QED BY <1>7, <3>1, <3>2
    <2> QED BY <1>7, <2>1, <2>2 DEF Enumerates
  <1>9. ASSUME NEW i \in 1..N, NEW j \in 1..N, i < j
        PROVE  \/ f[s[i]] > f[s[j]]
               \/ f[s[i]] = f[s[j]] /\ order[i] < order[j]
    <2>1. order[i] \in ahead[order[j]] /\ order[i] \in D /\ order[j] \in D
      BY <1>5, <1>9
    <2> HIDE DEF D
    <2>2. \/ f[list[order[i]]] > f[list[order[j]]]
          \/ f[list[order[i]]] = f[list[order[j]]] /\ order[i] < order[j]
      BY <2>1 DEF ahead
    <2> QED BY <1>7, <2>2
  <1>10. \A i \in 1..N : f[s[i]] \in Int
    BY <1>1, <1>5, <1>7
  <1>11. \A i, j \in 1..N : i < j => f[s[i]] >= f[s[j]]
    BY <1>9, <1>10
  <1>13. Sorted(s, list, f)
    BY <1>7, <1>11 DEF Sorted
  <1> QED BY <1>8, <1>13 DEF s

\* Filter lists the elements that are in T.
LEMMA FilterFacts ==
    ASSUME NEW S, NEW list, Enumerates(list, S), NEW T
    PROVE  Enumerates(Filter(list, T), S \cap T)
  <1> DEFINE I == {i \in 1..Len(list) : list[i] \in T}
             C == Cardinality(I)
             before == [i \in I |-> {j \in I : j < i}]
             order == Arrange(I, before)
             g == [n \in 1..C |-> list[order[n]]]
             s == Filter(list, T)
  <1>1. Len(list) \in Nat /\ DOMAIN list = 1..Len(list) /\ \A i \in 1..Len(list) : list[i] \in S
    BY EnumerationFacts
  <1>2. IsFiniteSet(I)
    <2>1. IsFiniteSet(1..Len(list)) /\ I \in SUBSET (1..Len(list))
      BY <1>1, FS_Interval
    <2> HIDE DEF I
    <2> QED BY <2>1, FS_Subset
  <1>3. I \in SUBSET (1..Len(list)) /\ \A i \in I : list[i] \in S \cap T
    BY <1>1
  <1>4. \A i \in 1..Len(list) : list[i] \in T => i \in I
    OBVIOUS
  <1>5. s = SubSeq(g, 1, C)
    BY <1>1 DEF Filter
  <1> HIDE DEF s, I
  <1>6. Ordering(I, before)
    BY <1>1, <1>3 DEF Ordering
  <1> HIDE DEF before
  <1>7. /\ order \in [1..C -> I]
        /\ \A i \in I : \E n \in 1..C : order[n] = i
        /\ \A m, n \in 1..C : order[m] = order[n] => m = n
    BY <1>2, <1>6, ArrangeFacts
  <1> HIDE DEF order
  <1>8. C \in Nat
    BY <1>2, FS_CardinalityType
  <1> HIDE DEF C
  <1>9. \A i \in 1..C : g[i] \in S \cap T
    BY <1>3, <1>7
  <1>10. s \in Seq(S \cap T) /\ Len(s) = C /\ \A i \in 1..C : s[i] = list[order[i]]
    <2> HIDE DEF g
    <2>1. s \in Seq(S \cap T) /\ Len(s) = C /\ \A i \in 1..C : s[i] = g[i]
      BY <1>5, <1>8, <1>9, SubSeqProperties
    <2> QED BY <2>1 DEF g
  <1>11. ASSUME NEW i \in 1..C, NEW j \in 1..C, s[i] = s[j] PROVE i = j
    <2>1. /\ order[i] \in 1..Len(list) /\ order[j] \in 1..Len(list)
          /\ list[order[i]] = list[order[j]]
      BY <1>3, <1>7, <1>10, <1>11
    <2>2. order[i] = order[j]
      BY <2>1 DEF Enumerates
    <2> QED BY <1>7, <2>2
  <1>12. ASSUME NEW v \in S \cap T PROVE \E i \in 1..C : s[i] = v
    <2>1. PICK k \in 1..Len(list) : list[k] = v
      BY DEF Enumerates
    <2>2. k \in I
      BY <1>4, <2>1
    <2>3. PICK n \in 1..C : order[n] = k
      BY <1>7, <2>2
    <2> QED BY <1>10, <2>1, <2>3
  <1>13. Enumerates(s, S \cap T)
    BY <1>10, <1>11, <1>12 DEF Enumerates
  <1> QED BY <1>13 DEF s

\* Truncate keeps the first elements.
LEMMA TruncateFacts ==
    ASSUME NEW S, NEW list, Enumerates(list, S), NEW n \in Nat, NEW s, s = Truncate(list, n)
    PROVE  /\ Enumerates(s, Range(s)) /\ Range(s) \in SUBSET S
           /\ Len(s) = IF n < Len(list) THEN n ELSE Len(list)
           /\ \A i \in 1..Len(s) : i \in 1..Len(list) /\ s[i] = list[i]
           /\ \A i \in 1..Len(list) : i <= n => i \in 1..Len(s)
           /\ \A i \in 1..Len(list) : list[i] \in Range(s) => i <= n
           /\ Len(list) <= n => s = list
  <1>1. list \in Seq(S) /\ Len(list) \in Nat /\ \A i \in 1..Len(list) : list[i] \in S
    BY EnumerationFacts DEF Enumerates
  <1>2. /\ s \in Seq(S) /\ Len(s) = (IF n < Len(list) THEN n ELSE Len(list))
        /\ \A i \in 1..Len(s) : i \in 1..Len(list) /\ s[i] = list[i]
    <2>1. CASE n < Len(list)
      <3>1. s = SubSeq(list, 1, n) /\ 1 \in Int /\ n \in Int /\ \A i \in 1..n : list[i] \in S
        BY <1>1, <2>1 DEF Truncate
      <3>2. s \in Seq(S) /\ Len(s) = n /\ \A i \in 1..n : s[i] = list[i]
        BY <3>1, SubSeqProperties
      <3> QED BY <1>1, <2>1, <3>2
    <2>2. CASE ~(n < Len(list))
      BY <1>1, <2>2 DEF Truncate
    <2> QED BY <2>1, <2>2
  <1>3. Len(s) \in Nat /\ DOMAIN s = 1..Len(s) /\ s \in [1..Len(s) -> S]
    BY <1>2, LenProperties
  <1>4. s \in Seq(Range(s))
    BY <1>3, SeqDef DEF Range
  <1>5. Enumerates(s, Range(s))
    <2>1. \A i, j \in 1..Len(s) : s[i] = s[j] => i = j
      BY <1>2, SMTT(30) DEF Enumerates
    <2>2. \A v \in Range(s) : \E i \in 1..Len(s) : s[i] = v
      BY <1>3 DEF Range
    <2> QED BY <1>4, <2>1, <2>2 DEF Enumerates
  <1>6. Range(s) \in SUBSET S
    BY <1>3 DEF Range
  <1>7. ASSUME NEW i \in 1..Len(list), list[i] \in Range(s) PROVE i <= n
    <2>1. PICK j \in 1..Len(s) : s[j] = list[i]
      BY <1>3, <1>7 DEF Range
    <2>2. j \in 1..Len(list) /\ list[j] = list[i]
      BY <1>2, <2>1
    <2>3. i = j
      BY <2>2 DEF Enumerates
    <2> QED BY <1>1, <1>2, <2>3
  <1>8. Len(list) <= n => s = list
    BY <1>1 DEF Truncate
  <1>9. \A i \in 1..Len(list) : i <= n => i \in 1..Len(s)
    BY <1>1, <1>2
  <1> QED BY <1>2, <1>5, <1>6, <1>7, <1>8, <1>9

\* Two lists without a common element, one after the other.
LEMMA ConcatFacts ==
    ASSUME NEW S, NEW R, NEW a, NEW b, Enumerates(a, S), Enumerates(b, R), S \cap R = {}
    PROVE  /\ Enumerates(a \o b, S \cup R)
           /\ Len(a \o b) = Len(a) + Len(b)
           /\ \A i \in 1..(Len(a) + Len(b)) :
                 (a \o b)[i] = IF i <= Len(a) THEN a[i] ELSE b[i - Len(a)]
           /\ \A i \in 1..(Len(a) + Len(b)) :
                 IF i <= Len(a) THEN i \in 1..Len(a) /\ a[i] \in S
                 ELSE i - Len(a) \in 1..Len(b) /\ b[i - Len(a)] \in R
  <1> DEFINE c == a \o b
             m == Len(a)
             n == Len(b)
  <1>1. /\ a \in Seq(S) /\ b \in Seq(R) /\ m \in Nat /\ n \in Nat
        /\ \A i \in 1..m : a[i] \in S
        /\ \A i \in 1..n : b[i] \in R
    BY EnumerationFacts DEF Enumerates
  <1>2. a \in Seq(S \cup R) /\ b \in Seq(S \cup R)
    BY <1>1, SeqMonotonic
  <1>3. /\ c \in Seq(S \cup R) /\ Len(c) = m + n
        /\ \A i \in 1..(m + n) : c[i] = IF i <= m THEN a[i] ELSE b[i - m]
    BY <1>2, ConcatProperties
  <1> HIDE DEF c, m, n
  <1>4. \A i \in 1..(m + n) : IF i <= m THEN i \in 1..m /\ a[i] \in S
                               ELSE i - m \in 1..n /\ b[i - m] \in R
    BY <1>1
  <1>5. ASSUME NEW i \in 1..(m + n), NEW j \in 1..(m + n), c[i] = c[j] PROVE i = j
    <2>1. CASE i <= m /\ j <= m
      <3>1. i \in 1..m /\ j \in 1..m /\ a[i] = a[j]
        BY <1>3, <1>4, <1>5, <2>1
      <3> QED BY <3>1 DEF Enumerates, m
    <2>2. CASE ~(i <= m) /\ ~(j <= m)
      <3>1. i - m \in 1..n /\ j - m \in 1..n /\ b[i - m] = b[j - m]
        BY <1>3, <1>4, <1>5, <2>2
      <3>2. i - m = j - m
        BY <3>1 DEF Enumerates, n
      <3> QED BY <1>1, <3>2
    <2>3. CASE i <= m /\ ~(j <= m)
      BY <1>3, <1>4, <1>5, <2>3
    <2>4. CASE ~(i <= m) /\ j <= m
      BY <1>3, <1>4, <1>5, <2>4
    <2> QED BY <2>1, <2>2, <2>3, <2>4
  <1>6. ASSUME NEW v \in S \cup R PROVE \E i \in 1..(m + n) : c[i] = v
    <2>1. CASE v \in S
      <3>1. PICK i \in 1..m : a[i] = v
        BY <2>1 DEF Enumerates, m
      <3>2. i \in 1..(m + n) /\ c[i] = v
        BY <1>1, <1>3, <3>1
      <3> QED BY <3>2
    <2>2. CASE v \in R
      <3>1. PICK i \in 1..n : b[i] = v
        BY <2>2 DEF Enumerates, n
      <3>2. i + m \in 1..(m + n) /\ ~(i + m <= m) /\ (i + m) - m = i
        BY <1>1, <3>1
      <3>3. c[i + m] = v
        BY <1>3, <3>1, <3>2
      <3> QED BY <3>2, <3>3
    <2> QED BY <2>1, <2>2
  <1>7. Enumerates(c, S \cup R)
    BY <1>3, <1>5, <1>6 DEF Enumerates
  <1> QED BY <1>3, <1>4, <1>7 DEF c, m, n

\* Who goes before whom: priority before power.
Outranks(v, w, priority, power) ==
    \/ v \in priority /\ w \notin priority
    \/ (v \in priority <=> w \in priority) /\ power[v] > power[w]

\* PartitionBasedOnPriorityList loses nobody, and nobody is listed after a
\* validator that it outranks.
LEMMA PartitionFacts ==
    ASSUME NEW S, NEW list, Enumerates(list, S), NEW power, \A v \in S : power[v] \in Int,
           NEW priority, NEW s, s = PartitionBasedOnPriorityList(list, power, priority)
    PROVE  /\ Enumerates(s, S)
           /\ \A i, j \in 1..Len(s) : i < j => ~Outranks(s[j], s[i], priority, power)
  <1> DEFINE P == S \cap priority
             Q == S \cap (S \ priority)
             a == SortDescending(Filter(list, priority), power)
             b == SortDescending(Filter(list, S \ priority), power)
  <1>1. Range(list) = S
    BY EnumerationFacts
  <1>2. s = a \o b
    BY <1>1 DEF PartitionBasedOnPriorityList
  <1>3. Enumerates(a, P) /\ Sorted(a, Filter(list, priority), power)
    <2>1. Enumerates(Filter(list, priority), P) /\ \A v \in P : power[v] \in Int
      BY FilterFacts
    <2> QED BY <2>1, SortFacts
  <1>4. Enumerates(b, Q) /\ Sorted(b, Filter(list, S \ priority), power)
    <2>1. Enumerates(Filter(list, S \ priority), Q) /\ \A v \in Q : power[v] \in Int
      BY FilterFacts
    <2> QED BY <2>1, SortFacts
  <1>5. P \cap Q = {} /\ P \cup Q = S
    OBVIOUS
  <1> DEFINE m == Len(a)
             n == Len(b)
  <1> HIDE DEF a, b, P, Q
  <1>6. m \in Nat /\ n \in Nat
    BY <1>3, <1>4, EnumerationFacts
  <1>7. /\ Enumerates(s, S) /\ Len(s) = m + n
        /\ \A i \in 1..(m + n) : s[i] = IF i <= m THEN a[i] ELSE b[i - m]
        /\ \A i \in 1..(m + n) : IF i <= m THEN i \in 1..m /\ a[i] \in P
                                  ELSE i - m \in 1..n /\ b[i - m] \in Q
    <2>1. /\ Enumerates(a \o b, P \cup Q) /\ Len(a \o b) = m + n
          /\ \A i \in 1..(m + n) : (a \o b)[i] = IF i <= m THEN a[i] ELSE b[i - m]
          /\ \A i \in 1..(m + n) : IF i <= m THEN i \in 1..m /\ a[i] \in P
                                    ELSE i - m \in 1..n /\ b[i - m] \in Q
      BY <1>3, <1>4, <1>5, ConcatFacts
    <2> HIDE DEF m, n
    <2> QED BY <1>2, <1>5, <2>1
  <1> HIDE DEF m, n
  <1>8. ASSUME NEW i \in 1..(m + n), NEW j \in 1..(m + n), i < j
        PROVE  ~Outranks(s[j], s[i], priority, power)
    <2>1. s[i] \in S /\ s[j] \in S /\ power[s[i]] \in Int /\ power[s[j]] \in Int
      BY <1>5, <1>7
    <2>2. CASE j <= m
      <3>1. /\ i \in 1..m /\ j \in 1..m /\ s[i] = a[i] /\ s[j] = a[j]
            /\ a[i] \in P /\ a[j] \in P
        BY <1>6, <1>7, <1>8, <2>2
      <3>2. power[a[i]] >= power[a[j]]
        BY <1>3, <1>8, <3>1 DEF Sorted, m
      <3>3. s[i] \in priority /\ s[j] \in priority
        BY <3>1 DEF P
      <3> QED BY <2>1, <3>1, <3>2, <3>3 DEF Outranks
    <2>3. CASE ~(i <= m)
      <3>1. /\ i - m \in 1..n /\ j - m \in 1..n /\ i - m < j - m
            /\ s[i] = b[i - m] /\ s[j] = b[j - m] /\ b[i - m] \in Q /\ b[j - m] \in Q
        BY <1>6, <1>7, <1>8, <2>3
      <3>2. power[b[i - m]] >= power[b[j - m]]
        BY <1>4, <3>1 DEF Sorted, n
      <3>3. s[i] \notin priority /\ s[j] \notin priority
        BY <3>1 DEF Q
      <3> QED BY <2>1, <3>1, <3>2, <3>3 DEF Outranks
    <2>4. CASE i <= m /\ ~(j <= m)
      <3>1. s[i] \in P /\ s[j] \in Q
        BY <1>7, <2>4
      <3> QED BY <3>1 DEF Outranks, P, Q
    <2> QED BY <1>6, <2>2, <2>3, <2>4
  <1> QED BY <1>7, <1>8

-----------------------------------------------------------------------------
(* The minimum power of the top N *)

\* A part of a set has no greater sum, if nothing is negative.
LEMMA SumOfPart ==
    ASSUME NEW S, IsFiniteSet(S), NEW f, \A x \in S : f[x] \in Nat, NEW R \in SUBSET S
    PROVE  SumOver(f, R) <= SumOver(f, S) /\ SumOver(f, R) \in Nat /\ SumOver(f, S) \in Nat
  <1> DEFINE g == [x \in S |-> IF x \in R THEN f[x] ELSE 0]
  <1>1. IsFiniteSet(R) /\ \A x \in R : f[x] \in Nat
    BY FS_Subset
  <1>2. SumOver(f, R) \in Nat /\ SumOver(f, S) \in Nat
    BY <1>1, SumNat
  <1>3. \A x \in S : g[x] \in Int /\ f[x] \in Int /\ g[x] <= f[x]
    OBVIOUS
  <1>4. \A x \in S \ R : g[x] = 0
    OBVIOUS
  <1>5. \A x \in R : f[x] \in Int /\ g[x] = f[x]
    OBVIOUS
  <1> HIDE DEF g
  <1>6. SumOver(g, S) = SumOver(g, R)
    BY <1>3, <1>4, SumExtend
  <1>7. SumOver(f, R) = SumOver(g, R)
    BY <1>1, <1>5, SumEqual
  <1>8. SumOver(g, S) <= SumOver(f, S)
    BY <1>3, SumMonotone
  <1> QED BY <1>2, <1>6, <1>7, <1>8

\* A set of natural numbers that is not empty has a smallest element.
LEMMA MinFacts ==
    ASSUME NEW T \in SUBSET Nat, T # {}
    PROVE  Min(T) \in T /\ \A y \in T : Min(T) <= y
  <1>1. \E m \in T : \A y \in T : m <= y
    <2>1. SUFFICES ASSUME \A m \in T : \E y \in T : ~(m <= y) PROVE FALSE
      OBVIOUS
    <2> DEFINE R == {n \in Nat : \A y \in T : y >= n}
    <2>2. 0 \in R
      OBVIOUS
    <2>3. ASSUME NEW n \in Nat, n \in R PROVE n + 1 \in R
      <3>1. \A y \in T : y >= n /\ y \in Nat
        BY <2>3
      <3>2. n \notin T
        BY <2>1, <3>1
      <3> QED BY <3>1, <3>2
    <2>4. \A n \in Nat : n \in R
      <3> HIDE DEF R
      <3> QED BY <2>2, <2>3, NatSetInduction
    <2>5. PICK x \in T : TRUE
      OBVIOUS
    <2>6. x + 1 \in R /\ x \in Nat
      BY <2>4
    <2> QED BY <2>6
  <1> QED BY <1>1 DEF Min

\* Of two natural numbers.
LEMMA MinOfTwo ==
    ASSUME NEW a \in Int, NEW b \in Int
    PROVE  Min({a, b}) = IF a <= b THEN a ELSE b
  <1>1. \E m \in {a, b} : \A y \in {a, b} : m <= y
    OBVIOUS
  <1>2. Min({a, b}) \in {a, b} /\ \A y \in {a, b} : Min({a, b}) <= y
    BY <1>1 DEF Min
  <1> QED BY <1>2

\* The power of those with more power than p.
Above(A, power, p) == SumOver(power, {w \in A : power[w] > p})

\* ComputeMinPowerInTopN finds the power of the last validator of the top N: those
\* with more power than it do not make up N percent, and whoever has less power is
\* behind validators that make up N percent.
LEMMA MinPowerFacts ==
    ASSUME NEW A, NEW list, Enumerates(list, A), A # {},
           NEW power, \A v \in A : power[v] \in Nat, NEW topN \in 1..100,
           NEW min, min = ComputeMinPowerInTopN(list, power, topN)
    PROVE  /\ min \in Nat
           /\ (\A v \in A : power[v] > 0) =>
                 \E w \in A : /\ power[w] = min
                              /\ Above(A, power, min) * 100 < topN * SumOver(power, A)
           /\ \A v \in A : Above(A, power, power[v]) * 100 < topN * SumOver(power, A)
                              => power[v] >= min
  <1> DEFINE s == SortDescending(list, power)
             N == Len(s)
             total == SumOver(power, A)
             First(n) == {s[i] : i \in 1..n}
             T == {n \in 1..N : SumOver(power, First(n)) * 100 >= topN * total}
             k == Min(T)
  <1>1. Range(list) = A /\ IsFiniteSet(A)
    BY EnumerationFacts
  <1>2. Enumerates(s, A) /\ Sorted(s, list, power)
    BY SortFacts
  <1>3. N \in Nat /\ DOMAIN s = 1..N /\ \A i \in 1..N : s[i] \in A
    BY <1>2, EnumerationFacts
  <1>4. min = power[s[k]]
    BY <1>1, <1>3 DEF ComputeMinPowerInTopN, TotalPower
  <1> HIDE DEF s, N
  <1>5. total \in Nat /\ \A R \in SUBSET A : SumOver(power, R) \in Nat /\ SumOver(power, R) <= total
    BY <1>1, SumOfPart
  <1>6. \A n \in 0..N : First(n) \in SUBSET A
    BY <1>3
  <1>7. First(N) = A
    <2>1. \A v \in A : \E i \in 1..N : s[i] = v
      BY <1>2 DEF Enumerates, N
    <2> QED BY <1>3, <2>1
  <1>8. N \in 1..N
    <2>1. PICK v \in A : TRUE
      OBVIOUS
    <2>2. \E i \in 1..N : s[i] = v
      BY <1>2 DEF Enumerates, N
    <2> QED BY <1>3, <2>2
  <1>9. \A v \in A : power[v] \in Nat
    OBVIOUS
  <1> HIDE DEF First, total
  <1>10. N \in T
    <2>1. total * 100 >= topN * total
      BY <1>5
    <2> QED BY <1>7, <1>8, <2>1 DEF total
  <1>11. k \in T /\ \A y \in T : k <= y
    <2>1. T \in SUBSET Nat /\ T # {}
      BY <1>3, <1>10
    <2> HIDE DEF T
    <2> QED BY <2>1, MinFacts
  <1>12. k \in 1..N /\ SumOver(power, First(k)) * 100 >= topN * total
    BY <1>11
  <1>13. k > 1 => SumOver(power, First(k - 1)) * 100 < topN * total
    <2> SUFFICES ASSUME k > 1 PROVE SumOver(power, First(k - 1)) * 100 < topN * total
      OBVIOUS
    <2>1. k - 1 \in 1..N /\ k - 1 \notin T
      BY <1>3, <1>11, <1>12
    <2>2. SumOver(power, First(k - 1)) \in Nat
      BY <1>3, <1>5, <1>6, <1>12
    <2> QED BY <1>5, <2>1, <2>2
  <1> HIDE DEF T, k
  <1>14. s[k] \in A /\ min \in Nat
    BY <1>3, <1>4, <1>9, <1>12
  <1>15. ASSUME \A v \in A : power[v] > 0
         PROVE  Above(A, power, min) * 100 < topN * total
    <2> DEFINE R == {w \in A : power[w] > min}
    <2>1. ASSUME NEW w \in R PROVE \E i \in 1..(k - 1) : s[i] = w
      <3>1. PICK i \in 1..N : s[i] = w
        BY <1>2 DEF Enumerates, N
      <3>2. i < k
        <4> SUFFICES ASSUME ~(i < k) PROVE FALSE
          OBVIOUS
        <4>1. k < i
          BY <1>3, <1>4, <1>12, <1>14, <3>1
        <4>2. power[s[k]] >= power[s[i]]
          BY <1>2, <1>12, <4>1 DEF Sorted, N
        <4>3. power[w] > min /\ power[w] \in Nat
          BY <1>9
        <4> QED BY <1>4, <1>14, <3>1, <4>2, <4>3
      <3> QED BY <1>3, <1>12, <3>1, <3>2
    <2>2. Above(A, power, min) = SumOver(power, R)
      BY DEF Above
    <2>3. CASE k = 1
      <3>1. R = {}
        BY <2>1, <2>3
      <3>2. SumOver(power, R) = 0
        BY <3>1, SumEmpty
      <3>3. total > 0
        <4>1. SumOver(power, {s[k]}) <= total
          BY <1>5, <1>14
        <4>2. SumOver(power, {s[k]}) = power[s[k]]
          <5>1. SumOver(power, {} \cup {s[k]}) = SumOver(power, {}) + power[s[k]]
            <6>1. IsFiniteSet({}) /\ s[k] \notin {} /\ \A y \in {} \cup {s[k]} : power[y] \in Int
              BY <1>9, <1>14, FS_EmptySet
            <6> QED BY <6>1, SumAdd
          <5>2. {} \cup {s[k]} = {s[k]}
            OBVIOUS
          <5> QED BY <1>4, <1>14, <5>1, <5>2, SumEmpty
        <4> QED BY <1>4, <1>5, <1>14, <1>15, <4>1, <4>2
      <3>4. topN * total > 0
        BY <1>5, <3>3
      <3> QED BY <2>2, <3>2, <3>4
    <2>4. CASE k # 1
      <3>1. k > 1 /\ k - 1 \in 0..N
        BY <1>3, <1>12, <2>4
      <3>2. R \in SUBSET First(k - 1) /\ First(k - 1) \in SUBSET A
        BY <1>6, <2>1, <3>1 DEF First
      <3>3. IsFiniteSet(First(k - 1)) /\ \A x \in First(k - 1) : power[x] \in Nat
        BY <1>1, <1>9, <3>2, FS_Subset
      <3>4. /\ SumOver(power, R) <= SumOver(power, First(k - 1))
            /\ SumOver(power, R) \in Nat /\ SumOver(power, First(k - 1)) \in Nat
        <4> HIDE DEF R
        <4> QED BY <3>2, <3>3, SumOfPart
      <3>5. topN * total \in Nat
        BY <1>5
      <3> QED BY <1>13, <2>2, <3>1, <3>4, <3>5
    <2> QED BY <2>3, <2>4
  <1>16. ASSUME NEW v \in A, Above(A, power, power[v]) * 100 < topN * total
         PROVE  power[v] >= min
    <2> SUFFICES ASSUME power[v] < min PROVE FALSE
      BY <1>9, <1>14
    <2> DEFINE R == {w \in A : power[w] > power[v]}
    <2>1. ASSUME NEW i \in 1..k PROVE s[i] \in R
      <3>1. i \in 1..N /\ s[i] \in A
        BY <1>3, <1>12
      <3>2. power[s[i]] >= power[s[k]]
        <4>1. CASE i = k
          BY <1>9, <1>14, <4>1
        <4>2. CASE i # k
          <5>1. i < k
            BY <1>12, <4>2
          <5> QED BY <1>2, <1>12, <3>1, <5>1 DEF Sorted, N
        <4> QED BY <4>1, <4>2
      <3> QED BY <1>4, <1>9, <1>14, <3>1, <3>2
    <2>2. First(k) \in SUBSET R /\ R \in SUBSET A
      BY <2>1 DEF First
    <2>3. IsFiniteSet(R) /\ \A x \in R : power[x] \in Nat
      BY <1>1, <1>9, <2>2, FS_Subset
    <2>4. Above(A, power, power[v]) = SumOver(power, R)
      BY DEF Above
    <2>5. /\ SumOver(power, First(k)) <= SumOver(power, R)
          /\ SumOver(power, R) \in Nat /\ SumOver(power, First(k)) \in Nat
      <3> HIDE DEF R
      <3> QED BY <2>2, <2>3, SumOfPart
    <2>6. topN * total \in Nat
      BY <1>5
    <2> QED BY <1>12, <1>16, <2>4, <2>5, <2>6
  <1> QED BY <1>4, <1>14, <1>15, <1>16 DEF total

-----------------------------------------------------------------------------
(* What the staking module answers *)

\* Addresses lists the validators.
LEMMA AddressesListed == Enumerates(Addresses, Vals) /\ IsFiniteSet(Vals)
  <1>1. Enumerates(Addresses, Vals)
    <2>1. Addresses \in Seq(Vals) /\ DOMAIN Addresses = 1..Len(Addresses)
      BY PSSAssumption
    <2>2. \A i, j \in 1..Len(Addresses) : Addresses[i] = Addresses[j] => i = j
      BY <2>1, PSSAssumption
    <2>3. \A v \in Vals : \E i \in 1..Len(Addresses) : Addresses[i] = v
      BY <2>1 DEF Vals, Range
    <2> QED BY <2>1, <2>2, <2>3 DEF Enumerates
  <1> QED BY <1>1, EnumerationFacts

\* Powers are natural numbers, and more tokens never give less power.
LEMMA PowerFacts ==
    ASSUME NEW t \in [Vals -> Nat]
    PROVE  /\ Power(t) \in [Vals -> Nat]
           /\ \A v, w \in Vals : t[v] >= t[w] => Power(t)[v] >= Power(t)[w]
  <1>1. PowerReduction \in Nat \ {0}
    BY PSSAssumption
  <1>2. \A n \in Nat : n \div PowerReduction \in Nat
    BY <1>1
  <1>3. ASSUME NEW m \in Nat, NEW n \in Nat, m >= n
        PROVE  m \div PowerReduction >= n \div PowerReduction
    <2> DEFINE q == m \div PowerReduction
               r == n \div PowerReduction
    <2>1. q \in Nat /\ r \in Nat
      BY <1>2
    <2>2. /\ q * PowerReduction <= m /\ m < (q + 1) * PowerReduction
          /\ r * PowerReduction <= n /\ n < (r + 1) * PowerReduction
      BY <1>1
    <2> HIDE DEF q, r
    <2> SUFFICES ASSUME q < r PROVE FALSE
      BY <2>1 DEF q, r
    <2>3. PICK d \in Nat : r = q + 1 + d
      <3>1. r - q - 1 \in Nat /\ r = q + 1 + (r - q - 1)
        BY <2>1
      <3> QED BY <3>1
    <2>4. r * PowerReduction = (q + 1) * PowerReduction + d * PowerReduction
      BY <1>1, <2>1, <2>3
    <2>5. d * PowerReduction \in Nat /\ (q + 1) * PowerReduction \in Nat
      BY <1>1, <2>1
    <2> QED BY <1>3, <2>2, <2>4, <2>5
  <1>4. \A v \in Vals : Power(t)[v] = t[v] \div PowerReduction
    BY DEF Power
  <1>5. Power(t) \in [Vals -> Nat]
    BY <1>2 DEF Power
  <1> QED BY <1>3, <1>4, <1>5

\* The power index lists a set of validators by decreasing power.
LEMMA ByPowerFacts ==
    ASSUME NEW t \in [Vals -> Nat], NEW S \in SUBSET Vals, NEW s, s = ByPower(t, S)
    PROVE  /\ Enumerates(s, S)
           /\ \A i, j \in 1..Len(s) : i < j => Power(t)[s[i]] >= Power(t)[s[j]]
  <1>1. Enumerates(Filter(Addresses, S), Vals \cap S)
    BY AddressesListed, FilterFacts
  <1>2. Vals \cap S = S
    OBVIOUS
  <1>3. \A v \in S : Power(t)[v] \in Int
    BY PowerFacts
  <1>4. Enumerates(s, S) /\ Sorted(s, Filter(Addresses, S), Power(t))
    BY <1>1, <1>2, <1>3, SortFacts DEF ByPower
  <1> QED BY <1>4 DEF Sorted

\* The last powers are powers of validators, not of more than MaxValidators, and of
\* somebody if there is a validator with power.
LEMMA ApplyFacts ==
    ASSUME NEW t \in [Vals -> Nat], NEW last, last = ApplyValidatorSetUpdates(t)
    PROVE  /\ last \in [Vals -> Nat]
           /\ \A v \in Vals : last[v] > 0 => last[v] = Power(t)[v]
           /\ Cardinality({v \in Vals : last[v] > 0}) <= MaxValidators
           /\ (\E v \in Vals : Power(t)[v] > 0)
                 => \E v \in Vals : Power(t)[v] > 0 /\ last[v] > 0
  <1> DEFINE S == {v \in Vals : Power(t)[v] > 0}
             list == ByPower(t, S)
             s == Truncate(list, MaxValidators)
  <1>1. Power(t) \in [Vals -> Nat] /\ MaxValidators \in Nat \ {0} /\ S \in SUBSET Vals
    BY PowerFacts, PSSAssumption
  <1>2. last = [v \in Vals |-> IF v \in Range(s) THEN Power(t)[v] ELSE 0]
    BY DEF ApplyValidatorSetUpdates
  <1> HIDE DEF S
  <1>3. Enumerates(list, S)
    BY <1>1, ByPowerFacts
  <1> HIDE DEF list
  <1>4. /\ Enumerates(s, Range(s)) /\ Range(s) \in SUBSET S
        /\ Len(s) = IF MaxValidators < Len(list) THEN MaxValidators ELSE Len(list)
        /\ \A i \in 1..Len(s) : i \in 1..Len(list) /\ s[i] = list[i]
    BY <1>1, <1>3, TruncateFacts
  <1> HIDE DEF s
  <1>5. /\ IsFiniteSet(Range(s)) /\ Cardinality(Range(s)) = Len(s)
        /\ Len(s) \in Nat /\ DOMAIN s = 1..Len(s)
    BY <1>4, EnumerationFacts
  <1>6. Len(list) \in Nat
    BY <1>3, EnumerationFacts
  <1>7. last \in [Vals -> Nat] /\ \A v \in Vals : last[v] > 0 => last[v] = Power(t)[v]
    BY <1>1, <1>2
  <1>8. Cardinality({v \in Vals : last[v] > 0}) <= MaxValidators
    <2> DEFINE P == {v \in Vals : last[v] > 0}
    <2>1. P \in SUBSET Range(s)
      BY <1>1, <1>2
    <2>2. IsFiniteSet(P) /\ Cardinality(P) <= Cardinality(Range(s))
      <3> HIDE DEF P
      <3> QED BY <1>5, <2>1, FS_Subset
    <2>3. Cardinality(P) \in Nat
      BY <2>2, FS_CardinalityType
    <2> HIDE DEF P
    <2>4. Cardinality(P) <= MaxValidators
      BY <1>1, <1>4, <1>5, <1>6, <2>2, <2>3
    <2> QED BY <2>4 DEF P
  <1>9. ASSUME NEW v \in Vals, Power(t)[v] > 0
        PROVE  \E w \in Vals : Power(t)[w] > 0 /\ last[w] > 0
    <2>1. v \in S
      BY <1>9 DEF S
    <2>2. \E i \in 1..Len(list) : list[i] = v
      BY <1>3, <2>1 DEF Enumerates
    <2>3. 1 \in 1..Len(s)
      BY <1>1, <1>4, <1>6, <2>2
    <2>4. s[1] \in Range(s) /\ s[1] \in S /\ s[1] \in Vals
      BY <1>1, <1>4, <1>5, <2>3 DEF Range
    <2>5. Power(t)[s[1]] > 0
      BY <2>4 DEF S
    <2>6. last[s[1]] = Power(t)[s[1]]
      BY <1>2, <2>4
    <2> QED BY <2>4, <2>5, <2>6
  <1> QED BY <1>7, <1>8, <1>9

\* The bonded validators, by power.
LEMMA BondedFacts ==
    ASSUME NEW t \in [Vals -> Nat], NEW last \in [Vals -> Nat],
           NEW s, s = BondedValidatorsByPower(t, last)
    PROVE  /\ Enumerates(s, Bonded(t, last)) /\ Bonded(t, last) \in SUBSET Vals
           /\ \A i, j \in 1..Len(s) : i < j => Power(t)[s[i]] >= Power(t)[s[j]]
  <1>1. Bonded(t, last) \in SUBSET Vals
    BY DEF Bonded
  <1>2. s = ByPower(t, Bonded(t, last))
    BY DEF BondedValidatorsByPower, Bonded
  <1> QED BY <1>1, <1>2, ByPowerFacts

\* The validators in the consensus of the provider are the first bonded ones.
LEMMA ActiveFacts ==
    ASSUME NEW t \in [Vals -> Nat], NEW last \in [Vals -> Nat],
           NEW s, s = BondedValidatorsByPower(t, last),
           NEW a, a = GetLastProviderConsensusActiveValidators(t, last)
    PROVE  /\ Enumerates(a, Active(t, last)) /\ Active(t, last) \in SUBSET Bonded(t, last)
           /\ Range(a) = Active(t, last)
           /\ \A i \in 1..Len(s) :
                 s[i] \in Active(t, last) <=> i <= MaxProviderConsensusValidators
           /\ Len(a) = IF MaxProviderConsensusValidators < Len(s)
                       THEN MaxProviderConsensusValidators ELSE Len(s)
           /\ Bonded(t, last) # {} => Active(t, last) # {}
  <1> DEFINE M == MaxProviderConsensusValidators
             A == Active(t, last)
             B == Bonded(t, last)
  <1>1. M \in Nat \ {0}
    BY PSSAssumption
  <1>2. a = Truncate(s, M) /\ A = Range(a)
    BY DEF Active, GetLastProviderConsensusActiveValidators
  <1>3. Enumerates(s, B)
    BY BondedFacts
  <1> HIDE DEF A, B, M
  <1>4. Len(s) \in Nat
    BY <1>3, EnumerationFacts
  <1>5. /\ Enumerates(a, A) /\ A \in SUBSET B
        /\ Len(a) = IF M < Len(s) THEN M ELSE Len(s)
        /\ \A i \in 1..Len(a) : i \in 1..Len(s) /\ a[i] = s[i]
        /\ \A i \in 1..Len(s) : i <= M => i \in 1..Len(a)
        /\ \A i \in 1..Len(s) : s[i] \in A => i <= M
    BY <1>1, <1>2, <1>3, TruncateFacts
  <1>6. DOMAIN a = 1..Len(a) /\ \A i \in 1..Len(a) : a[i] \in A
    BY <1>5, EnumerationFacts
  <1>7. \A i \in 1..Len(s) : i <= M => s[i] \in A
    BY <1>5, <1>6
  <1>8. ASSUME NEW v \in B PROVE A # {}
    <2>1. \E i \in 1..Len(s) : s[i] = v
      BY <1>3 DEF Enumerates
    <2>2. 1 \in 1..Len(s) /\ 1 <= M
      BY <1>1, <1>4, <2>1
    <2> QED BY <1>7, <2>2
  <1>9. B # {} => A # {}
    BY <1>8
  <1> QED BY <1>2, <1>5, <1>7, <1>9 DEF A, B, M

-----------------------------------------------------------------------------
(* The selection of validators *)

\* The stakes at the end of a block: the last powers are those of the tokens,
\* unless a validator was jailed since.
Stake(t, last) ==
    /\ t \in [Vals -> Nat] /\ last \in [Vals -> Nat]
    /\ \A v \in Vals : Power(t)[v] > 0 /\ last[v] > 0 => last[v] = Power(t)[v]
    /\ Cardinality({v \in Vals : last[v] > 0}) <= MaxValidators
    /\ \E v \in Vals : Power(t)[v] > 0 /\ last[v] > 0

\* GetLastBondedValidators cuts nothing off then.
LEMMA NothingCutOff ==
    ASSUME NEW t, NEW last, Stake(t, last)
    PROVE  GetLastBondedValidators(t, last) = BondedValidatorsByPower(t, last)
  <1> DEFINE s == BondedValidatorsByPower(t, last)
             B == Bonded(t, last)
             P == {v \in Vals : last[v] > 0}
  <1>1. t \in [Vals -> Nat] /\ last \in [Vals -> Nat] /\ Cardinality(P) <= MaxValidators
    BY DEF Stake
  <1>2. Enumerates(s, B)
    BY <1>1, BondedFacts
  <1>3. B \in SUBSET P /\ P \in SUBSET Vals
    BY DEF Bonded
  <1> HIDE DEF s, B, P
  <1>4. IsFiniteSet(P)
    BY <1>3, AddressesListed, FS_Subset
  <1>5. Cardinality(B) <= Cardinality(P) /\ Cardinality(P) \in Nat
    BY <1>3, <1>4, FS_Subset, FS_CardinalityType
  <1>6. Len(s) = Cardinality(B) /\ Len(s) \in Nat
    BY <1>2, EnumerationFacts
  <1>7. MaxValidators \in Nat
    BY PSSAssumption
  <1>8. Len(s) <= MaxValidators
    BY <1>1, <1>5, <1>6, <1>7
  <1>9. Truncate(s, MaxValidators) = s
    BY <1>6, <1>7, <1>8 DEF Truncate
  <1> QED BY <1>9 DEF GetLastBondedValidators, s

\* The set that is considered: all bonded validators, or as many as are active,
\* among them those that are first by tokens.  An active validator that is not
\* considered ties in power with each inactive one that is, and has fewer tokens.
LEMMA ConsideredFacts ==
    ASSUME NEW p, NEW t, NEW last, Stake(t, last),
           NEW c, c = ConsideredValidators(p, t, last), NEW K, K = Range(c)
    PROVE  /\ Enumerates(c, K) /\ K \in SUBSET Bonded(t, last)
           /\ p.AllowInactiveVals => K = Bonded(t, last)
           /\ ~p.AllowInactiveVals =>
                 /\ Cardinality(K) = Cardinality(Active(t, last))
                 /\ \A v \in Active(t, last) \ K, w \in K \ Active(t, last) :
                       last[w] = last[v] /\ t[w] >= t[v]
           /\ FirstByTokens(t, last) \in SUBSET K
  <1> DEFINE M == MaxProviderConsensusValidators
             A == Active(t, last)
             B == Bonded(t, last)
             s == BondedValidatorsByPower(t, last)
             b == SortDescending(s, t)
             a == GetLastProviderConsensusActiveValidators(t, last)
  <1>1. /\ t \in [Vals -> Nat] /\ last \in [Vals -> Nat] /\ M \in Nat
        /\ \A v \in B : v \in Vals /\ t[v] \in Nat /\ last[v] = Power(t)[v] /\ Power(t)[v] \in Nat
    <2>1. t \in [Vals -> Nat] /\ last \in [Vals -> Nat]
      BY DEF Stake
    <2> QED BY <2>1, PSSAssumption, PowerFacts DEF Stake, Bonded
  <1>2. c = IF p.AllowInactiveVals THEN b ELSE Truncate(b, M)
    BY NothingCutOff DEF ConsideredValidators
  <1>3. /\ Enumerates(s, B)
        /\ \A i, j \in 1..Len(s) : i < j => Power(t)[s[i]] >= Power(t)[s[j]]
    BY <1>1, BondedFacts
  <1>4. /\ Enumerates(a, A) /\ A \in SUBSET B
        /\ \A i \in 1..Len(s) : s[i] \in A <=> i <= M
        /\ Len(a) = IF M < Len(s) THEN M ELSE Len(s)
    BY <1>1, ActiveFacts
  <1>5. /\ Enumerates(b, B) /\ Sorted(b, s, t)
    <2>1. \A v \in B : t[v] \in Int
      BY <1>1
    <2> HIDE DEF B, s
    <2> QED BY <1>3, <2>1, SortFacts
  <1>6. FirstByTokens(t, last) = {v \in B : Cardinality({w \in B : t[w] >= t[v]}) <= M}
    BY DEF FirstByTokens
  <1> HIDE DEF A, B, s, b, a, M
  <1>7. Len(b) = Len(s) /\ Len(s) \in Nat /\ Range(b) = B /\ IsFiniteSet(B)
    BY <1>3, <1>5, EnumerationFacts DEF Sorted
  <1>8. CASE p.AllowInactiveVals
    <2>1. c = b /\ K = B
      BY <1>2, <1>7, <1>8
    <2>2. FirstByTokens(t, last) \in SUBSET K
      BY <1>6, <2>1
    <2> QED BY <1>5, <1>8, <2>1, <2>2 DEF B
  <1>9. CASE ~p.AllowInactiveVals
    <2>1. c = Truncate(b, M)
      BY <1>2, <1>9
    <2>2. /\ Enumerates(c, K) /\ K \in SUBSET B
          /\ Len(c) = IF M < Len(b) THEN M ELSE Len(b)
          /\ \A i \in 1..Len(c) : i \in 1..Len(b) /\ c[i] = b[i]
          /\ \A i \in 1..Len(b) : i <= M => i \in 1..Len(c)
          /\ \A i \in 1..Len(b) : b[i] \in K => i <= M
      BY <1>1, <1>5, <2>1, TruncateFacts
    <2>3. Cardinality(K) = Cardinality(A)
      BY <1>4, <1>7, <2>2, EnumerationFacts
    <2>4. \A i \in 1..Len(b) : i <= M => b[i] \in K
      <3>1. \A i \in 1..Len(c) : c[i] \in K
        BY <2>2, EnumerationFacts
      <3> QED BY <2>2, <3>1
    <2>5. ASSUME NEW v \in A \ K, NEW w \in K \ A
          PROVE  last[w] = last[v] /\ t[w] >= t[v]
      <3>1. v \in B /\ w \in B
        BY <1>4, <2>2
      <3>2. PICK i \in 1..Len(s) : s[i] = v
        BY <1>3, <3>1 DEF Enumerates
      <3>3. PICK j \in 1..Len(s) : s[j] = w
        BY <1>3, <3>1 DEF Enumerates
      <3>4. PICK k \in 1..Len(b) : b[k] = v
        BY <1>5, <3>1 DEF Enumerates
      <3>5. PICK l \in 1..Len(b) : b[l] = w
        BY <1>5, <3>1 DEF Enumerates
      <3>6. i <= M /\ ~(j <= M) /\ ~(k <= M) /\ l <= M
        BY <1>4, <2>2, <2>4, <3>2, <3>3, <3>4, <3>5
      <3>7. i < j /\ l < k /\ i \in 1..Len(b) /\ j \in 1..Len(b)
        BY <1>1, <1>7, <3>6
      <3>8. Power(t)[v] >= Power(t)[w]
        BY <1>3, <3>2, <3>3, <3>7
      <3>9. t[w] >= t[v]
        BY <1>5, <3>4, <3>5, <3>7 DEF Sorted
      <3>10. Power(t)[w] >= Power(t)[v]
        BY <1>1, <3>1, <3>9, PowerFacts
      <3>11. last[w] = last[v]
        BY <1>1, <3>1, <3>8, <3>10
      <3> QED BY <3>9, <3>11
    <2>6. ASSUME NEW v \in B, v \notin K
          PROVE  ~(Cardinality({w \in B : t[w] >= t[v]}) <= M)
      <3> DEFINE F == {w \in B : t[w] >= t[v]}
      <3>1. PICK j \in 1..Len(b) : b[j] = v
        BY <1>5 DEF Enumerates
      <3>2. ~(j <= M) /\ j \in Nat
        BY <1>7, <2>4, <2>6, <3>1
      <3> DEFINE d == Truncate(b, j)
      <3>3. /\ Enumerates(d, Range(d)) /\ Range(d) \in SUBSET B
            /\ Len(d) = (IF j < Len(b) THEN j ELSE Len(b))
            /\ \A i \in 1..Len(d) : i \in 1..Len(b) /\ d[i] = b[i]
        BY <1>5, <3>2, TruncateFacts
      <3> HIDE DEF d
      <3>4. Len(d) = j
        BY <1>7, <3>1, <3>3
      <3>5. Cardinality(Range(d)) = j /\ DOMAIN d = 1..j
        BY <3>3, <3>4, EnumerationFacts
      <3>6. ASSUME NEW i \in 1..j PROVE t[b[i]] >= t[b[j]]
        <4>1. CASE i = j
          <5>1. t[b[j]] \in Nat
            BY <1>1, <3>1
          <5> QED BY <4>1, <5>1
        <4>2. CASE i # j
          <5>1. i < j /\ i \in 1..Len(b)
            BY <3>2, <3>3, <3>4, <4>2
          <5> QED BY <1>5, <5>1 DEF Sorted
        <4> QED BY <4>1, <4>2
      <3>7. Range(d) \in SUBSET F
        <4> SUFFICES ASSUME NEW i \in 1..j PROVE d[i] \in F
          BY <3>5 DEF Range
        <4>1. d[i] \in B /\ d[i] = b[i]
          BY <3>3, <3>4, <3>5 DEF Range
        <4> QED BY <3>1, <3>6, <4>1
      <3>8. IsFiniteSet(F)
        BY <1>7, FS_Subset
      <3>9. j <= Cardinality(F) /\ Cardinality(F) \in Nat
        <4> HIDE DEF F
        <4> QED BY <3>5, <3>7, <3>8, FS_Subset, FS_CardinalityType
      <3> HIDE DEF F
      <3>10. ~(Cardinality(F) <= M)
        BY <1>1, <3>2, <3>9
      <3> QED BY <3>10 DEF F
    <2>7. FirstByTokens(t, last) \in SUBSET K
      BY <1>6, <2>6
    <2> QED BY <1>9, <2>2, <2>3, <2>5, <2>7 DEF A, B
  <1> QED BY <1>8, <1>9

-----------------------------------------------------------------------------
(* The cap on the powers *)

\* A sum of terms that are at least m.
LEMMA SumAtLeast ==
    ASSUME NEW S, IsFiniteSet(S), NEW f, NEW m \in Int, \A x \in S : f[x] \in Int /\ f[x] >= m
    PROVE  SumOver(f, S) >= Cardinality(S) * m
  <1> DEFINE zero == [x \in S |-> 0]
             minus == [x \in S |-> 0 - f[x]]
  <1>1. \A x \in S : zero[x] \in Int /\ f[x] \in Int /\ minus[x] = zero[x] + (-1) * f[x]
    OBVIOUS
  <1>2. \A x \in S : minus[x] \in Int /\ minus[x] <= 0 - m
    OBVIOUS
  <1>3. \A x \in S : zero[x] = 0
    OBVIOUS
  <1> HIDE DEF zero, minus
  <1>4. SumOver(minus, S) = SumOver(zero, S) + (-1) * SumOver(f, S)
    <2>1. -1 \in Int
      OBVIOUS
    <2> QED BY <1>1, <2>1, SumLinear
  <1>5. SumOver(zero, S) = 0
    BY <1>3, SumZero
  <1>6. SumOver(minus, S) <= Cardinality(S) * (0 - m)
    <2>1. 0 - m \in Int
      OBVIOUS
    <2> QED BY <1>2, <2>1, SumBounded
  <1>7. SumOver(f, S) \in Int /\ Cardinality(S) \in Nat
    BY SumType, FS_CardinalityType
  <1>8. Cardinality(S) * (0 - m) = 0 - Cardinality(S) * m /\ Cardinality(S) * m \in Int
    BY <1>7
  <1> QED BY <1>4, <1>5, <1>6, <1>7, <1>8

\* g is a function by which the loop of Redistribute is computed.
LoopSteps(in, max, g) ==
    LET less == {i \in DOMAIN in : in[i] < max}
        excess == SumOver([i \in DOMAIN in |-> in[i] - max], DOMAIN in \ less)
        Share(remaining, left, old) ==
            IF left = 0 THEN old ELSE remaining \div left
    IN g = [i \in 0 .. Len(in) |->
            IF i = 0
            THEN [new |-> 0, remaining |-> excess, left |-> Cardinality(less),
                  share |-> Share(excess, Cardinality(less), 0)]
            ELSE LET s == g[i - 1]
                     new == Min({max, in[i] + s.share})
                     remaining == s.remaining - (IF i \in less THEN new - in[i] ELSE 0)
                     left == s.left - (IF i \in less THEN 1 ELSE 0)
                 IN [new |-> new, remaining |-> remaining, left |-> left,
                     share |-> Share(remaining, left, s.share)]]

\* Redistribute is computed by such a function.
LEMMA RedistributeIsLoop ==
    ASSUME NEW in, NEW max
    PROVE  Redistribute(in, max)
                = [i \in 1..Len(in) |-> (CHOOSE g : LoopSteps(in, max, g))[i].new]
  BY DEF Redistribute, LoopSteps

\* A step of the loop: i is one of less or not.
LoopNext(in, max, less, s, i) ==
    LET new == Min({max, in[i] + s.share})
        remaining == s.remaining - (IF i \in less THEN new - in[i] ELSE 0)
        left == s.left - (IF i \in less THEN 1 ELSE 0)
    IN [new |-> new, remaining |-> remaining, left |-> left,
        share |-> IF left = 0 THEN s.share ELSE remaining \div left]

\* The state before the loop.
LoopFirst(excess, left) ==
    [new |-> 0, remaining |-> excess, left |-> left,
     share |-> IF left = 0 THEN 0 ELSE excess \div left]

\* g is the run of the loop.
Loop(in, max, n, less, g) ==
    /\ less = {i \in 1..n : in[i] < max}
    /\ g[0] = LoopFirst(SumOver([i \in 1..n |-> in[i] - max], (1..n) \ less), Cardinality(less))
    /\ \A i \in 1..n : g[i] = LoopNext(in, max, less, g[i - 1], i)

\* g is the run that gives the new powers.
LoopGives(in, max, n, g) ==
    /\ Loop(in, max, n, {i \in 1..n : in[i] < max}, g)
    /\ Redistribute(in, max) = [i \in 1..n |-> g[i].new]

\* There is a run, by induction over how far it goes, and it gives the new powers.
LEMMA LoopRuns ==
    ASSUME NEW n \in Nat, NEW in \in [1..n -> Nat], Len(in) = n, NEW max
    PROVE  \E g : LoopGives(in, max, n, g)
  <1> DEFINE less == {i \in 1..n : in[i] < max}
             first == LoopFirst(SumOver([i \in 1..n |-> in[i] - max], (1..n) \ less), Cardinality(less))
             Value(g, i) == IF i = 0 THEN first ELSE LoopNext(in, max, less, g[i - 1], i)
  <1>1. DOMAIN in = 1..n
    OBVIOUS
  <1>2. \A g : LoopSteps(in, max, g) <=> g = [i \in 0..n |-> Value(g, i)]
    BY <1>1 DEF LoopSteps, LoopFirst, LoopNext
  <1> HIDE DEF first, less
  <1> DEFINE Good(g, m) == \A i \in 0..n : i <= m => g[i] = Value(g, i)
             R == {m \in Nat : \E g : Good(g, m)}
  <1>3. 0 \in R
    <2> DEFINE g == [i \in 0..n |-> first]
    <2>1. Good(g, 0)
      OBVIOUS
    <2> QED BY <2>1
  <1>4. ASSUME NEW m \in Nat, m \in R PROVE m + 1 \in R
    <2>1. PICK g : Good(g, m)
      BY <1>4
    <2> DEFINE h == [i \in 0..n |-> IF i = m + 1 THEN Value(g, i) ELSE g[i]]
    <2>2. Good(h, m + 1)
      <3> SUFFICES ASSUME NEW i \in 0..n, i <= m + 1 PROVE h[i] = Value(h, i)
        OBVIOUS
      <3>1. i # 0 => i - 1 \in 0..n /\ h[i - 1] = g[i - 1]
        OBVIOUS
      <3>2. Value(h, i) = Value(g, i)
        BY <3>1
      <3>3. CASE i = m + 1
        BY <3>2, <3>3
      <3>4. CASE i # m + 1
        <4>1. h[i] = g[i] /\ i <= m
          BY <3>4
        <4>2. g[i] = Value(g, i)
          BY <2>1, <4>1
        <4> QED BY <3>2, <4>1, <4>2
      <3> QED BY <3>3, <3>4
    <2> HIDE DEF h, Good
    <2> QED BY <2>2
  <1>5. \A m \in Nat : m \in R
    <2> HIDE DEF R
    <2> QED BY <1>3, <1>4, NatSetInduction
  <1>6. PICK f : Good(f, n)
    BY <1>5
  <1> DEFINE f0 == [i \in 0..n |-> f[i]]
  <1>7. f0 = [i \in 0..n |-> Value(f0, i)]
    <2> SUFFICES ASSUME NEW i \in 0..n PROVE f0[i] = Value(f0, i)
      OBVIOUS
    <2>1. i # 0 => i - 1 \in 0..n /\ f0[i - 1] = f[i - 1]
      OBVIOUS
    <2>2. f[i] = Value(f, i)
      BY <1>6
    <2> QED BY <2>1, <2>2
  <1> HIDE DEF f0
  <1> DEFINE g == CHOOSE h : LoopSteps(in, max, h)
  <1>8. LoopSteps(in, max, g)
    <2>1. LoopSteps(in, max, f0)
      BY <1>2, <1>7
    <2> QED BY <2>1
  <1>9. Redistribute(in, max) = [i \in 1..n |-> g[i].new]
    BY RedistributeIsLoop
  <1> HIDE DEF g
  <1>10. g = [i \in 0..n |-> Value(g, i)]
    BY <1>2, <1>8
  <1>11. g[0] = first
    BY <1>10
  <1>12. ASSUME NEW i \in 1..n PROVE g[i] = LoopNext(in, max, less, g[i - 1], i)
    <2>1. g[i] = Value(g, i)
      <3> HIDE DEF Value
      <3>1. i \in 0..n
        OBVIOUS
      <3> QED BY <1>10, <3>1
    <2> QED BY <2>1
  <1>13. Loop(in, max, n, less, g)
    BY <1>11, <1>12 DEF Loop, first, less
  <1> QED BY <1>9, <1>13 DEF less, LoopGives

\* The validators below max that come after i.
Left(less, i) == {j \in less : j > i}

\* What holds after i steps: left counts the validators below max that are still to
\* come, among which remaining is shared.
LoopState(less, s, i) ==
    /\ s.remaining \in Nat /\ s.share \in Nat /\ s.left \in Nat
    /\ s.left = Cardinality(Left(less, i))
    /\ s.left > 0 => s.share = s.remaining \div s.left

\* What a step does: powers from max on become max, others get a share.
LoopStep(in, max, less, s, r, i) ==
    IF i \in less
    THEN /\ s.left >= 1
         /\ r.new = IF max <= in[i] + s.share THEN max ELSE in[i] + s.share
         /\ r.remaining = s.remaining - (r.new - in[i])
         /\ r.left = s.left - 1
    ELSE /\ r.new = max
         /\ r.remaining = s.remaining /\ r.left = s.left /\ r.share = s.share

\* The validators below max that are to come after step i.
LEMMA LeftFacts ==
    ASSUME NEW less \in SUBSET Int, IsFiniteSet(less), NEW i \in Int, NEW h, h = i - 1
    PROVE  /\ IsFiniteSet(Left(less, h)) /\ IsFiniteSet(Left(less, i))
           /\ Cardinality(Left(less, h)) \in Nat /\ Cardinality(Left(less, i)) \in Nat
           /\ i \in less => /\ i \in Left(less, h) /\ Left(less, i) = Left(less, h) \ {i}
                            /\ Cardinality(Left(less, i)) = Cardinality(Left(less, h)) - 1
           /\ i \notin less => Left(less, i) = Left(less, h)
  <1> DEFINE before == Left(less, h)
             after == Left(less, i)
  <1>1. before \in SUBSET less /\ after \in SUBSET less
    BY DEF Left
  <1>2. \A j \in less : j \in Int /\ ((j > i - 1) <=> (j > i \/ j = i))
    OBVIOUS
  <1>3. ASSUME i \in less PROVE i \in before /\ after = before \ {i}
    <2>1. i \in before
      BY <1>2, <1>3 DEF Left
    <2>2. \A j \in less : j \in after <=> j \in before /\ j # i
      BY <1>2 DEF Left
    <2> QED BY <1>1, <2>1, <2>2
  <1>7. ASSUME i \notin less PROVE after = before
    <2>1. \A j : j \in after <=> j \in before
      BY <1>2, <1>7 DEF Left
    <2> QED BY <2>1
  <1>4. IsFiniteSet(before) /\ IsFiniteSet(after)
    BY <1>1, FS_Subset
  <1>5. Cardinality(before) \in Nat /\ Cardinality(after) \in Nat
    BY <1>4, FS_CardinalityType
  <1>6. i \in less => Cardinality(after) = Cardinality(before) - 1
    BY <1>3, <1>4, FS_RemoveElement
  <1> QED BY <1>3, <1>7, <1>4, <1>5, <1>6

\* A share of a natural number.
LEMMA ShareFacts ==
    ASSUME NEW r \in Nat, NEW l \in Nat, l > 0
    PROVE  /\ r \div l \in Nat /\ (r \div l) * l <= r /\ r < ((r \div l) + 1) * l
           /\ r \div l <= r
  <1> DEFINE q == r \div l
  <1>1. q \in Nat /\ q * l <= r /\ r < (q + 1) * l
    OBVIOUS
  <1> HIDE DEF q
  <1>2. PICK k \in Nat : l = k + 1
    <2>1. l - 1 \in Nat /\ l = (l - 1) + 1
      OBVIOUS
    <2> QED BY <2>1
  <1>3. q * l = q * k + q /\ q * k \in Nat
    BY <1>1, <1>2
  <1>4. q <= r
    BY <1>1, <1>3
  <1> QED BY <1>1, <1>4 DEF q

\* One step of the loop.
LEMMA LoopStepFacts ==
    ASSUME NEW in, NEW max \in Nat, NEW i \in Int, in[i] \in Nat, NEW h, h = i - 1,
           NEW less \in SUBSET Int, IsFiniteSet(less), i \in less <=> in[i] < max,
           NEW s, LoopState(less, s, h), NEW r, r = LoopNext(in, max, less, s, i)
    PROVE  LoopState(less, r, i) /\ LoopStep(in, max, less, s, r, i)
  <1> DEFINE L == Cardinality(Left(less, h))
             L1 == Cardinality(Left(less, i))
  <1>1. /\ s.remaining \in Nat /\ s.share \in Nat /\ s.left \in Nat /\ s.left = L
        /\ s.left > 0 => s.share = s.remaining \div s.left
    BY DEF LoopState
  <1>2. in[i] \in Nat /\ i \in Int /\ (i \in less <=> in[i] < max)
    OBVIOUS
  <1>3. L \in Nat /\ L1 \in Nat /\ (i \in less => L1 = L - 1) /\ (i \notin less => L1 = L)
    BY LeftFacts
  <1> HIDE DEF L, L1
  <1>4. r.new = IF max <= in[i] + s.share THEN max ELSE in[i] + s.share
    <2>1. in[i] + s.share \in Int /\ max \in Int
      BY <1>1, <1>2
    <2>2. r.new = Min({max, in[i] + s.share})
      BY DEF LoopNext
    <2> HIDE DEF LoopNext
    <2> QED BY <2>1, <2>2, MinOfTwo
  <1>5. /\ r.remaining = s.remaining - (IF i \in less THEN r.new - in[i] ELSE 0)
        /\ r.left = s.left - (IF i \in less THEN 1 ELSE 0)
        /\ r.share = IF r.left = 0 THEN s.share ELSE r.remaining \div r.left
    BY DEF LoopNext
  <1>6. CASE i \in less
    <2>1. s.left >= 1 /\ r.left = s.left - 1 /\ r.left \in Nat /\ r.left = L1
      BY <1>1, <1>3, <1>5, <1>6
    <2>2. s.share <= s.remaining
      <3>1. s.left > 0
        BY <1>1, <2>1
      <3> QED BY <1>1, <3>1, ShareFacts
    <2>3. r.remaining = s.remaining - (r.new - in[i]) /\ r.remaining \in Nat
      BY <1>1, <1>2, <1>4, <1>5, <1>6, <2>2
    <2>4. r.share \in Nat /\ (r.left > 0 => r.share = r.remaining \div r.left)
      <3>1. CASE r.left = 0
        BY <1>1, <1>5, <3>1
      <3>2. CASE r.left # 0
        <4>1. r.left > 0
          <5>1. r.left \in Nat
            BY <2>1
          <5> QED BY <3>2, <5>1
        <4>2. r.remaining \div r.left \in Nat
          BY <2>1, <2>3, <4>1, ShareFacts
        <4> QED BY <1>5, <3>2, <4>2
      <3> QED BY <3>1, <3>2
    <2>5. LoopState(less, r, i)
      BY <2>1, <2>3, <2>4 DEF LoopState, L1
    <2> QED BY <1>4, <1>6, <2>1, <2>3, <2>5 DEF LoopStep
  <1>7. CASE i \notin less
    <2>1. r.new = max
      BY <1>1, <1>2, <1>4, <1>7
    <2>2. r.remaining = s.remaining /\ r.left = s.left /\ r.left = L1
      BY <1>1, <1>3, <1>5, <1>7
    <2>3. r.share = s.share
      BY <1>1, <1>5, <2>2
    <2>4. LoopState(less, r, i)
      BY <1>1, <2>2, <2>3 DEF LoopState, L1
    <2> QED BY <1>7, <2>1, <2>2, <2>3, <2>4 DEF LoopStep
  <1> QED BY <1>6, <1>7

\* g is a run of the loop with its numbers as they should be.
LoopRun(in, max, n, less, g) ==
    /\ less = {i \in 1..n : in[i] < max}
    /\ g[0].remaining = SumOver([i \in 1..n |-> in[i] - max], (1..n) \ less)
    /\ \A i \in 0..n : LoopState(less, g[i], i)
    /\ \A i \in 1..n : LoopStep(in, max, less, g[i - 1], g[i], i)

\* Every run is one.
LEMMA LoopFacts ==
    ASSUME NEW n \in Nat, NEW in \in [1..n -> Nat], NEW max \in Nat, NEW less, NEW g,
           Loop(in, max, n, less, g)
    PROVE  LoopRun(in, max, n, less, g)
  <1> DEFINE S == (1..n) \ less
             over == [i \in 1..n |-> in[i] - max]
             E == SumOver(over, S)
             C == Cardinality(less)
             T == {i \in Nat : i <= n => LoopState(less, g[i], i)}
  <1>1. less = {i \in 1..n : in[i] < max} /\ g[0] = LoopFirst(E, C)
    BY DEF Loop
  <1>2. less \in SUBSET (1..n) /\ S \in SUBSET (1..n) /\ \A i \in S : over[i] \in Nat
    BY <1>1
  <1>3. IsFiniteSet(less) /\ IsFiniteSet(S)
    <2>1. IsFiniteSet(1..n)
      BY FS_Interval
    <2> HIDE DEF S
    <2> QED BY <1>2, <2>1, FS_Subset
  <1> HIDE DEF S, over
  <1>4. E \in Nat /\ C \in Nat
    BY <1>2, <1>3, SumNat, FS_CardinalityType
  <1>5. C = Cardinality(Left(less, 0))
    <2>1. \A j \in less : j > 0
      BY <1>2
    <2>2. less = Left(less, 0)
      BY <2>1 DEF Left
    <2> QED BY <2>2
  <1> HIDE DEF E, C
  <1>6. 0 \in T
    <2>1. g[0].remaining = E /\ g[0].left = C /\ g[0].share = IF C = 0 THEN 0 ELSE E \div C
      BY <1>1 DEF LoopFirst
    <2>2. C > 0 => E \div C \in Nat
      BY <1>4, ShareFacts
    <2>3. LoopState(less, g[0], 0)
      BY <1>4, <1>5, <2>1, <2>2 DEF LoopState
    <2> QED BY <2>3
  <1>7. ASSUME NEW i \in Nat, i \in T PROVE i + 1 \in T
    <2> SUFFICES ASSUME i + 1 <= n PROVE LoopState(less, g[i + 1], i + 1)
      OBVIOUS
    <2>1. i + 1 \in 1..n /\ (i + 1) - 1 = i /\ LoopState(less, g[i], i)
      BY <1>7
    <2>2. g[i + 1] = LoopNext(in, max, less, g[i], i + 1)
      BY <2>1 DEF Loop
    <2>3. i + 1 \in Int /\ in[i + 1] \in Nat /\ (i + 1 \in less <=> in[i + 1] < max)
      BY <1>1, <2>1
    <2>4. less \in SUBSET Int
      BY <1>2
    <2> DEFINE k == i + 1
    <2>5. k \in Int /\ i = k - 1
      OBVIOUS
    <2> HIDE DEF k
    <2>6. LoopState(less, g[k], k)
      BY <1>3, <2>1, <2>2, <2>3, <2>4, <2>5, LoopStepFacts DEF k
    <2> QED BY <2>6 DEF k
  <1>8. \A i \in Nat : i \in T
    <2> HIDE DEF T
    <2> QED BY <1>6, <1>7, NatSetInduction
  <1>9. \A i \in 0..n : LoopState(less, g[i], i)
    BY <1>8
  <1>10. ASSUME NEW i \in 1..n PROVE LoopStep(in, max, less, g[i - 1], g[i], i)
    <2>1. i - 1 \in 0..n
      OBVIOUS
    <2>2. LoopState(less, g[i - 1], i - 1) /\ g[i] = LoopNext(in, max, less, g[i - 1], i)
      BY <1>9, <2>1 DEF Loop
    <2>3. i \in Int /\ in[i] \in Nat /\ (i \in less <=> in[i] < max) /\ less \in SUBSET Int
      BY <1>1, <1>2
    <2> DEFINE h == i - 1
    <2>4. h = i - 1
      OBVIOUS
    <2> HIDE DEF h
    <2>5. LoopStep(in, max, less, g[h], g[i], i)
      BY <1>3, <2>2, <2>3, <2>4, LoopStepFacts
    <2> QED BY <2>4, <2>5
  <1>11. g[0].remaining = SumOver([i \in 1..n |-> in[i] - max], (1..n) \ less)
    BY <1>1 DEF LoopFirst, E, S, over
  <1> QED BY <1>1, <1>9, <1>10, <1>11 DEF LoopRun

\* The new powers are natural numbers, do not exceed max, and are not below the old
\* ones unless those were above max.
LEMMA LoopBounds ==
    ASSUME NEW n \in Nat, NEW in \in [1..n -> Nat], NEW max \in Nat, NEW less, NEW g,
           LoopRun(in, max, n, less, g), NEW i \in 1..n
    PROVE  /\ g[i].new \in Nat /\ g[i].new <= max
           /\ i \in less => g[i].new >= in[i] /\ in[i] < max
           /\ i \notin less => g[i].new = max /\ in[i] >= max
  <1>1. i - 1 \in 0..n /\ in[i] \in Nat
    OBVIOUS
  <1>2. g[i - 1].share \in Nat
    BY <1>1 DEF LoopRun, LoopState
  <1>3. LoopStep(in, max, less, g[i - 1], g[i], i) /\ (i \in less <=> in[i] < max)
    BY DEF LoopRun
  <1> QED BY <1>1, <1>2, <1>3 DEF LoopStep

\* The loop gives away all of the excess but what remains at its end.
LEMMA LoopTotal ==
    ASSUME NEW n \in Nat, NEW in \in [1..n -> Nat], NEW max \in Nat, NEW less, NEW g,
           LoopRun(in, max, n, less, g), NEW new, new = [i \in 1..n |-> g[i].new]
    PROVE  /\ SumOver(new, 1..n) = SumOver(in, 1..n) - g[n].remaining
           /\ SumOver(in, 1..n) \in Int /\ g[n].remaining \in Nat
  <1> DEFINE D == 1..n
             gain == [i \in D |-> IF i \in less THEN g[i].new - in[i] ELSE 0]
             loss == [i \in D |-> IF i \in less THEN 0 ELSE in[i] - max]
             up == [i \in D |-> in[i] + gain[i]]
             over == [i \in D |-> in[i] - max]
             T == {i \in Nat : i <= n => g[i].remaining = g[0].remaining - SumOver(gain, 1..i)}
  <1>1. \A i \in D : /\ g[i].new \in Nat /\ in[i] \in Nat /\ new[i] = g[i].new
                     /\ i \notin less => g[i].new = max
    BY LoopBounds
  <1>2. \A i \in D : gain[i] \in Int /\ loss[i] \in Int /\ up[i] \in Int /\ over[i] \in Int
    BY <1>1
  <1>3. \A i \in D : up[i] = in[i] + 1 * gain[i] /\ new[i] = up[i] + (-1) * loss[i]
    BY <1>1
  <1>4. \A i \in 0..n : g[i].remaining \in Nat
    BY DEF LoopRun, LoopState
  <1>5. less \in SUBSET D /\ g[0].remaining = SumOver(over, D \ less)
    BY DEF LoopRun
  <1>6. /\ \A i \in D \ less : over[i] \in Int /\ loss[i] = over[i]
        /\ \A i \in D \ (D \ less) : loss[i] = 0
    BY <1>1, <1>5
  <1>7. ASSUME NEW i \in Nat, i + 1 \in D
        PROVE  g[i + 1].remaining = g[i].remaining - gain[i + 1]
    <2>1. (i + 1) - 1 = i /\ i \in 0..n
      BY <1>7
    <2>2. LoopStep(in, max, less, g[i], g[i + 1], i + 1)
      BY <1>7, <2>1 DEF LoopRun
    <2>3. gain[i + 1] = IF i + 1 \in less THEN g[i + 1].new - in[i + 1] ELSE 0
      BY <1>7
    <2>4. g[i].remaining \in Nat
      BY <1>4, <2>1
    <2> QED BY <2>2, <2>3, <2>4 DEF LoopStep
  <1>8. IsFiniteSet(D)
    BY FS_Interval
  <1> HIDE DEF gain, loss, up, over
  <1>9. 0 \in T
    <2>1. SumOver(gain, 1..0) = 0
      <3>1. 1..0 = {}
        OBVIOUS
      <3> QED BY <3>1, SumEmpty
    <2>2. g[0].remaining \in Nat
      BY <1>4
    <2> QED BY <2>1, <2>2
  <1>10. ASSUME NEW i \in Nat, i \in T PROVE i + 1 \in T
    <2> SUFFICES ASSUME i + 1 <= n
                 PROVE  g[i + 1].remaining = g[0].remaining - SumOver(gain, 1..(i + 1))
      OBVIOUS
    <2>1. i + 1 \in D /\ (\A j \in 1..(i + 1) : gain[j] \in Int) /\ (\A j \in 1..i : gain[j] \in Int)
      BY <1>2
    <2>2. SumOver(gain, 1..(i + 1)) = SumOver(gain, 1..i) + gain[i + 1]
      BY <2>1, SumInterval
    <2>3. SumOver(gain, 1..i) \in Int
      <3>1. IsFiniteSet(1..i)
        BY FS_Interval
      <3> QED BY <2>1, <3>1, SumType
    <2>4. g[i + 1].remaining = g[i].remaining - gain[i + 1]
      BY <1>7, <2>1
    <2>5. g[i].remaining = g[0].remaining - SumOver(gain, 1..i)
      BY <1>10
    <2>6. gain[i + 1] \in Int /\ g[0].remaining \in Nat
      BY <1>2, <1>4, <2>1
    <2> QED BY <2>2, <2>3, <2>4, <2>5, <2>6
  <1>11. \A i \in Nat : i \in T
    <2> HIDE DEF T
    <2> QED BY <1>9, <1>10, NatSetInduction
  <1>12. g[n].remaining = g[0].remaining - SumOver(gain, D)
    BY <1>11
  <1>13. g[0].remaining = SumOver(loss, D)
    <2> DEFINE S == D \ less
    <2>1. S \in SUBSET D /\ IsFiniteSet(S)
      BY <1>8, FS_Subset
    <2>2. /\ \A i \in S : over[i] \in Int /\ loss[i] = over[i]
          /\ \A i \in D \ S : loss[i] = 0
          /\ \A i \in D : loss[i] \in Int
      BY <1>2, <1>6
    <2>3. g[0].remaining = SumOver(over, S)
      BY <1>5
    <2> HIDE DEF S, D
    <2>4. SumOver(over, S) = SumOver(loss, S)
      BY <2>1, <2>2, SumEqual
    <2>5. SumOver(loss, D) = SumOver(loss, S)
      BY <1>8, <2>1, <2>2, SumExtend
    <2> QED BY <2>3, <2>4, <2>5
  <1>14. SumOver(up, D) = SumOver(in, D) + 1 * SumOver(gain, D)
    <2>1. \A i \in D : in[i] \in Int
      OBVIOUS
    <2> HIDE DEF D
    <2>2. \A i \in D : gain[i] \in Int
      BY <1>2
    <2>3. \A i \in D : up[i] = in[i] + 1 * gain[i]
      BY <1>3
    <2>4. 1 \in Int
      OBVIOUS
    <2> QED BY <1>8, <2>1, <2>2, <2>3, <2>4, SumLinear
  <1>15. SumOver(new, D) = SumOver(up, D) + (-1) * SumOver(loss, D)
    <2> HIDE DEF D
    <2>1. \A i \in D : up[i] \in Int /\ loss[i] \in Int
      BY <1>2
    <2>2. \A i \in D : new[i] = up[i] + (-1) * loss[i]
      BY <1>3
    <2>3. -1 \in Int
      OBVIOUS
    <2> QED BY <1>8, <2>1, <2>2, <2>3, SumLinear
  <1>16. SumOver(in, D) \in Int /\ SumOver(gain, D) \in Int /\ SumOver(loss, D) \in Int
    <2>1. \A i \in D : in[i] \in Int /\ gain[i] \in Int /\ loss[i] \in Int
      BY <1>1, <1>2
    <2> HIDE DEF D
    <2> QED BY <1>8, <2>1, SumType
  <1>17. g[n].remaining \in Nat
    BY <1>4
  <1> HIDE DEF D
  <1>18. SumOver(new, D) = SumOver(in, D) - g[n].remaining
    BY <1>12, <1>13, <1>14, <1>15, <1>16
  <1> QED BY <1>16, <1>17, <1>18 DEF D

\* If each of l gets at least c from r, so does each when it is shared.
LEMMA ShareAtLeast ==
    ASSUME NEW r \in Nat, NEW l \in Nat, l > 0, NEW c \in Int, r >= l * c
    PROVE  r \div l >= c
  <1> DEFINE q == r \div l
  <1>1. q \in Nat /\ r < (q + 1) * l
    BY ShareFacts
  <1> HIDE DEF q
  <1>2. SUFFICES ASSUME q < c PROVE FALSE
    BY <1>1 DEF q
  <1>3. PICK d \in Nat : c = q + 1 + d
    <2>1. c - q - 1 \in Nat /\ c = q + 1 + (c - q - 1)
      BY <1>1, <1>2
    <2> QED BY <2>1
  <1>4. l * c = (q + 1) * l + d * l /\ d * l \in Nat /\ (q + 1) * l \in Nat
    BY <1>1, <1>3
  <1> QED BY <1>1, <1>4

\* What is left after one share is a share, rounded up, for each of the others.
LEMMA ShareLeft ==
    ASSUME NEW r \in Nat, NEW l \in Nat, l > 0
    PROVE  r - (r \div l) <= ((r \div l) + 1) * (l - 1)
  <1> DEFINE q == r \div l
  <1>1. q \in Nat /\ r < (q + 1) * l
    BY ShareFacts
  <1> HIDE DEF q
  <1>2. PICK k \in Nat : l = k + 1
    <2>1. l - 1 \in Nat /\ l = (l - 1) + 1
      OBVIOUS
    <2> QED BY <2>1
  <1>3. (q + 1) * l = (q + 1) * k + q + 1 /\ (q + 1) * k \in Nat /\ l - 1 = k
    BY <1>1, <1>2
  <1>4. r - q <= (q + 1) * (l - 1)
    BY <1>1, <1>3
  <1> QED BY <1>4 DEF q

\* Shares stay below a bound.
LEMMA ShareBound ==
    ASSUME NEW r \in Nat, NEW l \in Nat, l > 0, NEW b \in Nat, r <= b * l
    PROVE  r \div l <= b /\ r - (r \div l) <= b * (l - 1)
  <1> DEFINE q == r \div l
  <1>1. q \in Nat /\ q * l <= r
    BY ShareFacts
  <1>2. r - q <= (q + 1) * (l - 1)
    BY ShareLeft
  <1> HIDE DEF q
  <1>3. PICK k \in Nat : l = k + 1
    <2>1. l - 1 \in Nat /\ l = (l - 1) + 1
      OBVIOUS
    <2> QED BY <2>1
  <1>4. q <= b
    <2> SUFFICES ASSUME b < q PROVE FALSE
      BY <1>1
    <2>1. PICK d \in Nat : q = b + 1 + d
      <3>1. q - b - 1 \in Nat /\ q = b + 1 + (q - b - 1)
        BY <1>1
      <3> QED BY <3>1
    <2>2. q * l = b * l + l + d * l /\ d * l \in Nat /\ b * l \in Nat
      BY <2>1
    <2> QED BY <1>1, <2>2
  <1>5. CASE q = b
    <2>1. b * l = b * k + b /\ b * k \in Nat /\ l - 1 = k
      BY <1>3
    <2> QED BY <1>1, <1>4, <1>5, <2>1 DEF q
  <1>6. CASE q # b
    <2>1. PICK d \in Nat : b = q + 1 + d
      <3>1. b - q - 1 \in Nat /\ b = q + 1 + (b - q - 1)
        BY <1>1, <1>4, <1>6
      <3> QED BY <3>1
    <2>2. b * k = (q + 1) * k + d * k /\ d * k \in Nat /\ (q + 1) * k \in Nat /\ l - 1 = k
      BY <1>1, <1>3, <2>1
    <2>3. r - q <= b * (l - 1)
      BY <1>1, <1>2, <2>2
    <2> QED BY <1>4, <2>3 DEF q
  <1> QED BY <1>5, <1>6

\* The powers in decreasing order, the room below max that validators after i have,
\* and c tells how much that is for each.
Descending(in, n) == \A i, j \in 1..n : i <= j => in[i] >= in[j]
Room(c, less, i) == SumOver(c, Left(less, i))

\* A run of the loop over such powers.
Sharing(n, in, max, less, c, g) ==
    /\ n \in Nat /\ in \in [1..n -> Nat] /\ max \in Nat /\ Descending(in, n)
    /\ less = {i \in 1..n : in[i] < max} /\ c = [i \in 1..n |-> max - in[i]]
    /\ LoopRun(in, max, n, less, g)

\* What is known of step i.
LEMMA SharingAt ==
    ASSUME NEW n, NEW in, NEW max, NEW less, NEW c, NEW g, Sharing(n, in, max, less, c, g),
           NEW i \in 1..n, NEW h, h = i - 1
    PROVE  /\ n \in Nat /\ max \in Nat /\ h \in 0..n
           /\ in[i] \in Nat /\ c[i] \in Int /\ c[i] = max - in[i]
           /\ LoopState(less, g[h], h) /\ LoopState(less, g[i], i)
           /\ LoopStep(in, max, less, g[h], g[i], i)
  <1>1. /\ n \in Nat /\ max \in Nat /\ in[i] \in Nat /\ c[i] = max - in[i]
        /\ LoopRun(in, max, n, less, g)
    BY DEF Sharing
  <1>2. h \in 0..n /\ i \in 0..n
    BY <1>1
  <1>3. /\ \A j \in 0..n : LoopState(less, g[j], j)
        /\ \A j \in 1..n : LoopStep(in, max, less, g[j - 1], g[j], j)
    BY <1>1 DEF LoopRun
  <1> QED BY <1>1, <1>2, <1>3

\* The room after a step, which is at least that of its validator for each of the
\* others: the powers decrease.
LEMMA RoomFacts ==
    ASSUME NEW n, NEW in, NEW max, NEW less, NEW c, NEW g, Sharing(n, in, max, less, c, g),
           NEW i \in 1..n, NEW h, h = i - 1
    PROVE  /\ Room(c, less, h) \in Int /\ Room(c, less, i) \in Int
           /\ i \notin less => Room(c, less, i) = Room(c, less, h)
           /\ i \in less => /\ Room(c, less, h) = c[i] + Room(c, less, i)
                            /\ Room(c, less, h) >= Cardinality(Left(less, h)) * c[i]
                            /\ Room(c, less, i) >= Cardinality(Left(less, i)) * c[i]
  <1> DEFINE H == Left(less, h)
             I == Left(less, i)
  <1>1. /\ c[i] \in Int /\ \A j \in less : j \in 1..n /\ c[j] \in Int
        /\ \A j \in less : j >= i => c[j] >= c[i]
    BY DEF Sharing, Descending
  <1>2. less \in SUBSET Int /\ i \in Int /\ IsFiniteSet(less)
    <2>1. n \in Nat /\ less \in SUBSET (1..n)
      BY DEF Sharing
    <2>3. IsFiniteSet(1..n)
      BY <2>1, FS_Interval
    <2>2. IsFiniteSet(less)
      BY <2>1, <2>3, FS_Subset
    <2> QED BY <2>1, <2>2
  <1>3. H \in SUBSET less /\ I \in SUBSET less
    BY DEF Left
  <1>4. /\ \A j \in H : j \in less /\ j >= i
        /\ \A j \in I : j \in less /\ j >= i
    BY <1>1 DEF Left
  <1> HIDE DEF H, I
  <1>5. /\ \A j \in H : c[j] \in Int /\ c[j] >= c[i]
        /\ \A j \in I : c[j] \in Int /\ c[j] >= c[i]
    BY <1>1, <1>4
  <1>6. /\ IsFiniteSet(H) /\ IsFiniteSet(I)
        /\ i \in less => i \in H /\ I = H \ {i}
        /\ i \notin less => I = H
    BY <1>2, LeftFacts DEF H, I
  <1>7. SumOver(c, H) \in Int /\ SumOver(c, I) \in Int
    BY <1>5, <1>6, SumType
  <1>8. SumOver(c, H) >= Cardinality(H) * c[i] /\ SumOver(c, I) >= Cardinality(I) * c[i]
    BY <1>1, <1>5, <1>6, SumAtLeast
  <1>9. i \in less => SumOver(c, H) = c[i] + SumOver(c, I)
    <2> SUFFICES ASSUME i \in less PROVE SumOver(c, H) = c[i] + SumOver(c, I)
      OBVIOUS
    <2>1. i \in H /\ I = H \ {i} /\ \A j \in H : c[j] \in Int
      BY <1>5, <1>6
    <2> QED BY <1>6, <2>1, SumWithout
  <1> QED BY <1>6, <1>7, <1>8, <1>9 DEF Room, H, I

\* If the excess fills the room, everybody ends with max.
LEMMA LoopFills ==
    ASSUME NEW n, NEW in, NEW max, NEW less, NEW c, NEW g, Sharing(n, in, max, less, c, g),
           g[0].remaining >= Room(c, less, 0)
    PROVE  \A i \in 1..n : g[i].new = max
  <1> DEFINE T == {i \in Nat : i <= n => g[i].remaining >= Room(c, less, i)}
  <1>1. n \in Nat
    BY DEF Sharing
  <1>2. ASSUME NEW i \in 1..n, NEW h, h = i - 1, g[h].remaining >= Room(c, less, h)
        PROVE  g[i].new = max /\ g[i].remaining >= Room(c, less, i)
    <2>1. /\ LoopState(less, g[h], h) /\ LoopStep(in, max, less, g[h], g[i], i)
          /\ c[i] = max - in[i] /\ in[i] \in Nat /\ c[i] \in Int /\ max \in Nat
      BY <1>2, SharingAt
    <2>2. /\ Room(c, less, h) \in Int /\ Room(c, less, i) \in Int
          /\ i \notin less => Room(c, less, i) = Room(c, less, h)
          /\ i \in less => /\ Room(c, less, h) = c[i] + Room(c, less, i)
                           /\ Room(c, less, h) >= Cardinality(Left(less, h)) * c[i]
      BY <1>2, RoomFacts
    <2>3. CASE i \notin less
      BY <1>2, <2>1, <2>2, <2>3 DEF LoopStep
    <2>4. CASE i \in less
      <3>1. c[i] = max - in[i] /\ in[i] \in Nat /\ c[i] \in Int
        BY <2>1
      <3>2. /\ g[h].remaining \in Nat /\ g[h].left \in Nat /\ g[h].left > 0 /\ g[h].share \in Nat
            /\ g[h].left = Cardinality(Left(less, h))
            /\ g[h].share = g[h].remaining \div g[h].left
        BY <2>1, <2>4 DEF LoopState, LoopStep
      <3>3. g[h].remaining >= g[h].left * c[i]
        <4>1. g[h].left * c[i] \in Int /\ Room(c, less, h) >= g[h].left * c[i]
          BY <2>2, <2>4, <3>1, <3>2
        <4> QED BY <1>2, <2>2, <3>2, <4>1
      <3>4. g[h].share >= c[i]
        BY <3>1, <3>2, <3>3, ShareAtLeast
      <3>5. /\ g[i].new = IF max <= in[i] + g[h].share THEN max ELSE in[i] + g[h].share
            /\ g[i].remaining = g[h].remaining - (g[i].new - in[i])
        BY <2>1, <2>4 DEF LoopStep
      <3>6. g[i].new = max
        BY <2>1, <3>1, <3>2, <3>4, <3>5
      <3>7. g[i].remaining >= Room(c, less, i)
        BY <1>2, <2>1, <2>2, <2>4, <3>1, <3>2, <3>5, <3>6
      <3> QED BY <3>6, <3>7
    <2> QED BY <2>3, <2>4
  <1>3. 0 \in T
    BY <1>1
  <1>4. ASSUME NEW i \in Nat, i \in T PROVE i + 1 \in T
    <2> SUFFICES ASSUME i + 1 <= n PROVE g[i + 1].remaining >= Room(c, less, i + 1)
      OBVIOUS
    <2>1. i + 1 \in 1..n /\ i = (i + 1) - 1 /\ g[i].remaining >= Room(c, less, i)
      BY <1>1, <1>4
    <2> QED BY <1>2, <2>1
  <1>5. \A i \in Nat : i \in T
    <2> HIDE DEF T
    <2> QED BY <1>3, <1>4, NatSetInduction
  <1>6. ASSUME NEW i \in 1..n PROVE g[i].new = max
    <2> DEFINE h == i - 1
    <2>1. h \in Nat /\ h <= n /\ h = i - 1
      BY <1>1
    <2> HIDE DEF h
    <2>2. g[h].remaining >= Room(c, less, h)
      BY <1>5, <2>1
    <2> QED BY <1>2, <2>1, <2>2
  <1> QED BY <1>6

\* If the excess does not exceed the room, nothing remains.
LEMMA LoopSpends ==
    ASSUME NEW n, NEW in, NEW max, NEW less, NEW c, NEW g, Sharing(n, in, max, less, c, g),
           g[0].remaining <= Room(c, less, 0)
    PROVE  g[n].remaining = 0
  <1> DEFINE T == {i \in Nat : i <= n => g[i].remaining <= Room(c, less, i)}
  <1>1. n \in Nat
    BY DEF Sharing
  <1>2. ASSUME NEW i \in 1..n, NEW h, h = i - 1, g[h].remaining <= Room(c, less, h)
        PROVE  g[i].remaining <= Room(c, less, i)
    <2>1. /\ LoopState(less, g[h], h) /\ LoopState(less, g[i], i)
          /\ LoopStep(in, max, less, g[h], g[i], i)
          /\ c[i] = max - in[i] /\ in[i] \in Nat /\ c[i] \in Int /\ max \in Nat
      BY <1>2, SharingAt
    <2>2. /\ Room(c, less, h) \in Int /\ Room(c, less, i) \in Int
          /\ i \notin less => Room(c, less, i) = Room(c, less, h)
          /\ i \in less => /\ Room(c, less, h) = c[i] + Room(c, less, i)
                           /\ Room(c, less, i) >= Cardinality(Left(less, i)) * c[i]
      BY <1>2, RoomFacts
    <2>3. CASE i \notin less
      BY <1>2, <2>1, <2>2, <2>3 DEF LoopStep
    <2>4. CASE i \in less
      <3> DEFINE q == g[h].share
                 k == g[i].left
      <3>1. c[i] = max - in[i] /\ in[i] \in Nat /\ c[i] \in Int
        BY <2>1
      <3>2. /\ g[h].remaining \in Nat /\ g[h].left \in Nat /\ g[h].left > 0 /\ q \in Nat
            /\ q = g[h].remaining \div g[h].left
            /\ k = g[h].left - 1 /\ k \in Nat /\ k = Cardinality(Left(less, i))
        BY <2>1, <2>4 DEF LoopState, LoopStep
      <3>3. /\ g[i].new = IF max <= in[i] + q THEN max ELSE in[i] + q
            /\ g[i].remaining = g[h].remaining - (g[i].new - in[i])
        BY <2>1, <2>4 DEF LoopStep
      <3>4. g[h].remaining - q <= (q + 1) * k
        BY <3>2, ShareLeft
      <3> HIDE DEF q, k
      <3>5. CASE max <= in[i] + q
        BY <1>2, <2>1, <2>2, <2>4, <3>1, <3>2, <3>3, <3>5
      <3>6. CASE ~(max <= in[i] + q)
        <4>1. c[i] >= q + 1 /\ g[i].remaining = g[h].remaining - q
          BY <2>1, <3>1, <3>2, <3>3, <3>6
        <4>2. PICK d \in Nat : c[i] = q + 1 + d
          <5>1. c[i] - q - 1 \in Nat /\ c[i] = q + 1 + (c[i] - q - 1)
            BY <3>1, <3>2, <4>1
          <5> QED BY <5>1
        <4>3. k * c[i] = (q + 1) * k + d * k /\ d * k \in Nat /\ (q + 1) * k \in Nat
          BY <3>2, <4>2
        <4>4. Room(c, less, i) >= k * c[i]
          BY <2>2, <2>4, <3>2
        <4> QED BY <2>2, <3>2, <3>4, <4>1, <4>3, <4>4
      <3> QED BY <3>5, <3>6
    <2> QED BY <2>3, <2>4
  <1>3. 0 \in T
    BY <1>1
  <1>4. ASSUME NEW i \in Nat, i \in T PROVE i + 1 \in T
    <2> SUFFICES ASSUME i + 1 <= n PROVE g[i + 1].remaining <= Room(c, less, i + 1)
      OBVIOUS
    <2>1. i + 1 \in 1..n /\ i = (i + 1) - 1 /\ g[i].remaining <= Room(c, less, i)
      BY <1>1, <1>4
    <2> QED BY <1>2, <2>1
  <1>5. \A i \in Nat : i \in T
    <2> HIDE DEF T
    <2> QED BY <1>3, <1>4, NatSetInduction
  <1>6. g[n].remaining <= Room(c, less, n)
    BY <1>1, <1>5
  <1>7. Room(c, less, n) = 0
    <2>1. Left(less, n) = {}
      BY DEF Left, Sharing
    <2> QED BY <2>1, SumEmpty DEF Room
  <1>8. g[n].remaining \in Nat
    <2>1. LoopRun(in, max, n, less, g)
      BY DEF Sharing
    <2>2. LoopState(less, g[n], n)
      <3>1. n \in 0..n
        BY <1>1
      <3>2. \A j \in 0..n : LoopState(less, g[j], j)
        BY <2>1 DEF LoopRun
      <3> QED BY <3>1, <3>2
    <2> QED BY <2>2 DEF LoopState
  <1> QED BY <1>6, <1>7, <1>8

\* Nobody overtakes a validator with more power.
LEMMA LoopKeepsOrder ==
    ASSUME NEW n, NEW in, NEW max, NEW less, NEW c, NEW g, Sharing(n, in, max, less, c, g),
           NEW i \in 1..n, NEW j \in 1..n, in[i] > in[j]
    PROVE  g[i].new >= g[j].new
  <1>1. /\ i < j /\ in[i] \in Nat /\ in[j] \in Nat /\ n \in Nat /\ max \in Nat
        /\ i \in Nat /\ j \in Nat
    BY DEF Sharing, Descending
  <1>2. /\ g[i].new \in Nat /\ g[j].new \in Nat /\ g[j].new <= max
        /\ i \notin less => g[i].new = max
    <2>1. n \in Nat /\ in \in [1..n -> Nat] /\ max \in Nat /\ LoopRun(in, max, n, less, g)
      BY DEF Sharing
    <2>2. g[i].new \in Nat /\ (i \notin less => g[i].new = max)
      BY <2>1, LoopBounds
    <2>3. g[j].new \in Nat /\ g[j].new <= max
      BY <2>1, LoopBounds
    <2> QED BY <2>2, <2>3
  <1>3. SUFFICES ASSUME i \in less, g[i].new # max PROVE g[i].new >= g[j].new
    BY <1>2
  <1> DEFINE h == i - 1
             q == g[h].share
             b == q + 1
             T == {d \in Nat : i + d <= n => g[i + d].remaining <= b * g[i + d].left}
  <1>4. /\ LoopState(less, g[h], h) /\ LoopState(less, g[i], i)
        /\ LoopStep(in, max, less, g[h], g[i], i)
    <2>1. h = i - 1
      OBVIOUS
    <2> HIDE DEF h
    <2> QED BY <2>1, SharingAt
  <1>5. /\ g[h].remaining \in Nat /\ g[h].left \in Nat /\ g[h].left > 0 /\ q \in Nat
        /\ q = g[h].remaining \div g[h].left
    BY <1>3, <1>4 DEF LoopState, LoopStep
  <1>6. /\ g[i].new = in[i] + q /\ ~(max <= in[i] + q)
        /\ g[i].remaining = g[h].remaining - (g[i].new - in[i])
        /\ g[i].left = g[h].left - 1
    BY <1>3, <1>4 DEF LoopStep
  <1>7. g[i].remaining <= b * g[i].left
    <2>1. g[h].remaining - q <= (q + 1) * (g[h].left - 1)
      BY <1>5, ShareLeft
    <2> HIDE DEF h, q
    <2>2. g[i].remaining = g[h].remaining - q
      BY <1>1, <1>5, <1>6
    <2> QED BY <1>6, <2>1, <2>2
  <1> HIDE DEF h, q
  <1>8. b \in Nat
    BY <1>5
  <1>9. ASSUME NEW k \in i..(n - 1), g[k].remaining <= b * g[k].left
        PROVE  /\ g[k + 1].remaining <= b * g[k + 1].left
               /\ g[k + 1].new <= in[k + 1] + b
    <2> DEFINE m == k + 1
    <2>1. m \in 1..n /\ k = m - 1 /\ i <= m
      BY <1>1
    <2> HIDE DEF m
    <2>2. in[m] <= in[i] /\ m \in less /\ in[m] \in Nat
      BY <1>1, <1>3, <2>1 DEF Sharing, Descending
    <2>3. LoopState(less, g[k], k) /\ LoopStep(in, max, less, g[k], g[m], m)
      BY <2>1, SharingAt
    <2> DEFINE s == g[k].share
    <2>4. /\ g[k].remaining \in Nat /\ g[k].left \in Nat /\ g[k].left > 0 /\ s \in Nat
          /\ s = g[k].remaining \div g[k].left
          /\ g[m].new = (IF max <= in[m] + s THEN max ELSE in[m] + s)
          /\ g[m].remaining = g[k].remaining - (g[m].new - in[m])
          /\ g[m].left = g[k].left - 1
      BY <2>2, <2>3 DEF LoopState, LoopStep
    <2>5. s <= b /\ g[k].remaining - s <= b * (g[k].left - 1)
      BY <1>8, <1>9, <2>4, ShareBound
    <2> HIDE DEF s
    <2>6. g[m].new = in[m] + s
      <3>1. in[m] + s <= max
        BY <1>1, <1>5, <1>6, <2>2, <2>4, <2>5
      <3> QED BY <1>1, <2>2, <2>4, <3>1
    <2>7. g[m].remaining = g[k].remaining - s
      BY <2>2, <2>4, <2>6
    <2>8. g[m].remaining <= b * g[m].left /\ g[m].new <= in[m] + b
      BY <1>8, <2>2, <2>4, <2>5, <2>6, <2>7
    <2> QED BY <2>8 DEF m
  <1> HIDE DEF b
  <1>10. 0 \in T
    <2>1. i + 0 = i
      BY <1>1
    <2> QED BY <1>7, <2>1
  <1>11. ASSUME NEW d \in Nat, d \in T PROVE d + 1 \in T
    <2> SUFFICES ASSUME i + (d + 1) <= n
                 PROVE  g[i + (d + 1)].remaining <= b * g[i + (d + 1)].left
      OBVIOUS
    <2> DEFINE k == i + d
    <2>1. k \in i..(n - 1) /\ k + 1 = i + (d + 1)
      BY <1>1
    <2>2. g[k].remaining <= b * g[k].left
      BY <1>1, <1>11
    <2> HIDE DEF k
    <2>3. g[k + 1].remaining <= b * g[k + 1].left
      BY <1>9, <2>1, <2>2
    <2> QED BY <2>1, <2>3
  <1>12. \A d \in Nat : d \in T
    <2> HIDE DEF T
    <2> QED BY <1>10, <1>11, NatSetInduction
  <1>13. g[j].new <= in[j] + b
    <2> DEFINE k == j - 1
               d == k - i
    <2>1. k \in i..(n - 1) /\ k + 1 = j /\ d \in Nat /\ i + d = k /\ i + d <= n
      BY <1>1
    <2>2. g[k].remaining <= b * g[k].left
      <3>1. d \in T
        BY <1>12, <2>1
      <3> HIDE DEF d, k
      <3> QED BY <2>1, <3>1
    <2> HIDE DEF k
    <2>3. g[k + 1].new <= in[k + 1] + b
      BY <1>9, <2>1, <2>2
    <2> QED BY <2>1, <2>3
  <1> QED BY <1>1, <1>2, <1>5, <1>6, <1>13 DEF b

\* The length of a list given as a function.
LEMMA LengthOf ==
    ASSUME NEW n \in Nat, NEW S, NEW f \in [1..n -> S]
    PROVE  Len(f) = n /\ f \in Seq(S)
  <1>1. f \in Seq(S)
    BY SeqDef
  <1>2. Len(f) \in Nat /\ DOMAIN f = 1..Len(f) /\ DOMAIN f = 1..n
    BY <1>1, LenProperties
  <1>3. Len(f) = n
    <2>1. \A m \in Nat : 1..m = 1..n => m = n
      <3> SUFFICES ASSUME NEW m \in Nat, 1..m = 1..n PROVE m = n
        OBVIOUS
      <3>1. Cardinality(1..m) = m
        BY FS_Interval
      <3>2. Cardinality(1..n) = n
        BY FS_Interval
      <3> QED BY <3>1, <3>2
    <2> QED BY <1>2, <2>1
  <1> QED BY <1>1, <1>3

\* What Redistribute does to powers in decreasing order.
LEMMA RedistributeFacts ==
    ASSUME NEW n \in Nat, NEW in \in [1..n -> Nat], Descending(in, n), NEW max \in Nat,
           NEW new, new = Redistribute(in, max)
    PROVE  /\ new \in [1..n -> Nat]
           /\ \A i \in 1..n : new[i] <= max /\ (new[i] >= in[i] \/ new[i] = max)
           /\ SumOver(in, 1..n) \in Int /\ SumOver(new, 1..n) \in Int
           /\ SumOver(new, 1..n) <= n * max
           /\ SumOver(new, 1..n) <= SumOver(in, 1..n)
           /\ SumOver(new, 1..n) = SumOver(in, 1..n) \/ SumOver(new, 1..n) = n * max
           /\ \A i, j \in 1..n : in[i] > in[j] => new[i] >= new[j]
  <1> DEFINE less == {i \in 1..n : in[i] < max}
             c == [i \in 1..n |-> max - in[i]]
  <1>1. PICK g : Loop(in, max, n, less, g) /\ new = [i \in 1..n |-> g[i].new]
    <2>1. Len(in) = n
      BY LengthOf
    <2>2. \E g : LoopGives(in, max, n, g)
      BY <2>1, LoopRuns
    <2> QED BY <2>2 DEF LoopGives
  <1>2. LoopRun(in, max, n, less, g)
    <2> HIDE DEF less
    <2> QED BY <1>1, LoopFacts
  <1>3. Sharing(n, in, max, less, c, g)
    BY <1>2 DEF Sharing
  <1> HIDE DEF less, c
  <1>4. \A i \in 1..n : /\ new[i] = g[i].new /\ g[i].new \in Nat /\ g[i].new <= max
                        /\ g[i].new >= in[i] \/ g[i].new = max
    <2> TAKE i \in 1..n
    <2>1. /\ g[i].new \in Nat /\ g[i].new <= max
          /\ i \in less => g[i].new >= in[i]
          /\ i \notin less => g[i].new = max
      BY <1>2, LoopBounds
    <2> QED BY <1>1, <2>1
  <1>5. new \in [1..n -> Nat]
    BY <1>1, <1>4
  <1>6. /\ SumOver(new, 1..n) = SumOver(in, 1..n) - g[n].remaining
        /\ SumOver(in, 1..n) \in Int /\ g[n].remaining \in Nat
    BY <1>1, <1>2, LoopTotal
  <1>7. IsFiniteSet(1..n) /\ Cardinality(1..n) = n
    BY FS_Interval
  <1>8. SumOver(new, 1..n) <= n * max
    <2>1. \A i \in 1..n : new[i] \in Int /\ new[i] <= max
      BY <1>4
    <2> DEFINE D == 1..n
    <2>2. max \in Int /\ IsFiniteSet(D) /\ \A i \in D : new[i] \in Int /\ new[i] <= max
      BY <1>7, <2>1
    <2> HIDE DEF D
    <2>3. SumOver(new, D) <= Cardinality(D) * max
      BY <2>2, SumBounded
    <2> QED BY <1>7, <2>3 DEF D
  <1>9. \A i, j \in 1..n : in[i] > in[j] => new[i] >= new[j]
    BY <1>3, <1>4, LoopKeepsOrder, SMTT(30)
  <1>10. SumOver(new, 1..n) = SumOver(in, 1..n) \/ SumOver(new, 1..n) >= n * max
    <2>1. Room(c, less, 0) \in Int /\ g[0].remaining \in Nat
      <3>1. IsFiniteSet(Left(less, 0)) /\ \A i \in Left(less, 0) : c[i] \in Int
        <4>1. less \in SUBSET (1..n) /\ Left(less, 0) \in SUBSET less
          BY DEF less, Left
        <4>2. \A i \in 1..n : c[i] \in Int
          BY DEF c
        <4>3. IsFiniteSet(Left(less, 0))
          <5>1. Left(less, 0) \in SUBSET (1..n)
            BY <4>1
          <5> QED BY <1>7, <5>1, FS_Subset
        <4> QED BY <4>1, <4>2, <4>3
      <3>2. Room(c, less, 0) \in Int
        BY <3>1, SumType DEF Room
      <3>3. LoopState(less, g[0], 0)
        <4>1. 0 \in 0..n
          OBVIOUS
        <4>2. \A j \in 0..n : LoopState(less, g[j], j)
          BY <1>2 DEF LoopRun
        <4> QED BY <4>1, <4>2
      <3> QED BY <3>2, <3>3 DEF LoopState
    <2>2. CASE g[0].remaining <= Room(c, less, 0)
      <3>1. g[n].remaining = 0
        BY <1>3, <2>2, LoopSpends
      <3> QED BY <1>6, <3>1
    <2>3. CASE ~(g[0].remaining <= Room(c, less, 0))
      <3>1. g[0].remaining >= Room(c, less, 0)
        BY <2>1, <2>3
      <3>2. \A i \in 1..n : g[i].new = max
        BY <1>3, <3>1, LoopFills
      <3>3. \A i \in 1..n : new[i] \in Int /\ new[i] >= max
        BY <1>4, <3>2
      <3> DEFINE D == 1..n
      <3>4. max \in Int /\ IsFiniteSet(D) /\ \A i \in D : new[i] \in Int /\ new[i] >= max
        BY <1>7, <3>3
      <3> HIDE DEF D
      <3>5. SumOver(new, D) >= Cardinality(D) * max
        BY <3>4, SumAtLeast
      <3> QED BY <1>7, <3>5 DEF D
    <2> QED BY <2>2, <2>3
  <1>11. n * max \in Int
    OBVIOUS
  <1>12. /\ SumOver(new, 1..n) \in Int /\ SumOver(new, 1..n) <= SumOver(in, 1..n)
         /\ SumOver(new, 1..n) = SumOver(in, 1..n) \/ SumOver(new, 1..n) = n * max
    <2> HIDE DEF Redistribute
    <2> QED BY <1>6, <1>8, <1>10, <1>11
  <1>13. \A i \in 1..n : new[i] <= max /\ (new[i] >= in[i] \/ new[i] = max)
    BY <1>4
  <1> QED BY <1>5, <1>6, <1>8, <1>9, <1>12, <1>13

\* The powers after the cap, of the validators of S: new from old.
Capped(S, old, new, max) ==
    /\ \A v \in S : new[v] <= max /\ new[v] >= Min({old[v], max})
    /\ SumOver(new, S) = Min({SumOver(old, S), Cardinality(S) * max})
    /\ \A v, w \in S : old[v] > old[w] => new[v] >= new[w]

\* MaxPower is a power.
LEMMA MaxPowerFacts ==
    ASSUME NEW S, IsFiniteSet(S), NEW power, \A v \in S : power[v] \in Nat, NEW percent \in Nat
    PROVE  MaxPower(S, power, percent) \in Nat \ {0}
  <1>1. SumOver(power, S) \in Nat
    BY SumNat
  <1>2. SumOver(power, S) * percent \in Nat
    BY <1>1
  <1>3. (SumOver(power, S) * percent) \div 100 \in Nat
    <2> DEFINE x == SumOver(power, S) * percent
    <2>1. x \in Nat
      BY <1>2
    <2> HIDE DEF x
    <2>2. x \div 100 \in Nat
      BY <2>1
    <2> QED BY <2>2 DEF x
  <1> QED BY <1>3 DEF MaxPower, TotalPower

\* NoMoreThanPercentOfTheSum caps the powers.
LEMMA NoMoreThanFacts ==
    ASSUME NEW S, NEW list, Enumerates(list, S), NEW power, \A v \in S : power[v] \in Nat,
           NEW percent \in Nat, NEW new, new = NoMoreThanPercentOfTheSum(list, power, percent)
    PROVE  new \in [S -> Nat] /\ Capped(S, power, new, MaxPower(S, power, percent))
  <1> DEFINE max == MaxPower(S, power, percent)
             s == SortDescending(list, power)
             n == Len(s)
             D == 1..n
             in == [i \in D |-> power[s[i]]]
             out == Redistribute(in, max)
             index == [v \in S |-> CHOOSE i \in D : s[i] = v]
  <1>1. Range(list) = S /\ IsFiniteSet(S) /\ Cardinality(S) = Len(list)
    BY EnumerationFacts
  <1>2. max \in Nat
    BY <1>1, MaxPowerFacts
  <1>3. Enumerates(s, S) /\ Sorted(s, list, power)
    BY SortFacts
  <1>4. n \in Nat /\ DOMAIN s = D /\ s \in [D -> S] /\ Cardinality(S) = n
    BY <1>3, EnumerationFacts
  <1>5. new = [v \in S |-> out[CHOOSE i \in D : s[i] = v]]
    BY <1>1, <1>4 DEF NoMoreThanPercentOfTheSum
  <1> HIDE DEF max, s, n
  <1>6. in \in [D -> Nat] /\ Descending(in, n)
    <2>1. \A i \in D : s[i] \in S /\ power[s[i]] \in Nat /\ in[i] = power[s[i]]
      BY <1>4
    <2>2. \A i, j \in D : i < j => power[s[i]] >= power[s[j]]
      BY <1>3 DEF Sorted, n
    <2>3. ASSUME NEW i \in D, NEW j \in D, i <= j PROVE in[i] >= in[j]
      <3>1. CASE i = j
        BY <2>1, <3>1
      <3>2. CASE i # j
        <4>1. i < j
          BY <1>4, <2>3, <3>2
        <4> QED BY <2>1, <2>2, <4>1
      <3> QED BY <3>1, <3>2
    <2>4. in \in [D -> Nat]
      BY <2>1
    <2> QED BY <2>3, <2>4 DEF Descending
  <1>7. \A v \in S : index[v] \in D /\ s[index[v]] = v
    <2>1. \A v \in S : \E i \in D : s[i] = v
      BY <1>3 DEF Enumerates, n
    <2> QED BY <2>1
  <1>8. \A i \in D : index[s[i]] = i
    <2> TAKE i \in D
    <2>1. s[i] \in S
      BY <1>4
    <2>2. index[s[i]] \in D /\ s[index[s[i]]] = s[i]
      BY <1>7, <2>1
    <2> HIDE DEF index
    <2> QED BY <1>3, <2>2 DEF Enumerates, n
  <1>9. \A v \in S : new[v] = out[index[v]]
    BY <1>5
  <1>10. \A v \in S : in[index[v]] = power[v]
    BY <1>7
  <1>11. \A i \in D : in[i] = power[s[i]] /\ in[i] \in Nat /\ s[i] \in S
    BY <1>4, <1>6
  <1>23. new = [v \in S |-> new[v]]
    BY <1>5
  <1> HIDE DEF in, index
  <1>12. /\ out \in [D -> Nat]
         /\ \A i \in D : out[i] <= max /\ (out[i] >= in[i] \/ out[i] = max)
         /\ SumOver(in, D) \in Int /\ SumOver(out, D) \in Int
         /\ SumOver(out, D) <= n * max
         /\ SumOver(out, D) <= SumOver(in, D)
         /\ SumOver(out, D) = SumOver(in, D) \/ SumOver(out, D) = n * max
         /\ \A i, j \in D : in[i] > in[j] => out[i] >= out[j]
    BY <1>2, <1>4, <1>6, RedistributeFacts
  <1> HIDE DEF out
  <1>13. new \in [S -> Nat]
    <2>1. \A v \in S : new[v] \in Nat
      BY <1>7, <1>9, <1>12
    <2> QED BY <1>23, <2>1
  <1>14. ASSUME NEW v \in S PROVE new[v] <= max /\ new[v] >= Min({power[v], max})
    <2>1. new[v] \in Nat /\ power[v] \in Nat /\ new[v] <= max /\ (new[v] >= power[v] \/ new[v] = max)
      BY <1>7, <1>9, <1>10, <1>12, <1>13
    <2>2. Min({power[v], max}) = IF power[v] <= max THEN power[v] ELSE max
      BY <1>2, <2>1, MinOfTwo
    <2> QED BY <1>2, <2>1, <2>2
  <1>15. {s[i] : i \in D} = S
    <2>1. \A v \in S : \E i \in D : s[i] = v
      BY <1>3 DEF Enumerates, n
    <2> QED BY <1>4, <2>1
  <1>16. IsFiniteSet(D)
    BY <1>4, FS_Interval
  <1>22. \A i, j \in D : s[i] = s[j] => i = j
    BY <1>3 DEF Enumerates, n
  <1>17. SumOver(in, D) = SumOver(power, S)
    <2>1. /\ \A i \in D : in[i] \in Int /\ power[s[i]] = in[i]
          /\ \A v \in S : power[v] \in Int
      BY <1>11
    <2> HIDE DEF D
    <2>2. SumOver(in, D) = SumOver(power, {s[i] : i \in D})
      BY <1>1, <1>4, <1>16, <1>22, <2>1, SumReindex
    <2> QED BY <1>15, <2>2
  <1>18. SumOver(out, D) = SumOver(new, S)
    <2>1. \A i \in D : out[i] \in Int /\ new[s[i]] = out[i]
      BY <1>8, <1>9, <1>11, <1>12
    <2>2. \A v \in S : new[v] \in Int
      BY <1>13
    <2> HIDE DEF D
    <2>3. SumOver(out, D) = SumOver(new, {s[i] : i \in D})
      BY <1>1, <1>4, <1>16, <1>22, <2>1, <2>2, SumReindex
    <2> QED BY <1>15, <2>3
  <1>19. SumOver(new, S) = Min({SumOver(power, S), Cardinality(S) * max})
    <2>1. Cardinality(S) * max \in Int /\ Cardinality(S) * max = n * max
      BY <1>2, <1>4
    <2>2. SumOver(power, S) \in Int
      BY <1>12, <1>17
    <2>3. Min({SumOver(power, S), Cardinality(S) * max})
            = IF SumOver(power, S) <= Cardinality(S) * max THEN SumOver(power, S)
              ELSE Cardinality(S) * max
      BY <2>1, <2>2, MinOfTwo
    <2> QED BY <1>12, <1>17, <1>18, <2>1, <2>2, <2>3
  <1>20. ASSUME NEW v \in S, NEW w \in S, power[v] > power[w] PROVE new[v] >= new[w]
    <2>1. index[v] \in D /\ index[w] \in D /\ in[index[v]] > in[index[w]]
      BY <1>7, <1>10, <1>20
    <2> QED BY <1>9, <1>12, <2>1
  <1>21. Capped(S, power, new, max)
    BY <1>14, <1>19, <1>20 DEF Capped
  <1> QED BY <1>13, <1>21 DEF max

-----------------------------------------------------------------------------
(* The next consumer validator set *)

\* CapValidatorsPower gives each validator of the list a power.
LEMMA CapPowerFacts ==
    ASSUME NEW S, NEW list, Enumerates(list, S), NEW power, \A v \in S : power[v] \in Nat,
           NEW percent \in Nat, NEW new, new = CapValidatorsPower(list, power, percent)
    PROVE  /\ new \in [S -> Nat]
           /\ percent = 0 => \A v \in S : new[v] = power[v]
           /\ percent # 0 => Capped(S, power, new, MaxPower(S, power, percent))
  <1>1. CASE percent = 0
    <2>1. new = [v \in S |-> power[v]]
      BY <1>1, EnumerationFacts DEF CapValidatorsPower, Restrict
    <2> QED BY <1>1, <2>1
  <1>2. CASE percent # 0
    <2>1. new = NoMoreThanPercentOfTheSum(list, power, percent)
      BY <1>2 DEF CapValidatorsPower
    <2> QED BY <1>2, <2>1, NoMoreThanFacts
  <1> QED BY <1>1, <1>2

\* The validators that are considered, and those that may validate the chain.
Considered(p, t, last) == Range(ConsideredValidators(p, t, last))
Fit(p, opted, t, last, min) ==
    {v \in Vals : CanValidateChain(p, opted, last, min, v) /\ FulfillsMinStake(p, t, v)}

\* R is what SelectValidators takes of F.
Selected(p, last, R, F) ==
    /\ R \in SUBSET F
    /\ p.Top_N > 0 \/ p.ValidatorSetCap = 0 => R = F
    /\ ~(p.Top_N > 0 \/ p.ValidatorSetCap = 0) =>
          /\ Cardinality(R) <= p.ValidatorSetCap
          /\ \A v \in F \ R :
                /\ Cardinality(R) = p.ValidatorSetCap
                /\ \A w \in R : ~Outranks(v, w, p.Prioritylist, last)

\* SelectValidators takes all of those that are both, unless the cap of an Opt In
\* chain cuts off some that outrank nobody who is taken.
LEMMA SelectFacts ==
    ASSUME NEW p \in PowerShapingParameters, NEW opted, NEW t, NEW last, Stake(t, last), NEW min,
           NEW s, s = SelectValidators(p, opted, t, last, min)
    PROVE  /\ Enumerates(s, Range(s))
           /\ Selected(p, last, Range(s),
                       Considered(p, t, last) \cap Fit(p, opted, t, last, min))
  <1> DEFINE R == Range(s)
             F == Considered(p, t, last) \cap Fit(p, opted, t, last, min)
  <1> SUFFICES /\ Enumerates(s, R) /\ R \in SUBSET F
               /\ p.Top_N > 0 \/ p.ValidatorSetCap = 0 => R = F
               /\ ~(p.Top_N > 0 \/ p.ValidatorSetCap = 0) =>
                     /\ Cardinality(R) <= p.ValidatorSetCap
                     /\ \A v \in F \ R :
                           /\ Cardinality(R) = p.ValidatorSetCap
                           /\ \A w \in R : ~Outranks(v, w, p.Prioritylist, last)
    BY DEF Selected
  <1>10. R = Range(s) /\ F = Considered(p, t, last) \cap Fit(p, opted, t, last, min)
    OBVIOUS
  <1> HIDE DEF R, F
  <1> DEFINE c == ConsideredValidators(p, t, last)
             K == Considered(p, t, last)
             A == Fit(p, opted, t, last, min)
             f == Filter(c, A)
             l == PartitionBasedOnPriorityList(f, last, p.Prioritylist)
             cap == p.ValidatorSetCap
  <1>1. cap \in Nat
    BY DEF PowerShapingParameters
  <1>2. Enumerates(c, K) /\ K \in SUBSET Bonded(t, last)
    <2>1. K = Range(c)
      BY DEF Considered
    <2> QED BY <2>1, ConsideredFacts
  <1>3. s = CapValidatorSet(l, p.Top_N, cap)
    BY DEF SelectValidators, Fit
  <1> HIDE DEF c, K, A
  <1>4. Enumerates(f, F)
    BY <1>2, <1>10, FilterFacts DEF K, A
  <1>5. \A v \in F : last[v] \in Int
    <2>1. last \in [Vals -> Nat] /\ Bonded(t, last) \in SUBSET Vals
      BY DEF Stake, Bonded
    <2> QED BY <1>2, <1>10, <2>1 DEF K
  <1> HIDE DEF f
  <1>6. /\ Enumerates(l, F)
        /\ \A i, j \in 1..Len(l) : i < j => ~Outranks(l[j], l[i], p.Prioritylist, last)
    BY <1>4, <1>5, PartitionFacts
  <1> HIDE DEF l
  <1>7. Range(l) = F /\ Len(l) \in Nat /\ Cardinality(F) = Len(l)
    BY <1>6, EnumerationFacts
  <1>8. CASE p.Top_N > 0 \/ cap = 0
    <2>1. s = l
      BY <1>3, <1>8 DEF CapValidatorSet
    <2>2. R = F
      BY <1>7, <1>10, <2>1
    <2> HIDE DEF cap
    <2> QED BY <1>6, <1>8, <2>1, <2>2 DEF cap
  <1>9. CASE ~(p.Top_N > 0 \/ cap = 0)
    <2>1. s = Truncate(l, cap)
      BY <1>3, <1>9 DEF CapValidatorSet
    <2> HIDE DEF cap
    <2>2. /\ Enumerates(s, R) /\ R \in SUBSET F
          /\ Len(s) = (IF cap < Len(l) THEN cap ELSE Len(l))
          /\ \A i \in 1..Len(s) : i \in 1..Len(l) /\ s[i] = l[i]
          /\ \A i \in 1..Len(l) : i <= cap => i \in 1..Len(s)
      BY <1>1, <1>6, <1>10, <2>1, TruncateFacts
    <2>3. Cardinality(R) = Len(s) /\ Len(s) \in Nat /\ DOMAIN s = 1..Len(s)
      BY <2>2, EnumerationFacts
    <2>4. Cardinality(R) <= cap
      BY <1>1, <1>7, <2>2, <2>3
    <2>5. ASSUME NEW v \in F \ R
          PROVE  Cardinality(R) = cap /\ \A w \in R : ~Outranks(v, w, p.Prioritylist, last)
      <3>1. PICK j \in 1..Len(l) : l[j] = v
        BY <1>6 DEF Enumerates
      <3>2. j \notin 1..Len(s)
        <4> SUFFICES ASSUME j \in 1..Len(s) PROVE FALSE
          OBVIOUS
        <4>1. s[j] = v
          BY <2>2, <3>1
        <4> QED BY <1>10, <2>3, <4>1 DEF Range
      <3>3. ~(j <= cap) /\ Len(s) < j
        BY <1>7, <2>2, <2>3, <3>1, <3>2
      <3>4. Cardinality(R) = cap
        BY <1>1, <1>7, <2>2, <2>3, <3>1, <3>3
      <3>5. ASSUME NEW w \in R PROVE ~Outranks(v, w, p.Prioritylist, last)
        <4>1. PICK i \in 1..Len(s) : s[i] = w
          BY <2>2 DEF Enumerates
        <4>3. i \in 1..Len(l) /\ l[i] = w
          BY <2>2, <4>1
        <4>4. i < j
          BY <2>3, <3>1, <3>3, <4>1
        <4>2. i \in 1..Len(l) /\ l[i] = w /\ i < j
          BY <4>3, <4>4
        <4> QED BY <1>6, <3>1, <4>2
      <3> QED BY <3>4, <3>5
    <2> QED BY <1>9, <2>2, <2>4, <2>5 DEF cap
  <1> QED BY <1>8, <1>9 DEF cap

\* The computation of a set next, from the opted-in validators old and the stored
\* set, at height h.
Computed(p, old, t, last, set, h, min, opted, next) ==
    /\ p \in PowerShapingParameters /\ old \in SUBSET Vals /\ Stake(t, last)
    /\ min = IF p.Top_N > 0
             THEN ComputeMinPowerInTopN(GetLastProviderConsensusActiveValidators(t, last),
                                        last, p.Top_N)
             ELSE 0
    /\ opted = IF p.Top_N > 0
               THEN OptInTopNValidators(old, GetLastProviderConsensusActiveValidators(t, last),
                                        last, min)
               ELSE old
    /\ next = ComputeNextValidators(p, opted, t, last, min, set, h)

\* The top N percent, with the parameters as an argument.
Top(p, t, last) ==
    {v \in Active(t, last) :
        Above(Active(t, last), last, last[v]) * 100
            < p.Top_N * SumOver(last, Active(t, last))}

\* A Top N is at least one percent.
LEMMA TopNFacts ==
    ASSUME NEW p \in PowerShapingParameters
    PROVE  /\ p.Top_N \in Nat /\ (p.Top_N > 0 => p.Top_N \in 1..100)
           /\ p.ValidatorsPowerCap \in Nat /\ p.ValidatorSetCap \in Nat
  BY DEF PowerShapingParameters

\* The minimum power that is computed, and who is opted in.
LEMMA ComputedMinimum ==
    ASSUME NEW p, NEW old, NEW t, NEW last, NEW set, NEW h, NEW min, NEW opted, NEW next,
           Computed(p, old, t, last, set, h, min, opted, next)
    PROVE  /\ min \in Nat /\ opted \in SUBSET Vals
           /\ p.Top_N = 0 => opted = old
           /\ p.Top_N > 0 =>
                 /\ opted = old \cup {v \in Active(t, last) : last[v] >= min}
                 /\ \E w \in Top(p, t, last) : last[w] = min
                 /\ \A v \in Top(p, t, last) : last[v] >= min
  <1> DEFINE a == GetLastProviderConsensusActiveValidators(t, last)
             A == Active(t, last)
  <1>1. /\ p \in PowerShapingParameters /\ old \in SUBSET Vals
        /\ t \in [Vals -> Nat] /\ last \in [Vals -> Nat]
        /\ \E v \in Vals : Power(t)[v] > 0 /\ last[v] > 0
    BY DEF Computed, Stake
  <1>2. p.Top_N \in Nat /\ (p.Top_N > 0 => p.Top_N \in 1..100)
    BY <1>1, TopNFacts
  <1>3. /\ Bonded(t, last) # {} /\ Bonded(t, last) \in SUBSET Vals
        /\ \A v \in Bonded(t, last) : last[v] > 0
    BY <1>1 DEF Bonded
  <1>4. Enumerates(a, A) /\ A \in SUBSET Bonded(t, last) /\ A # {} /\ Range(a) = A
    BY <1>1, <1>3, ActiveFacts
  <1>5. CASE p.Top_N = 0
    <2>1. min = 0 /\ opted = old
      BY <1>5 DEF Computed
    <2> QED BY <1>1, <1>5, <2>1
  <1>6. CASE p.Top_N > 0
    <2>1. min = ComputeMinPowerInTopN(a, last, p.Top_N)
      BY <1>6 DEF Computed
    <2>2. opted = OptInTopNValidators(old, a, last, min)
      BY <1>6 DEF Computed
    <2>3. opted = old \cup {v \in A : last[v] >= min}
      BY <1>4, <2>2 DEF OptInTopNValidators
    <2> HIDE DEF a, A
    <2>4. A \in SUBSET Vals /\ \A v \in A : last[v] \in Nat /\ last[v] > 0
      BY <1>1, <1>3, <1>4
    <2>5. p.Top_N \in 1..100
      BY <1>2, <1>6
    <2>6. /\ min \in Nat
          /\ (\A v \in A : last[v] > 0) =>
                \E w \in A : /\ last[w] = min
                             /\ Above(A, last, min) * 100 < p.Top_N * SumOver(last, A)
          /\ \A v \in A : Above(A, last, last[v]) * 100 < p.Top_N * SumOver(last, A)
                             => last[v] >= min
      BY <1>4, <2>1, <2>4, <2>5, MinPowerFacts, SMTT(30)
    <2>7. Top(p, t, last) = {v \in A : Above(A, last, last[v]) * 100 < p.Top_N * SumOver(last, A)}
      BY DEF Top, A
    <2>8. \E w \in A : /\ last[w] = min
                       /\ Above(A, last, last[w]) * 100 < p.Top_N * SumOver(last, A)
      BY <2>4, <2>6
    <2>9. \E w \in Top(p, t, last) : last[w] = min
      BY <2>7, <2>8
    <2>10. \A v \in Top(p, t, last) : last[v] >= min
      BY <2>6, <2>7
    <2>11. opted \in SUBSET Vals
      BY <1>1, <2>3, <2>4
    <2> QED BY <1>6, <2>3, <2>6, <2>9, <2>10, <2>11 DEF A
  <1> QED BY <1>2, <1>5, <1>6

\* The validators of the set that is computed.
LEMMA ComputedMembers ==
    ASSUME NEW p, NEW old, NEW t, NEW last, NEW set, NEW h, NEW min, NEW opted, NEW next,
           Computed(p, old, t, last, set, h, min, opted, next)
    PROVE  Selected(p, last, DOMAIN next,
                    Considered(p, t, last) \cap Fit(p, opted, t, last, min))
  <1> DEFINE s == SelectValidators(p, opted, t, last, min)
             new == CapValidatorsPower(s, last, p.ValidatorsPowerCap)
  <1>1. /\ p \in PowerShapingParameters /\ Stake(t, last)
        /\ next = ComputeNextValidators(p, opted, t, last, min, set, h)
    BY DEF Computed
  <1>2. next = [v \in Range(s) |-> CreateConsumerValidator(set, v, new[v], h)]
    BY <1>1 DEF ComputeNextValidators
  <1>3. DOMAIN next = Range(s)
    BY <1>2
  <1> QED BY <1>1, <1>3, SelectFacts

\* The entries of a computed set: powers and join heights.
Entries(p, last, set, h, next) ==
    LET R == DOMAIN next
    IN /\ R \in SUBSET Vals
       /\ \A v \in R :
             /\ next[v].power \in Nat
             /\ next[v].JoinHeight = IF v \in DOMAIN set THEN set[v].JoinHeight ELSE h
       /\ p.ValidatorsPowerCap = 0 => \A v \in R : next[v].power = last[v]
       /\ p.ValidatorsPowerCap # 0 =>
             Capped(R, last, [v \in R |-> next[v].power],
                    MaxPower(R, last, p.ValidatorsPowerCap))

\* What is stored for each validator of the set that is computed.
LEMMA ComputedEntries ==
    ASSUME NEW p, NEW old, NEW t, NEW last, NEW set, NEW h, NEW min, NEW opted, NEW next,
           Computed(p, old, t, last, set, h, min, opted, next)
    PROVE  Entries(p, last, set, h, next)
  <1> DEFINE R == DOMAIN next
  <1> DEFINE s == SelectValidators(p, opted, t, last, min)
             new == CapValidatorsPower(s, last, p.ValidatorsPowerCap)
  <1>1. /\ p \in PowerShapingParameters /\ Stake(t, last) /\ last \in [Vals -> Nat]
        /\ next = ComputeNextValidators(p, opted, t, last, min, set, h)
    BY DEF Computed, Stake
  <1>2. next = [v \in Range(s) |-> CreateConsumerValidator(set, v, new[v], h)]
    BY <1>1 DEF ComputeNextValidators
  <1>3. R = Range(s)
    BY <1>2
  <1> HIDE DEF s
  <1>4. Enumerates(s, R) /\ R \in SUBSET Fit(p, opted, t, last, min)
    BY <1>1, <1>3, SelectFacts DEF s, Selected
  <1>5. R \in SUBSET Vals /\ \A v \in R : last[v] \in Nat
    BY <1>1, <1>4 DEF Fit
  <1>6. p.ValidatorsPowerCap \in Nat
    BY <1>1, TopNFacts
  <1>7. /\ new \in [R -> Nat]
        /\ p.ValidatorsPowerCap = 0 => \A v \in R : new[v] = last[v]
        /\ p.ValidatorsPowerCap # 0 => Capped(R, last, new, MaxPower(R, last, p.ValidatorsPowerCap))
    BY <1>4, <1>5, <1>6, CapPowerFacts
  <1> HIDE DEF new
  <1>8. \A v \in R :
           /\ next[v].power = new[v]
           /\ next[v].JoinHeight = IF v \in DOMAIN set THEN set[v].JoinHeight ELSE h
    BY <1>2, <1>3 DEF CreateConsumerValidator
  <1>9. [v \in R |-> next[v].power] = new
    BY <1>7, <1>8
  <1>10. \A v \in R : next[v].power \in Nat
    BY <1>7, <1>8
  <1>11. p.ValidatorsPowerCap = 0 => \A v \in R : next[v].power = last[v]
    BY <1>7, <1>8
  <1> QED BY <1>5, <1>7, <1>8, <1>9, <1>10, <1>11 DEF Entries

-----------------------------------------------------------------------------
(* What a computed set promises *)

\* Of two sets of the same size, each has something the other lacks or they are equal.
LEMMA Exchange ==
    ASSUME NEW A, IsFiniteSet(A), NEW K, IsFiniteSet(K), Cardinality(K) = Cardinality(A),
           NEW v, v \in A, v \notin K
    PROVE  \E w \in K : w \notin A
  <1> SUFFICES ASSUME K \in SUBSET A PROVE FALSE
    OBVIOUS
  <1>1. K = A
    BY FS_Subset
  <1> QED BY <1>1

\* Who is considered and who is active, as sets.
LEMMA ConsideredOrActive ==
    ASSUME NEW p, NEW t, NEW last, Stake(t, last),
           NEW K, K = Considered(p, t, last), NEW A, A = Active(t, last)
    PROVE  /\ K \in SUBSET Bonded(t, last) /\ A \in SUBSET Bonded(t, last)
           /\ Bonded(t, last) \in SUBSET Vals
           /\ p.AllowInactiveVals => K = Bonded(t, last)
           /\ FirstByTokens(t, last) \in SUBSET K
           /\ ~p.AllowInactiveVals =>
                 /\ \A v \in A : v \notin K =>
                       \E w \in K : w \notin A /\ last[w] = last[v] /\ t[w] >= t[v]
                 /\ \A w \in K : w \notin A =>
                       \E v \in A : v \notin K /\ last[w] = last[v] /\ t[w] >= t[v]
  <1> DEFINE c == ConsideredValidators(p, t, last)
             a == GetLastProviderConsensusActiveValidators(t, last)
  <1>1. K = Range(c)
    BY DEF Considered
  <1>2. /\ Enumerates(c, K) /\ K \in SUBSET Bonded(t, last)
        /\ p.AllowInactiveVals => K = Bonded(t, last)
        /\ ~p.AllowInactiveVals =>
              /\ Cardinality(K) = Cardinality(A)
              /\ \A v \in A \ K, w \in K \ A : last[w] = last[v] /\ t[w] >= t[v]
        /\ FirstByTokens(t, last) \in SUBSET K
    BY <1>1, ConsideredFacts
  <1>3. t \in [Vals -> Nat] /\ last \in [Vals -> Nat] /\ Bonded(t, last) \in SUBSET Vals
    BY DEF Stake, Bonded
  <1>4. Enumerates(a, A) /\ A \in SUBSET Bonded(t, last)
    BY <1>3, ActiveFacts
  <1> HIDE DEF c, a
  <1>5. IsFiniteSet(K) /\ IsFiniteSet(A)
    BY <1>2, <1>4, EnumerationFacts
  <1>6. ASSUME ~p.AllowInactiveVals, NEW v \in A, v \notin K
        PROVE  \E w \in K : w \notin A /\ last[w] = last[v] /\ t[w] >= t[v]
    <2>1. PICK w \in K : w \notin A
      BY <1>2, <1>5, <1>6, Exchange
    <2> QED BY <1>2, <1>6, <2>1
  <1>7. ASSUME ~p.AllowInactiveVals, NEW w \in K, w \notin A
        PROVE  \E v \in A : v \notin K /\ last[w] = last[v] /\ t[w] >= t[v]
    <2>1. PICK v \in A : v \notin K
      BY <1>2, <1>5, <1>7, Exchange
    <2> QED BY <1>2, <1>7, <2>1
  <1> QED BY <1>2, <1>3, <1>4, <1>6, <1>7

\* The top N percent validate, unless a tie keeps one of them from being considered.
LEMMA ComputedTop ==
    ASSUME NEW p, NEW old, NEW t, NEW last, NEW set, NEW h, NEW min, NEW opted, NEW next,
           Computed(p, old, t, last, set, h, min, opted, next), p.Top_N > 0,
           NEW v \in Top(p, t, last),
           p.Allowlist = {} \/ v \in p.Allowlist, v \notin p.Denylist, t[v] >= p.MinStake,
           v \notin DOMAIN next
    PROVE  /\ ~p.AllowInactiveVals
           /\ \E w \in Bonded(t, last) \ Active(t, last) : last[w] = last[v] /\ t[w] >= t[v]
  <1> DEFINE K == Considered(p, t, last)
             A == Active(t, last)
             F == K \cap Fit(p, opted, t, last, min)
  <1>1. Stake(t, last)
    BY DEF Computed
  <1>2. v \in A
    BY DEF Top
  <1>8. K = Considered(p, t, last) /\ A = Active(t, last)
    OBVIOUS
  <1>9. F = Considered(p, t, last) \cap Fit(p, opted, t, last, min)
    OBVIOUS
  <1> HIDE DEF K, A, F
  <1>3. /\ K \in SUBSET Bonded(t, last) /\ A \in SUBSET Bonded(t, last)
        /\ Bonded(t, last) \in SUBSET Vals
        /\ p.AllowInactiveVals => K = Bonded(t, last)
        /\ ~p.AllowInactiveVals =>
              \A x \in A : x \notin K =>
                  \E w \in K : w \notin A /\ last[w] = last[x] /\ t[w] >= t[x]
    BY <1>1, <1>8, ConsideredOrActive
  <1>4. last[v] >= min
    BY ComputedMinimum
  <1>5. v \in Fit(p, opted, t, last, min)
    BY <1>2, <1>3, <1>4 DEF Fit, CanValidateChain, FulfillsMinStake
  <1>6. DOMAIN next = F
    BY <1>9, ComputedMembers DEF Selected
  <1>7. v \notin K
    BY <1>5, <1>6 DEF F
  <1> QED BY <1>2, <1>3, <1>7 DEF A

\* Who validates is bonded, admitted and consents, or is in the top N percent; the cap
\* holds, and it leaves out nobody for a validator that is outranked.
LEMMA ComputedSelection ==
    ASSUME NEW p, NEW old, NEW t, NEW last, NEW set, NEW h, NEW min, NEW opted, NEW next,
           Computed(p, old, t, last, set, h, min, opted, next), NEW R, R = DOMAIN next
    PROVE  /\ \A v \in R : /\ v \in Bonded(t, last) /\ v \in Vals
                           /\ p.Allowlist = {} \/ v \in p.Allowlist
                           /\ v \notin p.Denylist /\ t[v] >= p.MinStake
           /\ p.Top_N > 0 =>
                 \A v \in R \ old : \E w \in Top(p, t, last) : last[v] >= last[w]
           /\ p.Top_N = 0 =>
                 /\ R \in SUBSET old
                 /\ p.ValidatorSetCap > 0 => Cardinality(R) <= p.ValidatorSetCap
                 /\ \A v \in old :
                       /\ v \in Bonded(t, last) /\ v \notin R
                       /\ p.Allowlist = {} \/ v \in p.Allowlist
                       /\ v \notin p.Denylist /\ t[v] >= p.MinStake
                       /\ p.AllowInactiveVals \/ v \in FirstByTokens(t, last)
                       => /\ Cardinality(R) = p.ValidatorSetCap
                          /\ \A w \in R : ~Outranks(v, w, p.Prioritylist, last)
  <1> DEFINE K == Considered(p, t, last)
             F == K \cap Fit(p, opted, t, last, min)
  <1>1. Stake(t, last) /\ p \in PowerShapingParameters
    BY DEF Computed
  <1>12. K = Considered(p, t, last) /\ F = Considered(p, t, last) \cap Fit(p, opted, t, last, min)
    OBVIOUS
  <1> HIDE DEF K, F
  <1>2. /\ K \in SUBSET Bonded(t, last) /\ Bonded(t, last) \in SUBSET Vals
        /\ p.AllowInactiveVals => K = Bonded(t, last)
        /\ FirstByTokens(t, last) \in SUBSET K
    BY <1>1, <1>12, ConsideredOrActive
  <1>3. /\ min \in Nat /\ opted \in SUBSET Vals
        /\ p.Top_N = 0 => opted = old
        /\ p.Top_N > 0 =>
              /\ opted = old \cup {v \in Active(t, last) : last[v] >= min}
              /\ \E w \in Top(p, t, last) : last[w] = min
    BY ComputedMinimum
  <1>4. /\ R \in SUBSET F
        /\ p.Top_N > 0 \/ p.ValidatorSetCap = 0 => R = F
        /\ ~(p.Top_N > 0 \/ p.ValidatorSetCap = 0) =>
              /\ Cardinality(R) <= p.ValidatorSetCap
              /\ \A v \in F \ R :
                    /\ Cardinality(R) = p.ValidatorSetCap
                    /\ \A w \in R : ~Outranks(v, w, p.Prioritylist, last)
    BY <1>12, ComputedMembers DEF Selected
  <1>5. p.Top_N \in Nat /\ p.ValidatorSetCap \in Nat
    BY <1>1, TopNFacts
  <1>6. \A v \in Vals : v \in Fit(p, opted, t, last, min) <=>
           /\ v \in opted \/ (p.Top_N > 0 /\ last[v] >= min)
           /\ p.Allowlist = {} \/ v \in p.Allowlist
           /\ v \notin p.Denylist
           /\ t[v] >= p.MinStake
    BY DEF Fit, CanValidateChain, FulfillsMinStake
  <1> USE DEF F
  <1>7. \A v \in R : /\ v \in Bonded(t, last) /\ v \in Vals
                     /\ p.Allowlist = {} \/ v \in p.Allowlist
                     /\ v \notin p.Denylist /\ t[v] >= p.MinStake
    BY <1>2, <1>4, <1>6
  <1>8. ASSUME p.Top_N > 0, NEW v \in R \ old
        PROVE  \E w \in Top(p, t, last) : last[v] >= last[w]
    <2>1. v \in opted \/ last[v] >= min
      BY <1>4, <1>6, <1>7
    <2>2. last[v] >= min
      BY <1>3, <1>8, <2>1
    <2> QED BY <1>3, <1>8, <2>2
  <1>9. ASSUME p.Top_N = 0 PROVE R \in SUBSET old
    BY <1>3, <1>4, <1>5, <1>6, <1>7, <1>9
  <1>10. ASSUME p.Top_N = 0, p.ValidatorSetCap > 0
         PROVE  Cardinality(R) <= p.ValidatorSetCap
    BY <1>4, <1>5, <1>10
  <1>11. ASSUME p.Top_N = 0, NEW v \in old, v \in Bonded(t, last), v \notin R,
                p.Allowlist = {} \/ v \in p.Allowlist, v \notin p.Denylist, t[v] >= p.MinStake,
                p.AllowInactiveVals \/ v \in FirstByTokens(t, last)
         PROVE  /\ Cardinality(R) = p.ValidatorSetCap
                /\ \A w \in R : ~Outranks(v, w, p.Prioritylist, last)
    <2>1. v \in K
      BY <1>2, <1>11
    <2>2. v \in Fit(p, opted, t, last, min)
      BY <1>2, <1>3, <1>6, <1>11
    <2>3. v \in F \ R
      BY <1>11, <2>1, <2>2
    <2>4. ~(p.Top_N > 0 \/ p.ValidatorSetCap = 0)
      BY <1>4, <1>5, <1>11, <2>3
    <2> QED BY <1>4, <2>3, <2>4
  <1> QED BY <1>7, <1>8, <1>9, <1>10, <1>11

\* An inactive validator gets into the set only instead of an active one.
LEMMA ComputedTie ==
    ASSUME NEW p, NEW old, NEW t, NEW last, NEW set, NEW h, NEW min, NEW opted, NEW next,
           Computed(p, old, t, last, set, h, min, opted, next), ~p.AllowInactiveVals,
           NEW v \in DOMAIN next, v \notin Active(t, last)
    PROVE  \E w \in Active(t, last) : w \notin DOMAIN next /\ last[w] = last[v] /\ t[w] <= t[v]
  <1> DEFINE K == Considered(p, t, last)
             A == Active(t, last)
             F == K \cap Fit(p, opted, t, last, min)
  <1>1. Stake(t, last) /\ t \in [Vals -> Nat]
    BY DEF Computed, Stake
  <1>6. K = Considered(p, t, last) /\ F = Considered(p, t, last) \cap Fit(p, opted, t, last, min)
    OBVIOUS
  <1> HIDE DEF K, F
  <1>2. DOMAIN next \in SUBSET F
    BY <1>6, ComputedMembers DEF Selected
  <1>3. /\ K \in SUBSET Vals /\ A \in SUBSET Vals
        /\ \A x \in K : x \notin A =>
              \E y \in A : y \notin K /\ last[x] = last[y] /\ t[x] >= t[y]
    BY <1>1, <1>6, ConsideredOrActive
  <1>4. PICK w \in A : w \notin K /\ last[v] = last[w] /\ t[v] >= t[w]
    BY <1>2, <1>3 DEF F
  <1>5. t[w] \in Nat /\ t[v] \in Nat
    BY <1>1, <1>2, <1>3 DEF F
  <1> QED BY <1>2, <1>4, <1>5 DEF F

-----------------------------------------------------------------------------
(* Epochs and heights *)

\* A number between two multiples has the lower one as its quotient.
LEMMA QuotientIs ==
    ASSUME NEW x \in Nat, NEW l \in Nat, l > 0, NEW c \in Nat, l * c <= x, x < l * c + l
    PROVE  x \div l = c
  <1> DEFINE q == x \div l
  <1>1. q \in Nat /\ q * l <= x /\ q >= c
    BY ShareFacts, ShareAtLeast
  <1> HIDE DEF q
  <1>2. SUFFICES ASSUME q # c PROVE FALSE
    BY DEF q
  <1>3. PICK d \in Nat : q = c + 1 + d
    <2>1. q - c - 1 \in Nat /\ q = c + 1 + (q - c - 1)
      BY <1>1, <1>2
    <2> QED BY <2>1
  <1>4. q * l = l * c + l + d * l /\ d * l \in Nat /\ l * c \in Nat
    BY <1>3
  <1> QED BY <1>1, <1>4

\* An epoch ends at a height exactly if the number of epochs before it grows.
LEMMA EpochEnds ==
    ASSUME NEW h \in Nat, h > 0, NEW B \in Nat, B > 0
    PROVE  /\ h \div B \in Nat /\ (h - 1) \div B \in Nat
           /\ h % B = 0 => h \div B = (h - 1) \div B + 1
           /\ h % B # 0 => h \div B = (h - 1) \div B
  <1> DEFINE q == h \div B
             r == h % B
  <1>1. /\ q \in Nat /\ r \in Nat /\ r < B /\ h = B * q + r /\ h - 1 \in Nat
        /\ (h - 1) \div B \in Nat
    OBVIOUS
  <1> HIDE DEF q, r
  <1>2. CASE r = 0
    <2>1. q # 0
      <3>1. q = 0 => B * q = 0
        OBVIOUS
      <3> QED BY <1>1, <1>2, <3>1
    <2>2. PICK c \in Nat : q = c + 1
      <3>1. q - 1 \in Nat /\ q = (q - 1) + 1
        BY <1>1, <2>1
      <3> QED BY <3>1
    <2>3. B * q = B * c + B /\ B * c \in Nat
      BY <2>2
    <2>4. B * c <= h - 1 /\ h - 1 < B * c + B
      BY <1>1, <1>2, <2>3
    <2>5. (h - 1) \div B = c
      BY <1>1, <2>4, QuotientIs
    <2> QED BY <1>1, <1>2, <2>2, <2>5 DEF q, r
  <1>3. CASE r # 0
    <2>1. B * q \in Nat
      BY <1>1
    <2>2. B * q <= h - 1 /\ h - 1 < B * q + B
      BY <1>1, <1>3, <2>1
    <2>3. (h - 1) \div B = q
      BY <1>1, <2>2, QuotientIs
    <2> QED BY <1>1, <1>3, <2>3 DEF q, r
  <1> QED BY <1>2, <1>3

\* Who is in the set for n times the blocks of an epoch sees n epochs end.
LEMMA EpochsOfPeriod ==
    ASSUME NEW h \in Nat, NEW j \in Nat, j > 0, NEW B \in Nat, B > 0, NEW n \in Nat,
           h - j >= n * B
    PROVE  (h - 1) \div B - (j - 1) \div B >= n
  <1> DEFINE q == (j - 1) \div B
  <1>1. n * B \in Nat /\ h - 1 \in Nat /\ j - 1 \in Nat
    OBVIOUS
  <1>2. q \in Nat /\ q * B <= j - 1
    BY <1>1, ShareFacts
  <1> HIDE DEF q
  <1>3. B * (q + n) = q * B + n * B /\ q * B \in Nat /\ q + n \in Int
    BY <1>2
  <1>4. h - 1 >= B * (q + n)
    BY <1>1, <1>2, <1>3
  <1>5. (h - 1) \div B >= q + n
    BY <1>1, <1>3, <1>4, ShareAtLeast
  <1>6. (h - 1) \div B \in Nat
    BY <1>1
  <1> QED BY <1>2, <1>5, <1>6 DEF q

-----------------------------------------------------------------------------
(* Steps *)

\* The end of a block leaves a stake to compute a set from, also if validators are jailed
\* before the launch in the next block.
LEMMA EndOfBlock ==
    ASSUME NEW t \in [Vals -> Nat], NEW last, last = ApplyValidatorSetUpdates(t),
           NEW u \in [Vals -> Nat], \A v \in Vals : u[v] = t[v] \/ u[v] = 0,
           \E v \in Vals : Power(u)[v] > 0 /\ last[v] > 0
    PROVE  Stake(u, last)
  <1>1. PowerReduction \in Nat \ {0}
    BY PSSAssumption
  <1>2. 0 \div PowerReduction = 0
    BY <1>1
  <1>3. \A v \in Vals : /\ Power(u)[v] = u[v] \div PowerReduction
                        /\ Power(t)[v] = t[v] \div PowerReduction
    BY DEF Power
  <1>4. \A v \in Vals : Power(u)[v] > 0 => Power(u)[v] = Power(t)[v]
    BY <1>2, <1>3
  <1>5. /\ last \in [Vals -> Nat]
        /\ \A v \in Vals : last[v] > 0 => last[v] = Power(t)[v]
        /\ Cardinality({v \in Vals : last[v] > 0}) <= MaxValidators
    BY ApplyFacts
  <1> QED BY <1>4, <1>5 DEF Stake

\* ComputeConsumerNextValSet computes a set and remembers the minimum power of a Top N
\* chain.
LEMMA ComputeFacts ==
    ASSUME params \in PowerShapingParameters, optedIn \in SUBSET Vals,
           NEW t, NEW last, Stake(t, last), NEW h, ComputeConsumerNextValSet(t, last, h)
    PROVE  \E min : /\ Computed(params, optedIn, t, last, consumerSet, h, min,
                                optedIn', consumerSet')
                    /\ minPower' = IF params.Top_N > 0 THEN min ELSE minPower
  <1> DEFINE min == IF params.Top_N > 0
                    THEN ComputeMinPowerInTopN(GetLastProviderConsensusActiveValidators(t, last),
                                               last, params.Top_N)
                    ELSE 0
  <1>1. minPower' = IF params.Top_N > 0 THEN min ELSE minPower
    BY DEF ComputeConsumerNextValSet
  <1>2. optedIn' = IF params.Top_N > 0
                   THEN OptInTopNValidators(optedIn,
                            GetLastProviderConsensusActiveValidators(t, last), last, min)
                   ELSE optedIn
    BY DEF ComputeConsumerNextValSet
  <1>3. consumerSet' = ComputeNextValidators(params, optedIn', t, last, min, consumerSet, h)
    BY DEF ComputeConsumerNextValSet
  <1>4. min = IF params.Top_N > 0
              THEN ComputeMinPowerInTopN(GetLastProviderConsensusActiveValidators(t, last),
                                         last, params.Top_N)
              ELSE 0
    OBVIOUS
  <1> HIDE DEF min
  <1>5. Computed(params, optedIn, t, last, consumerSet, h, min, optedIn', consumerSet')
    BY <1>2, <1>3, <1>4 DEF Computed
  <1> QED BY <1>1, <1>5

\* The consensus set of the provider: the active validators.
LEMMA ProviderSetFacts ==
    ASSUME NEW t \in [Vals -> Nat], NEW last \in [Vals -> Nat],
           ProviderValidatorUpdates(t, last)
    PROVE  DOMAIN providerSet' = Active(t, last) /\ DOMAIN providerSet' \in SUBSET Vals
  <1>1. DOMAIN providerSet' = Active(t, last)
    BY DEF ProviderValidatorUpdates, Active, GetLastProviderConsensusActiveValidators
  <1>2. Active(t, last) \in SUBSET Vals
    BY ActiveFacts, BondedFacts
  <1> QED BY <1>1, <1>2

\* Tokens and powers are numbers.
LEMMA StakeTypes ==
    ASSUME EpochInv
    PROVE  /\ tokens \in [Vals -> Nat] /\ lastPower \in [Vals -> Nat]
           /\ params \in PowerShapingParameters /\ optedIn \in SUBSET Vals
           /\ TokenChoices \cup {0} \in SUBSET Nat
           /\ \E v \in Vals : Power(tokens)[v] > 0 /\ lastPower[v] > 0
  <1>1. TokenChoices \cup {0} \in SUBSET Nat
    BY PSSAssumption
  <1> QED BY <1>1 DEF EpochInv, TypeOK, SomebodyBonded

\* The end of a block, whether or not it ends an epoch.
LEMMA EndBlockFacts ==
    ASSUME EpochInv, EndBlock
    PROVE  /\ Stake(tokens', lastPower') /\ tokens' = tokens
           /\ DOMAIN providerSet' = Active(tokens', lastPower')
           /\ DOMAIN providerSet' \in SUBSET Vals
           /\ phase = "LAUNCHED" /\ BlocksUntilNextEpoch = 0 =>
                 ComputeConsumerNextValSet(tokens', lastPower', height)
  <1>1. /\ tokens \in [Vals -> Nat] /\ \E v \in Vals : Power(tokens)[v] > 0 /\ lastPower[v] > 0
    BY StakeTypes
  <1>2. /\ tokens' = tokens /\ lastPower' = ApplyValidatorSetUpdates(tokens)
        /\ ProviderValidatorUpdates(tokens, lastPower')
        /\ phase = "LAUNCHED" /\ BlocksUntilNextEpoch = 0 =>
              ComputeConsumerNextValSet(tokens, lastPower', height)
    BY DEF EndBlock
  <1>3. /\ lastPower' \in [Vals -> Nat]
        /\ \E v \in Vals : Power(tokens)[v] > 0 /\ lastPower'[v] > 0
    BY <1>1, <1>2, ApplyFacts
  <1>4. Stake(tokens, lastPower')
    BY <1>1, <1>2, <1>3, EndOfBlock
  <1>5. DOMAIN providerSet' = Active(tokens, lastPower') /\ DOMAIN providerSet' \in SUBSET Vals
    BY <1>1, <1>2, <1>3, ProviderSetFacts
  <1> QED BY <1>2, <1>4, <1>5

\* The end of a block before a launch.
LEMMA LaunchFacts ==
    ASSUME EpochInv, NEW jailed, EndBlockAndLaunch(jailed)
    PROVE  /\ Stake(tokens', lastPower') /\ tokens' \in [Vals -> TokenChoices \cup {0}]
           /\ DOMAIN providerSet' \in SUBSET Vals
           /\ ComputeConsumerNextValSet(tokens', lastPower', height + 1)
  <1>1. /\ tokens \in [Vals -> Nat] /\ TokenChoices \cup {0} \in SUBSET Nat
        /\ tokens \in [Vals -> TokenChoices \cup {0}]
    BY StakeTypes DEF EpochInv, TypeOK
  <1>2. /\ tokens' = [v \in Vals |-> IF v \in jailed THEN 0 ELSE tokens[v]]
        /\ lastPower' = ApplyValidatorSetUpdates(tokens)
        /\ ProviderValidatorUpdates(tokens, lastPower')
        /\ ComputeConsumerNextValSet(tokens', lastPower', height + 1)
        /\ \E v \in Vals : Power(tokens')[v] > 0 /\ lastPower'[v] > 0
    BY DEF EndBlockAndLaunch
  <1>3. tokens' \in [Vals -> TokenChoices \cup {0}] /\ tokens' \in [Vals -> Nat]
    BY <1>1, <1>2
  <1>4. \A v \in Vals : tokens'[v] = tokens[v] \/ tokens'[v] = 0
    BY <1>1, <1>2
  <1>5. Stake(tokens', lastPower')
    BY <1>1, <1>2, <1>3, <1>4, EndOfBlock
  <1>6. lastPower' \in [Vals -> Nat]
    BY <1>5 DEF Stake
  <1>7. DOMAIN providerSet' \in SUBSET Vals
    BY <1>1, <1>2, <1>6, ProviderSetFacts
  <1> QED BY <1>2, <1>3, <1>5, <1>7

\* Counting epochs is enough: who has been in the set for the period has the streak.
LEMMA JoinsGiveRewards ==
    ASSUME TypeOK', JoinsCounted'
    PROVE  RewardedAfterPeriod'
  <1> DEFINE N == NumberOfEpochsToStartReceivingRewards
  <1>1. SUFFICES ASSUME phase' = "LAUNCHED", NEW v \in DOMAIN consumerSet',
                        height' - consumerSet'[v].JoinHeight >= N * BlocksPerEpoch
                 PROVE  streak'[v] >= N
    BY DEF RewardedAfterPeriod, IsEligibleForConsumerRewards
  <1>2. /\ height' \in Nat /\ consumerSet'[v].JoinHeight \in Nat
        /\ consumerSet'[v].JoinHeight > 0 /\ v \in Vals
    BY <1>1 DEF TypeOK
  <1>3. N \in Nat /\ BlocksPerEpoch \in Nat /\ BlocksPerEpoch > 0
    BY PSSAssumption
  <1>4. (height' - 1) \div BlocksPerEpoch - (consumerSet'[v].JoinHeight - 1) \div BlocksPerEpoch
            >= N
    BY <1>1, <1>2, <1>3, EpochsOfPeriod
  <1> QED BY <1>1, <1>2, <1>4 DEF JoinsCounted

\* The initial states satisfy the invariant.
LEMMA EpochInit ==
    ASSUME Init
    PROVE  EpochInv
  <1>1. tokens \in [Vals -> TokenChoices] /\ TokenChoices \in SUBSET Nat
    BY PSSAssumption DEF Init
  <1>2. tokens \in [Vals -> Nat] /\ tokens \in [Vals -> TokenChoices \cup {0}]
    BY <1>1
  <1>3. lastPower = ApplyValidatorSetUpdates(tokens) /\ \E v \in Vals : lastPower[v] > 0
    BY DEF Init
  <1>4. /\ lastPower \in [Vals -> Nat]
        /\ \A v \in Vals : lastPower[v] > 0 => lastPower[v] = Power(tokens)[v]
    BY <1>2, <1>3, ApplyFacts
  <1>5. DOMAIN providerSet \in SUBSET Vals
    <2>1. DOMAIN providerSet = Active(tokens, lastPower)
      BY DEF Init, Active, GetLastProviderConsensusActiveValidators
    <2> QED BY <1>2, <1>4, <2>1, ActiveFacts, BondedFacts
  <1>6. params \in PowerShapingParameters /\ params.Top_N = 0 /\ msgs \in 0 .. MaxMsgs
    BY PSSAssumption DEF Init
  <1>7. DOMAIN consumerSet = {}
    BY DEF Init
  <1>8. TypeOK
    BY <1>2, <1>4, <1>5, <1>6, <1>7 DEF Init, TypeOK, ActivePhases
  <1>9. MinPowerKnown
    BY <1>6 DEF Init, MinPowerKnown
  <1>10. RewardedAfterPeriod /\ JoinsCounted
    BY DEF Init, RewardedAfterPeriod, JoinsCounted
  <1>11. SomebodyBonded
    BY <1>3, <1>4, <1>7 DEF SomebodyBonded
  <1> QED BY <1>8, <1>9, <1>10, <1>11 DEF EpochInv

\* A step that computes no set keeps the history.
LEMMA HistoryKept ==
    ASSUME EpochInv, height' = height, streak' = streak, consumerSet' = consumerSet,
           phase' = "LAUNCHED" => phase = "LAUNCHED"
    PROVE  JoinsCounted' /\ RewardedAfterPeriod'
  BY DEF EpochInv, JoinsCounted, RewardedAfterPeriod, IsEligibleForConsumerRewards

\* Messages are counted up to their bound.
LEMMA MessageCounted ==
    ASSUME EpochInv, Message
    PROVE  msgs' \in 0 .. MaxMsgs
  BY PSSAssumption DEF EpochInv, TypeOK, Message

\* Messages of the validators and changes of stake keep the invariant.
LEMMA StakeKeeps ==
    ASSUME EpochInv, NEW v \in Vals, NEW t \in TokenChoices, ChangeStake(v, t)
    PROVE  EpochInv'
  <1>1. TypeOK'
    BY MessageCounted DEF EpochInv, TypeOK, ChangeStake
  <1>2. MinPowerKnown' /\ SomebodyBonded'
    BY DEF EpochInv, MinPowerKnown, SomebodyBonded, ChangeStake
  <1>3. JoinsCounted' /\ RewardedAfterPeriod'
    BY HistoryKept DEF ChangeStake
  <1> QED BY <1>1, <1>2, <1>3 DEF EpochInv

\* Opting in and out keeps the invariant.
LEMMA OptingKeeps ==
    ASSUME EpochInv, NEW v \in Vals, HandleOptIn(v) \/ HandleOptOut(v)
    PROVE  EpochInv'
  <1>1. /\ Message /\ optedIn' \in SUBSET Vals
        /\ UNCHANGED <<tokens, lastPower, height, phase, params, minPower,
                       consumerSet, providerSet, streak>>
    BY DEF EpochInv, TypeOK, HandleOptIn, HandleOptOut
  <1>2. TypeOK'
    BY <1>1, MessageCounted DEF EpochInv, TypeOK
  <1>3. MinPowerKnown' /\ SomebodyBonded'
    BY <1>1 DEF EpochInv, MinPowerKnown, SomebodyBonded
  <1>4. JoinsCounted' /\ RewardedAfterPeriod'
    BY <1>1, HistoryKept
  <1> QED BY <1>2, <1>3, <1>4 DEF EpochInv

\* New parameters come with the minimum power they need.
LEMMA UpdateKeeps ==
    ASSUME EpochInv, NEW p \in ParamChoices, UpdateConsumer(p)
    PROVE  EpochInv'
  <1> DEFINE a == GetLastProviderConsensusActiveValidators(tokens, lastPower)
             A == Active(tokens, lastPower)
             min == ComputeMinPowerInTopN(a, lastPower, p.Top_N)
  <1>1. /\ Message /\ params' = p /\ phase \in ActivePhases
        /\ UNCHANGED <<tokens, lastPower, height, phase, optedIn, consumerSet,
                       providerSet, streak>>
    BY DEF UpdateConsumer
  <1>2. minPower' = IF p.Top_N = params.Top_N THEN minPower
                    ELSE IF p.Top_N = 0 THEN Nil ELSE min
    BY DEF UpdateConsumer, UpdateMinimumPowerInTopN
  <1>3. p \in PowerShapingParameters /\ Nil \notin Nat
    BY PSSAssumption
  <1>4. p.Top_N \in Nat /\ (p.Top_N > 0 => p.Top_N \in 1..100)
    BY <1>3, TopNFacts
  <1>5. ASSUME p.Top_N # 0 PROVE min \in Nat
    <2>1. /\ tokens \in [Vals -> Nat] /\ lastPower \in [Vals -> Nat]
          /\ \E v \in Vals : Power(tokens)[v] > 0 /\ lastPower[v] > 0
      BY StakeTypes
    <2>2. Bonded(tokens, lastPower) # {} /\ Bonded(tokens, lastPower) \in SUBSET Vals
      BY <2>1 DEF Bonded
    <2>3. Enumerates(a, A) /\ A # {} /\ A \in SUBSET Vals
      BY <2>1, <2>2, ActiveFacts
    <2>4. p.Top_N \in 1..100
      BY <1>4, <1>5
    <2> HIDE DEF a, A
    <2>5. \A v \in A : lastPower[v] \in Nat
      BY <2>1, <2>3
    <2> QED BY <2>3, <2>4, <2>5, MinPowerFacts
  <1> HIDE DEF min
  <1>6. TypeOK'
    <2>1. minPower' \in Nat \cup {Nil}
      BY <1>2, <1>5 DEF EpochInv, TypeOK
    <2> QED BY <1>1, <1>3, <2>1, MessageCounted DEF EpochInv, TypeOK
  <1>7. MinPowerKnown'
    <2>1. minPower # Nil <=> params.Top_N > 0
      BY <1>1 DEF EpochInv, MinPowerKnown, ActivePhases
    <2>2. minPower' # Nil <=> p.Top_N > 0
      BY <1>2, <1>3, <1>4, <1>5, <2>1
    <2> QED BY <1>1, <2>2 DEF MinPowerKnown, ActivePhases
  <1>8. SomebodyBonded'
    BY <1>1 DEF EpochInv, SomebodyBonded
  <1>9. JoinsCounted' /\ RewardedAfterPeriod'
    BY <1>1, HistoryKept
  <1> QED BY <1>6, <1>7, <1>8, <1>9 DEF EpochInv

\* Stopping and deleting a chain keeps the invariant.
LEMMA RemovalKeeps ==
    ASSUME EpochInv, StopConsumer \/ DeleteConsumerChain
    PROVE  EpochInv'
  <1>1. CASE StopConsumer
    <2>1. TypeOK'
      BY <1>1, MessageCounted DEF EpochInv, TypeOK, StopConsumer
    <2>2. MinPowerKnown' /\ SomebodyBonded'
      BY <1>1 DEF EpochInv, MinPowerKnown, SomebodyBonded, StopConsumer
    <2>3. JoinsCounted' /\ RewardedAfterPeriod'
      BY <1>1 DEF JoinsCounted, RewardedAfterPeriod, StopConsumer
    <2> QED BY <2>1, <2>2, <2>3 DEF EpochInv
  <1>2. CASE DeleteConsumerChain
    <2>1. DOMAIN consumerSet' = {} /\ phase' = "DELETED" /\ minPower' = Nil
      BY <1>2 DEF DeleteConsumerChain
    <2>2. params' \in PowerShapingParameters
      BY <1>2 DEF EpochInv, TypeOK, DeleteConsumerChain, PowerShapingParameters
    <2>3. TypeOK'
      BY <1>2, <2>1, <2>2, MessageCounted DEF EpochInv, TypeOK, DeleteConsumerChain
    <2>4. MinPowerKnown'
      BY <2>1 DEF MinPowerKnown
    <2>5. SomebodyBonded'
      BY <1>2, <2>1 DEF EpochInv, SomebodyBonded, DeleteConsumerChain
    <2>6. JoinsCounted' /\ RewardedAfterPeriod'
      BY <2>1 DEF JoinsCounted, RewardedAfterPeriod
    <2> QED BY <2>3, <2>4, <2>5, <2>6 DEF EpochInv
  <1> QED BY <1>1, <1>2

\* A computation stores a set and a minimum power that fit.
LEMMA ComputationKeeps ==
    ASSUME EpochInv, NEW t, NEW last, Stake(t, last), NEW h, h \in 1 .. height',
           height' \in Nat, height' >= height, ComputeConsumerNextValSet(t, last, h)
    PROVE  /\ optedIn' \in SUBSET Vals /\ minPower' \in Nat \cup {Nil}
           /\ DOMAIN consumerSet' \in SUBSET Vals
           /\ \A v \in DOMAIN consumerSet' :
                 /\ consumerSet'[v].power \in Nat /\ consumerSet'[v].JoinHeight \in 1 .. height'
                 /\ consumerSet'[v].JoinHeight
                       = IF v \in DOMAIN consumerSet THEN consumerSet[v].JoinHeight ELSE h
           /\ params.Top_N > 0 => minPower' # Nil
           /\ ~(params.Top_N > 0) => minPower' = minPower
  <1>1. params \in PowerShapingParameters /\ optedIn \in SUBSET Vals
    BY StakeTypes
  <1>2. PICK min : /\ Computed(params, optedIn, t, last, consumerSet, h, min,
                               optedIn', consumerSet')
                   /\ minPower' = IF params.Top_N > 0 THEN min ELSE minPower
    BY <1>1, ComputeFacts
  <1>3. min \in Nat /\ optedIn' \in SUBSET Vals
    BY <1>2, ComputedMinimum
  <1>4. Nil \notin Nat /\ minPower \in Nat \cup {Nil}
    BY PSSAssumption DEF EpochInv, TypeOK
  <1>8. Entries(params, last, consumerSet, h, consumerSet')
    BY <1>2, ComputedEntries
  <1>5. /\ DOMAIN consumerSet' \in SUBSET Vals
        /\ \A v \in DOMAIN consumerSet' :
              /\ consumerSet'[v].power \in Nat
              /\ consumerSet'[v].JoinHeight
                    = IF v \in DOMAIN consumerSet THEN consumerSet[v].JoinHeight ELSE h
    BY <1>8 DEF Entries
  <1>6. \A v \in DOMAIN consumerSet : consumerSet[v].JoinHeight \in 1 .. height'
    BY DEF EpochInv, TypeOK
  <1>7. \A v \in DOMAIN consumerSet' : consumerSet'[v].JoinHeight \in 1 .. height'
    BY <1>5, <1>6
  <1> QED BY <1>2, <1>3, <1>4, <1>5, <1>7

\* An epoch is over exactly at the multiples of its length.
LEMMA EpochIsOver ==
    ASSUME height \in Nat
    PROVE  BlocksUntilNextEpoch = 0 <=> height % BlocksPerEpoch = 0
  <1>1. BlocksPerEpoch \in Nat \ {0}
    BY PSSAssumption
  <1>2. height % BlocksPerEpoch \in Nat /\ height % BlocksPerEpoch < BlocksPerEpoch
    BY <1>1
  <1> QED BY <1>1, <1>2 DEF BlocksUntilNextEpoch

\* The end of a block keeps the invariant: at the end of an epoch the streaks grow with the
\* number of epochs, and a validator that joins starts with one.
LEMMA EndBlockKeeps ==
    ASSUME EpochInv, EndBlock
    PROVE  EpochInv'
  <1> DEFINE B == BlocksPerEpoch
             epoch == phase = "LAUNCHED" /\ BlocksUntilNextEpoch = 0
             e == (height - 1) \div B
  <1>1. /\ height \in Nat /\ height > 0 /\ height' = height + 1
        /\ UNCHANGED <<phase, params, msgs>>
        /\ epoch => streak' = [v \in Vals |-> IF v \in DOMAIN consumerSet'
                                              THEN streak[v] + 1 ELSE 0]
        /\ ~epoch => UNCHANGED <<minPower, optedIn, consumerSet, streak>>
    BY DEF EpochInv, TypeOK, EndBlock
  <1>2. /\ Stake(tokens', lastPower') /\ tokens' = tokens /\ DOMAIN providerSet' \in SUBSET Vals
        /\ epoch => ComputeConsumerNextValSet(tokens', lastPower', height)
    BY EndBlockFacts
  <1>3. B \in Nat /\ B > 0
    BY PSSAssumption
  <1>4. /\ height \div B \in Nat /\ e \in Nat
        /\ height % B = 0 => height \div B = e + 1
        /\ height % B # 0 => height \div B = e
    BY <1>1, <1>3, EpochEnds
  <1>5. (height' - 1) \div B = height \div B
    BY <1>1
  <1>6. lastPower' \in [Vals -> Nat] /\ \E v \in Vals : Power(tokens')[v] > 0 /\ lastPower'[v] > 0
    BY <1>2 DEF Stake
  <1>7. BlocksUntilNextEpoch = 0 <=> height % B = 0
    BY <1>1, EpochIsOver
  <1> HIDE DEF e, B
  <1>8. CASE epoch
    <2>1. height \in 1 .. height' /\ height' \in Nat /\ height' >= height
      BY <1>1
    <2>2. /\ optedIn' \in SUBSET Vals /\ minPower' \in Nat \cup {Nil}
          /\ DOMAIN consumerSet' \in SUBSET Vals
          /\ \A v \in DOMAIN consumerSet' :
                /\ consumerSet'[v].power \in Nat /\ consumerSet'[v].JoinHeight \in 1 .. height'
                /\ consumerSet'[v].JoinHeight
                      = IF v \in DOMAIN consumerSet THEN consumerSet[v].JoinHeight ELSE height
          /\ params.Top_N > 0 => minPower' # Nil
          /\ ~(params.Top_N > 0) => minPower' = minPower
      BY <1>2, <1>8, <2>1, ComputationKeeps
    <2>3. streak' \in [Vals -> Nat]
      BY <1>1, <1>8 DEF EpochInv, TypeOK
    <2>4. TypeOK'
      BY <1>1, <1>2, <1>6, <2>1, <2>2, <2>3 DEF EpochInv, TypeOK
    <2>5. MinPowerKnown'
      BY <1>1, <1>8, <2>2 DEF EpochInv, MinPowerKnown
    <2>6. SomebodyBonded'
      BY <1>1, <1>6, <1>8 DEF SomebodyBonded
    <2>7. ASSUME NEW v \in Vals
          PROVE  streak'[v] = IF v \in DOMAIN consumerSet'
                              THEN height \div B - (consumerSet'[v].JoinHeight - 1) \div B
                              ELSE 0
      <3>1. streak[v] = IF v \in DOMAIN consumerSet
                        THEN e - (consumerSet[v].JoinHeight - 1) \div B ELSE 0
        BY <1>8 DEF EpochInv, JoinsCounted, e, B
      <3>2. height \div B = e + 1
        BY <1>4, <1>7, <1>8
      <3>3. CASE v \notin DOMAIN consumerSet'
        BY <1>1, <1>8, <3>3
      <3>4. CASE v \in DOMAIN consumerSet' /\ v \in DOMAIN consumerSet
        <4>1. consumerSet[v].JoinHeight \in Nat
          BY <3>4 DEF EpochInv, TypeOK
        <4>2. consumerSet[v].JoinHeight - 1 \in Int
          BY <4>1
        <4>3. (consumerSet[v].JoinHeight - 1) \div B \in Int
          BY <1>3, <4>2
        <4>4. streak'[v] = streak[v] + 1
          BY <1>1, <1>8, <3>4
        <4>5. consumerSet'[v].JoinHeight = consumerSet[v].JoinHeight
          BY <2>2, <3>4
        <4>6. streak[v] = e - (consumerSet[v].JoinHeight - 1) \div B
          BY <3>1, <3>4
        <4>7. streak'[v] = height \div B - (consumerSet[v].JoinHeight - 1) \div B
          BY <1>4, <3>2, <4>3, <4>4, <4>6
        <4> QED BY <3>4, <4>5, <4>7
      <3>5. CASE v \in DOMAIN consumerSet' /\ v \notin DOMAIN consumerSet
        <4>1. streak'[v] = 1
          BY <1>1, <1>8, <3>1, <3>5
        <4>2. (consumerSet'[v].JoinHeight - 1) \div B = e
          BY <2>2, <3>5 DEF e
        <4> QED BY <1>4, <3>2, <3>5, <4>1, <4>2
      <3> QED BY <3>3, <3>4, <3>5
    <2>8. JoinsCounted'
      BY <1>5, <2>7 DEF JoinsCounted, B
    <2>9. RewardedAfterPeriod'
      BY <2>4, <2>8, JoinsGiveRewards
    <2> QED BY <2>4, <2>5, <2>6, <2>8, <2>9 DEF EpochInv
  <1>9. CASE ~epoch
    <2>1. \A v \in DOMAIN consumerSet : consumerSet[v].JoinHeight \in 1 .. height'
      BY <1>1 DEF EpochInv, TypeOK
    <2>2. TypeOK'
      BY <1>1, <1>2, <1>6, <1>9, <2>1 DEF EpochInv, TypeOK
    <2>3. MinPowerKnown'
      BY <1>1, <1>9 DEF EpochInv, MinPowerKnown
    <2>4. SomebodyBonded'
      BY <1>1, <1>6, <1>9 DEF EpochInv, SomebodyBonded
    <2>5. phase = "LAUNCHED" => (height' - 1) \div B = e
      BY <1>4, <1>5, <1>7, <1>9
    <2>6. JoinsCounted'
      BY <1>1, <1>9, <2>5 DEF EpochInv, JoinsCounted, B, e
    <2>7. RewardedAfterPeriod'
      BY <2>2, <2>6, JoinsGiveRewards
    <2> QED BY <2>2, <2>3, <2>4, <2>6, <2>7 DEF EpochInv
  <1> QED BY <1>8, <1>9

\* A launch keeps the invariant: everybody joins in the block of the launch.
LEMMA LaunchKeeps ==
    ASSUME EpochInv, NEW jailed, EndBlockAndLaunch(jailed)
    PROVE  EpochInv'
  <1>1. /\ height \in Nat /\ height > 0 /\ height' = height + 1
        /\ phase = "INITIALIZED" /\ phase' = "LAUNCHED" /\ UNCHANGED <<params, msgs>>
        /\ streak' = [v \in Vals |-> 0]
    BY DEF EpochInv, TypeOK, EndBlockAndLaunch
  <1>2. DOMAIN consumerSet = {}
    BY <1>1 DEF EpochInv, SomebodyBonded
  <1>3. /\ Stake(tokens', lastPower') /\ tokens' \in [Vals -> TokenChoices \cup {0}]
        /\ DOMAIN providerSet' \in SUBSET Vals
        /\ ComputeConsumerNextValSet(tokens', lastPower', height + 1)
    BY LaunchFacts
  <1>4. height + 1 \in 1 .. height' /\ height' \in Nat \ {0} /\ height' >= height
    BY <1>1
  <1>5. /\ optedIn' \in SUBSET Vals /\ minPower' \in Nat \cup {Nil}
        /\ DOMAIN consumerSet' \in SUBSET Vals
        /\ \A v \in DOMAIN consumerSet' :
              /\ consumerSet'[v].power \in Nat /\ consumerSet'[v].JoinHeight \in 1 .. height'
              /\ consumerSet'[v].JoinHeight
                    = IF v \in DOMAIN consumerSet THEN consumerSet[v].JoinHeight ELSE height + 1
        /\ params.Top_N > 0 => minPower' # Nil
        /\ ~(params.Top_N > 0) => minPower' = minPower
    BY <1>3, <1>4, ComputationKeeps
  <1>6. lastPower' \in [Vals -> Nat] /\ \E v \in Vals : Power(tokens')[v] > 0 /\ lastPower'[v] > 0
    BY <1>3 DEF Stake
  <1>7. TypeOK'
    BY <1>1, <1>3, <1>4, <1>5, <1>6 DEF EpochInv, TypeOK, ActivePhases
  <1>8. MinPowerKnown'
    BY <1>1, <1>5 DEF EpochInv, MinPowerKnown
  <1>9. SomebodyBonded'
    BY <1>1, <1>6 DEF SomebodyBonded
  <1>10. JoinsCounted'
    <2>1. \A v \in DOMAIN consumerSet' : consumerSet'[v].JoinHeight = height'
      BY <1>1, <1>2, <1>5
    <2>2. (height' - 1) \div BlocksPerEpoch \in Nat
      <3>1. BlocksPerEpoch \in Nat \ {0} /\ height' - 1 \in Nat
        BY <1>1, PSSAssumption
      <3> QED BY <3>1
    <2>3. (height' - 1) \div BlocksPerEpoch - (height' - 1) \div BlocksPerEpoch = 0
      BY <2>2
    <2> QED BY <1>1, <2>1, <2>3 DEF JoinsCounted
  <1>11. RewardedAfterPeriod'
    BY <1>7, <1>10, JoinsGiveRewards
  <1> QED BY <1>7, <1>8, <1>9, <1>10, <1>11 DEF EpochInv

\* Every step keeps the invariant.
LEMMA EpochStep ==
    ASSUME EpochInv, [Next]_vars
    PROVE  EpochInv'
  <1>1. CASE UNCHANGED vars
    <2>1. TypeOK'
      BY <1>1 DEF EpochInv, TypeOK, vars
    <2>2. MinPowerKnown' /\ SomebodyBonded'
      BY <1>1 DEF EpochInv, MinPowerKnown, SomebodyBonded, vars
    <2>3. JoinsCounted' /\ RewardedAfterPeriod'
      BY <1>1, HistoryKept DEF vars
    <2> QED BY <2>1, <2>2, <2>3 DEF EpochInv
  <1>2. ASSUME NEW v \in Vals, NEW t \in TokenChoices, ChangeStake(v, t) PROVE EpochInv'
    BY <1>2, StakeKeeps
  <1>3. ASSUME NEW v \in Vals, HandleOptIn(v) \/ HandleOptOut(v) PROVE EpochInv'
    BY <1>3, OptingKeeps
  <1>4. ASSUME NEW p \in ParamChoices, UpdateConsumer(p) PROVE EpochInv'
    BY <1>4, UpdateKeeps
  <1>5. CASE StopConsumer \/ DeleteConsumerChain
    BY <1>5, RemovalKeeps
  <1>6. CASE EndBlock
    BY <1>6, EndBlockKeeps
  <1>7. ASSUME NEW jailed, EndBlockAndLaunch(jailed) PROVE EpochInv'
    BY <1>7, LaunchKeeps
  <1> QED BY <1>1, <1>2, <1>3, <1>4, <1>5, <1>6, <1>7 DEF Next

\* EpochInv holds in every reachable state: a minimum power is stored exactly while one is
\* needed, so that HandleOptOut never fails for want of one, and the join heights that
\* CreateConsumerValidator keeps count the epochs, so that nobody is eligible for rewards
\* before the period is over, however messages, jailings and blocks interleave.
THEOREM EpochCorrect == Spec => []EpochInv
  <1>1. Init => EpochInv
    BY EpochInit
  <1>2. EpochInv /\ [Next]_vars => EpochInv'
    BY EpochStep
  <1> QED BY <1>1, <1>2, PTL DEF Spec

-----------------------------------------------------------------------------
(* What every computation of a set guarantees *)

\* A set is computed at the end of an epoch and at a launch, and never otherwise.
LEMMA ShapedSteps ==
    ASSUME EpochInv, [Next]_vars, Shaped
    PROVE  \/ EndBlock /\ phase = "LAUNCHED" /\ BlocksUntilNextEpoch = 0
           \/ \E jailed : EndBlockAndLaunch(jailed)
  <1>1. CASE UNCHANGED vars
    BY <1>1 DEF Shaped, vars
  <1>2. ASSUME NEW v, NEW t, ChangeStake(v, t) PROVE FALSE
    BY <1>2 DEF ChangeStake, Shaped
  <1>3. ASSUME NEW v, HandleOptIn(v) \/ HandleOptOut(v) PROVE FALSE
    BY <1>3 DEF HandleOptIn, HandleOptOut, Shaped
  <1>4. ASSUME NEW p, UpdateConsumer(p) PROVE FALSE
    BY <1>4 DEF UpdateConsumer, Shaped
  <1>5. CASE StopConsumer \/ DeleteConsumerChain
    BY <1>5 DEF StopConsumer, DeleteConsumerChain, Shaped
  <1>6. CASE EndBlock
    BY <1>6 DEF EndBlock, Shaped
  <1>7. ASSUME NEW jailed, EndBlockAndLaunch(jailed)
        PROVE  \E j : EndBlockAndLaunch(j)
    BY <1>7
  <1> QED BY <1>1, <1>2, <1>3, <1>4, <1>5, <1>6, <1>7 DEF Next

\* The set is computed from the parameters and the opted-in validators before the step and
\* the stake after it.
LEMMA ShapedComputes ==
    ASSUME EpochInv, [Next]_vars, Shaped
    PROVE  \E h, min : Computed(params, optedIn, tokens', lastPower', consumerSet, h, min,
                                optedIn', consumerSet')
  <1>1. \E h : Stake(tokens', lastPower') /\ ComputeConsumerNextValSet(tokens', lastPower', h)
    <2>1. CASE EndBlock /\ phase = "LAUNCHED" /\ BlocksUntilNextEpoch = 0
      BY <2>1, EndBlockFacts
    <2>2. ASSUME NEW jailed, EndBlockAndLaunch(jailed)
          PROVE  /\ Stake(tokens', lastPower')
                 /\ ComputeConsumerNextValSet(tokens', lastPower', height + 1)
      BY <2>2, LaunchFacts
    <2> QED BY <2>1, <2>2, ShapedSteps
  <1>2. PICK h : Stake(tokens', lastPower') /\ ComputeConsumerNextValSet(tokens', lastPower', h)
    BY <1>1
  <1>3. params \in PowerShapingParameters /\ optedIn \in SUBSET Vals
    BY StakeTypes
  <1>4. \E min : Computed(params, optedIn, tokens', lastPower', consumerSet, h, min,
                          optedIn', consumerSet')
    BY <1>2, <1>3, ComputeFacts
  <1> QED BY <1>4

\* The top N percent of the properties and of the lemmas.
LEMMA TopNIsTop ==
    ASSUME NEW t, NEW last
    PROVE  TopNSet(t, last) = Top(params, t, last)
  BY DEF TopNSet, Top, Above, TotalPower

\* Every computed set of a Top N chain contains the top N percent of the active validators
\* that are admitted, however many opted out since the last epoch, up to a tie in power at
\* the last active validator (OptInTopNValidators, ComputeNextValidators).
THEOREM TopNAlwaysValidates == Spec => TopNValidates
  <1>1. ASSUME EpochInv, [Next]_vars, Shaped, params.Top_N > 0,
               NEW v \in TopNSet(tokens', lastPower'), v \in Admitted(tokens'),
               v \notin DOMAIN consumerSet'
        PROVE  /\ ~params.AllowInactiveVals
               /\ \E w \in Bonded(tokens', lastPower') \ Active(tokens', lastPower') :
                     lastPower'[w] = lastPower'[v] /\ tokens'[w] >= tokens'[v]
    <2>1. PICK h, min : Computed(params, optedIn, tokens', lastPower', consumerSet, h, min,
                                 optedIn', consumerSet')
      BY <1>1, ShapedComputes
    <2>2. v \in Top(params, tokens', lastPower')
      BY <1>1, TopNIsTop
    <2>3. /\ params.Allowlist = {} \/ v \in params.Allowlist
          /\ v \notin params.Denylist /\ tokens'[v] >= params.MinStake
      BY <1>1 DEF Admitted
    <2> QED BY <1>1, <2>1, <2>2, <2>3, ComputedTop
  <1>2. EpochInv /\ [Next]_vars =>
            [Shaped /\ params.Top_N > 0 =>
                LET t == tokens'
                    last == lastPower'
                    inactive == Bonded(t, last) \ Active(t, last)
                IN \A v \in TopNSet(t, last) \cap Admitted(t) :
                       \/ v \in DOMAIN consumerSet'
                       \/ /\ ~params.AllowInactiveVals
                          /\ \E w \in inactive : last[w] = last[v] /\ t[w] >= t[v]]_vars
    BY <1>1
  <1> QED BY <1>2, EpochCorrect, PTL DEF Spec, TopNValidates

\* Nobody is in a computed set without having opted in or having the power of the top N
\* percent, nor against the lists and the minimum stake; the cap of an Opt In chain holds and
\* leaves out only candidates that outrank nobody who is in (CanValidateChain,
\* PartitionBasedOnPriorityList, CapValidatorSet).
THEOREM SelectionAlwaysSound == Spec => SelectionSound
  <1> DEFINE set == DOMAIN consumerSet'
             t == tokens'
             last == lastPower'
             admitted == Bonded(t, last) \cap Admitted(t)
             Better(v, w) ==
                 \/ v \in params.Prioritylist /\ w \notin params.Prioritylist
                 \/ /\ v \in params.Prioritylist <=> w \in params.Prioritylist
                    /\ last[v] > last[w]
  <1>1. ASSUME EpochInv, [Next]_vars, Shaped
        PROVE  /\ set \subseteq admitted
               /\ params.Top_N > 0 =>
                     \A v \in set \ optedIn :
                         \E w \in TopNSet(t, last) : last[v] >= last[w]
               /\ ~(params.Top_N > 0) =>
                     /\ set \subseteq optedIn
                     /\ params.ValidatorSetCap > 0
                            => Cardinality(set) <= params.ValidatorSetCap
                     /\ \A v \in (optedIn \cap admitted) \ set :
                           params.AllowInactiveVals \/ v \in FirstByTokens(t, last)
                              => /\ Cardinality(set) = params.ValidatorSetCap
                                 /\ \A w \in set : ~Better(v, w)
    <2>1. PICK h, min : Computed(params, optedIn, t, last, consumerSet, h, min,
                                 optedIn', consumerSet')
      BY <1>1, ShapedComputes
    <2>2. /\ \A v \in set :
                /\ v \in Bonded(t, last) /\ v \in Vals
                /\ params.Allowlist = {} \/ v \in params.Allowlist
                /\ v \notin params.Denylist /\ t[v] >= params.MinStake
          /\ params.Top_N > 0 =>
                \A v \in set \ optedIn : \E w \in Top(params, t, last) : last[v] >= last[w]
          /\ params.Top_N = 0 =>
                /\ set \in SUBSET optedIn
                /\ params.ValidatorSetCap > 0 => Cardinality(set) <= params.ValidatorSetCap
                /\ \A v \in optedIn :
                      /\ v \in Bonded(t, last) /\ v \notin set
                      /\ params.Allowlist = {} \/ v \in params.Allowlist
                      /\ v \notin params.Denylist /\ t[v] >= params.MinStake
                      /\ params.AllowInactiveVals \/ v \in FirstByTokens(t, last)
                      => /\ Cardinality(set) = params.ValidatorSetCap
                         /\ \A w \in set : ~Outranks(v, w, params.Prioritylist, last)
      BY <2>1, ComputedSelection
    <2>3. params.Top_N \in Nat
      BY <1>1, StakeTypes, TopNFacts
    <2>4. Admitted(t) = {v \in Vals : /\ params.Allowlist = {} \/ v \in params.Allowlist
                                      /\ v \notin params.Denylist
                                      /\ t[v] >= params.MinStake}
      BY DEF Admitted
    <2>5. TopNSet(t, last) = Top(params, t, last)
      BY TopNIsTop
    <2>6. \A v, w : Better(v, w) <=> Outranks(v, w, params.Prioritylist, last)
      BY DEF Outranks
    <2> HIDE DEF Better, set
    <2>7. set \subseteq admitted
      BY <2>2, <2>4
    <2>8. params.Top_N > 0 =>
              \A v \in set \ optedIn : \E w \in TopNSet(t, last) : last[v] >= last[w]
      BY <2>2, <2>5
    <2>9. ASSUME ~(params.Top_N > 0)
          PROVE  /\ set \subseteq optedIn
                 /\ params.ValidatorSetCap > 0 => Cardinality(set) <= params.ValidatorSetCap
      BY <2>2, <2>3, <2>9
    <2>10. ASSUME ~(params.Top_N > 0), NEW v \in (optedIn \cap admitted) \ set,
                  params.AllowInactiveVals \/ v \in FirstByTokens(t, last)
           PROVE  /\ Cardinality(set) = params.ValidatorSetCap
                  /\ \A w \in set : ~Better(v, w)
      BY <2>2, <2>3, <2>4, <2>6, <2>10
    <2> QED BY <2>7, <2>8, <2>9, <2>10
  <1>2. EpochInv /\ [Next]_vars =>
            [Shaped =>
                /\ set \subseteq admitted
                /\ IF params.Top_N > 0
                   THEN LET top == TopNSet(t, last)
                        IN \A v \in set \ optedIn :
                               \E w \in top : last[v] >= last[w]
                   ELSE /\ set \subseteq optedIn
                        /\ params.ValidatorSetCap > 0
                               => Cardinality(set) <= params.ValidatorSetCap
                        /\ \A v \in (optedIn \cap admitted) \ set :
                              params.AllowInactiveVals \/ v \in FirstByTokens(t, last)
                                 => /\ Cardinality(set) = params.ValidatorSetCap
                                    /\ \A w \in set : ~Better(v, w)]_vars
    <2> HIDE DEF Better, set, admitted
    <2> QED BY <1>1
  <1> QED BY <1>2, EpochCorrect, PTL DEF Spec, SelectionSound

\* The cap on powers keeps the total power if it can, and otherwise gives everybody the
\* cap; nobody loses what the cap allows or is overtaken (NoMoreThanPercentOfTheSum).
THEOREM PowersAlwaysCapped == Spec => PowersCapped
  <1> DEFINE set == DOMAIN consumerSet'
             old == lastPower'
             new == [v \in set |-> consumerSet'[v].power]
             max == MaxPower(set, old, params.ValidatorsPowerCap)
  <1>1. ASSUME EpochInv, [Next]_vars, Shaped
        PROVE  /\ params.ValidatorsPowerCap = 0 => \A v \in set : new[v] = old[v]
               /\ params.ValidatorsPowerCap # 0 =>
                     /\ \A v \in set : new[v] <= max /\ new[v] >= Min({old[v], max})
                     /\ TotalPower(set, new)
                            = Min({TotalPower(set, old), Cardinality(set) * max})
                     /\ \A v, w \in set : old[v] > old[w] => new[v] >= new[w]
    <2>1. PICK h, min : Computed(params, optedIn, tokens', old, consumerSet, h, min,
                                 optedIn', consumerSet')
      BY <1>1, ShapedComputes
    <2>2. Entries(params, old, consumerSet, h, consumerSet')
      BY <2>1, ComputedEntries
    <2>3. params.ValidatorsPowerCap = 0 => \A v \in set : new[v] = old[v]
      BY <2>2 DEF Entries
    <2>4. params.ValidatorsPowerCap # 0 => Capped(set, old, new, max)
      BY <2>2 DEF Entries
    <2> HIDE DEF set, old, new, max
    <2> QED BY <2>3, <2>4 DEF Capped, TotalPower
  <1>2. EpochInv /\ [Next]_vars =>
            [Shaped =>
                IF params.ValidatorsPowerCap = 0 THEN \A v \in set : new[v] = old[v]
                ELSE /\ \A v \in set : new[v] <= max /\ new[v] >= Min({old[v], max})
                     /\ TotalPower(set, new)
                            = Min({TotalPower(set, old), Cardinality(set) * max})
                     /\ \A v, w \in set : old[v] > old[w] => new[v] >= new[w]]_vars
    <2> HIDE DEF set, old, new, max
    <2> QED BY <1>1
  <1> QED BY <1>2, EpochCorrect, PTL DEF Spec, PowersCapped

\* An inactive validator is in the set of a chain that does not allow inactive validators
\* only instead of an active one of the same power and with no more tokens
\* (ComputeNextValidators, ProviderValidatorUpdates).
THEOREM InactiveOnlyEverByTie == Spec => InactiveOnlyByTie
  <1> DEFINE t == tokens'
             last == lastPower'
             active == DOMAIN providerSet'
  <1>1. ASSUME EpochInv, [Next]_vars, height' # height, phase = "LAUNCHED",
               BlocksUntilNextEpoch = 0, ~params.AllowInactiveVals,
               NEW v \in DOMAIN consumerSet' \ active
        PROVE  \E w \in active \ DOMAIN consumerSet' : last[w] = last[v] /\ t[w] <= t[v]
    <2>1. Shaped
      BY <1>1 DEF Shaped
    <2>2. PICK h, min : Computed(params, optedIn, t, last, consumerSet, h, min,
                                 optedIn', consumerSet')
      BY <1>1, <2>1, ShapedComputes
    <2>3. active = Active(t, last)
      <3>1. EndBlock
        <4>1. \A jailed : ~EndBlockAndLaunch(jailed)
          BY <1>1 DEF EndBlockAndLaunch
        <4> QED BY <1>1, <2>1, <4>1, ShapedSteps
      <3> QED BY <1>1, <3>1, EndBlockFacts
    <2>4. \E w \in Active(t, last) :
              w \notin DOMAIN consumerSet' /\ last[w] = last[v] /\ t[w] <= t[v]
      BY <1>1, <2>2, <2>3, ComputedTie
    <2> QED BY <2>3, <2>4
  <1>2. EpochInv /\ [Next]_vars =>
            [height' # height /\ phase = "LAUNCHED" /\ BlocksUntilNextEpoch = 0
                 /\ ~params.AllowInactiveVals
             => \A v \in DOMAIN consumerSet' \ active :
                    \E w \in active \ DOMAIN consumerSet' :
                        last[w] = last[v] /\ t[w] <= t[v]]_vars
    <2> HIDE DEF t, last, active
    <2> QED BY <1>1
  <1> QED BY <1>2, EpochCorrect, PTL DEF Spec, InactiveOnlyByTie
=============================================================================
