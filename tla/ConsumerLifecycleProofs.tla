----------------------- MODULE ConsumerLifecycleProofs -----------------------
(***************************************************************************)
(* The life cycle of consumers is correct for any number of consumers, any *)
(* limit per block, any unbonding period and any sequence of messages,     *)
(* blocks, timeouts and failures: the time queues stay sorted and agree    *)
(* with the phases and times of the consumers.                             *)
(***************************************************************************)
EXTENDS ConsumerLifecycle, SumProofs, SequenceTheorems

-----------------------------------------------------------------------------
(* Filter *)

\* g is a function by which Filter(s, T) is computed.
FilterSteps(s, T, g) ==
    g = [i \in 0..Len(s) |->
            IF i = 0 THEN <<>>
            ELSE IF s[i] \in T THEN Append(g[i - 1], s[i])
            ELSE g[i - 1]]

\* Filter is computed by such a function.
LEMMA FilterIsSteps ==
    ASSUME NEW s, NEW T
    PROVE  Filter(s, T) = (CHOOSE g : FilterSteps(s, T, g))[Len(s)]
  BY DEF Filter, FilterSteps

\* There is one, by induction over how far it computes.
LEMMA FilterExists ==
    ASSUME NEW S, NEW s \in Seq(S), NEW T
    PROVE  \E g \in [0..Len(s) -> Seq(S)] : FilterSteps(s, T, g)
  <1> DEFINE n == Len(s)
             Value(g, i) == IF i = 0 THEN <<>>
                            ELSE IF s[i] \in T THEN Append(g[i - 1], s[i])
                            ELSE g[i - 1]
             Good(g, m) == \A i \in 0..n : i <= m => g[i] = Value(g, i)
             R == {m \in Nat : \E g \in [0..n -> Seq(S)] : Good(g, m)}
  <1>1. n \in Nat /\ \A i \in 1..n : s[i] \in S
    OBVIOUS
  <1> HIDE DEF n
  <1>2. 0 \in R
    <2> DEFINE g == [i \in 0..n |-> <<>>]
    <2>1. g \in [0..n -> Seq(S)] /\ Good(g, 0)
      BY <1>1
    <2> QED BY <2>1
  <1>3. ASSUME NEW m \in Nat, m \in R PROVE m + 1 \in R
    <2>1. PICK g \in [0..n -> Seq(S)] : Good(g, m)
      BY <1>3
    <2> DEFINE h == [i \in 0..n |-> IF i = m + 1 THEN Value(g, i) ELSE g[i]]
    <2>2. h \in [0..n -> Seq(S)]
      <3> SUFFICES ASSUME NEW i \in 0..n PROVE (IF i = m + 1 THEN Value(g, i) ELSE g[i]) \in Seq(S)
        OBVIOUS
      <3>1. CASE i # 0
        <4>1. i - 1 \in 0..n /\ s[i] \in S
          BY <1>1, <3>1
        <4>2. g[i - 1] \in Seq(S)
          BY <4>1
        <4>3. Append(g[i - 1], s[i]) \in Seq(S)
          BY <4>1, <4>2
        <4> QED BY <3>1, <4>2, <4>3
      <3>2. CASE i = 0
        BY <3>2
      <3> QED BY <3>1, <3>2
    <2>3. Good(h, m + 1)
      <3> SUFFICES ASSUME NEW i \in 0..n, i <= m + 1 PROVE h[i] = Value(h, i)
        OBVIOUS
      <3>1. i # 0 => i - 1 \in 0..n /\ h[i - 1] = g[i - 1]
        BY <1>1
      <3>2. Value(h, i) = Value(g, i)
        BY <3>1
      <3>3. CASE i = m + 1
        BY <3>2, <3>3
      <3>4. CASE i # m + 1
        <4>1. h[i] = g[i] /\ i <= m
          BY <1>1, <3>4
        <4>2. g[i] = Value(g, i)
          BY <2>1, <4>1
        <4> QED BY <3>2, <4>1, <4>2
      <3> QED BY <3>3, <3>4
    <2> HIDE DEF h, Good
    <2> QED BY <2>2, <2>3
  <1>4. \A m \in Nat : m \in R
    <2> HIDE DEF R
    <2> QED BY <1>2, <1>3, NatSetInduction
  <1>5. PICK g \in [0..n -> Seq(S)] : Good(g, n)
    BY <1>1, <1>4
  <1>6. g = [i \in 0..n |-> Value(g, i)]
    BY <1>1, <1>5
  <1> QED BY <1>6 DEF FilterSteps, n

\* The elements of r are those of the first n of s that are in T, in order: g tells
\* where they come from.
Selects(s, T, n, r, g) ==
    /\ g \in [1..Len(r) -> 1..n]
    /\ \A i \in 1..Len(r) : r[i] = s[g[i]] /\ r[i] \in T
    /\ \A i, j \in 1..Len(r) : i < j => g[i] < g[j]
    /\ \A k \in 1..n : s[k] \in T => \E i \in 1..Len(r) : g[i] = k

\* Filter selects.
LEMMA FilterSelects ==
    ASSUME NEW S, NEW s \in Seq(S), NEW T
    PROVE  Filter(s, T) \in Seq(S) /\ \E g : Selects(s, T, Len(s), Filter(s, T), g)
  <1>1. Len(s) \in Nat /\ \A i \in 1..Len(s) : s[i] \in S
    OBVIOUS
  <1> DEFINE f == CHOOSE g : FilterSteps(s, T, g)
  <1>2. FilterSteps(s, T, f)
    BY FilterExists
  <1>3. Filter(s, T) = f[Len(s)]
    BY FilterIsSteps
  <1> HIDE DEF f
  <1> DEFINE R == {n \in Nat : n <= Len(s) =>
                     f[n] \in Seq(S) /\ \E g : Selects(s, T, n, f[n], g)}
  <1>4. /\ f[0] = <<>>
        /\ \A n \in Nat : n + 1 <= Len(s) =>
              f[n + 1] = IF s[n + 1] \in T THEN Append(f[n], s[n + 1]) ELSE f[n]
    <2> DEFINE V(i) == IF i = 0 THEN <<>>
                       ELSE IF s[i] \in T THEN Append(f[i - 1], s[i])
                       ELSE f[i - 1]
    <2>1. f = [i \in 0..Len(s) |-> V(i)]
      BY <1>2 DEF FilterSteps
    <2>2. \A i \in 0..Len(s) : f[i] = V(i)
      <3> HIDE DEF V
      <3> QED BY <2>1
    <2>3. f[0] = <<>>
      BY <1>1, <2>2
    <2>4. ASSUME NEW n \in Nat, n + 1 <= Len(s)
          PROVE  f[n + 1] = IF s[n + 1] \in T THEN Append(f[n], s[n + 1]) ELSE f[n]
      <3>1. n + 1 \in 0..Len(s) /\ n + 1 # 0 /\ (n + 1) - 1 = n
        BY <1>1, <2>4
      <3> QED BY <2>2, <3>1
    <2> QED BY <2>3, <2>4
  <1>5. 0 \in R
    <2>1. Selects(s, T, 0, <<>>, <<>>)
      BY DEF Selects
    <2>2. f[0] \in Seq(S) /\ \E g : Selects(s, T, 0, f[0], g)
      BY <1>4, <2>1
    <2> QED BY <2>2
  <1>6. ASSUME NEW n \in Nat, n \in R PROVE n + 1 \in R
    <2> SUFFICES ASSUME n + 1 <= Len(s)
                 PROVE  f[n + 1] \in Seq(S) /\ \E g : Selects(s, T, n + 1, f[n + 1], g)
      OBVIOUS
    <2>1. f[n] \in Seq(S) /\ s[n + 1] \in S
      BY <1>1, <1>6
    <2>2. PICK g : Selects(s, T, n, f[n], g)
      BY <1>1, <1>6
    <2>3. CASE s[n + 1] \notin T
      <3>1. f[n + 1] = f[n]
        BY <1>4, <2>3
      <3>2. Selects(s, T, n + 1, f[n], g)
        BY <2>2, <2>3 DEF Selects
      <3> QED BY <2>1, <3>1, <3>2
    <2>4. CASE s[n + 1] \in T
      <3> DEFINE r == f[n]
                 q == f[n + 1]
                 h == [i \in 1..(Len(r) + 1) |-> IF i = Len(r) + 1 THEN n + 1 ELSE g[i]]
      <3>1. q = Append(r, s[n + 1])
        BY <1>4, <2>4
      <3>2. /\ q \in Seq(S) /\ Len(r) \in Nat /\ Len(q) = Len(r) + 1
            /\ q[Len(r) + 1] = s[n + 1] /\ \A i \in 1..Len(r) : q[i] = r[i]
        BY <2>1, <3>1
      <3> HIDE DEF r, q
      <3>3. /\ g \in [1..Len(r) -> 1..n]
            /\ \A i \in 1..Len(r) : r[i] = s[g[i]] /\ r[i] \in T
            /\ \A i, j \in 1..Len(r) : i < j => g[i] < g[j]
            /\ \A k \in 1..n : s[k] \in T => \E i \in 1..Len(r) : g[i] = k
        BY <2>2 DEF Selects, r
      <3>4. h \in [1..Len(q) -> 1..(n + 1)]
        BY <3>2, <3>3
      <3>5. \A i \in 1..Len(q) : q[i] = s[h[i]] /\ q[i] \in T
        BY <2>4, <3>2, <3>3
      <3>6. \A i, j \in 1..Len(q) : i < j => h[i] < h[j]
        <4> SUFFICES ASSUME NEW i \in 1..Len(q), NEW j \in 1..Len(q), i < j PROVE h[i] < h[j]
          OBVIOUS
        <4>1. i \in 1..Len(r) /\ h[i] = g[i] /\ g[i] \in 1..n
          BY <3>2, <3>3
        <4>2. CASE j = Len(r) + 1
          BY <3>2, <4>1, <4>2
        <4>3. CASE j # Len(r) + 1
          <5>1. j \in 1..Len(r) /\ h[j] = g[j]
            BY <3>2, <4>3
          <5> QED BY <3>3, <4>1, <5>1
        <4> QED BY <4>2, <4>3
      <3>7. \A k \in 1..(n + 1) : s[k] \in T => \E i \in 1..Len(q) : h[i] = k
        <4> SUFFICES ASSUME NEW k \in 1..(n + 1), s[k] \in T PROVE \E i \in 1..Len(q) : h[i] = k
          OBVIOUS
        <4>1. CASE k = n + 1
          <5>1. Len(r) + 1 \in 1..Len(q) /\ h[Len(r) + 1] = k
            BY <3>2, <4>1
          <5> QED BY <5>1
        <4>2. CASE k # n + 1
          <5>1. PICK i \in 1..Len(r) : g[i] = k
            BY <3>3, <4>2
          <5>2. i \in 1..Len(q) /\ h[i] = k
            BY <3>2, <5>1
          <5> QED BY <5>2
        <4> QED BY <4>1, <4>2
      <3> HIDE DEF h
      <3>8. Selects(s, T, n + 1, q, h)
        BY <3>4, <3>5, <3>6, <3>7 DEF Selects
      <3> QED BY <3>2, <3>8 DEF q
    <2> QED BY <2>3, <2>4
  <1>7. \A n \in Nat : n \in R
    <2> HIDE DEF R
    <2> QED BY <1>5, <1>6, NatSetInduction
  <1> QED BY <1>1, <1>3, <1>7

-----------------------------------------------------------------------------
(* Time queues *)

\* Entries are in the order of their times.
Sorted(q) == \A i, j \in 1..Len(q) : i < j => q[i].time <= q[j].time

\* c has no entry, or just one, at time t.
Absent(q, c) == \A i \in 1..Len(q) : q[i].id # c
Sole(q, c, t) ==
    \E i \in 1..Len(q) :
        /\ q[i].id = c /\ q[i].time = t
        /\ \A j \in 1..Len(q) : q[j].id = c => j = i

\* c has no entry before time t.
NoneBefore(q, c, t) == \A i \in 1..Len(q) : q[i].id = c => q[i].time >= t

\* The entries of a queue.
LEMMA EntryTypes ==
    ASSUME NEW q \in Seq(Entries)
    PROVE  /\ Len(q) \in Nat
           /\ \A i \in 1..Len(q) : /\ q[i] \in Entries /\ q[i].time \in Nat
                                   /\ q[i] = [time |-> q[i].time, id |-> q[i].id]
  <1>1. Len(q) \in Nat /\ \A i \in 1..Len(q) : q[i] \in Entries
    OBVIOUS
  <1>2. \A e \in Entries : e.time \in Nat /\ e = [time |-> e.time, id |-> e.id]
    BY DEF Entries, Times
  <1> QED BY <1>1, <1>2

\* In a sorted queue the entries up to time t come first.
LEMMA UpToIsPrefix ==
    ASSUME NEW q \in Seq(Entries), Sorted(q), NEW t \in Int
    PROVE  /\ NumUpTo(q, t) \in 0..Len(q)
           /\ \A i \in 1..Len(q) : q[i].time <= t <=> i <= NumUpTo(q, t)
  <1> DEFINE R == {n \in Nat : n <= Len(q) =>
                     \E m \in 0..n : \A i \in 1..n : q[i].time <= t <=> i <= m}
  <1>1. Len(q) \in Nat /\ \A i \in 1..Len(q) : q[i].time \in Nat
    BY EntryTypes
  <1>2. 0 \in R
    OBVIOUS
  <1>3. ASSUME NEW n \in Nat, n \in R PROVE n + 1 \in R
    <2> SUFFICES ASSUME n + 1 <= Len(q)
                 PROVE  \E m \in 0..(n + 1) : \A i \in 1..(n + 1) : q[i].time <= t <=> i <= m
      OBVIOUS
    <2>1. PICK m \in 0..n : \A i \in 1..n : q[i].time <= t <=> i <= m
      BY <1>1, <1>3
    <2>2. CASE q[n + 1].time <= t
      <3>1. \A i \in 1..(n + 1) : q[i].time <= t
        <4> SUFFICES ASSUME NEW i \in 1..n PROVE q[i].time <= t
          BY <2>2
        <4>1. i \in 1..Len(q) /\ n + 1 \in 1..Len(q) /\ i < n + 1
          BY <1>1
        <4>2. q[i].time <= q[n + 1].time /\ q[i].time \in Nat /\ q[n + 1].time \in Nat
          BY <1>1, <4>1 DEF Sorted
        <4> QED BY <2>2, <4>2
      <3>2. \A i \in 1..(n + 1) : q[i].time <= t <=> i <= n + 1
        BY <3>1
      <3>3. n + 1 \in 0..(n + 1)
        OBVIOUS
      <3> QED BY <3>2, <3>3
    <2>3. CASE ~(q[n + 1].time <= t)
      <3>1. \A i \in 1..(n + 1) : q[i].time <= t <=> i <= m
        BY <2>1, <2>3
      <3>2. m \in 0..(n + 1)
        OBVIOUS
      <3> QED BY <3>1, <3>2
    <2> QED BY <2>2, <2>3
  <1>4. \A n \in Nat : n \in R
    <2> HIDE DEF R
    <2> QED BY <1>2, <1>3, NatSetInduction
  <1>5. PICK m \in 0..Len(q) : \A i \in 1..Len(q) : q[i].time <= t <=> i <= m
    <2>1. Len(q) \in R
      <3> HIDE DEF R
      <3> QED BY <1>1, <1>4
    <2>2. Len(q) <= Len(q)
      BY <1>1
    <2> QED BY <2>1, <2>2
  <1>6. {i \in 1..Len(q) : q[i].time <= t} = 1..m
    BY <1>1, <1>5
  <1>7. Cardinality(1..m) = m
    BY <1>1, FS_Interval
  <1> QED BY <1>5, <1>6, <1>7 DEF NumUpTo

\* appendConsumerIdOnTime puts the entry behind those up to its time and before the
\* others.
LEMMA AppendInserts ==
    ASSUME NEW q \in Seq(Entries), Sorted(q), NEW c \in Consumers, NEW t \in Times
    PROVE  /\ AppendOnTime(q, c, t) \in Seq(Entries)
           /\ Len(AppendOnTime(q, c, t)) = Len(q) + 1
           /\ \E m \in 0..Len(q) :
                 /\ \A i \in 1..Len(q) : q[i].time <= t <=> i <= m
                 /\ \A i \in 1..(Len(q) + 1) :
                       AppendOnTime(q, c, t)[i] = IF i <= m THEN q[i]
                                                  ELSE IF i = m + 1 THEN [time |-> t, id |-> c]
                                                  ELSE q[i - 1]
  <1> DEFINE m == NumUpTo(q, t)
             e == [time |-> t, id |-> c]
             a == SubSeq(q, 1, m)
             b == SubSeq(q, m + 1, Len(q))
  <1>1. m \in 0..Len(q) /\ \A i \in 1..Len(q) : q[i].time <= t <=> i <= m
    BY UpToIsPrefix DEF Times
  <1>2. Len(q) \in Nat /\ e \in Entries
    BY DEF Entries
  <1> HIDE DEF m, e
  <1>3. a \in Seq(Entries) /\ Len(a) = m /\ \A i \in 1..m : a[i] = q[i]
    BY <1>1, <1>2
  <1>4. /\ b \in Seq(Entries) /\ Len(b) = Len(q) - m
        /\ \A i \in 1..(Len(q) - m) : b[i] = q[m + i]
    BY <1>1, <1>2
  <1>5. AppendOnTime(q, c, t) = a \o <<e>> \o b
    BY DEF AppendOnTime, m, e
  <1> HIDE DEF a, b
  <1>6. /\ a \o <<e>> \in Seq(Entries) /\ Len(a \o <<e>>) = m + 1
        /\ \A i \in 1..m : (a \o <<e>>)[i] = q[i]
        /\ (a \o <<e>>)[m + 1] = e
    BY <1>1, <1>2, <1>3
  <1> DEFINE d == a \o <<e>>
  <1> HIDE DEF d
  <1>7. /\ d \o b \in Seq(Entries) /\ Len(d \o b) = Len(q) + 1
        /\ \A i \in 1..(m + 1) : (d \o b)[i] = d[i]
        /\ \A i \in (m + 2)..(Len(q) + 1) : (d \o b)[i] = b[i - (m + 1)]
    BY <1>1, <1>2, <1>4, <1>6 DEF d
  <1>8. ASSUME NEW i \in 1..(Len(q) + 1)
        PROVE  (d \o b)[i] = IF i <= m THEN q[i] ELSE IF i = m + 1 THEN e ELSE q[i - 1]
    <2>1. CASE i <= m
      BY <1>1, <1>2, <1>6, <1>7, <2>1 DEF d
    <2>2. CASE i = m + 1
      BY <1>1, <1>2, <1>6, <1>7, <2>2 DEF d
    <2>3. CASE i > m + 1
      <3>1. i - (m + 1) \in 1..(Len(q) - m) /\ m + (i - (m + 1)) = i - 1
        BY <1>1, <1>2, <2>3
      <3>2. (d \o b)[i] = b[i - (m + 1)]
        BY <1>1, <1>2, <1>7, <2>3
      <3>3. b[i - (m + 1)] = q[i - 1]
        BY <1>4, <3>1
      <3> QED BY <1>1, <2>3, <3>2, <3>3
    <2>4. i \in Int /\ m \in Int
      BY <1>1, <1>2
    <2>5. i <= m \/ i = m + 1 \/ i > m + 1
      BY <2>4
    <2> QED BY <2>1, <2>2, <2>3, <2>5
  <1> QED BY <1>1, <1>5, <1>7, <1>8 DEF d, e

\* What appendConsumerIdOnTime does to a queue.
LEMMA AppendQueue ==
    ASSUME NEW q \in Seq(Entries), Sorted(q), NEW c \in Consumers, NEW t \in Times
    PROVE  LET a == AppendOnTime(q, c, t)
           IN  /\ a \in Seq(Entries) /\ Sorted(a)
               /\ \A d \in Consumers \ {c} :
                     /\ Absent(q, d) => Absent(a, d)
                     /\ \A u : Sole(q, d, u) => Sole(a, d, u)
               /\ Absent(q, c) => Sole(a, c, t)
               /\ Queued(a, c, t)
               /\ \A d, u : Queued(q, d, u) => Queued(a, d, u)
               /\ \A d, u : NoneBefore(q, d, u) /\ (d = c => t >= u) => NoneBefore(a, d, u)
  <1> DEFINE a == AppendOnTime(q, c, t)
             e == [time |-> t, id |-> c]
             n == Len(q)
  <1>1. a \in Seq(Entries) /\ Len(a) = n + 1 /\ n \in Nat /\ t \in Nat
    <2>1. a \in Seq(Entries) /\ Len(a) = n + 1
      BY AppendInserts
    <2>2. n \in Nat
      OBVIOUS
    <2>3. t \in Nat
      BY LifecycleAssumption DEF Times
    <2> QED BY <2>1, <2>2, <2>3
  <1>2. PICK m \in 0..n :
            /\ \A i \in 1..n : q[i].time <= t <=> i <= m
            /\ \A i \in 1..(n + 1) :
                  a[i] = IF i <= m THEN q[i] ELSE IF i = m + 1 THEN e ELSE q[i - 1]
    BY AppendInserts
  <1>3. \A i \in 1..n : q[i].time \in Nat
    BY EntryTypes
  <1>4. e.time = t /\ e.id = c
    OBVIOUS
  <1> DEFINE At(i) == IF i <= m THEN i ELSE i + 1
  <1>5. /\ \A i \in 1..n : At(i) \in 1..(n + 1) /\ a[At(i)] = q[i]
        /\ m + 1 \in 1..(n + 1) /\ a[m + 1] = e
        /\ \A j \in 1..(n + 1) : j # m + 1 => \E i \in 1..n : j = At(i)
    <2>1. ASSUME NEW i \in 1..n PROVE At(i) \in 1..(n + 1) /\ a[At(i)] = q[i]
      <3> HIDE DEF a, n, e
      <3>1. CASE i <= m
        BY <1>1, <1>2, <3>1
      <3>2. CASE ~(i <= m)
        <4>1. At(i) = i + 1 /\ i + 1 \in 1..(n + 1) /\ ~(i + 1 <= m) /\ i + 1 # m + 1
          BY <1>1, <1>2, <3>2
        <4>2. a[i + 1] = q[(i + 1) - 1]
          BY <1>2, <4>1
        <4>3. (i + 1) - 1 = i
          BY <1>1
        <4> QED BY <4>1, <4>2, <4>3
      <3> QED BY <3>1, <3>2
    <2>2. m + 1 \in 1..(n + 1) /\ a[m + 1] = e
      BY <1>1, <1>2
    <2>3. ASSUME NEW j \in 1..(n + 1), j # m + 1 PROVE \E i \in 1..n : j = At(i)
      <3>1. CASE j <= m
        <4>1. j \in 1..n /\ j = At(j)
          BY <1>1, <1>2, <3>1
        <4> QED BY <4>1
      <3>2. CASE j > m + 1
        <4>1. j - 1 \in 1..n /\ j = At(j - 1)
          BY <1>1, <1>2, <3>2
        <4> QED BY <4>1
      <3> QED BY <1>1, <1>2, <2>3, <3>1, <3>2
    <2> QED BY <2>1, <2>2, <2>3
  <1>6. \A i, j \in 1..n : At(i) = At(j) => i = j
    BY <1>1, <1>2
  <1> HIDE DEF a, e
  <1>7. Sorted(a)
    <2> SUFFICES ASSUME NEW i \in 1..(n + 1), NEW j \in 1..(n + 1), i < j
                 PROVE  a[i].time <= a[j].time
      BY <1>1 DEF Sorted
    <2> DEFINE Back(k) == IF k <= m THEN k ELSE k - 1
    <2>1. \A k \in 1..(n + 1) : k # m + 1 => Back(k) \in 1..n /\ a[k] = q[Back(k)]
      BY <1>1, <1>2
    <2>2. CASE i = m + 1
      <3>1. Back(j) \in 1..n /\ Back(j) > m /\ a[j] = q[Back(j)]
        BY <1>1, <1>2, <2>1, <2>2
      <3> HIDE DEF Back
      <3>2. ~(q[Back(j)].time <= t) /\ q[Back(j)].time \in Nat
        BY <1>2, <1>3, <3>1
      <3> QED BY <1>1, <1>4, <1>5, <2>2, <3>1, <3>2
    <2>3. CASE j = m + 1
      <3>1. Back(i) \in 1..n /\ Back(i) <= m /\ a[i] = q[Back(i)]
        BY <1>1, <1>2, <2>1, <2>3
      <3> HIDE DEF Back
      <3>2. q[Back(i)].time <= t
        BY <1>2, <3>1
      <3> QED BY <1>4, <1>5, <2>3, <3>1, <3>2
    <2>4. CASE i # m + 1 /\ j # m + 1
      <3>1. /\ Back(i) \in 1..n /\ a[i] = q[Back(i)]
            /\ Back(j) \in 1..n /\ a[j] = q[Back(j)]
        BY <2>1, <2>4
      <3>2. Back(i) < Back(j)
        BY <1>1, <1>2, <2>4
      <3> HIDE DEF Back
      <3> QED BY <3>1, <3>2 DEF Sorted
    <2> QED BY <2>2, <2>3, <2>4
  <1> HIDE DEF At
  <1>8. ASSUME NEW d \in Consumers \ {c}
        PROVE  /\ Absent(q, d) => Absent(a, d)
               /\ \A u : Sole(q, d, u) => Sole(a, d, u)
    <2>1. ASSUME Absent(q, d) PROVE Absent(a, d)
      <3> SUFFICES ASSUME NEW j \in 1..(n + 1) PROVE a[j].id # d
        BY <1>1 DEF Absent
      <3>1. CASE j = m + 1
        BY <1>4, <1>5, <3>1
      <3>2. CASE j # m + 1
        <4>1. PICK i \in 1..n : j = At(i)
          BY <1>5, <3>2
        <4> QED BY <1>5, <2>1, <4>1 DEF Absent
      <3> QED BY <3>1, <3>2
    <2>2. ASSUME NEW u, Sole(q, d, u) PROVE Sole(a, d, u)
      <3>1. PICK i \in 1..n : /\ q[i].id = d /\ q[i].time = u
                              /\ \A j \in 1..n : q[j].id = d => j = i
        BY <2>2 DEF Sole
      <3>2. At(i) \in 1..Len(a) /\ a[At(i)].id = d /\ a[At(i)].time = u
        BY <1>1, <1>5, <3>1
      <3>3. ASSUME NEW j \in 1..(n + 1), a[j].id = d PROVE j = At(i)
        <4>1. j # m + 1
          BY <1>4, <1>5, <3>3
        <4>2. PICK k \in 1..n : j = At(k)
          BY <1>5, <4>1
        <4>3. k = i
          BY <1>5, <3>1, <3>3, <4>2
        <4> QED BY <4>2, <4>3
      <3> QED BY <1>1, <3>2, <3>3 DEF Sole
    <2> QED BY <2>1, <2>2
  <1>9. ASSUME Absent(q, c) PROVE Sole(a, c, t)
    <2>1. ASSUME NEW j \in 1..(n + 1), a[j].id = c PROVE j = m + 1
      <3> SUFFICES ASSUME j # m + 1 PROVE FALSE
        OBVIOUS
      <3>1. PICK k \in 1..n : j = At(k)
        BY <1>5
      <3> QED BY <1>5, <1>9, <2>1, <3>1 DEF Absent
    <2>2. m + 1 \in 1..(n + 1) /\ a[m + 1].id = c /\ a[m + 1].time = t
      BY <1>4, <1>5
    <2> QED BY <1>1, <2>1, <2>2 DEF Sole
  <1>10. Queued(a, c, t) /\ \A d, u : Queued(q, d, u) => Queued(a, d, u)
    BY <1>1, <1>5 DEF Queued, e
  <1>11. \A d, u : NoneBefore(q, d, u) /\ (d = c => t >= u) => NoneBefore(a, d, u)
    BY <1>1, <1>4, <1>5 DEF NoneBefore
  <1> QED BY <1>1, <1>7, <1>8, <1>9, <1>10, <1>11 DEF a

\* What a filter does to a queue.
LEMMA FilterQueue ==
    ASSUME NEW q \in Seq(Entries), Sorted(q), NEW T
    PROVE  LET r == Filter(q, T)
           IN  /\ r \in Seq(Entries) /\ Sorted(r)
               /\ \A c : (\A i \in 1..Len(q) : q[i].id = c => q[i] \notin T) => Absent(r, c)
               /\ \A c \in Consumers : \A t : Sole(q, c, t) /\ [time |-> t, id |-> c] \in T
                                              => Sole(r, c, t)
  <1> DEFINE r == Filter(q, T)
  <1>1. PICK g : Selects(q, T, Len(q), r, g)
    BY FilterSelects
  <1>2. r \in Seq(Entries) /\ Len(r) \in Nat /\ Len(q) \in Nat
    BY FilterSelects
  <1> HIDE DEF r
  <1>3. /\ \A i \in 1..Len(r) : g[i] \in 1..Len(q) /\ r[i] = q[g[i]] /\ r[i] \in T
        /\ \A i, j \in 1..Len(r) : i < j => g[i] < g[j]
        /\ \A k \in 1..Len(q) : q[k] \in T => \E i \in 1..Len(r) : g[i] = k
    BY <1>1 DEF Selects
  <1>4. Sorted(r)
    BY <1>3 DEF Sorted
  <1>5. \A c : (\A i \in 1..Len(q) : q[i].id = c => q[i] \notin T) => Absent(r, c)
    BY <1>3 DEF Absent
  <1>6. ASSUME NEW c \in Consumers, NEW t, Sole(q, c, t), [time |-> t, id |-> c] \in T
        PROVE  Sole(r, c, t)
    <2>1. PICK k \in 1..Len(q) : /\ q[k].id = c /\ q[k].time = t
                                 /\ \A j \in 1..Len(q) : q[j].id = c => j = k
      BY <1>6 DEF Sole
    <2>2. q[k] \in T
      BY <1>6, <2>1, EntryTypes
    <2>3. PICK i \in 1..Len(r) : g[i] = k
      BY <1>3, <2>2
    <2>4. r[i].id = c /\ r[i].time = t
      BY <1>3, <2>1, <2>3
    <2>5. \A j \in 1..Len(r) : r[j].id = c => g[j] = k
      BY <1>3, <2>1
    <2>6. \A j \in 1..Len(r) : g[j] = g[i] => j = i
      BY <1>2, <1>3
    <2> QED BY <2>3, <2>4, <2>5, <2>6 DEF Sole
  <1> QED BY <1>2, <1>4, <1>5, <1>6 DEF r

\* What ConsumeIdsFromTimeQueue takes from a queue, and leaves.
LEMMA DueQueue ==
    ASSUME NEW q \in Seq(Entries), Sorted(q), NEW t \in Times
    PROVE  LET r == NotDue(q, t)
           IN  /\ r \in Seq(Entries) /\ Sorted(r) /\ DueIds(q, t) \subseteq Consumers
               /\ \A c \in DueIds(q, t) : ~Absent(q, c)
               /\ \A c \in Consumers : Absent(q, c) => Absent(r, c)
               /\ \A c \in Consumers : \A u : Sole(q, c, u) =>
                     IF c \in DueIds(q, t) THEN Absent(r, c) /\ u <= t ELSE Sole(r, c, u)
               /\ \A c \in Consumers : \A u :
                     Queued(q, c, u) /\ c \notin DueIds(q, t) => Queued(r, c, u)
               /\ \A c, u : NoneBefore(q, c, u) => NoneBefore(r, c, u)
               /\ \A c \in DueIds(q, t), u \in Nat : NoneBefore(q, c, u) => u <= t
  <1> DEFINE r == NotDue(q, t)
             n == NumDue(q, t)
  <1>1. Limit \in Nat /\ t \in Nat /\ Len(q) \in Nat
    BY LifecycleAssumption DEF Times
  <1>2. n \in 0..Len(q) /\ \A i \in 1..n : q[i].time <= t
    <2>1. /\ NumUpTo(q, t) \in 0..Len(q)
          /\ \A i \in 1..Len(q) : q[i].time <= t <=> i <= NumUpTo(q, t)
      BY <1>1, UpToIsPrefix
    <2>2. n \in 0..NumUpTo(q, t)
      BY <1>1, <2>1 DEF NumDue
    <2> HIDE DEF n
    <2> QED BY <1>1, <2>1, <2>2
  <1> HIDE DEF n
  <1>3. /\ r \in Seq(Entries) /\ Len(r) = Len(q) - n
        /\ \A i \in 1..Len(r) : r[i] = q[i + n] /\ i + n \in 1..Len(q)
    <2>1. r = SubSeq(q, n + 1, Len(q))
      BY DEF NotDue, n
    <2> HIDE DEF r
    <2> QED BY <1>1, <1>2, <2>1
  <1>4. DueIds(q, t) = {q[i].id : i \in 1..n}
    BY DEF DueIds, n
  <1> HIDE DEF r
  <1>5. \A k \in 1..Len(q) : k > n => k - n \in 1..Len(r) /\ r[k - n] = q[k]
    BY <1>1, <1>2, <1>3
  <1>6. Sorted(r)
    BY <1>1, <1>2, <1>3 DEF Sorted
  <1>7. DueIds(q, t) \subseteq Consumers /\ \A c \in DueIds(q, t) : ~Absent(q, c)
    <2>1. \A e \in Entries : e.id \in Consumers
      BY DEF Entries
    <2>2. \A i \in 1..n : i \in 1..Len(q)
      BY <1>1, <1>2
    <2>3. \A i \in 1..n : q[i].id \in Consumers
      BY <2>1, <2>2, EntryTypes
    <2> QED BY <1>4, <2>2, <2>3 DEF Absent
  <1>8. \A c \in Consumers : Absent(q, c) => Absent(r, c)
    BY <1>3 DEF Absent
  <1>9. ASSUME NEW c \in Consumers, NEW u, Sole(q, c, u)
        PROVE  IF c \in DueIds(q, t) THEN Absent(r, c) /\ u <= t ELSE Sole(r, c, u)
    <2>1. PICK k \in 1..Len(q) : /\ q[k].id = c /\ q[k].time = u
                                 /\ \A j \in 1..Len(q) : q[j].id = c => j = k
      BY <1>9 DEF Sole
    <2>2. CASE c \in DueIds(q, t)
      <3>1. k <= n
        BY <1>1, <1>2, <1>4, <2>1, <2>2
      <3>2. Absent(r, c)
        BY <1>1, <1>2, <1>3, <2>1, <3>1 DEF Absent
      <3> QED BY <1>1, <1>2, <2>1, <2>2, <3>1, <3>2
    <2>3. CASE c \notin DueIds(q, t)
      <3>1. k > n
        BY <1>1, <1>2, <1>4, <2>1, <2>3
      <3>2. k - n \in 1..Len(r) /\ r[k - n] = q[k]
        BY <1>5, <3>1
      <3>3. \A j \in 1..Len(r) : r[j].id = c => j = k - n
        <4> SUFFICES ASSUME NEW j \in 1..Len(r), r[j].id = c PROVE j = k - n
          OBVIOUS
        <4>1. j + n = k
          BY <1>3, <2>1
        <4> QED BY <1>1, <1>2, <1>3, <4>1
      <3> QED BY <2>1, <2>3, <3>2, <3>3 DEF Sole
    <2> QED BY <2>2, <2>3
  <1>10. ASSUME NEW c \in Consumers, NEW u, Queued(q, c, u), c \notin DueIds(q, t)
         PROVE  Queued(r, c, u)
    <2>1. PICK k \in 1..Len(q) : q[k] = [time |-> u, id |-> c]
      BY <1>10 DEF Queued
    <2>2. q[k].id = c
      BY <2>1
    <2>3. k > n
      BY <1>1, <1>2, <1>4, <1>10, <2>2
    <2> QED BY <1>5, <2>1, <2>3 DEF Queued
  <1>11. \A c, u : NoneBefore(q, c, u) => NoneBefore(r, c, u)
    BY <1>3 DEF NoneBefore
  <1>12. \A c \in DueIds(q, t), u \in Nat : NoneBefore(q, c, u) => u <= t
    <2> SUFFICES ASSUME NEW i \in 1..n, NEW u \in Nat, NoneBefore(q, q[i].id, u) PROVE u <= t
      BY <1>4
    <2>1. i \in 1..Len(q) /\ q[i].time <= t
      BY <1>1, <1>2
    <2>2. q[i].time >= u /\ q[i].time \in Nat
      BY <2>1, EntryTypes DEF NoneBefore
    <2> QED BY <1>1, <2>1, <2>2
  <1> QED BY <1>3, <1>6, <1>7, <1>8, <1>9, <1>10, <1>11, <1>12 DEF r

\* removeConsumerIdFromTime, of the only entry of a consumer.
LEMMA RemoveQueue ==
    ASSUME NEW q \in Seq(Entries), Sorted(q), NEW c \in Consumers, NEW t, Sole(q, c, t)
    PROVE  LET r == RemoveFromTime(q, c, t)
           IN  /\ r \in Seq(Entries) /\ Sorted(r) /\ Absent(r, c)
               /\ \A d \in Consumers \ {c} :
                     /\ Absent(q, d) => Absent(r, d)
                     /\ \A u : Sole(q, d, u) => Sole(r, d, u)
  <1> DEFINE T == Entries \ {[time |-> t, id |-> c]}
             r == Filter(q, T)
  <1>1. r = RemoveFromTime(q, c, t)
    BY DEF RemoveFromTime
  <1>2. r \in Seq(Entries) /\ Sorted(r)
    BY FilterQueue
  <1>3. ASSUME NEW i \in 1..Len(q), q[i].id = c PROVE q[i] \notin T
    BY <1>3, EntryTypes DEF Sole
  <1>4. ASSUME NEW d \in Consumers \ {c}, NEW u, Sole(q, d, u)
        PROVE  [time |-> u, id |-> d] \in T
    <2>1. PICK i \in 1..Len(q) : q[i].id = d /\ q[i].time = u
      BY <1>4 DEF Sole
    <2>2. q[i] \in Entries /\ q[i] = [time |-> u, id |-> d]
      BY <2>1, EntryTypes
    <2>3. [time |-> u, id |-> d] # [time |-> t, id |-> c]
      BY DEF Entries
    <2> QED BY <2>2, <2>3
  <1> HIDE DEF T
  <1>5. Absent(r, c)
    BY <1>3, FilterQueue
  <1>6. ASSUME NEW d \in Consumers \ {c}, Absent(q, d) PROVE Absent(r, d)
    <2>1. \A i \in 1..Len(q) : q[i].id = d => q[i] \notin T
      BY <1>6 DEF Absent
    <2> QED BY <2>1, FilterQueue
  <1>7. ASSUME NEW d \in Consumers \ {c}, NEW u, Sole(q, d, u) PROVE Sole(r, d, u)
    <2>1. [time |-> u, id |-> d] \in T
      BY <1>4, <1>7
    <2> QED BY <1>7, <2>1, FilterQueue
  <1> HIDE DEF r
  <1> QED BY <1>1, <1>2, <1>5, <1>6, <1>7

\* RemoveConsumerInfractionQueuedData, for the consumers in S.
LEMMA WithoutQueue ==
    ASSUME NEW q \in Seq(Entries), Sorted(q), NEW S \in SUBSET Consumers
    PROVE  LET r == WithoutScheduled(q, S)
           IN  /\ r \in Seq(Entries) /\ Sorted(r)
               /\ \A c \in S : Absent(r, c)
               /\ \A c \in Consumers : Absent(q, c) => Absent(r, c)
               /\ \A c \in Consumers \ S : \A t : Sole(q, c, t) => Sole(r, c, t)
  <1> DEFINE T == {e \in Entries : e.id \notin S}
             r == Filter(q, T)
  <1>1. r = WithoutScheduled(q, S)
    BY DEF WithoutScheduled
  <1>2. r \in Seq(Entries) /\ Sorted(r)
    BY FilterQueue
  <1>3. ASSUME NEW c \in S, NEW i \in 1..Len(q), q[i].id = c PROVE q[i] \notin T
    BY <1>3
  <1>4. ASSUME NEW c \in Consumers \ S, NEW t, Sole(q, c, t)
        PROVE  [time |-> t, id |-> c] \in T
    <2>1. PICK i \in 1..Len(q) : q[i].id = c /\ q[i].time = t
      BY <1>4 DEF Sole
    <2>2. q[i] \in Entries /\ q[i] = [time |-> t, id |-> c]
      BY <2>1, EntryTypes
    <2> QED BY <2>1, <2>2
  <1> HIDE DEF T
  <1>5. \A c \in S : Absent(r, c)
    BY <1>3, FilterQueue
  <1>6. ASSUME NEW c \in Consumers, Absent(q, c) PROVE Absent(r, c)
    <2>1. \A i \in 1..Len(q) : q[i].id = c => q[i] \notin T
      BY <1>6 DEF Absent
    <2> QED BY <2>1, FilterQueue
  <1>7. ASSUME NEW c \in Consumers \ S, NEW t, Sole(q, c, t) PROVE Sole(r, c, t)
    <2>1. [time |-> t, id |-> c] \in T
      BY <1>4, <1>7
    <2> QED BY <1>7, <2>1, FilterQueue
  <1> HIDE DEF r
  <1> QED BY <1>1, <1>2, <1>5, <1>6, <1>7

\* The entries of a consumer, as the properties count them.
LEMMA CountedEntries ==
    ASSUME NEW q, NEW c
    PROVE  /\ Absent(q, c) <=> EntriesOf(q, c) = {}
           /\ \A t : Sole(q, c, t) =>
                 \E i \in 1..Len(q) : EntriesOf(q, c) = {i} /\ q[i].time = t
  <1>1. Absent(q, c) <=> EntriesOf(q, c) = {}
    BY DEF Absent, EntriesOf
  <1>2. ASSUME NEW t, Sole(q, c, t)
        PROVE  \E i \in 1..Len(q) : EntriesOf(q, c) = {i} /\ q[i].time = t
    <2>1. PICK i \in 1..Len(q) : /\ q[i].id = c /\ q[i].time = t
                                 /\ \A j \in 1..Len(q) : q[j].id = c => j = i
      BY <1>2 DEF Sole
    <2>2. EntriesOf(q, c) = {i}
      BY <2>1 DEF EntriesOf
    <2> QED BY <2>1, <2>2
  <1> QED BY <1>1, <1>2

-----------------------------------------------------------------------------
(* The inductive invariant *)

\* The launch queue holds the initialized consumers, each once.
LaunchOf(c) ==
    /\ phase[c] = "REGISTERED" => spawnTime[c] = 0
    /\ phase[c] = "INITIALIZED" => spawnTime[c] # 0 /\ Sole(launchQueue, c, spawnTime[c])
    /\ phase[c] # "INITIALIZED" => Absent(launchQueue, c)

\* A consumer has a client from its launch to its deletion.  It is queued for
\* removal when stopped, possibly more than once, and never earlier than the
\* unbonding period after the first stop.
RemovalOf(c) ==
    /\ hasClient[c] <=> phase[c] \in {"LAUNCHED", "STOPPED"}
    /\ established[c] => hasClient[c]
    /\ phase[c] = "STOPPED" => Queued(removalQueue, c, removalTime[c])
    /\ phase[c] \notin {"STOPPED", "DELETED"} => Absent(removalQueue, c)
    /\ phase[c] = "DELETED" => removalTime[c] = 0
    /\ stoppedAt[c] <= now
    /\ NoneBefore(removalQueue, c, stoppedAt[c] + UnbondingPeriod)

\* Queued infraction parameters are the last ones requested, and scheduled once,
\* the unbonding period after the request.
InfractionOf(c) ==
    /\ queuedInfraction[c] = Nil => Absent(infractionQueue, c)
    /\ queuedInfraction[c] # Nil =>
          /\ hasClient[c]
          /\ requested[c] # Nil /\ requested[c].params = queuedInfraction[c]
          /\ Sole(infractionQueue, c, requested[c].at + UnbondingPeriod)

LaunchInv == Sorted(launchQueue) /\ \A c \in Consumers : LaunchOf(c)
RemovalInv == Sorted(removalQueue) /\ \A c \in Consumers : RemovalOf(c)
InfractionInv == Sorted(infractionQueue) /\ \A c \in Consumers : InfractionOf(c)

LifecycleInv ==
    /\ TypeOK /\ LaunchInv /\ RemovalInv /\ InfractionInv
    /\ HaltsOnlyOnRevisionMismatch /\ TopNOwnedByGov

\* The empty queue.
LEMMA EmptyQueue ==
    /\ <<>> \in Seq(Entries) /\ Sorted(<<>>)
    /\ \A c : Absent(<<>>, c) /\ \A t : NoneBefore(<<>>, c, t)
  BY DEF Sorted, Absent, NoneBefore

\* The invariant holds initially.
LEMMA InitLifecycle == Init => LifecycleInv
  <1> SUFFICES ASSUME Init PROVE LifecycleInv
    OBVIOUS
  <1>1. TypeOK
    <2>1. now \in 1..MaxTime /\ 0 \in Times /\ updates \in 0..MaxUpdates
      BY LifecycleAssumption DEF Init, Times
    <2> QED BY <2>1, EmptyQueue, LifecycleAssumption DEF Init, TypeOK, Phases
  <1>2. LaunchInv
    BY EmptyQueue DEF Init, LaunchInv, LaunchOf
  <1>3. RemovalInv
    BY EmptyQueue DEF Init, RemovalInv, RemovalOf
  <1>4. InfractionInv
    BY EmptyQueue DEF Init, InfractionInv, InfractionOf
  <1>5. HaltsOnlyOnRevisionMismatch /\ TopNOwnedByGov
    BY DEF Init, HaltsOnlyOnRevisionMismatch, TopNOwnedByGov
  <1> QED BY <1>1, <1>2, <1>3, <1>4, <1>5 DEF LifecycleInv

\* Spawn times and ends of unbonding periods are times.
LEMMA TimeFacts ==
    /\ SpawnTimes \cup {0} \subseteq Times /\ Times \subseteq Nat /\ MaxTime \in Nat
    /\ UnbondingPeriod \in Nat
    /\ TypeOK => now \in Times /\ now \in Nat
    /\ TypeOK /\ now + UnbondingPeriod <= MaxTime => UnbondingEnd \in Times
  <1>1. MaxTime \in Nat \ {0} /\ UnbondingPeriod \in Nat /\ SpawnTimes \subseteq 0..MaxTime
    BY LifecycleAssumption
  <1>2. TypeOK => now \in 1..MaxTime
    BY DEF TypeOK
  <1> QED BY <1>1, <1>2 DEF Times, UnbondingEnd

\* CreateConsumer preserves the invariant.
LEMMA CreateStep ==
    ASSUME LifecycleInv, NEW c \in Consumers, NEW o \in Owners, NEW init \in InitParams,
           NEW p \in Params, CreateConsumer(c, o, init, p)
    PROVE  LifecycleInv'
  <1>1. init.spawn \in SpawnTimes /\ init.rev \in Revisions /\ init.spawn \in Times
    BY TimeFacts DEF InitParams
  <1>2. TypeOK /\ launchQueue \in Seq(Entries) /\ phase[c] = "UNSPECIFIED"
    BY DEF LifecycleInv, TypeOK, CreateConsumer
  <1>3. /\ Sorted(launchQueue) /\ \A d \in Consumers : LaunchOf(d)
        /\ Absent(launchQueue, c)
    BY <1>2 DEF LifecycleInv, LaunchInv, LaunchOf
  <1>4. /\ launchQueue' \in Seq(Entries) /\ LaunchInv'
        /\ phase' \in [Consumers -> Phases]
        /\ \A d \in Consumers : d # c => phase'[d] = phase[d]
        /\ phase'[c] \in {"REGISTERED", "INITIALIZED"}
    <2>1. /\ phase \in [Consumers -> Phases] /\ spawnTime \in [Consumers -> SpawnTimes \cup {0}]
          /\ spawnTime' = [spawnTime EXCEPT ![c] = init.spawn]
      BY <1>2 DEF TypeOK, CreateConsumer
    <2>2. CASE /\ init.spawn = 0
               /\ phase' = [phase EXCEPT ![c] = "REGISTERED"]
               /\ UNCHANGED launchQueue
      BY <1>2, <1>3, <2>1, <2>2 DEF LaunchInv, LaunchOf, Phases
    <2>3. CASE /\ init.spawn # 0
               /\ phase' = [phase EXCEPT ![c] = "INITIALIZED"]
               /\ launchQueue' = AppendOnTime(launchQueue, c, init.spawn)
      <3>1. /\ launchQueue' \in Seq(Entries) /\ Sorted(launchQueue')
            /\ Sole(launchQueue', c, init.spawn)
            /\ \A d \in Consumers \ {c} :
                  /\ Absent(launchQueue, d) => Absent(launchQueue', d)
                  /\ \A u : Sole(launchQueue, d, u) => Sole(launchQueue', d, u)
        BY <1>1, <1>2, <1>3, <2>3, AppendQueue
      <3> QED BY <1>3, <2>1, <2>3, <3>1 DEF LaunchInv, LaunchOf, Phases
    <2> QED BY <2>2, <2>3 DEF CreateConsumer
  <1>5. TypeOK'
    BY <1>1, <1>2, <1>4, LifecycleAssumption DEF TypeOK, CreateConsumer
  <1>6. RemovalInv'
    BY <1>2, <1>4 DEF LifecycleInv, RemovalInv, RemovalOf, CreateConsumer
  <1>7. InfractionInv'
    BY DEF LifecycleInv, InfractionInv, InfractionOf, CreateConsumer
  <1>8. HaltsOnlyOnRevisionMismatch' /\ TopNOwnedByGov'
    BY <1>2 DEF LifecycleInv, HaltsOnlyOnRevisionMismatch, TopNOwnedByGov, TypeOK,
                CreateConsumer
  <1> QED BY <1>4, <1>5, <1>6, <1>7, <1>8 DEF LifecycleInv

\* The part of MsgUpdateConsumer about initialization keeps the launch queue.
LEMMA UpdateInitStep ==
    ASSUME TypeOK, LaunchInv, NEW c \in Consumers, NEW init \in InitParams \cup {Nil},
           UpdateInitParams(c, init)
    PROVE  /\ LaunchInv' /\ launchQueue' \in Seq(Entries)
           /\ phase' \in [Consumers -> Phases]
           /\ spawnTime' \in [Consumers -> SpawnTimes \cup {0}]
           /\ heightRev' \in [Consumers -> Revisions]
           /\ \A d \in Consumers : \/ phase'[d] = phase[d]
                                   \/ {phase[d], phase'[d]} \subseteq {"REGISTERED", "INITIALIZED"}
  <1> DEFINE spawn == IF init = Nil THEN spawnTime[c] ELSE init.spawn
             old == IF spawnTime[c] = 0 THEN launchQueue
                    ELSE RemoveFromTime(launchQueue, c, spawnTime[c])
  <1>1. /\ phase \in [Consumers -> Phases] /\ spawnTime \in [Consumers -> SpawnTimes \cup {0}]
        /\ heightRev \in [Consumers -> Revisions] /\ launchQueue \in Seq(Entries)
    BY DEF TypeOK
  <1>2. init # Nil => init.spawn \in SpawnTimes /\ init.rev \in Revisions
    BY DEF InitParams
  <1>3. spawn \in SpawnTimes \cup {0} /\ spawn \in Times
    BY <1>1, <1>2, TimeFacts
  <1>4. heightRev' \in [Consumers -> Revisions]
    BY <1>1, <1>2 DEF UpdateInitParams
  <1>5. spawnTime' = [spawnTime EXCEPT ![c] = spawn]
    BY DEF UpdateInitParams
  <1>6. \/ /\ ~IsConsumerPrelaunched(c)
           /\ UNCHANGED <<phase, launchQueue>>
        \/ /\ IsConsumerPrelaunched(c) /\ spawn = 0
           /\ phase' = [phase EXCEPT ![c] = "REGISTERED"]
           /\ launchQueue' = old
        \/ /\ IsConsumerPrelaunched(c) /\ spawn # 0
           /\ phase' = [phase EXCEPT ![c] = "INITIALIZED"]
           /\ launchQueue' = AppendOnTime(old, c, spawn)
    BY DEF UpdateInitParams
  <1> HIDE DEF spawn
  <1>7. Sorted(launchQueue) /\ \A d \in Consumers : LaunchOf(d)
    BY DEF LaunchInv
  <1>8. CASE ~IsConsumerPrelaunched(c) /\ UNCHANGED <<phase, launchQueue>>
    BY <1>1, <1>3, <1>4, <1>5, <1>7, <1>8 DEF LaunchInv, LaunchOf, IsConsumerPrelaunched
  <1>9. ASSUME IsConsumerPrelaunched(c)
        PROVE  /\ old \in Seq(Entries) /\ Sorted(old) /\ Absent(old, c)
               /\ \A d \in Consumers \ {c} :
                     /\ Absent(launchQueue, d) => Absent(old, d)
                     /\ \A u : Sole(launchQueue, d, u) => Sole(old, d, u)
    <2>1. CASE phase[c] = "REGISTERED"
      BY <1>1, <1>7, <2>1 DEF LaunchOf
    <2>2. CASE phase[c] = "INITIALIZED"
      <3>1. spawnTime[c] # 0 /\ Sole(launchQueue, c, spawnTime[c])
        BY <1>7, <2>2 DEF LaunchOf
      <3> QED BY <1>1, <1>7, <3>1, RemoveQueue
    <2> QED BY <1>9, <2>1, <2>2 DEF IsConsumerPrelaunched
  <1> HIDE DEF old
  <1>10. CASE /\ IsConsumerPrelaunched(c) /\ spawn = 0
              /\ phase' = [phase EXCEPT ![c] = "REGISTERED"]
              /\ launchQueue' = old
    BY <1>1, <1>3, <1>4, <1>5, <1>7, <1>9, <1>10
       DEF LaunchInv, LaunchOf, IsConsumerPrelaunched, Phases
  <1>11. CASE /\ IsConsumerPrelaunched(c) /\ spawn # 0
              /\ phase' = [phase EXCEPT ![c] = "INITIALIZED"]
              /\ launchQueue' = AppendOnTime(old, c, spawn)
    <2>1. /\ launchQueue' \in Seq(Entries) /\ Sorted(launchQueue')
          /\ Sole(launchQueue', c, spawn)
          /\ \A d \in Consumers \ {c} :
                /\ Absent(old, d) => Absent(launchQueue', d)
                /\ \A u : Sole(old, d, u) => Sole(launchQueue', d, u)
      BY <1>3, <1>9, <1>11, AppendQueue
    <2> QED BY <1>1, <1>3, <1>4, <1>5, <1>7, <1>9, <1>11, <2>1
            DEF LaunchInv, LaunchOf, IsConsumerPrelaunched, Phases
  <1> QED BY <1>6, <1>8, <1>10, <1>11

\* The part of MsgUpdateConsumer about infraction parameters keeps the schedule.
LEMMA UpdateInfractionStep ==
    ASSUME TypeOK, InfractionInv, RemovalInv, NEW c \in Consumers, IsConsumerActive(c),
           NEW p \in Params \cup {Nil}, UpdateInfractionParams(c, p), UNCHANGED hasClient
    PROVE  /\ InfractionInv' /\ infractionQueue' \in Seq(Entries)
           /\ infraction' \in [Consumers -> Params]
           /\ queuedInfraction' \in [Consumers -> Params \cup {Nil}]
           /\ requested' \in [Consumers -> {Nil} \cup [params : Params, at : Times]]
           /\ \A d \in Consumers : hasClient[d] => infraction'[d] = infraction[d]
  <1>1. /\ infraction \in [Consumers -> Params]
        /\ queuedInfraction \in [Consumers -> Params \cup {Nil}]
        /\ requested \in [Consumers -> {Nil} \cup [params : Params, at : Times]]
        /\ infractionQueue \in Seq(Entries) /\ phase \in [Consumers -> Phases]
        /\ now \in Times
    BY TimeFacts DEF TypeOK
  <1>2. Sorted(infractionQueue) /\ \A d \in Consumers : InfractionOf(d)
    BY DEF InfractionInv
  <1>3. CASE p = Nil
    BY <1>1, <1>2, <1>3 DEF UpdateInfractionParams, InfractionInv, InfractionOf
  <1>4. CASE p # Nil /\ IsConsumerPrelaunched(c)
    <2>1. ~hasClient[c]
      BY <1>4 DEF RemovalInv, RemovalOf, IsConsumerPrelaunched
    <2> QED BY <1>1, <1>2, <1>4, <2>1 DEF UpdateInfractionParams, InfractionInv, InfractionOf
  <1>5. CASE p # Nil /\ ~IsConsumerPrelaunched(c)
    <2> DEFINE rest == IF queuedInfraction[c] = Nil THEN infractionQueue
                       ELSE WithoutScheduled(infractionQueue, {c})
               r == [params |-> p, at |-> now]
    <2>1. hasClient[c]
      BY <1>5 DEF RemovalInv, RemovalOf, IsConsumerActive, IsConsumerPrelaunched
    <2>2. /\ UnbondingEnd \in Times /\ requested' = [requested EXCEPT ![c] = r]
          /\ UNCHANGED infraction
      BY <1>5, TimeFacts DEF UpdateInfractionParams
    <2>3. /\ r \in [params : Params, at : Times] /\ r # Nil
          /\ r.params = p /\ r.at + UnbondingPeriod = UnbondingEnd
      <3>1. r \in [params : Params, at : Times] /\ r.params = p /\ r.at = now
        BY <1>1, <1>5
      <3>2. r # Nil
        BY <3>1, LifecycleAssumption DEF Times
      <3> HIDE DEF r
      <3> QED BY <3>1, <3>2 DEF UnbondingEnd
    <2>4. /\ rest \in Seq(Entries) /\ Sorted(rest) /\ Absent(rest, c)
          /\ \A d \in Consumers \ {c} :
                /\ Absent(infractionQueue, d) => Absent(rest, d)
                /\ \A u : Sole(infractionQueue, d, u) => Sole(rest, d, u)
      <3>1. CASE queuedInfraction[c] = Nil
        BY <1>1, <1>2, <3>1 DEF InfractionOf
      <3>2. CASE queuedInfraction[c] # Nil
        BY <1>1, <1>2, <3>2, WithoutQueue
      <3> QED BY <3>1, <3>2
    <2>5. \/ /\ queuedInfraction' = [queuedInfraction EXCEPT ![c] = Nil]
             /\ infractionQueue' = rest
          \/ /\ queuedInfraction' = [queuedInfraction EXCEPT ![c] = p]
             /\ infractionQueue' = AppendOnTime(rest, c, UnbondingEnd)
      BY <1>5 DEF UpdateInfractionParams, UpdateQueuedInfractionParams
    <2> HIDE DEF rest, r
    <2>6. CASE /\ queuedInfraction' = [queuedInfraction EXCEPT ![c] = Nil]
               /\ infractionQueue' = rest
      BY <1>1, <1>2, <2>2, <2>3, <2>4, <2>6 DEF InfractionInv, InfractionOf
    <2>7. CASE /\ queuedInfraction' = [queuedInfraction EXCEPT ![c] = p]
               /\ infractionQueue' = AppendOnTime(rest, c, UnbondingEnd)
      <3>1. /\ infractionQueue' \in Seq(Entries) /\ Sorted(infractionQueue')
            /\ Sole(infractionQueue', c, UnbondingEnd)
            /\ \A d \in Consumers \ {c} :
                  /\ Absent(rest, d) => Absent(infractionQueue', d)
                  /\ \A u : Sole(rest, d, u) => Sole(infractionQueue', d, u)
        BY <2>2, <2>4, <2>7, AppendQueue
      <3> QED BY <1>1, <1>2, <1>5, <2>1, <2>2, <2>3, <2>4, <2>7, <3>1
              DEF InfractionInv, InfractionOf
    <2> QED BY <2>5, <2>6, <2>7
  <1> QED BY <1>3, <1>4, <1>5

\* UpdateConsumer preserves the invariant.
LEMMA UpdateStep ==
    ASSUME LifecycleInv, NEW c \in Consumers, NEW r \in Revisions, NEW o \in Owners,
           NEW n \in TopNs \cup {Nil}, NEW init \in InitParams \cup {Nil},
           NEW p \in Params \cup {Nil}, UpdateConsumer(c, r, o, n, init, p)
    PROVE  LifecycleInv'
  <1>1. TypeOK /\ LaunchInv /\ RemovalInv /\ InfractionInv
    BY DEF LifecycleInv
  <1>2. /\ ~halted /\ updates < MaxUpdates /\ IsConsumerActive(c)
        /\ chainRev' = [chainRev EXCEPT ![c] = r]
        /\ UpdateInitParams(c, init) /\ UpdateInfractionParams(c, p)
        /\ UpdateOwnership(c, o, n) /\ updates' = updates + 1
        /\ UNCHANGED <<now, halted, hasClient, established, inFlight, removalTime,
                       removalQueue, stoppedAt>>
    BY DEF UpdateConsumer
  <1>3. /\ LaunchInv' /\ launchQueue' \in Seq(Entries)
        /\ phase' \in [Consumers -> Phases]
        /\ spawnTime' \in [Consumers -> SpawnTimes \cup {0}]
        /\ heightRev' \in [Consumers -> Revisions]
        /\ \A d \in Consumers : \/ phase'[d] = phase[d]
                                \/ {phase[d], phase'[d]} \subseteq {"REGISTERED", "INITIALIZED"}
    BY <1>1, <1>2, UpdateInitStep
  <1>4. /\ InfractionInv' /\ infractionQueue' \in Seq(Entries)
        /\ infraction' \in [Consumers -> Params]
        /\ queuedInfraction' \in [Consumers -> Params \cup {Nil}]
        /\ requested' \in [Consumers -> {Nil} \cup [params : Params, at : Times]]
    BY <1>1, <1>2, UpdateInfractionStep
  <1>5. /\ owner' \in [Consumers -> Owners] /\ topN' \in [Consumers -> TopNs]
        /\ TopNOwnedByGov'
    <2>1. owner \in [Consumers -> Owners] /\ topN \in [Consumers -> TopNs] /\ TopNOwnedByGov
      BY DEF LifecycleInv, TypeOK
    <2>2. CASE n = Nil
      BY <1>2, <2>1, <2>2 DEF UpdateOwnership, TopNOwnedByGov
    <2>3. CASE n # Nil
      BY <1>2, <2>1, <2>3 DEF UpdateOwnership, TopNOwnedByGov
    <2> QED BY <2>2, <2>3
  <1>6. chainRev' \in [Consumers -> Revisions] /\ updates' \in 0..MaxUpdates
    BY <1>1, <1>2, LifecycleAssumption DEF TypeOK
  <1>7. TypeOK'
    BY <1>1, <1>2, <1>3, <1>4, <1>5, <1>6 DEF TypeOK
  <1>8. RemovalInv'
    BY <1>1, <1>2, <1>3 DEF RemovalInv, RemovalOf
  <1>9. HaltsOnlyOnRevisionMismatch'
    BY <1>2 DEF HaltsOnlyOnRevisionMismatch
  <1> QED BY <1>3, <1>4, <1>5, <1>7, <1>8, <1>9 DEF LifecycleInv

\* StopAndPrepareForConsumerRemoval of a launched or a stopped consumer
\* preserves the invariant.
LEMMA StopStep ==
    ASSUME LifecycleInv, ~halted, NEW c \in Consumers, phase[c] \in {"LAUNCHED", "STOPPED"},
           StopAndPrepareForConsumerRemoval(c), updates' \in 0..MaxUpdates
    PROVE  LifecycleInv'
  <1>1. /\ TypeOK /\ removalQueue \in Seq(Entries) /\ Sorted(removalQueue)
        /\ \A d \in Consumers : RemovalOf(d)
    BY DEF LifecycleInv, TypeOK, RemovalInv
  <1>2. UnbondingEnd \in Times /\ now \in Times /\ now \in Nat /\ UnbondingPeriod \in Nat
    BY <1>1, TimeFacts DEF StopAndPrepareForConsumerRemoval
  <1>3. /\ phase \in [Consumers -> Phases] /\ removalTime \in [Consumers -> Times]
        /\ stoppedAt \in [Consumers -> Times] /\ Times \subseteq Nat
    BY <1>1, TimeFacts DEF TypeOK
  <1>4. /\ phase' = [phase EXCEPT ![c] = "STOPPED"]
        /\ removalTime' = [removalTime EXCEPT ![c] = UnbondingEnd]
        /\ removalQueue' = AppendOnTime(removalQueue, c, UnbondingEnd)
        /\ stoppedAt' = [stoppedAt EXCEPT ![c] = IF phase[c] = "STOPPED" THEN @ ELSE now]
    BY DEF StopAndPrepareForConsumerRemoval
  <1>5. /\ removalQueue' \in Seq(Entries) /\ Sorted(removalQueue')
        /\ \A d \in Consumers \ {c} : Absent(removalQueue, d) => Absent(removalQueue', d)
        /\ Queued(removalQueue', c, UnbondingEnd)
        /\ \A d, u : Queued(removalQueue, d, u) => Queued(removalQueue', d, u)
        /\ \A d, u : NoneBefore(removalQueue, d, u) /\ (d = c => UnbondingEnd >= u)
                        => NoneBefore(removalQueue', d, u)
    BY <1>1, <1>2, <1>4, AppendQueue
  <1>6. TypeOK'
    BY <1>1, <1>2, <1>3, <1>4, <1>5 DEF TypeOK, StopAndPrepareForConsumerRemoval, Phases
  <1>7. LaunchInv'
    BY <1>3, <1>4 DEF LifecycleInv, LaunchInv, LaunchOf, StopAndPrepareForConsumerRemoval
  <1>8. ASSUME NEW d \in Consumers PROVE RemovalOf(d)'
    <2>1. UNCHANGED <<now, hasClient, established>>
      BY DEF StopAndPrepareForConsumerRemoval
    <2>2. CASE d # c
      <3>1. /\ phase'[d] = phase[d] /\ removalTime'[d] = removalTime[d]
            /\ stoppedAt'[d] = stoppedAt[d]
        BY <1>3, <1>4, <2>2
      <3> QED BY <1>1, <1>5, <2>1, <2>2, <3>1 DEF RemovalOf
    <2>3. CASE d = c
      <3>1. phase'[c] = "STOPPED" /\ removalTime'[c] = UnbondingEnd
        BY <1>3, <1>4
      <3>2. /\ stoppedAt'[c] \in Nat /\ stoppedAt'[c] <= now
            /\ NoneBefore(removalQueue, c, stoppedAt'[c] + UnbondingPeriod)
        <4>1. CASE phase[c] = "STOPPED"
          BY <1>1, <1>3, <1>4, <4>1 DEF RemovalOf
        <4>2. CASE phase[c] = "LAUNCHED"
          <5>1. Absent(removalQueue, c)
            BY <1>1, <4>2 DEF RemovalOf
          <5>2. \A u : NoneBefore(removalQueue, c, u)
            BY <5>1 DEF Absent, NoneBefore
          <5> QED BY <1>2, <1>3, <1>4, <4>2, <5>2
        <4> QED BY <4>1, <4>2
      <3>3. UnbondingEnd >= stoppedAt'[c] + UnbondingPeriod
        BY <1>2, <3>2 DEF UnbondingEnd
      <3>4. NoneBefore(removalQueue', c, stoppedAt'[c] + UnbondingPeriod)
        BY <1>5, <3>2, <3>3
      <3>5. hasClient[c]
        BY <1>1 DEF RemovalOf
      <3> QED BY <1>5, <2>1, <2>3, <3>1, <3>2, <3>4, <3>5 DEF RemovalOf
    <2> QED BY <2>2, <2>3
  <1>9. InfractionInv'
    BY DEF LifecycleInv, InfractionInv, InfractionOf, StopAndPrepareForConsumerRemoval
  <1>10. HaltsOnlyOnRevisionMismatch' /\ TopNOwnedByGov'
    BY DEF LifecycleInv, HaltsOnlyOnRevisionMismatch, TopNOwnedByGov,
           StopAndPrepareForConsumerRemoval
  <1> QED BY <1>5, <1>6, <1>7, <1>8, <1>9, <1>10 DEF LifecycleInv, RemovalInv

\* Block times grow.
LEMMA BlockTimeFacts ==
    ASSUME TypeOK, NEW t \in BlockTimesFrom(now)
    PROVE  t \in 1..MaxTime /\ t \in Times /\ t >= now
  <1>1. /\ MaxTime \in Nat \ {0} /\ now \in 1..MaxTime /\ BlockTimes \subseteq Nat \ {0}
    BY LifecycleAssumption DEF TypeOK
  <1>2. PICK d \in BlockTimes : t = IF now + d > MaxTime THEN MaxTime ELSE now + d
    BY DEF BlockTimesFrom
  <1> QED BY <1>1, <1>2 DEF Times

\* A launch meets only initialized consumers, and a removal only stopped or
\* deleted ones.
LEMMA DuePhases ==
    ASSUME LifecycleInv, NEW t \in Times
    PROVE  /\ \A c \in DueIds(launchQueue, t) : c \in Consumers /\ phase[c] = "INITIALIZED"
           /\ \A c \in DeletedChains(t) : c \in Consumers /\ phase[c] = "STOPPED"
  <1>1. /\ launchQueue \in Seq(Entries) /\ Sorted(launchQueue)
        /\ removalQueue \in Seq(Entries) /\ Sorted(removalQueue)
        /\ \A c \in Consumers : LaunchOf(c)
    BY DEF LifecycleInv, TypeOK, LaunchInv, RemovalInv
  <1>2. \A c \in DueIds(launchQueue, t) : c \in Consumers /\ ~Absent(launchQueue, c)
    BY <1>1, DueQueue
  <1>3. \A c \in DueIds(removalQueue, t) : c \in Consumers
    BY <1>1, DueQueue
  <1> QED BY <1>1, <1>2, <1>3 DEF LaunchOf, DeletedChains

\* The schedule that BeginBlockUpdateInfractionParameters finds: it has entries of
\* just those consumers that have queued parameters.
LEMMA ScheduleFacts ==
    ASSUME LifecycleInv, NEW t \in Times
    PROVE  LET q == ScheduleAfterRemoval(t)
               p == QueuedAfterRemoval(t)
           IN  /\ q \in Seq(Entries) /\ Sorted(q)
               /\ p \in [Consumers -> Params \cup {Nil}]
               /\ UpdatedChains(t) \subseteq Consumers
               /\ \A c \in UpdatedChains(t) : p[c] # Nil
               /\ \A c \in Consumers :
                     /\ p[c] = Nil => Absent(q, c)
                     /\ p[c] # Nil => /\ c \notin DeletedChains(t) /\ p[c] = queuedInfraction[c]
                                      /\ Sole(q, c, requested[c].at + UnbondingPeriod)
  <1> DEFINE S == {c \in DeletedChains(t) : queuedInfraction[c] # Nil}
             q == ScheduleAfterRemoval(t)
             p == QueuedAfterRemoval(t)
  <1>1. /\ infractionQueue \in Seq(Entries) /\ Sorted(infractionQueue)
        /\ queuedInfraction \in [Consumers -> Params \cup {Nil}]
        /\ \A c \in Consumers : InfractionOf(c)
    BY DEF LifecycleInv, TypeOK, InfractionInv
  <1>2. S \in SUBSET Consumers
    BY DuePhases
  <1>3. q = WithoutScheduled(infractionQueue, S)
    BY DEF ScheduleAfterRemoval
  <1>4. p = [c \in Consumers |-> IF c \in DeletedChains(t) THEN Nil ELSE queuedInfraction[c]]
    BY DEF QueuedAfterRemoval
  <1> HIDE DEF q, p
  <1>5. \A c : c \in S <=> c \in DeletedChains(t) /\ queuedInfraction[c] # Nil
    OBVIOUS
  <1> HIDE DEF S
  <1>6. /\ q \in Seq(Entries) /\ Sorted(q)
        /\ \A c \in S : Absent(q, c)
        /\ \A c \in Consumers : Absent(infractionQueue, c) => Absent(q, c)
        /\ \A c \in Consumers \ S : \A u : Sole(infractionQueue, c, u) => Sole(q, c, u)
    BY <1>1, <1>2, <1>3, WithoutQueue
  <1>7. p \in [Consumers -> Params \cup {Nil}]
    BY <1>1, <1>4
  <1>8. ASSUME NEW c \in Consumers
        PROVE  /\ p[c] = Nil => Absent(q, c)
               /\ p[c] # Nil => /\ c \notin DeletedChains(t) /\ p[c] = queuedInfraction[c]
                                /\ Sole(q, c, requested[c].at + UnbondingPeriod)
    BY <1>1, <1>4, <1>5, <1>6 DEF InfractionOf
  <1>9. UpdatedChains(t) = DueIds(q, t)
    BY DEF UpdatedChains, q
  <1>10. UpdatedChains(t) \subseteq Consumers /\ \A c \in UpdatedChains(t) : ~Absent(q, c)
    BY <1>6, <1>9, DueQueue
  <1>11. \A c \in UpdatedChains(t) : p[c] # Nil
    BY <1>8, <1>10
  <1> QED BY <1>6, <1>7, <1>8, <1>10, <1>11 DEF q, p

\* BeginBlock preserves the invariant.
LEMMA BeginBlockStep ==
    ASSUME LifecycleInv, NEW t \in BlockTimesFrom(now), NEW valid \in SUBSET Consumers,
           BeginBlock(t, valid)
    PROVE  LifecycleInv'
  <1> DEFINE due == DueIds(launchQueue, t)
             del == DeletedChains(t)
             upd == UpdatedChains(t)
             q == ScheduleAfterRemoval(t)
             p == QueuedAfterRemoval(t)
  <1>1. TypeOK /\ t \in 1..MaxTime /\ t \in Times /\ t >= now /\ now \in Nat /\ t \in Nat
    BY BlockTimeFacts, TimeFacts DEF LifecycleInv
  <1>2. /\ phase \in [Consumers -> Phases] /\ spawnTime \in [Consumers -> SpawnTimes \cup {0}]
        /\ hasClient \in [Consumers -> BOOLEAN] /\ established \in [Consumers -> BOOLEAN]
        /\ removalTime \in [Consumers -> Times] /\ infraction \in [Consumers -> Params]
        /\ launchQueue \in Seq(Entries) /\ removalQueue \in Seq(Entries)
        /\ 0 \in Times /\ stoppedAt \in [Consumers -> Times] /\ Times \subseteq Nat
        /\ UnbondingPeriod \in Nat
    BY <1>1, TimeFacts DEF TypeOK
  <1>3. /\ Sorted(launchQueue) /\ \A c \in Consumers : LaunchOf(c)
        /\ Sorted(removalQueue) /\ \A c \in Consumers : RemovalOf(c)
        /\ Sorted(infractionQueue) /\ \A c \in Consumers : InfractionOf(c)
    BY DEF LifecycleInv, LaunchInv, RemovalInv, InfractionInv
  <1>4. /\ \A c \in due : c \in Consumers /\ phase[c] = "INITIALIZED"
        /\ \A c \in del : c \in Consumers /\ phase[c] = "STOPPED"
    BY <1>1, DuePhases
  <1>5. /\ q \in Seq(Entries) /\ Sorted(q)
        /\ p \in [Consumers -> Params \cup {Nil}]
        /\ upd \subseteq Consumers /\ \A c \in upd : p[c] # Nil
        /\ \A c \in Consumers :
              /\ p[c] = Nil => Absent(q, c)
              /\ p[c] # Nil => /\ c \notin del /\ p[c] = queuedInfraction[c]
                               /\ Sole(q, c, requested[c].at + UnbondingPeriod)
    BY <1>1, ScheduleFacts
  <1>6. /\ ~halted /\ now' = t
        /\ phase' = [c \in Consumers |-> NextPhase(t, valid, c)]
        /\ spawnTime' = [c \in Consumers |-> IF c \in due \ valid THEN 0 ELSE spawnTime[c]]
        /\ launchQueue' = NotDue(launchQueue, t)
        /\ hasClient' = [c \in Consumers |-> (hasClient[c] \/ c \in due \cap valid) /\ c \notin del]
        /\ established' = [c \in Consumers |-> established[c] /\ c \notin del]
        /\ removalTime' = [c \in Consumers |-> IF c \in del THEN 0 ELSE removalTime[c]]
        /\ removalQueue' = NotDue(removalQueue, t)
        /\ infraction' = [c \in Consumers |-> IF c \in upd THEN p[c] ELSE infraction[c]]
        /\ queuedInfraction' = [c \in Consumers |-> IF c \in upd THEN Nil ELSE p[c]]
        /\ infractionQueue' = NotDue(q, t)
        /\ UNCHANGED <<halted, owner, topN, chainRev, heightRev, inFlight, updates,
                       stoppedAt, requested>>
    BY DEF BeginBlock, FailedLaunches
  <1>7. \A c \in Consumers :
            phase'[c] = IF c \in due THEN IF c \in valid THEN "LAUNCHED" ELSE "REGISTERED"
                        ELSE IF c \in del THEN "DELETED" ELSE phase[c]
    BY <1>6 DEF NextPhase
  <1>8. /\ launchQueue' \in Seq(Entries) /\ Sorted(launchQueue')
        /\ \A c \in Consumers : Absent(launchQueue, c) => Absent(launchQueue', c)
        /\ \A c \in Consumers : \A u : Sole(launchQueue, c, u) =>
              IF c \in due THEN Absent(launchQueue', c) /\ u <= t ELSE Sole(launchQueue', c, u)
    BY <1>1, <1>2, <1>3, <1>6, DueQueue
  <1>9. /\ removalQueue' \in Seq(Entries) /\ Sorted(removalQueue')
        /\ \A c \in Consumers : Absent(removalQueue, c) => Absent(removalQueue', c)
        /\ \A c \in Consumers : \A u :
              Queued(removalQueue, c, u) /\ c \notin DueIds(removalQueue, t)
                 => Queued(removalQueue', c, u)
        /\ \A c, u : NoneBefore(removalQueue, c, u) => NoneBefore(removalQueue', c, u)
    BY <1>1, <1>2, <1>3, <1>6, DueQueue
  <1>10. /\ infractionQueue' \in Seq(Entries) /\ Sorted(infractionQueue')
         /\ \A c \in Consumers : Absent(q, c) => Absent(infractionQueue', c)
         /\ \A c \in Consumers : \A u : Sole(q, c, u) =>
               IF c \in upd THEN Absent(infractionQueue', c) /\ u <= t
               ELSE Sole(infractionQueue', c, u)
    BY <1>1, <1>5, <1>6, DueQueue DEF UpdatedChains
  <1>11. \A c \in Consumers : phase[c] = "STOPPED" /\ c \notin del => c \notin DueIds(removalQueue, t)
    BY DEF DeletedChains
  <1> HIDE DEF due, del, upd, q, p
  <1>12. TypeOK'
    <2>1. /\ now' \in 1..MaxTime /\ phase' \in [Consumers -> Phases]
          /\ spawnTime' \in [Consumers -> SpawnTimes \cup {0}]
          /\ removalTime' \in [Consumers -> Times]
      BY <1>1, <1>2, <1>6 DEF NextPhase, Phases
    <2>2. hasClient' \in [Consumers -> BOOLEAN] /\ established' \in [Consumers -> BOOLEAN]
      BY <1>6
    <2>3. /\ infraction' \in [Consumers -> Params]
          /\ queuedInfraction' \in [Consumers -> Params \cup {Nil}]
      BY <1>2, <1>5, <1>6
    <2> QED BY <1>1, <1>6, <1>8, <1>9, <1>10, <2>1, <2>2, <2>3 DEF TypeOK
  <1>13. LaunchInv'
    <2> SUFFICES ASSUME NEW c \in Consumers PROVE LaunchOf(c)'
      BY <1>8 DEF LaunchInv
    <2>1. CASE c \in due
      <3>1. phase[c] = "INITIALIZED" /\ Sole(launchQueue, c, spawnTime[c])
        BY <1>3, <1>4, <2>1 DEF LaunchOf
      <3>2. Absent(launchQueue', c)
        BY <1>8, <2>1, <3>1
      <3> QED BY <1>6, <1>7, <2>1, <3>2 DEF LaunchOf
    <2>2. CASE c \notin due /\ c \in del
      <3>1. Absent(launchQueue', c)
        BY <1>3, <1>4, <1>8, <2>2 DEF LaunchOf
      <3> QED BY <1>7, <2>2, <3>1 DEF LaunchOf
    <2>3. CASE c \notin due /\ c \notin del
      <3>1. phase'[c] = phase[c] /\ spawnTime'[c] = spawnTime[c]
        BY <1>6, <1>7, <2>3
      <3> QED BY <1>3, <1>8, <2>3, <3>1 DEF LaunchOf
    <2> QED BY <2>1, <2>2, <2>3
  <1>14. RemovalInv'
    <2> SUFFICES ASSUME NEW c \in Consumers PROVE RemovalOf(c)'
      BY <1>9 DEF RemovalInv
    <2>1. /\ stoppedAt'[c] <= now'
          /\ NoneBefore(removalQueue', c, stoppedAt'[c] + UnbondingPeriod)
      <3>1. /\ stoppedAt[c] <= now /\ stoppedAt' = stoppedAt /\ stoppedAt[c] \in Nat
            /\ NoneBefore(removalQueue, c, stoppedAt[c] + UnbondingPeriod)
        BY <1>2, <1>3, <1>6 DEF RemovalOf
      <3>2. stoppedAt[c] <= now'
        BY <1>1, <1>6, <3>1
      <3> QED BY <1>9, <3>1, <3>2
    <2>2. CASE c \in due
      <3>1. phase[c] = "INITIALIZED" /\ c \notin del /\ ~hasClient[c] /\ ~established[c]
        BY <1>3, <1>4, <2>2 DEF RemovalOf
      <3>2. Absent(removalQueue', c)
        BY <1>3, <1>9, <3>1 DEF RemovalOf
      <3> QED BY <1>6, <1>7, <2>1, <2>2, <3>1, <3>2 DEF RemovalOf
    <2>3. CASE c \notin due /\ c \in del
      BY <1>6, <1>7, <2>1, <2>3 DEF RemovalOf
    <2>4. CASE c \notin due /\ c \notin del
      <3>1. phase'[c] = phase[c] /\ removalTime'[c] = removalTime[c]
        BY <1>6, <1>7, <2>4
      <3>2. (hasClient'[c] <=> hasClient[c]) /\ (established'[c] <=> established[c])
        BY <1>6, <2>4
      <3> QED BY <1>3, <1>9, <1>11, <2>1, <2>4, <3>1, <3>2 DEF RemovalOf
    <2> QED BY <2>2, <2>3, <2>4
  <1>15. InfractionInv'
    <2> SUFFICES ASSUME NEW c \in Consumers PROVE InfractionOf(c)'
      BY <1>10 DEF InfractionInv
    <2>1. queuedInfraction'[c] = IF c \in upd THEN Nil ELSE p[c]
      BY <1>6
    <2>2. CASE queuedInfraction'[c] = Nil
      <3>1. Absent(infractionQueue', c)
        BY <1>5, <1>10, <2>1, <2>2
      <3> QED BY <2>2, <3>1 DEF InfractionOf
    <2>3. CASE queuedInfraction'[c] # Nil
      <3>1. /\ c \notin upd /\ c \notin del /\ queuedInfraction'[c] = queuedInfraction[c]
            /\ Sole(q, c, requested[c].at + UnbondingPeriod)
        BY <1>5, <2>1, <2>3
      <3>2. Sole(infractionQueue', c, requested[c].at + UnbondingPeriod)
        BY <1>10, <3>1
      <3>3. hasClient[c] /\ hasClient'[c]
        BY <1>3, <1>6, <2>3, <3>1 DEF InfractionOf
      <3> QED BY <1>3, <1>6, <2>3, <3>1, <3>2, <3>3 DEF InfractionOf
    <2> QED BY <2>2, <2>3
  <1>16. HaltsOnlyOnRevisionMismatch' /\ TopNOwnedByGov'
    BY <1>6 DEF LifecycleInv, HaltsOnlyOnRevisionMismatch, TopNOwnedByGov
  <1> QED BY <1>12, <1>13, <1>14, <1>15, <1>16 DEF LifecycleInv

\* A BeginBlock that fails leaves the state alone; the schedule is never the cause.
LEMMA BeginBlockErrorStep ==
    ASSUME LifecycleInv, NEW t \in BlockTimesFrom(now), NEW valid \in SUBSET Consumers,
           BeginBlockError(t, valid)
    PROVE  LifecycleInv'
  <1>1. t \in Times
    BY BlockTimeFacts DEF LifecycleInv
  <1>2. PICK c \in FailedLaunches(t, valid) : chainRev[c] # heightRev[c]
    BY <1>1, ScheduleFacts DEF BeginBlockError, BeginBlockFails
  <1>3. c \in Consumers /\ phase[c] = "INITIALIZED"
    BY <1>1, DuePhases DEF FailedLaunches
  <1>4. HaltsOnlyOnRevisionMismatch'
    BY <1>2, <1>3 DEF HaltsOnlyOnRevisionMismatch, BeginBlockError
  <1>5. TypeOK' /\ TopNOwnedByGov'
    BY DEF LifecycleInv, TypeOK, TopNOwnedByGov, BeginBlockError, queues
  <1>6. LaunchInv' /\ RemovalInv' /\ InfractionInv'
    BY DEF LifecycleInv, LaunchInv, RemovalInv, InfractionInv, LaunchOf, RemovalOf,
           InfractionOf, BeginBlockError, queues
  <1> QED BY <1>4, <1>5, <1>6 DEF LifecycleInv

\* The messages that change a consumer's channel or its packets only.
LEMMA ChannelStep ==
    ASSUME LifecycleInv, NEW c \in Consumers, SendVSCPackets(c) \/ OnChanOpenConfirm(c)
    PROVE  LifecycleInv'
  <1>1. CASE SendVSCPackets(c)
    <2>1. TypeOK'
      BY <1>1 DEF LifecycleInv, TypeOK, SendVSCPackets, queues
    <2>2. LaunchInv' /\ RemovalInv' /\ InfractionInv'
      BY <1>1 DEF LifecycleInv, LaunchInv, RemovalInv, InfractionInv, LaunchOf, RemovalOf,
                  InfractionOf, SendVSCPackets, queues
    <2>3. HaltsOnlyOnRevisionMismatch' /\ TopNOwnedByGov'
      BY <1>1 DEF LifecycleInv, HaltsOnlyOnRevisionMismatch, TopNOwnedByGov, SendVSCPackets
    <2> QED BY <2>1, <2>2, <2>3 DEF LifecycleInv
  <1>2. CASE OnChanOpenConfirm(c)
    <2>1. established' = [established EXCEPT ![c] = TRUE] /\ hasClient[c]
      BY <1>2 DEF OnChanOpenConfirm
    <2>2. TypeOK'
      BY <1>2, <2>1 DEF LifecycleInv, TypeOK, OnChanOpenConfirm, queues
    <2>3. LaunchInv' /\ InfractionInv'
      BY <1>2 DEF LifecycleInv, LaunchInv, InfractionInv, LaunchOf, InfractionOf,
                  OnChanOpenConfirm, queues
    <2>4. \A d \in Consumers : established'[d] => established[d] \/ d = c
      BY <2>1 DEF LifecycleInv, TypeOK
    <2>5. RemovalInv'
      BY <1>2, <2>1, <2>4 DEF LifecycleInv, RemovalInv, RemovalOf, OnChanOpenConfirm, queues
    <2>6. HaltsOnlyOnRevisionMismatch' /\ TopNOwnedByGov'
      BY <1>2 DEF LifecycleInv, HaltsOnlyOnRevisionMismatch, TopNOwnedByGov, OnChanOpenConfirm
    <2> QED BY <2>2, <2>3, <2>5, <2>6 DEF LifecycleInv
  <1> QED BY <1>1, <1>2

\* A message or a timeout that stops a consumer does so when it is launched or
\* stopped: a deleted consumer has no channel.
LEMMA StopFacts ==
    ASSUME LifecycleInv, NEW c \in Consumers,
           RemoveConsumer(c) \/ SendVSCPacketsFails(c) \/ OnTimeoutPacket(c)
    PROVE  /\ ~halted /\ phase[c] \in {"LAUNCHED", "STOPPED"}
           /\ StopAndPrepareForConsumerRemoval(c) /\ updates' \in 0..MaxUpdates
  <1>1. RemovalOf(c) /\ updates \in 0..MaxUpdates /\ MaxUpdates \in Nat
    BY LifecycleAssumption DEF LifecycleInv, RemovalInv, TypeOK
  <1>2. CASE RemoveConsumer(c) \/ SendVSCPacketsFails(c)
    BY <1>1, <1>2 DEF RemoveConsumer, SendVSCPacketsFails
  <1>3. CASE OnTimeoutPacket(c)
    BY <1>1, <1>3 DEF OnTimeoutPacket, RemovalOf
  <1> QED BY <1>2, <1>3

\* Every step preserves the invariant.
LEMMA NextLifecycle == LifecycleInv /\ [Next]_vars => LifecycleInv'
  <1> SUFFICES ASSUME LifecycleInv, [Next]_vars PROVE LifecycleInv'
    OBVIOUS
  <1>1. ASSUME NEW t \in BlockTimesFrom(now), NEW valid \in SUBSET Consumers,
               BeginBlock(t, valid) \/ BeginBlockError(t, valid)
        PROVE  LifecycleInv'
    BY <1>1, BeginBlockStep, BeginBlockErrorStep
  <1>2. ASSUME NEW c \in Consumers, NEW o \in Owners, NEW init \in InitParams,
               NEW p \in Params, CreateConsumer(c, o, init, p)
        PROVE  LifecycleInv'
    BY <1>2, CreateStep
  <1>3. ASSUME NEW c \in Consumers, NEW r \in Revisions, NEW o \in Owners,
               NEW n \in TopNs \cup {Nil}, NEW init \in InitParams \cup {Nil},
               NEW p \in Params \cup {Nil}, UpdateConsumer(c, r, o, n, init, p)
        PROVE  LifecycleInv'
    BY <1>3, UpdateStep
  <1>4. ASSUME NEW c \in Consumers,
               RemoveConsumer(c) \/ SendVSCPacketsFails(c) \/ OnTimeoutPacket(c)
        PROVE  LifecycleInv'
    BY <1>4, StopFacts, StopStep
  <1>5. ASSUME NEW c \in Consumers, SendVSCPackets(c) \/ OnChanOpenConfirm(c)
        PROVE  LifecycleInv'
    BY <1>5, ChannelStep
  <1>6. CASE UNCHANGED vars
    <2>1. TypeOK' /\ HaltsOnlyOnRevisionMismatch' /\ TopNOwnedByGov'
      BY <1>6 DEF LifecycleInv, TypeOK, HaltsOnlyOnRevisionMismatch, TopNOwnedByGov, vars, queues
    <2>2. LaunchInv' /\ RemovalInv' /\ InfractionInv'
      BY <1>6 DEF LifecycleInv, LaunchInv, RemovalInv, InfractionInv, LaunchOf, RemovalOf,
                  InfractionOf, vars, queues
    <2> QED BY <2>1, <2>2 DEF LifecycleInv
  <1>7. CASE Block
    BY <1>1, <1>7 DEF Block
  <1> QED BY <1>2, <1>3, <1>4, <1>5, <1>6, <1>7 DEF Next

-----------------------------------------------------------------------------
(* Theorems *)

\* The inductive invariant.
THEOREM LifecycleInvariant == Spec => []LifecycleInv
  BY InitLifecycle, NextLifecycle, PTL DEF Spec

\* What the invariant says of the launch and the removal queue.
LEMMA LifecycleQueues == LifecycleInv => QueuesInv
  <1> SUFFICES ASSUME LifecycleInv PROVE QueuesInv
    OBVIOUS
  <1>1. ASSUME NEW c \in Consumers
        PROVE  /\ phase[c] = "REGISTERED" => spawnTime[c] = 0
               /\ phase[c] = "INITIALIZED" =>
                     /\ spawnTime[c] # 0
                     /\ \E i \in 1..Len(launchQueue) :
                           /\ EntriesOf(launchQueue, c) = {i}
                           /\ launchQueue[i].time = spawnTime[c]
               /\ phase[c] # "INITIALIZED" => EntriesOf(launchQueue, c) = {}
    BY CountedEntries DEF LifecycleInv, LaunchInv, LaunchOf
  <1>2. ASSUME NEW c \in Consumers
        PROVE  /\ phase[c] = "STOPPED" => Queued(removalQueue, c, removalTime[c])
               /\ EntriesOf(removalQueue, c) # {} => phase[c] \in {"STOPPED", "DELETED"}
               /\ phase[c] = "DELETED" => /\ ~hasClient[c] /\ ~established[c]
                                          /\ removalTime[c] = 0
                                          /\ queuedInfraction[c] = Nil
    <2>1. RemovalOf(c) /\ InfractionOf(c)
      BY DEF LifecycleInv, RemovalInv, InfractionInv
    <2>2. EntriesOf(removalQueue, c) # {} => phase[c] \in {"STOPPED", "DELETED"}
      BY <2>1, CountedEntries DEF RemovalOf
    <2> QED BY <2>1, <2>2 DEF RemovalOf, InfractionOf
  <1>3. LaunchQueueExact
    BY <1>1 DEF LaunchQueueExact
  <1>4. RemovalScheduled
    BY <1>2 DEF RemovalScheduled
  <1> QED BY <1>3, <1>4 DEF LifecycleInv, QueuesInv

\* The launch and the removal queue always agree with the phases and times of the
\* consumers: for any number of consumers, any limit per block, any spawn times
\* and any unbonding period.
THEOREM QueuesCorrect == Spec => []QueuesInv
  BY LifecycleInvariant, LifecycleQueues, PTL

\* Updates of infraction parameters are scheduled exactly if parameters are
\* queued, so BeginBlockUpdateInfractionParameters never returns an error.
THEOREM ScheduleCorrect == Spec => []ScheduleMatchesQueued
  <1>1. LifecycleInv => ScheduleMatchesQueued
    <2> SUFFICES ASSUME LifecycleInv, NEW c \in Consumers
                 PROVE  IF queuedInfraction[c] = Nil THEN EntriesOf(infractionQueue, c) = {}
                        ELSE \E i \in 1..Len(infractionQueue) : EntriesOf(infractionQueue, c) = {i}
      BY DEF ScheduleMatchesQueued
    <2>1. InfractionOf(c)
      BY DEF LifecycleInv, InfractionInv
    <2> QED BY <2>1, CountedEntries DEF InfractionOf
  <1> QED BY <1>1, LifecycleInvariant, PTL

\* The provider stops only because of a consumer whose chain id and initial height
\* have different revisions.
THEOREM HaltsCorrect == Spec => []HaltsOnlyOnRevisionMismatch
  <1>1. LifecycleInv => HaltsOnlyOnRevisionMismatch
    BY DEF LifecycleInv
  <1> QED BY <1>1, LifecycleInvariant, PTL

\* A Top N chain is owned by governance (UpdateConsumer).
THEOREM TopNCorrect == Spec => []TopNOwnedByGov
  <1>1. LifecycleInv => TopNOwnedByGov
    BY DEF LifecycleInv
  <1> QED BY <1>1, LifecycleInvariant, PTL

\* What a step does to the phase of a consumer.
LEMMA PhaseStep ==
    ASSUME LifecycleInv, [Next]_vars, NEW c \in Consumers
    PROVE  \/ phase'[c] = phase[c]
           \/ phase[c] = "UNSPECIFIED" /\ phase'[c] \in {"REGISTERED", "INITIALIZED"}
           \/ {phase[c], phase'[c]} \subseteq {"REGISTERED", "INITIALIZED"}
           \/ phase[c] = "INITIALIZED" /\ phase'[c] = "LAUNCHED"
           \/ phase[c] = "LAUNCHED" /\ phase'[c] = "STOPPED"
           \/ /\ phase[c] = "STOPPED" /\ phase'[c] = "DELETED"
              /\ \E t \in BlockTimesFrom(now) : now' = t /\ c \in DueIds(removalQueue, t)
  <1>1. TypeOK /\ LaunchInv /\ phase \in [Consumers -> Phases]
    BY DEF LifecycleInv, TypeOK
  <1>2. ASSUME NEW t \in BlockTimesFrom(now), NEW valid \in SUBSET Consumers, BeginBlock(t, valid)
        PROVE  \/ phase'[c] = phase[c]
               \/ phase[c] = "INITIALIZED" /\ phase'[c] \in {"LAUNCHED", "REGISTERED"}
               \/ /\ phase[c] = "STOPPED" /\ phase'[c] = "DELETED" /\ now' = t
                  /\ c \in DueIds(removalQueue, t)
    <2>1. t \in Times
      BY <1>1, BlockTimeFacts
    <2>2. /\ c \in DueIds(launchQueue, t) => phase[c] = "INITIALIZED"
          /\ c \in DeletedChains(t) => phase[c] = "STOPPED" /\ c \in DueIds(removalQueue, t)
      BY <2>1, DuePhases DEF DeletedChains
    <2>3. phase'[c] = NextPhase(t, valid, c) /\ now' = t
      BY <1>2 DEF BeginBlock
    <2> QED BY <2>2, <2>3 DEF NextPhase
  <1>3. ASSUME NEW d \in Consumers, NEW o \in Owners, NEW init \in InitParams,
               NEW p \in Params, CreateConsumer(d, o, init, p)
        PROVE  \/ phase'[c] = phase[c]
               \/ phase[c] = "UNSPECIFIED" /\ phase'[c] \in {"REGISTERED", "INITIALIZED"}
    BY <1>1, <1>3 DEF CreateConsumer
  <1>4. ASSUME NEW d \in Consumers, NEW r \in Revisions, NEW o \in Owners,
               NEW n \in TopNs \cup {Nil}, NEW init \in InitParams \cup {Nil},
               NEW p \in Params \cup {Nil}, UpdateConsumer(d, r, o, n, init, p)
        PROVE  phase'[c] = phase[c] \/ {phase[c], phase'[c]} \subseteq {"REGISTERED", "INITIALIZED"}
    <2>1. UpdateInitParams(d, init)
      BY <1>4 DEF UpdateConsumer
    <2> QED BY <1>1, <2>1, UpdateInitStep
  <1>5. ASSUME NEW d \in Consumers,
               RemoveConsumer(d) \/ SendVSCPacketsFails(d) \/ OnTimeoutPacket(d)
        PROVE  phase'[c] = phase[c] \/ (phase[c] = "LAUNCHED" /\ phase'[c] = "STOPPED")
    <2>1. /\ phase[d] \in {"LAUNCHED", "STOPPED"} /\ StopAndPrepareForConsumerRemoval(d)
      BY <1>5, StopFacts
    <2> QED BY <1>1, <2>1 DEF StopAndPrepareForConsumerRemoval
  <1>6. ASSUME NEW d \in Consumers, SendVSCPackets(d) \/ OnChanOpenConfirm(d)
        PROVE  phase' = phase
    BY <1>6 DEF SendVSCPackets, OnChanOpenConfirm
  <1>7. CASE UNCHANGED vars
    BY <1>7 DEF vars
  <1>8. CASE Block
    <2>1. PICK t \in BlockTimesFrom(now), valid \in SUBSET Consumers :
              BeginBlock(t, valid) \/ BeginBlockError(t, valid)
      BY <1>8 DEF Block
    <2>2. CASE BeginBlock(t, valid)
      BY <1>2, <2>2
    <2>3. CASE BeginBlockError(t, valid)
      BY <2>3 DEF BeginBlockError
    <2> QED BY <2>1, <2>2, <2>3
  <1> QED BY <1>3, <1>4, <1>5, <1>6, <1>7, <1>8 DEF Next

\* Phases only move along the documented life cycle, for every interleaving of
\* messages, timeouts and blocks.
THEOREM PhaseOrderCorrect == Spec => PhaseOrder
  <1> DEFINE Order == {<<"UNSPECIFIED", "REGISTERED">>, <<"UNSPECIFIED", "INITIALIZED">>,
                       <<"REGISTERED", "INITIALIZED">>, <<"INITIALIZED", "REGISTERED">>,
                       <<"INITIALIZED", "LAUNCHED">>, <<"LAUNCHED", "STOPPED">>,
                       <<"STOPPED", "DELETED">>}
  <1>1. LifecycleInv /\ [Next]_vars
            => [\A c \in Consumers :
                  <<phase[c], phase'[c]>> \in {<<p, p>> : p \in Phases} \cup Order]_vars
    <2> SUFFICES ASSUME LifecycleInv, [Next]_vars, NEW c \in Consumers
                 PROVE  <<phase[c], phase'[c]>> \in {<<p, p>> : p \in Phases} \cup Order
      OBVIOUS
    <2>1. phase[c] \in Phases
      BY DEF LifecycleInv, TypeOK
    <2>2. CASE phase'[c] = phase[c]
      BY <2>1, <2>2
    <2>3. CASE phase'[c] # phase[c]
      BY <2>3, PhaseStep
    <2> QED BY <2>2, <2>3
  <1> QED BY <1>1, LifecycleInvariant, PTL DEF Spec, PhaseOrder

\* A consumer is deleted no earlier than the unbonding period after it was stopped
\* for the first time, however often it was stopped and however many are due.
THEOREM DeletedCorrect == Spec => DeletedAfterUnbonding
  <1>1. LifecycleInv /\ [Next]_vars
            => [\A c \in Consumers : phase[c] # "DELETED" /\ phase'[c] = "DELETED"
                   => now' >= stoppedAt[c] + UnbondingPeriod]_vars
    <2> SUFFICES ASSUME LifecycleInv, [Next]_vars, NEW c \in Consumers,
                        phase[c] # "DELETED", phase'[c] = "DELETED"
                 PROVE  now' >= stoppedAt[c] + UnbondingPeriod
      OBVIOUS
    <2>1. PICK t \in BlockTimesFrom(now) : now' = t /\ c \in DueIds(removalQueue, t)
      BY PhaseStep
    <2>2. t \in Times /\ t \in Nat
      BY BlockTimeFacts, TimeFacts DEF LifecycleInv
    <2>3. /\ removalQueue \in Seq(Entries) /\ Sorted(removalQueue)
          /\ stoppedAt[c] + UnbondingPeriod \in Nat
          /\ NoneBefore(removalQueue, c, stoppedAt[c] + UnbondingPeriod)
      <3>1. stoppedAt[c] \in Nat /\ UnbondingPeriod \in Nat
        BY TimeFacts DEF LifecycleInv, TypeOK
      <3> QED BY <3>1 DEF LifecycleInv, TypeOK, RemovalInv, RemovalOf
    <2>4. stoppedAt[c] + UnbondingPeriod <= t
      BY <2>1, <2>2, <2>3, DueQueue
    <2> QED BY <2>1, <2>2, <2>3, <2>4
  <1> QED BY <1>1, LifecycleInvariant, PTL DEF Spec, DeletedAfterUnbonding

\* The infraction parameters of a launched consumer change only to the last ones
\* requested, and the unbonding period after that request.
THEOREM InfractionCorrect == Spec => InfractionDelay
  <1>1. LifecycleInv /\ [Next]_vars
            => [\A c \in Consumers : hasClient[c] /\ infraction'[c] # infraction[c]
                   => /\ requested[c] # Nil
                      /\ infraction'[c] = requested[c].params
                      /\ now' >= requested[c].at + UnbondingPeriod]_vars
    <2> SUFFICES ASSUME LifecycleInv, [Next]_vars, NEW c \in Consumers,
                        hasClient[c], infraction'[c] # infraction[c]
                 PROVE  /\ requested[c] # Nil
                        /\ infraction'[c] = requested[c].params
                        /\ now' >= requested[c].at + UnbondingPeriod
      OBVIOUS
    <2>1. /\ TypeOK /\ LaunchInv /\ RemovalInv /\ InfractionInv
          /\ infraction \in [Consumers -> Params]
      BY DEF LifecycleInv, TypeOK
    <2>2. ASSUME NEW d \in Consumers, NEW o \in Owners, NEW init \in InitParams,
                 NEW p \in Params, CreateConsumer(d, o, init, p)
          PROVE  infraction'[c] = infraction[c]
      <3>1. d # c
        BY <2>1, <2>2 DEF CreateConsumer, RemovalInv, RemovalOf
      <3> QED BY <2>1, <2>2, <3>1 DEF CreateConsumer
    <2>3. ASSUME NEW d \in Consumers, NEW r \in Revisions, NEW o \in Owners,
                 NEW n \in TopNs \cup {Nil}, NEW init \in InitParams \cup {Nil},
                 NEW p \in Params \cup {Nil}, UpdateConsumer(d, r, o, n, init, p)
          PROVE  infraction'[c] = infraction[c]
      <3>1. IsConsumerActive(d) /\ UpdateInfractionParams(d, p) /\ UNCHANGED hasClient
        BY <2>3 DEF UpdateConsumer
      <3> QED BY <2>1, <3>1, UpdateInfractionStep
    <2>4. ASSUME NEW d \in Consumers,
                 \/ RemoveConsumer(d) \/ SendVSCPacketsFails(d) \/ OnTimeoutPacket(d)
                 \/ SendVSCPackets(d) \/ OnChanOpenConfirm(d)
          PROVE  infraction' = infraction
      BY <2>4 DEF RemoveConsumer, SendVSCPacketsFails, OnTimeoutPacket, SendVSCPackets,
                  OnChanOpenConfirm, StopAndPrepareForConsumerRemoval
    <2>5. ~UNCHANGED vars
      BY DEF vars
    <2>6. PICK t \in BlockTimesFrom(now), valid \in SUBSET Consumers :
              BeginBlock(t, valid) \/ BeginBlockError(t, valid)
      BY <2>2, <2>3, <2>4, <2>5 DEF Next, Block
    <2>7. BeginBlock(t, valid)
      BY <2>6 DEF BeginBlockError
    <2> DEFINE q == ScheduleAfterRemoval(t)
    <2>8. t \in Times /\ t \in Nat
      BY <2>1, BlockTimeFacts, TimeFacts
    <2>9. /\ now' = t /\ c \in UpdatedChains(t)
          /\ infraction'[c] = QueuedAfterRemoval(t)[c]
      BY <2>7 DEF BeginBlock
    <2>10. /\ infraction'[c] = queuedInfraction[c] /\ queuedInfraction[c] # Nil
           /\ q \in Seq(Entries) /\ Sorted(q)
           /\ Sole(q, c, requested[c].at + UnbondingPeriod)
      BY <2>8, <2>9, ScheduleFacts
    <2>11. requested[c] # Nil /\ requested[c].params = queuedInfraction[c]
      BY <2>1, <2>10 DEF InfractionInv, InfractionOf
    <2>12. requested[c].at + UnbondingPeriod <= t
      <3> HIDE DEF q
      <3>1. c \in DueIds(q, t)
        BY <2>9 DEF UpdatedChains, q
      <3> QED BY <2>8, <2>10, <3>1, DueQueue
    <2>13. requested[c].at \in Nat /\ UnbondingPeriod \in Nat
      <3>1. requested[c] \in [params : Params, at : Times]
        BY <2>1, <2>11 DEF TypeOK
      <3> QED BY <3>1, TimeFacts
    <2> QED BY <2>8, <2>9, <2>10, <2>11, <2>12, <2>13
  <1> QED BY <1>1, LifecycleInvariant, PTL DEF Spec, InfractionDelay
=============================================================================
