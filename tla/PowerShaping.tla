---------------------------- MODULE PowerShaping ----------------------------
(***************************************************************************)
(* The pure part of the computation of consumer validator sets: sorting,   *)
(* the minimum power of the top N percent, the cap on the size of a set    *)
(* and the cap on the power of its validators.                             *)
(*                                                                         *)
(* A list of validators is a sequence without repetitions, and powers are  *)
(* a function of validators.  sort.Slice keeps the order of equal elements *)
(* for the lengths checked here (it sorts up to twelve by insertion); the  *)
(* properties and their proofs leave the order of equal elements open.     *)
(***************************************************************************)
EXTENDS Integers, Sequences, Sums, Functions

\* The elements of I in order, where before[i] is the set of those before i.
Arrange(I, before) ==
    [n \in 1 .. Cardinality(I) |-> CHOOSE i \in I : Cardinality(before[i]) = n - 1]

\* sort.Slice by decreasing f
SortDescending(list, f) ==
    LET ahead == [i \in DOMAIN list |->
                     {j \in DOMAIN list : \/ f[list[j]] > f[list[i]]
                                          \/ f[list[j]] = f[list[i]] /\ j < i}]
        order == Arrange(DOMAIN list, ahead)
    IN SubSeq([n \in 1 .. Len(list) |-> list[order[n]]], 1, Len(list))

\* The validators of a list that are in S, in the order of the list.
Filter(list, S) ==
    LET kept == {i \in DOMAIN list : list[i] \in S}
        order == Arrange(kept, [i \in kept |-> {j \in kept : j < i}])
    IN SubSeq([n \in 1 .. Cardinality(kept) |-> list[order[n]]], 1, Cardinality(kept))

\* The first n validators of a list, or all of them.
Truncate(list, n) == IF n < Len(list) THEN SubSeq(list, 1, n) ELSE list

TotalPower(S, power) == SumOver(power, S)

\* Mutant of ComputeMinPowerInTopN: powers are added in increasing order.
MinPowerFromBelow(list, power, topN) ==
    LET sorted == SortDescending(list, [v \in Range(list) |-> -power[v]])
        total == TotalPower(Range(list), power)
        Sum(n) == TotalPower({sorted[i] : i \in 1 .. n}, power)
    IN power[sorted[Min({n \in DOMAIN sorted : Sum(n) * 100 >= topN * total})]]

\* The power of the first validator with which the sum of powers reaches
\* topN percent of the total.
ComputeMinPowerInTopN(list, power, topN) ==
    LET sorted == SortDescending(list, power)
        total == TotalPower(Range(list), power)
        Sum(n) == TotalPower({sorted[i] : i \in 1 .. n}, power)
    IN power[sorted[Min({n \in DOMAIN sorted : Sum(n) * 100 >= topN * total})]]

\* Mutant of PartitionBasedOnPriorityList: the parts are merged by power.
PriorityForgotten(list, power, priority) == SortDescending(list, power)

\* Validators of the priority list first, each part by decreasing power.
PartitionBasedOnPriorityList(list, power, priority) ==
    SortDescending(Filter(list, priority), power)
        \o SortDescending(Filter(list, Range(list) \ priority), power)

CapValidatorSet(list, topN, cap) ==
    IF topN > 0 \/ cap = 0 THEN list ELSE Truncate(list, cap)

\* The power that no validator should exceed, at least 1.
MaxPower(S, power, percent) ==
    LET floor == (TotalPower(S, power) * percent) \div 100
    IN IF floor = 0 THEN 1 ELSE floor

\* Mutant of Redistribute: the share is computed once, before the loop.
RedistributeOnce(in, max) ==
    LET less == {i \in DOMAIN in : in[i] < max}
        excess == SumOver([i \in DOMAIN in |-> in[i] - max], DOMAIN in \ less)
        share == IF less = {} THEN 0 ELSE excess \div Cardinality(less)
    IN [i \in DOMAIN in |-> Min({max, in[i] + share})]

\* The loop of NoMoreThanPercentOfTheSum over the powers in decreasing order:
\* powers from max on become max, and what they lose goes in equal shares to
\* the others, which may not exceed max either.
Redistribute(in, max) ==
    LET less == {i \in DOMAIN in : in[i] < max}
        excess == SumOver([i \in DOMAIN in |-> in[i] - max], DOMAIN in \ less)
        Share(remaining, left, old) ==
            IF left = 0 THEN old ELSE remaining \div left
        loop[i \in 0 .. Len(in)] ==
            IF i = 0
            THEN [new |-> 0, remaining |-> excess, left |-> Cardinality(less),
                  share |-> Share(excess, Cardinality(less), 0)]
            ELSE LET s == loop[i - 1]
                     new == Min({max, in[i] + s.share})
                     remaining == s.remaining - (IF i \in less THEN new - in[i] ELSE 0)
                     left == s.left - (IF i \in less THEN 1 ELSE 0)
                 IN [new |-> new, remaining |-> remaining, left |-> left,
                     share |-> Share(remaining, left, s.share)]
    IN [i \in 1 .. Len(in) |-> loop[i].new]

\* The new powers of the validators of the list.
NoMoreThanPercentOfTheSum(list, power, percent) ==
    LET sorted == SortDescending(list, power)
        new == Redistribute([i \in DOMAIN sorted |-> power[sorted[i]]],
                            MaxPower(Range(list), power, percent))
    IN [v \in Range(list) |-> new[CHOOSE i \in DOMAIN sorted : sorted[i] = v]]

CapValidatorsPower(list, power, percent) ==
    IF percent = 0 THEN Restrict(power, Range(list))
                   ELSE NoMoreThanPercentOfTheSum(list, power, percent)
=============================================================================
