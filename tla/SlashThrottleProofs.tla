------------------------ MODULE SlashThrottleProofs --------------------------
(***************************************************************************)
(* Throttling and retries of slash packets are correct for any number of   *)
(* consumers and validators, any powers, fraction, period and retry delay. *)
(***************************************************************************)
EXTENDS SlashThrottle, SumProofs, SequenceTheorems

-----------------------------------------------------------------------------
(* Powers and allowances *)

\* The total power is a natural number, and grows with the powers.
LEMMA TotalPowerFacts ==
    /\ \A p \in [Vals -> Nat] : TotalPower(p) \in Nat
    /\ \A p, q \in [Vals -> Nat] :
          (\A v \in Vals : p[v] <= q[v]) => TotalPower(p) <= TotalPower(q)
  <1>1. ASSUME NEW p \in [Vals -> Nat] PROVE TotalPower(p) \in Nat
    BY SumNat, ThrottleAssumption DEF TotalPower
  <1>2. ASSUME NEW p \in [Vals -> Nat], NEW q \in [Vals -> Nat],
               \A v \in Vals : p[v] <= q[v]
        PROVE  TotalPower(p) <= TotalPower(q)
    <2>1. \A v \in Vals : p[v] \in Int /\ q[v] \in Int /\ p[v] <= q[v]
      BY <1>2
    <2> QED BY <2>1, SumMonotone, ThrottleAssumption DEF TotalPower
  <1> QED BY <1>1, <1>2

\* The allowance is at least 1 (GetSlashMeterAllowance).
LEMMA AllowanceType ==
    ASSUME NEW total \in Nat
    PROVE  Allowance(total) \in Nat /\ Allowance(total) >= 1
  <1>1. total * FracNum \in Nat
    BY ThrottleAssumption
  <1>2. (total * FracNum) \div FracDen \in Int
    BY <1>1, ThrottleAssumption
  <1> QED BY <1>2 DEF Allowance, Greatest

\* Rounding half to even keeps the order.
LEMMA RoundingMonotone ==
    ASSUME NEW d \in Nat \ {0}, NEW x \in Nat, NEW y \in Nat, x <= y
    PROVE  LET Up(z) == \/ 2 * (z % d) > d
                        \/ 2 * (z % d) = d /\ (z \div d) % 2 = 1
           IN  (IF Up(x) THEN x \div d + 1 ELSE x \div d)
                  <= (IF Up(y) THEN y \div d + 1 ELSE y \div d)
  <1> PICK q1 \in Int, r1 \in Int, q2 \in Int, r2 \in Int :
          /\ q1 = x \div d /\ r1 = x % d /\ q2 = y \div d /\ r2 = y % d
    OBVIOUS
  <1>1. /\ x = d * q1 + r1 /\ 0 <= r1 /\ r1 < d
        /\ y = d * q2 + r2 /\ 0 <= r2 /\ r2 < d
    OBVIOUS
  <1>2. CASE q1 < q2
    BY <1>2
  <1>3. CASE q1 = q2
    BY <1>1, <1>3
  <1>4. CASE q1 > q2
    <2>1. d * q1 >= d * (q2 + 1)
      BY <1>4
    <2>2. d * (q2 + 1) = d * q2 + d
      OBVIOUS
    <2> QED BY <1>1, <2>1, <2>2
  <1> QED BY <1>2, <1>3, <1>4

\* The allowance grows with the total power.
LEMMA AllowanceMonotone ==
    ASSUME NEW a \in Nat, NEW b \in Nat, a <= b
    PROVE  Allowance(a) <= Allowance(b)
  <1>1. a * FracNum \in Nat /\ b * FracNum \in Nat /\ a * FracNum <= b * FracNum
    BY ThrottleAssumption
  <1>2. FracDen \in Nat \ {0}
    BY ThrottleAssumption
  <1> PICK x \in Nat, y \in Nat : x = a * FracNum /\ y = b * FracNum /\ x <= y
    BY <1>1
  <1> DEFINE Up(z) == \/ 2 * (z % FracDen) > FracDen
                      \/ 2 * (z % FracDen) = FracDen /\ (z \div FracDen) % 2 = 1
             Round(z) == IF Up(z) THEN z \div FracDen + 1 ELSE z \div FracDen
  <1>3. Round(x) <= Round(y)
    BY <1>2, RoundingMonotone
  <1>4. Round(x) \in Int /\ Round(y) \in Int
    BY <1>2
  <1>5. Allowance(a) = Greatest(1, Round(x)) /\ Allowance(b) = Greatest(1, Round(y))
    BY DEF Allowance
  <1> HIDE DEF Round
  <1> QED BY <1>3, <1>4, <1>5 DEF Greatest

\* There is a largest validator.
LEMMA MaxPowerFacts == MaxPower \in Nat /\ \A v \in Vals : Tokens[v] <= MaxPower
  <1> DEFINE T == {s \in SUBSET Vals : s # {} =>
                      \E v \in s : \A w \in s : Tokens[w] <= Tokens[v]}
  <1>0. \A v \in Vals : Tokens[v] \in Nat
    BY ThrottleAssumption
  <1>1. ASSUME NEW s \in SUBSET Vals, \A x \in s : s \ {x} \in T PROVE s \in T
    <2> SUFFICES ASSUME NEW x \in s
                 PROVE  \E v \in s : \A w \in s : Tokens[w] <= Tokens[v]
      OBVIOUS
    <2>1. CASE s \ {x} = {}
      BY <1>0, <2>1
    <2>2. CASE s \ {x} # {}
      <3>1. PICK v \in s \ {x} : \A w \in s \ {x} : Tokens[w] <= Tokens[v]
        BY <1>1, <2>2
      <3>2. CASE Tokens[x] <= Tokens[v]
        BY <3>1, <3>2
      <3>3. CASE Tokens[v] <= Tokens[x]
        <4>1. ASSUME NEW w \in s PROVE Tokens[w] <= Tokens[x]
          BY <1>0, <3>1, <3>3
        <4> QED BY <4>1
      <3> QED BY <1>0, <3>2, <3>3
    <2> QED BY <2>1, <2>2
  <1>2. Vals \in T
    <2> HIDE DEF T
    <2>1. IsFiniteSet(Vals)
      BY ThrottleAssumption
    <2>2. \A s \in SUBSET Vals : s \in T
      BY <1>1, <2>1, SubsetInduction
    <2> QED BY <2>2
  <1>3. PICK v \in Vals : \A w \in Vals : Tokens[w] <= Tokens[v]
    BY <1>2, ThrottleAssumption
  <1> DEFINE P == {Tokens[w] : w \in Vals}
  <1>4. Tokens[v] \in P /\ \A y \in P : Tokens[v] >= y
    BY <1>0, <1>3
  <1>5. MaxPower \in P /\ \A y \in P : MaxPower >= y
    BY <1>4 DEF MaxPower, Max
  <1> QED BY <1>0, <1>5

-----------------------------------------------------------------------------
(* Type correctness *)

\* The types of the initial state.
LEMMA InitTypeOK == Init => TypeOK
  <1> SUFFICES ASSUME Init PROVE TypeOK
    OBVIOUS
  <1> USE ThrottleAssumption
  <1>0. Tokens \in [Vals -> Nat]
    OBVIOUS
  <1>1. meter \in Int
    <2>1. TotalPower(Tokens) \in Nat
      BY <1>0, TotalPowerFacts
    <2>2. Allowance(TotalPower(Tokens)) \in Nat
      BY <2>1, AllowanceType
    <2> QED BY <2>2 DEF Init
  <1>2. \A S : <<>> \in Seq(S)
    OBVIOUS
  <1>3. /\ toProvider \in [Consumers -> Seq(Packets)]
        /\ acks \in [Consumers -> Seq([packet : Packets, result : Results])]
        /\ pendingPackets \in [Consumers -> Seq(Packets)]
        /\ handled \in [Consumers -> Seq(0..(MaxPackets - 1))]
    BY <1>2 DEF Init
  <1> QED BY <1>0, <1>1, <1>3 DEF Init, TypeOK

\* The powers at the end of a block.
LEMMA EndBlockPowerType ==
    EndBlockPower \in [Vals -> Nat] /\ \A v \in Vals : EndBlockPower[v] <= Tokens[v]
  BY ThrottleAssumption DEF EndBlockPower

\* A block of the provider keeps the types.
LEMMA BlockTypeOK ==
    ASSUME TypeOK, NEW d \in 1..MaxBlockTime, NEW epoch \in BOOLEAN, ProviderBlock(d, epoch)
    PROVE  TypeOK'
  <1> USE ThrottleAssumption
  <1> DEFINE allowance == Allowance(TotalPower(EndBlockPower))
  <1>1. allowance \in Nat /\ allowance >= 1
    BY EndBlockPowerType, TotalPowerFacts, AllowanceType
  <1> HIDE DEF allowance
  <1>2. /\ meter' \in Int /\ untilCandidate' \in 0..ReplenishPeriod
        /\ cycles' \in 0..MaxCycles
    BY <1>1 DEF ProviderBlock, CheckForSlashMeterReplenishment, Replenished, Least, TypeOK,
                allowance
  <1>3. removed' \in Nat
    <2>1. IsFiniteSet(jailed \ tombstoned) /\ \A v \in jailed \ tombstoned : lastPower[v] \in Nat
      BY FS_Subset DEF TypeOK
    <2>2. SumOver(lastPower, jailed \ tombstoned) \in Nat
      BY <2>1, SumNat
    <2> QED BY <2>2 DEF ProviderBlock, TypeOK
  <1>4. /\ consumerVals' \in [Consumers -> SUBSET Vals]
        /\ slashAcks' \in [Consumers -> SUBSET Vals]
        /\ vscAcks' \in [Consumers -> SUBSET Vals]
    <2>1. CASE epoch
      <3> DEFINE active == {v \in Vals : EndBlockPower[v] > 0}
      <3>1. active \in SUBSET Vals
        OBVIOUS
      <3> HIDE DEF active
      <3>2. \A c \in Consumers : /\ consumerVals[c] \in SUBSET Vals
                                 /\ slashAcks[c] \in SUBSET Vals
                                 /\ vscAcks[c] \in SUBSET Vals
        BY DEF TypeOK
      <3> QED BY <2>1, <3>1, <3>2 DEF ProviderBlock, EndBlockEpoch, active
    <2>2. CASE ~epoch
      BY <2>2 DEF ProviderBlock, TypeOK
    <2> QED BY <2>1, <2>2
  <1> QED BY <1>2, <1>3, <1>4, EndBlockPowerType DEF ProviderBlock, TypeOK

\* So does the handling of a slash packet.
LEMMA RecvTypeOK ==
    ASSUME TypeOK, NEW c \in Consumers, OnRecvSlashPacket(c)
    PROVE  TypeOK'
  <1> USE ThrottleAssumption
  <1> DEFINE packet == Head(toProvider[c])
  <1>1. packet \in Packets /\ Tail(toProvider[c]) \in Seq(Packets)
    BY DEF OnRecvSlashPacket, TypeOK
  <1>2. packet.val \in Vals /\ packet.idx \in 0..(MaxPackets - 1)
    BY <1>1 DEF Packets
  <1> HIDE DEF packet
  <1>3. toProvider' \in [Consumers -> Seq(Packets)]
    BY <1>1 DEF OnRecvSlashPacket, TypeOK
  <1>4. ASSUME NEW result \in Results, Reply(c, packet, result)
        PROVE  /\ acks' \in [Consumers -> Seq([packet : Packets, result : Results])]
               /\ handled' \in [Consumers -> Seq(0..(MaxPackets - 1))]
    <2> DEFINE a == [packet |-> packet, result |-> result]
               A == [packet : Packets, result : Results]
    <2>1. a \in A /\ acks \in [Consumers -> Seq(A)] /\ acks[c] \in Seq(A)
      BY <1>1 DEF TypeOK
    <2>2. acks' = [acks EXCEPT ![c] = Append(acks[c], a)]
      BY <1>4 DEF Reply
    <2>3. acks' \in [Consumers -> Seq(A)]
      <3> HIDE DEF a, A
      <3>1. Append(acks[c], a) \in Seq(A)
        BY <2>1
      <3> QED BY <2>1, <2>2, <3>1
    <2>4. handled \in [Consumers -> Seq(0..(MaxPackets - 1))]
      BY DEF TypeOK
    <2>5. Append(handled[c], packet.idx) \in Seq(0..(MaxPackets - 1))
      BY <1>2, <2>4
    <2>6. handled' \in [Consumers -> Seq(0..(MaxPackets - 1))]
      <3>1. CASE result = "BOUNCED"
        BY <1>4, <2>4, <3>1 DEF Reply
      <3>2. CASE result # "BOUNCED"
        <4>1. handled' = [handled EXCEPT ![c] = Append(handled[c], packet.idx)]
          BY <1>4, <3>2 DEF Reply
        <4> QED BY <2>4, <2>5, <4>1
      <3> QED BY <3>1, <3>2
    <2> QED BY <2>3, <2>6
  <1>5. /\ slashLog' \subseteq Vals /\ slashAcks' \in [Consumers -> SUBSET Vals]
        /\ jailed' \subseteq Vals /\ meter' \in Int
        /\ \E result \in Results : Reply(c, packet, result)
    <2>1. CASE LogDoubleSign(c, packet)
      BY <1>2, <2>1 DEF LogDoubleSign, TypeOK, Results
    <2>2. CASE DropDowntime(c, packet)
      BY <1>2, <2>2 DEF DropDowntime, AppendSlashAck, TypeOK, Results
    <2>3. CASE BounceDowntime(c, packet)
      BY <1>2, <2>3 DEF BounceDowntime, TypeOK, Results
    <2>4. CASE HandleDowntime(c, packet)
      <3>1. meter' \in Int
        BY <1>2, <2>4 DEF HandleDowntime, EffectiveValPower, TypeOK
      <3>2. slashAcks' \in [Consumers -> SUBSET Vals] /\ jailed' \subseteq Vals
        <4>1. CASE UNCHANGED <<slashAcks, jailed>>
          BY <4>1 DEF TypeOK
        <4>2. CASE AppendSlashAck(c, packet.val) /\ jailed' = jailed \cup {packet.val}
          BY <1>2, <4>2 DEF AppendSlashAck, TypeOK
        <4> QED BY <2>4, <4>1, <4>2 DEF HandleDowntime, HandleSlashPacket
      <3> QED BY <2>4, <3>1, <3>2 DEF HandleDowntime, TypeOK, Results
    <2> QED BY <2>1, <2>2, <2>3, <2>4 DEF OnRecvSlashPacket, packet
  <1> QED BY <1>3, <1>4, <1>5 DEF OnRecvSlashPacket, TypeOK

\* And the steps of a consumer.
LEMMA ConsumerTypeOK ==
    ASSUME TypeOK, NEW c \in Consumers,
           \/ \E v \in Vals, i \in Infractions : QueueSlashPacket(c, v, i)
           \/ \E active \in BOOLEAN : ConsumerBlock(c, active)
           \/ OnAcknowledgementPacket(c)
           \/ OnRecvVSCPacket(c)
    PROVE  TypeOK'
  <1> USE ThrottleAssumption
  <1>1. ASSUME NEW v \in Vals, NEW i \in Infractions, QueueSlashPacket(c, v, i)
        PROVE  TypeOK'
    <2> DEFINE p == [idx |-> pendingPacketsIdx[c], val |-> v, infraction |-> i]
    <2>1. p \in Packets
      BY <1>1 DEF QueueSlashPacket, TypeOK, Packets
    <2>2. pendingPackets' = [pendingPackets EXCEPT ![c] = Append(pendingPackets[c], p)]
      BY <1>1 DEF QueueSlashPacket, TypeOK
    <2> HIDE DEF p
    <2>3. Append(pendingPackets[c], p) \in Seq(Packets)
      BY <2>1 DEF TypeOK
    <2>4. pendingPackets' \in [Consumers -> Seq(Packets)]
      BY <2>2, <2>3 DEF TypeOK
    <2>5. /\ pendingPacketsIdx' \in [Consumers -> 0..MaxPackets]
          /\ outstandingDowntime' \in [Consumers -> SUBSET Vals]
      <3>1. pendingPacketsIdx' \in [Consumers -> 0..MaxPackets]
        BY <1>1 DEF QueueSlashPacket, TypeOK
      <3>2. outstandingDowntime[c] \cup {v} \in SUBSET Vals
        BY DEF TypeOK
      <3>3. CASE i = "DOWNTIME"
        <4>1. outstandingDowntime' =
                 [outstandingDowntime EXCEPT ![c] = outstandingDowntime[c] \cup {v}]
          BY <1>1, <3>3 DEF QueueSlashPacket
        <4> QED BY <3>1, <3>2, <4>1 DEF TypeOK
      <3>4. CASE i # "DOWNTIME"
        BY <1>1, <3>1, <3>4 DEF QueueSlashPacket, TypeOK
      <3> QED BY <3>3, <3>4
    <2> QED BY <1>1, <2>4, <2>5 DEF QueueSlashPacket, providerVars, TypeOK
  <1>2. ASSUME NEW active \in BOOLEAN, ConsumerBlock(c, active) PROVE TypeOK'
    <2>1. \A r \in {NoRecord} \cup Records : Aged(r) \in {NoRecord} \cup Records
      BY DEF Aged, Records, Least
    <2>2. [waitingOnReply |-> TRUE, age |-> 0] \in Records
      BY DEF Records
    <2>3. slashRecord' \in [Consumers -> {NoRecord} \cup Records]
      <3>1. PICK r \in {NoRecord} \cup Records :
               slashRecord' = [slashRecord EXCEPT ![c] = Aged(r)]
        BY <1>2, <2>2 DEF ConsumerBlock, TypeOK
      <3>2. Aged(r) \in {NoRecord} \cup Records
        BY <2>1
      <3> QED BY <3>1, <3>2 DEF TypeOK
    <2>4. toProvider' \in [Consumers -> Seq(Packets)]
      <3>1. CASE CanSend(c, active)
        <4>1. Head(pendingPackets[c]) \in Packets
          BY <3>1 DEF CanSend, TypeOK
        <4>2. Append(toProvider[c], Head(pendingPackets[c])) \in Seq(Packets)
          BY <4>1 DEF TypeOK
        <4> QED BY <1>2, <3>1, <4>2 DEF ConsumerBlock, TypeOK
      <3>2. CASE ~CanSend(c, active)
        BY <1>2, <3>2 DEF ConsumerBlock, TypeOK
      <3> QED BY <3>1, <3>2
    <2> QED BY <1>2, <2>3, <2>4 DEF ConsumerBlock, providerVars, TypeOK
  <1>3. CASE OnAcknowledgementPacket(c)
    <2> DEFINE A == [packet : Packets, result : Results]
    <2>1. acks \in [Consumers -> Seq(A)]
      BY DEF TypeOK
    <2>2. acks' \in [Consumers -> Seq(A)]
      <3> HIDE DEF A
      <3>1. Tail(acks[c]) \in Seq(A)
        BY <1>3, <2>1 DEF OnAcknowledgementPacket
      <3> QED BY <1>3, <2>1, <3>1 DEF OnAcknowledgementPacket
    <2>3. /\ slashRecord' \in [Consumers -> {NoRecord} \cup Records]
          /\ pendingPackets' \in [Consumers -> Seq(Packets)]
      <3>1. CASE UpdateSlashRecordOnBounce(c)
        <4>1. slashRecord[c] \in Records
          BY <3>1 DEF UpdateSlashRecordOnBounce, TypeOK
        <4>2. [slashRecord[c] EXCEPT !.waitingOnReply = FALSE] \in Records
          BY <4>1 DEF Records
        <4> QED BY <3>1, <4>2 DEF UpdateSlashRecordOnBounce, TypeOK
      <3>2. CASE DeleteHead(c)
        <4>1. pendingPackets[c] # <<>> => Tail(pendingPackets[c]) \in Seq(Packets)
          BY DEF TypeOK
        <4> QED BY <3>2, <4>1 DEF DeleteHead, TypeOK
      <3> QED BY <1>3, <3>1, <3>2 DEF OnAcknowledgementPacket
    <2> QED BY <1>3, <2>2, <2>3 DEF OnAcknowledgementPacket, providerVars, TypeOK
  <1>4. CASE OnRecvVSCPacket(c)
    BY <1>4 DEF OnRecvVSCPacket, providerVars, TypeOK
  <1> QED BY <1>1, <1>2, <1>3, <1>4

\* Every step keeps the types.
LEMMA NextTypeOK == TypeOK /\ [Next]_vars => TypeOK'
  <1> SUFFICES ASSUME TypeOK, [Next]_vars PROVE TypeOK'
    OBVIOUS
  <1> USE ThrottleAssumption
  <1>1. ASSUME NEW v \in Vals, Unjail(v) PROVE TypeOK'
    BY <1>1 DEF Unjail, TypeOK
  <1>2. ASSUME NEW v \in DoubleSigners, Tombstone(v) PROVE TypeOK'
    BY <1>2 DEF Tombstone, TypeOK
  <1>3. ASSUME NEW c \in Stoppable, StopConsumer(c) PROVE TypeOK'
    BY <1>3 DEF StopConsumer, TypeOK
  <1>4. ASSUME NEW c \in Stoppable, ChannelTimeout(c) PROVE TypeOK'
    BY <1>4 DEF ChannelTimeout, providerVars, TypeOK
  <1>5. CASE UNCHANGED vars
    BY <1>5 DEF vars, providerVars, TypeOK
  <1> QED BY <1>1, <1>2, <1>3, <1>4, <1>5, BlockTypeOK, RecvTypeOK, ConsumerTypeOK DEF Next

\* The specification is type correct.
THEOREM TypeCorrect == Spec => []TypeOK
  BY InitTypeOK, NextTypeOK, PTL DEF Spec

-----------------------------------------------------------------------------
(* The rate of jailing *)

\* Tombstoned validators are jailed, and nobody has more power than its tokens.
PowersInv ==
    /\ tombstoned \subseteq jailed
    /\ \A v \in Vals : lastPower[v] <= Tokens[v]

\* What was jailed, in past blocks and in this one, and what the meter still allows
\* add up to at most the allowances of the cycles so far (OnRecvSlashPacket,
\* ReplenishSlashMeter).
SpentInv ==
    cycles < MaxCycles =>
        removed + SumOver(lastPower, jailed \ tombstoned) + meter <= (cycles + 1) * FullAllowance

\* The inductive invariant behind MeterBounds and JailRateBounded.
RateInv == PowersInv /\ MeterBounds /\ SpentInv

\* The power jailed in this block.
LEMMA JailedPowerNat ==
    ASSUME TypeOK
    PROVE  /\ IsFiniteSet(jailed \ tombstoned)
           /\ \A v \in jailed \ tombstoned : lastPower[v] \in Nat
           /\ SumOver(lastPower, jailed \ tombstoned) \in Nat
  <1>1. /\ IsFiniteSet(jailed \ tombstoned)
        /\ \A v \in jailed \ tombstoned : lastPower[v] \in Nat
    BY FS_Subset, ThrottleAssumption DEF TypeOK
  <1> QED BY <1>1, SumNat

\* The largest allowance is the one of all the tokens.
LEMMA FullAllowanceFacts ==
    /\ FullAllowance \in Nat /\ FullAllowance >= 1
    /\ \A p \in [Vals -> Nat] : (\A v \in Vals : p[v] <= Tokens[v]) =>
          /\ Allowance(TotalPower(p)) \in Nat /\ Allowance(TotalPower(p)) >= 1
          /\ Allowance(TotalPower(p)) <= FullAllowance
  <1>1. Tokens \in [Vals -> Nat]
    BY ThrottleAssumption
  <1>2. FullAllowance \in Nat /\ FullAllowance >= 1
    BY <1>1, TotalPowerFacts, AllowanceType DEF FullAllowance
  <1>3. ASSUME NEW p \in [Vals -> Nat], \A v \in Vals : p[v] <= Tokens[v]
        PROVE  /\ Allowance(TotalPower(p)) \in Nat /\ Allowance(TotalPower(p)) >= 1
               /\ Allowance(TotalPower(p)) <= FullAllowance
    <2>1. TotalPower(p) \in Nat /\ TotalPower(Tokens) \in Nat
      BY <1>1, TotalPowerFacts
    <2>2. TotalPower(p) <= TotalPower(Tokens)
      BY <1>1, <1>3, TotalPowerFacts
    <2> QED BY <2>1, <2>2, AllowanceType, AllowanceMonotone DEF FullAllowance
  <1> QED BY <1>2, <1>3

\* The meter starts with a full allowance.
LEMMA InitRate == Init => RateInv
  <1> SUFFICES ASSUME Init PROVE RateInv
    OBVIOUS
  <1>1. /\ lastPower = Tokens /\ meter = FullAllowance /\ removed = 0 /\ cycles = 0
        /\ jailed = {} /\ tombstoned = {}
    BY DEF Init, FullAllowance
  <1>2. PowersInv
    BY <1>1, ThrottleAssumption DEF PowersInv
  <1>3. FullAllowance \in Nat /\ MaxPower \in Nat
    BY FullAllowanceFacts, MaxPowerFacts
  <1>4. MeterBounds
    BY <1>1, <1>3 DEF MeterBounds, FullAllowance
  <1>5. SumOver(lastPower, jailed \ tombstoned) = 0
    BY <1>1, SumEmpty
  <1>6. SpentInv
    BY <1>1, <1>3, <1>5 DEF SpentInv
  <1> QED BY <1>2, <1>4, <1>6 DEF RateInv

\* Steps that leave the meter and the jailed validators alone.
LEMMA RateKept ==
    ASSUME RateInv, UNCHANGED <<meter, lastPower, jailed, tombstoned, removed, cycles>>
    PROVE  RateInv'
  BY DEF RateInv, PowersInv, MeterBounds, SpentInv

\* A block counts what was jailed in it, and a cycle adds at most one allowance.
LEMMA BlockRate ==
    ASSUME TypeOK, RateInv, NEW d \in 1..MaxBlockTime, NEW epoch \in BOOLEAN,
           ProviderBlock(d, epoch)
    PROVE  RateInv'
  <1> DEFINE a == Allowance(TotalPower(EndBlockPower))
             spent == SumOver(lastPower, jailed \ tombstoned)
             due == untilCandidate <= d
  <1>1. a \in Nat /\ a >= 1 /\ a <= FullAllowance /\ FullAllowance \in Nat
    BY EndBlockPowerType, FullAllowanceFacts
  <1>2. /\ lastPower' = EndBlockPower /\ removed' = removed + spent
        /\ meter' = Least(IF due THEN Least(meter + a, a) ELSE meter, a)
        /\ cycles' = IF due THEN Least(cycles + 1, MaxCycles) ELSE cycles
        /\ UNCHANGED <<jailed, tombstoned>>
    BY DEF ProviderBlock, CheckForSlashMeterReplenishment, Replenished
  <1>3. /\ meter \in Int /\ removed \in Nat /\ cycles \in 0..MaxCycles /\ MaxCycles \in Nat
        /\ spent \in Nat /\ MaxPower \in Nat
    BY JailedPowerNat, MaxPowerFacts, ThrottleAssumption DEF TypeOK
  <1>4. PowersInv'
    BY <1>2, EndBlockPowerType DEF RateInv, PowersInv
  <1>5. SumOver(lastPower', jailed' \ tombstoned') = 0
    <2>1. /\ IsFiniteSet(jailed \ tombstoned)
          /\ \A v \in jailed \ tombstoned : EndBlockPower[v] = 0
      BY JailedPowerNat DEF EndBlockPower, TypeOK
    <2> QED BY <1>2, <2>1, SumZero
  <1>6. Allowance(TotalPower(lastPower')) = a
    BY <1>2
  <1> HIDE DEF a, spent, due
  <1>7. MeterBounds'
    <2>1. meter >= - MaxPower /\ MaxPower' = MaxPower
      BY DEF RateInv, MeterBounds, MaxPower
    <2>2. meter' <= a
      BY <1>1, <1>2, <1>3 DEF Least
    <2>3. meter' >= - MaxPower
      BY <1>1, <1>2, <1>3, <2>1 DEF Least
    <2> QED BY <1>6, <2>1, <2>2, <2>3 DEF MeterBounds
  <1>8. SpentInv'
    <2> SUFFICES ASSUME cycles' < MaxCycles
                 PROVE  removed' + 0 + meter' <= (cycles' + 1) * FullAllowance
      BY <1>5 DEF SpentInv, FullAllowance
    <2>1. removed + spent + meter <= (cycles + 1) * FullAllowance
      <3>1. cycles < MaxCycles
        BY <1>2, <1>3 DEF Least
      <3> QED BY <3>1 DEF RateInv, SpentInv, spent
    <2>2. CASE ~due
      <3>1. meter' <= meter /\ cycles' = cycles /\ meter' \in Int
        BY <1>1, <1>2, <1>3, <2>2 DEF Least
      <3> QED BY <1>1, <1>2, <1>3, <2>1, <3>1
    <2>3. CASE due
      <3>1. meter' <= meter + a /\ cycles' = cycles + 1 /\ meter' \in Int
        BY <1>1, <1>2, <1>3, <2>3 DEF Least
      <3>2. (cycles' + 1) * FullAllowance = (cycles + 1) * FullAllowance + FullAllowance
        BY <1>1, <1>3, <3>1
      <3>3. (cycles + 1) * FullAllowance \in Int
        BY <1>1, <1>3
      <3> HIDE DEF FullAllowance
      <3> QED BY <1>1, <1>2, <1>3, <2>1, <3>1, <3>2, <3>3
    <2> QED BY <2>2, <2>3
  <1> QED BY <1>4, <1>7, <1>8 DEF RateInv

\* The meter pays for every validator that a packet jails.
LEMMA HandleRate ==
    ASSUME TypeOK, RateInv, NEW c \in Consumers, NEW packet, packet.val \in Vals,
           HandleDowntime(c, packet),
           UNCHANGED <<lastPower, tombstoned, removed, cycles>>
    PROVE  RateInv'
  <1> DEFINE v == packet.val
             spent == SumOver(lastPower, jailed \ tombstoned)
  <1>1. /\ meter \in Int /\ meter >= 0 /\ removed \in Nat
        /\ cycles \in 0..MaxCycles /\ MaxCycles \in Nat
        /\ lastPower[v] \in Nat /\ spent \in Nat
        /\ lastPower[v] <= MaxPower /\ MaxPower \in Nat /\ FullAllowance \in Nat
    <2>1. lastPower[v] <= Tokens[v] /\ Tokens[v] \in Nat /\ lastPower[v] \in Nat
      BY ThrottleAssumption DEF RateInv, PowersInv, TypeOK
    <2>2. Tokens[v] <= MaxPower /\ MaxPower \in Nat
      BY MaxPowerFacts
    <2>3. lastPower[v] <= MaxPower
      <3> HIDE DEF v
      <3> QED BY <2>1, <2>2
    <2> QED BY <2>1, <2>2, <2>3, JailedPowerNat, FullAllowanceFacts, ThrottleAssumption
            DEF HandleDowntime, TypeOK
  <1>2. MaxPower' = MaxPower /\ Allowance(TotalPower(lastPower')) = Allowance(TotalPower(lastPower))
    BY DEF MaxPower
  <1>3. Allowance(TotalPower(lastPower)) \in Int
    <2>1. lastPower \in [Vals -> Nat] /\ \A w \in Vals : lastPower[w] <= Tokens[w]
      BY DEF TypeOK, RateInv, PowersInv
    <2> QED BY <2>1, FullAllowanceFacts
  <1>4. CASE v \in jailed
    <2>1. meter' = meter /\ jailed' = jailed
      <3>1. meter' = meter - EffectiveValPower(v) /\ HandleSlashPacket(c, v)
        BY DEF HandleDowntime
      <3>2. EffectiveValPower(v) = 0
        BY <1>4 DEF EffectiveValPower
      <3>3. jailed' = jailed
        BY <1>4, <3>1 DEF HandleSlashPacket
      <3>4. meter - 0 = meter
        BY <1>1
      <3> QED BY <3>1, <3>2, <3>3, <3>4
    <2> QED BY <2>1, RateKept
  <1>5. CASE v \notin jailed
    <2>1. v \notin tombstoned
      BY <1>5 DEF RateInv, PowersInv
    <2>2. meter' = meter - lastPower[v] /\ jailed' = jailed \cup {v}
      <3>1. meter' = meter - EffectiveValPower(v) /\ HandleSlashPacket(c, v)
        BY DEF HandleDowntime
      <3>2. EffectiveValPower(v) = lastPower[v]
        BY <1>5 DEF EffectiveValPower
      <3>3. jailed' = jailed \cup {v}
        BY <2>1, <3>1 DEF HandleSlashPacket
      <3> QED BY <3>1, <3>2, <3>3
    <2>3. SumOver(lastPower', jailed' \ tombstoned') = spent + lastPower[v]
      <3>1. jailed' \ tombstoned' = (jailed \ tombstoned) \cup {v}
        BY <2>1, <2>2
      <3>2. /\ IsFiniteSet(jailed \ tombstoned) /\ v \notin jailed \ tombstoned
            /\ \A w \in (jailed \ tombstoned) \cup {v} : lastPower[w] \in Int
        BY <1>1, <1>5, JailedPowerNat
      <3>3. SumOver(lastPower, (jailed \ tombstoned) \cup {v}) =
                SumOver(lastPower, jailed \ tombstoned) + lastPower[v]
        <4> HIDE DEF v
        <4> QED BY <3>2, SumAdd
      <3>4. SumOver(lastPower', jailed' \ tombstoned') =
                SumOver(lastPower, (jailed \ tombstoned) \cup {v})
        BY <3>1
      <3> QED BY <3>3, <3>4
    <2>4. PowersInv'
      BY <2>2 DEF RateInv, PowersInv
    <2> HIDE DEF v, spent
    <2>5. MeterBounds'
      <3>1. meter' <= Allowance(TotalPower(lastPower))
        BY <1>1, <1>3, <2>2 DEF RateInv, MeterBounds
      <3>2. meter' >= - MaxPower
        BY <1>1, <2>2
      <3> QED BY <1>2, <3>1, <3>2 DEF MeterBounds
    <2>6. SpentInv'
      <3> SUFFICES ASSUME cycles < MaxCycles
                   PROVE  removed + (spent + lastPower[v]) + meter' <= (cycles + 1) * FullAllowance
        BY <2>3 DEF SpentInv, FullAllowance
      <3>1. removed + spent + meter <= (cycles + 1) * FullAllowance
        BY DEF RateInv, SpentInv, spent
      <3>2. removed + (spent + lastPower[v]) + meter' = removed + spent + meter
        BY <1>1, <2>2
      <3> QED BY <3>1, <3>2
    <2> QED BY <2>4, <2>5, <2>6 DEF RateInv
  <1> QED BY <1>4, <1>5

\* Unjailing and tombstoning take validators out of the account.
LEMMA FewerJailedRate ==
    ASSUME TypeOK, RateInv, NEW v \in Vals,
           jailed' \ tombstoned' = (jailed \ tombstoned) \ {v}, tombstoned' \subseteq jailed',
           UNCHANGED <<meter, lastPower, removed, cycles>>
    PROVE  RateInv'
  <1>1. SumOver(lastPower', jailed' \ tombstoned') <= SumOver(lastPower, jailed \ tombstoned)
    <2>1. CASE v \in jailed \ tombstoned
      <3>1. /\ SumOver(lastPower, jailed \ tombstoned) =
                  lastPower[v] + SumOver(lastPower, (jailed \ tombstoned) \ {v})
            /\ SumOver(lastPower, (jailed \ tombstoned) \ {v}) \in Int
        BY <2>1, JailedPowerNat, SumRemove
      <3>2. lastPower[v] \in Nat
        BY DEF TypeOK
      <3>3. SumOver(lastPower', jailed' \ tombstoned') =
                SumOver(lastPower, (jailed \ tombstoned) \ {v})
        OBVIOUS
      <3>4. SumOver(lastPower, (jailed \ tombstoned) \ {v}) <=
                SumOver(lastPower, jailed \ tombstoned)
        BY <3>1, <3>2
      <3> QED BY <3>3, <3>4
    <2>2. CASE v \notin jailed \ tombstoned
      <3>1. jailed' \ tombstoned' = jailed \ tombstoned
        BY <2>2
      <3> QED BY <3>1, JailedPowerNat
    <2> QED BY <2>1, <2>2
  <1>2. SumOver(lastPower', jailed' \ tombstoned') \in Int
    BY JailedPowerNat, SumRemove
  <1>3. PowersInv' /\ MeterBounds'
    BY DEF RateInv, PowersInv, MeterBounds
  <1>4. SpentInv'
    <2> PICK s \in Int, t \in Int : /\ s = SumOver(lastPower, jailed \ tombstoned)
                                    /\ t = SumOver(lastPower', jailed' \ tombstoned')
                                    /\ t <= s
      BY <1>1, <1>2, JailedPowerNat
    <2>1. meter \in Int /\ removed \in Int /\ cycles \in Int /\ FullAllowance \in Int
      BY FullAllowanceFacts, ThrottleAssumption DEF TypeOK
    <2>2. (cycles + 1) * FullAllowance \in Int
      BY <2>1
    <2>3. ASSUME cycles < MaxCycles
          PROVE  removed + t + meter <= (cycles + 1) * FullAllowance
      <3>1. removed + s + meter <= (cycles + 1) * FullAllowance
        BY <2>3 DEF RateInv, SpentInv
      <3> QED BY <2>1, <2>2, <3>1
    <2> QED BY <2>3 DEF SpentInv, FullAllowance
  <1> QED BY <1>3, <1>4 DEF RateInv

\* Every step keeps the rate.
LEMMA NextRate == TypeOK /\ RateInv /\ [Next]_vars => RateInv'
  <1> SUFFICES ASSUME TypeOK, RateInv, [Next]_vars PROVE RateInv'
    OBVIOUS
  <1> USE ThrottleAssumption
  <1>1. ASSUME NEW v \in Vals, Unjail(v) PROVE RateInv'
    <2>1. /\ jailed' \ tombstoned' = (jailed \ tombstoned) \ {v}
          /\ tombstoned' \subseteq jailed'
      BY <1>1 DEF Unjail, RateInv, PowersInv
    <2> QED BY <1>1, <2>1, FewerJailedRate DEF Unjail
  <1>2. ASSUME NEW v \in DoubleSigners, Tombstone(v) PROVE RateInv'
    <2>1. /\ jailed' \ tombstoned' = (jailed \ tombstoned) \ {v}
          /\ tombstoned' \subseteq jailed'
      BY <1>2 DEF Tombstone, RateInv, PowersInv
    <2> QED BY <1>2, <2>1, FewerJailedRate DEF Tombstone
  <1>3. ASSUME NEW c \in Consumers, OnRecvSlashPacket(c) PROVE RateInv'
    <2> DEFINE packet == Head(toProvider[c])
    <2>1. packet.val \in Vals
      <3>1. packet \in Packets
        BY <1>3 DEF OnRecvSlashPacket, TypeOK
      <3> QED BY <3>1 DEF Packets
    <2> HIDE DEF packet
    <2>2. UNCHANGED <<lastPower, tombstoned, removed, cycles>>
      BY <1>3 DEF OnRecvSlashPacket
    <2>3. HandleDowntime(c, packet) \/ UNCHANGED <<meter, jailed>>
      BY <1>3 DEF OnRecvSlashPacket, LogDoubleSign, DropDowntime, BounceDowntime, packet
    <2> QED BY <2>1, <2>2, <2>3, HandleRate, RateKept
  <1>4. ASSUME NEW c \in Stoppable, StopConsumer(c) \/ ChannelTimeout(c) PROVE RateInv'
    BY <1>4, RateKept DEF StopConsumer, ChannelTimeout, providerVars
  <1>5. ASSUME NEW c \in Consumers,
               \/ \E v \in Vals, i \in Infractions : QueueSlashPacket(c, v, i)
               \/ \E active \in BOOLEAN : ConsumerBlock(c, active)
               \/ OnAcknowledgementPacket(c)
               \/ OnRecvVSCPacket(c)
        PROVE  RateInv'
    BY <1>5, RateKept DEF QueueSlashPacket, ConsumerBlock, OnAcknowledgementPacket,
                          OnRecvVSCPacket, providerVars
  <1>6. CASE UNCHANGED vars
    BY <1>6, RateKept DEF vars, providerVars
  <1> QED BY <1>1, <1>2, <1>3, <1>4, <1>5, <1>6, BlockRate DEF Next

\* The account of the throttle holds in every reachable state.
THEOREM RateInvariant == Spec => []RateInv
  BY InitRate, NextRate, TypeCorrect, PTL DEF Spec

\* The meter stays between the negated power of the largest validator and the
\* allowance of the block, so the panics of SetSlashMeter are out of reach.
THEOREM MeterCorrect == Spec => []MeterBounds
  <1>1. RateInv => MeterBounds
    BY DEF RateInv
  <1> QED BY <1>1, RateInvariant, PTL

\* The main throttling property: C replenishments let the consumers jail at most
\* C + 1 allowances and one validator more (OnRecvSlashPacket,
\* CheckForSlashMeterReplenishment).
THEOREM JailRateCorrect == Spec => []JailRateBounded
  <1>1. TypeOK /\ RateInv => JailRateBounded
    <2> SUFFICES ASSUME TypeOK, RateInv, cycles < MaxCycles
                 PROVE  removed <= (cycles + 1) * FullAllowance + MaxPower
      BY DEF JailRateBounded
    <2> PICK s \in Nat : s = SumOver(lastPower, jailed \ tombstoned)
      BY JailedPowerNat
    <2>1. removed + s + meter <= (cycles + 1) * FullAllowance /\ meter >= - MaxPower
      BY DEF RateInv, SpentInv, MeterBounds
    <2>2. /\ meter \in Int /\ removed \in Nat /\ MaxPower \in Nat
          /\ (cycles + 1) * FullAllowance \in Int
      BY FullAllowanceFacts, MaxPowerFacts, ThrottleAssumption DEF TypeOK
    <2> QED BY <2>1, <2>2
  <1> QED BY <1>1, RateInvariant, TypeCorrect, PTL
-----------------------------------------------------------------------------
(* The queue of a consumer *)

\* The consumer waits for the reply to a slash packet.
Waiting(c) == slashRecord[c] # NoRecord /\ slashRecord[c].waitingOnReply

\* StandbyMatchesFlight, for one consumer and by cases: the packet at the head of
\* the queue is on its way, or its acknowledgement is, or nothing is.
FlightOf(c) ==
    IF Waiting(c)
    THEN /\ pendingPackets[c] # <<>>
         /\ \/ /\ toProvider[c] = <<Head(pendingPackets[c])>>
               /\ acks[c] = <<>>
            \/ /\ toProvider[c] = <<>>
               /\ Len(acks[c]) = 1 /\ acks[c][1].packet = Head(pendingPackets[c])
    ELSE toProvider[c] = <<>> /\ acks[c] = <<>>

\* The packet at the head of the queue has been handled, and the consumer does not
\* know it yet.
Replied(c) == \E i \in 1..Len(acks[c]) : acks[c][i].result # "BOUNCED"

\* The index of the packet at the head of the queue.
First(c) == IF Replied(c) THEN Len(handled[c]) - 1 ELSE Len(handled[c])

\* HandledOnceInOrder, for one consumer.
OrderOf(c) ==
    /\ \A i \in 1..Len(handled[c]) : handled[c][i] = i - 1
    /\ Len(pendingPackets[c]) = pendingPacketsIdx[c] - First(c)
    /\ \A i \in 1..Len(pendingPackets[c]) : pendingPackets[c][i].idx = First(c) + i - 1

\* The inductive invariant behind QueueInv.
FlightInv == \A c \in Consumers : FlightOf(c) /\ OrderOf(c)

\* FlightInv says what StandbyMatchesFlight and HandledOnceInOrder say.
LEMMA FlightImpliesQueue == TypeOK /\ FlightInv => QueueInv
  <1> SUFFICES ASSUME TypeOK, FlightInv PROVE StandbyMatchesFlight /\ HandledOnceInOrder
    BY DEF QueueInv
  <1>1. StandbyMatchesFlight
    <2> SUFFICES ASSUME NEW c \in Consumers
                 PROVE LET flying == [i \in 1..Len(toProvider[c]) |-> toProvider[c][i]]
                                      \o [i \in 1..Len(acks[c]) |-> acks[c][i].packet]
                       IN  IF slashRecord[c] # NoRecord /\ slashRecord[c].waitingOnReply
                           THEN Len(flying) = 1 /\ pendingPackets[c] # <<>>
                                   /\ flying[1] = Head(pendingPackets[c])
                           ELSE flying = <<>>
      BY DEF StandbyMatchesFlight
    <2> DEFINE p == [i \in 1..Len(toProvider[c]) |-> toProvider[c][i]]
               a == [i \in 1..Len(acks[c]) |-> acks[c][i].packet]
    <2>1. CASE ~Waiting(c)
      <3>1. toProvider[c] = <<>> /\ acks[c] = <<>>
        BY <2>1 DEF FlightInv, FlightOf
      <3>2. p = <<>> /\ a = <<>>
        BY <3>1
      <3>3. p \o a = <<>>
        BY <3>2
      <3> QED BY <2>1, <3>3 DEF Waiting
    <2>2. CASE Waiting(c)
      <3> DEFINE head == Head(pendingPackets[c])
      <3>1. pendingPackets[c] # <<>>
        BY <2>2 DEF FlightInv, FlightOf
      <3>2. p \o a = <<head>>
        <4>1. CASE toProvider[c] = <<head>> /\ acks[c] = <<>>
          <5>1. p = <<head>> /\ a = <<>>
            BY <4>1
          <5> HIDE DEF p, a, head
          <5> QED BY <5>1
        <4>2. CASE toProvider[c] = <<>> /\ Len(acks[c]) = 1 /\ acks[c][1].packet = head
          <5>1. p = <<>>
            BY <4>2
          <5>2. a = [i \in 1..1 |-> head]
            BY <4>2
          <5>3. a = <<head>>
            BY <5>2
          <5> HIDE DEF p, a, head
          <5> QED BY <5>1, <5>3
        <4> QED BY <2>2, <4>1, <4>2 DEF FlightInv, FlightOf
      <3>3. Len(p \o a) = 1 /\ (p \o a)[1] = head
        <4> HIDE DEF p, a, head
        <4> QED BY <3>2
      <3> QED BY <2>2, <3>1, <3>3 DEF Waiting
    <2> QED BY <2>1, <2>2
  <1>2. HandledOnceInOrder
    BY DEF HandledOnceInOrder, FlightInv, OrderOf, First, Replied
  <1> QED BY <1>1, <1>2

\* Nothing is queued or in flight at the start.
LEMMA InitFlight == Init => FlightInv
  <1> SUFFICES ASSUME Init, NEW c \in Consumers PROVE FlightOf(c) /\ OrderOf(c)
    BY DEF FlightInv
  <1>1. ~Waiting(c) /\ toProvider[c] = <<>> /\ acks[c] = <<>>
    BY DEF Init, Waiting
  <1>2. handled[c] = <<>> /\ pendingPackets[c] = <<>> /\ pendingPacketsIdx[c] = 0
    BY DEF Init
  <1>3. ~Replied(c) /\ First(c) = 0
    BY <1>1, <1>2 DEF Replied, First
  <1> QED BY <1>1, <1>2, <1>3 DEF FlightOf, OrderOf

\* A step that touches neither the queue nor what is in flight.
LEMMA FlightKept ==
    ASSUME NEW c \in Consumers, FlightOf(c), OrderOf(c),
           toProvider'[c] = toProvider[c], acks'[c] = acks[c], handled'[c] = handled[c],
           pendingPackets'[c] = pendingPackets[c],
           pendingPacketsIdx'[c] = pendingPacketsIdx[c], Waiting(c)' <=> Waiting(c)
    PROVE  FlightOf(c)' /\ OrderOf(c)'
  <1>1. Replied(c)' <=> Replied(c)
    BY DEF Replied
  <1>2. First(c)' = First(c)
    BY <1>1 DEF First
  <1> QED BY <1>2 DEF FlightOf, OrderOf

\* OnRecvSlashPacket answers the head of the queue.
LEMMA RecvFlight ==
    ASSUME TypeOK, TypeOK', NEW c \in Consumers, FlightOf(c), OrderOf(c), OnRecvSlashPacket(c)
    PROVE  FlightOf(c)' /\ OrderOf(c)'
  <1> DEFINE head == Head(pendingPackets[c])
             n == Len(handled[c])
  <1>1. /\ Waiting(c) /\ pendingPackets[c] # <<>>
        /\ toProvider[c] = <<head>> /\ acks[c] = <<>>
    BY DEF OnRecvSlashPacket, FlightOf
  <1>2. PICK result \in Results : Reply(c, head, result)
    <2>1. Head(toProvider[c]) = head
      BY <1>1
    <2> HIDE DEF head
    <2> QED BY <2>1 DEF OnRecvSlashPacket, LogDoubleSign, DropDowntime, BounceDowntime,
                        HandleDowntime, Results
  <1>3. /\ toProvider'[c] = <<>>
        /\ UNCHANGED <<pendingPackets, pendingPacketsIdx, slashRecord>>
    <2>1. toProvider'[c] = Tail(toProvider[c])
      BY DEF OnRecvSlashPacket, TypeOK
    <2> QED BY <1>1, <2>1 DEF OnRecvSlashPacket
  <1>4. acks'[c] = <<[packet |-> head, result |-> result]>>
    <2>1. acks'[c] = Append(acks[c], [packet |-> head, result |-> result])
      BY <1>2 DEF Reply, TypeOK
    <2> HIDE DEF head
    <2> QED BY <1>1, <2>1
  <1>5. FlightOf(c)'
    <2>1. Waiting(c)'
      BY <1>1, <1>3 DEF Waiting
    <2>2. Len(acks'[c]) = 1 /\ acks'[c][1].packet = head
      BY <1>4
    <2> QED BY <1>1, <1>3, <2>1, <2>2 DEF FlightOf
  <1>6. ~Replied(c) /\ First(c) = n
    BY <1>1 DEF Replied, First
  <1>7. Replied(c)' <=> result # "BOUNCED"
    <2>1. Len(acks'[c]) = 1 /\ acks'[c][1].result = result
      BY <1>4
    <2> QED BY <2>1 DEF Replied
  <1>8. /\ handled'[c] = IF result = "BOUNCED" THEN handled[c] ELSE Append(handled[c], head.idx)
        /\ handled[c] \in Seq(0..(MaxPackets - 1)) /\ pendingPackets[c] \in Seq(Packets)
    BY <1>2 DEF Reply, TypeOK
  <1>9. head.idx = n
    <2>1. head = pendingPackets[c][1] /\ 1 \in 1..Len(pendingPackets[c])
      BY <1>1, <1>8
    <2>2. n \in Nat
      BY <1>8
    <2> HIDE DEF head, n
    <2> QED BY <1>6, <2>1, <2>2 DEF OrderOf
  <1>10. First(c)' = n /\ (\A i \in 1..Len(handled[c]) : handled[c][i] = i - 1)'
    <2>1. CASE result = "BOUNCED"
      BY <1>7, <1>8, <2>1 DEF First, OrderOf
    <2>2. CASE result # "BOUNCED"
      <3>1. handled'[c] = Append(handled[c], n)
        BY <1>8, <1>9, <2>2
      <3>2. n \in Nat /\ Len(handled'[c]) = n + 1
        BY <1>8, <3>1
      <3>3. ASSUME NEW i \in 1..(n + 1) PROVE handled'[c][i] = i - 1
        <4>1. CASE i = n + 1
          <5>1. \A e : Append(handled[c], e)[Len(handled[c]) + 1] = e
            BY <1>8
          <5>2. handled'[c][i] = n
            BY <3>1, <4>1, <5>1
          <5> HIDE DEF n
          <5> QED BY <3>2, <4>1, <5>2
        <4>2. CASE i # n + 1
          BY <1>8, <3>1, <3>2, <4>2 DEF OrderOf
        <4> QED BY <4>1, <4>2
      <3> QED BY <1>7, <2>2, <3>2, <3>3 DEF First
    <2> QED BY <2>1, <2>2
  <1>11. OrderOf(c)'
    BY <1>3, <1>6, <1>10 DEF OrderOf
  <1> QED BY <1>5, <1>11

\* QueueSlashPacket adds a packet behind the head, with the next index.
LEMMA QueueFlight ==
    ASSUME TypeOK, NEW c \in Consumers, FlightOf(c), OrderOf(c),
           NEW v \in Vals, NEW i \in Infractions, QueueSlashPacket(c, v, i)
    PROVE  FlightOf(c)' /\ OrderOf(c)'
  <1> DEFINE q == pendingPackets[c]
             new == [idx |-> pendingPacketsIdx[c], val |-> v, infraction |-> i]
  <1>1. /\ q \in Seq(Packets) /\ pendingPackets'[c] = Append(q, new)
        /\ pendingPacketsIdx[c] \in Nat /\ pendingPacketsIdx'[c] = pendingPacketsIdx[c] + 1
        /\ UNCHANGED <<toProvider, acks, slashRecord, handled>>
    BY DEF QueueSlashPacket, TypeOK
  <1>2. /\ Waiting(c)' <=> Waiting(c)
        /\ Replied(c)' <=> Replied(c)
        /\ First(c)' = First(c)
    BY <1>1 DEF Waiting, Replied, First
  <1>3. First(c) \in Int
    BY DEF First, TypeOK
  <1>4. new.idx = pendingPacketsIdx[c]
    OBVIOUS
  <1> HIDE DEF new
  <1>5. /\ Len(Append(q, new)) = Len(q) + 1 /\ Len(q) \in Nat
        /\ Append(q, new)[Len(q) + 1] = new
        /\ \A j \in 1..Len(q) : Append(q, new)[j] = q[j]
    BY <1>1
  <1>6. FlightOf(c)'
    <2>1. CASE ~Waiting(c)
      BY <1>1, <1>2, <2>1 DEF FlightOf
    <2>2. CASE Waiting(c)
      <3>1. q # <<>>
        BY <2>2 DEF FlightOf
      <3>2. Append(q, new) # <<>> /\ Head(Append(q, new)) = Head(q)
        BY <1>1, <3>1
      <3> QED BY <1>1, <1>2, <2>2, <3>2 DEF FlightOf
    <2> QED BY <2>1, <2>2
  <1>7. OrderOf(c)'
    <2>1. Len(q) = pendingPacketsIdx[c] - First(c)
      BY DEF OrderOf
    <2>2. ASSUME NEW j \in 1..(Len(q) + 1)
          PROVE  Append(q, new)[j].idx = First(c) + j - 1
      <3>1. CASE j = Len(q) + 1
        <4>1. Append(q, new)[j].idx = pendingPacketsIdx[c]
          BY <1>4, <1>5, <3>1
        <4> HIDE DEF q
        <4> QED BY <1>1, <1>3, <1>5, <2>1, <3>1, <4>1
      <3>2. CASE j # Len(q) + 1
        <4>1. j \in 1..Len(q)
          BY <1>5, <3>2
        <4> QED BY <1>5, <4>1 DEF OrderOf
      <3> QED BY <3>1, <3>2
    <2>3. Len(Append(q, new)) = pendingPacketsIdx'[c] - First(c)
      <3> HIDE DEF q
      <3> QED BY <1>1, <1>3, <1>5, <2>1
    <2> QED BY <1>1, <1>2, <1>5, <2>2, <2>3 DEF OrderOf
  <1> QED BY <1>6, <1>7

\* A record stays one when the block time advances.
LEMMA AgedRecord ==
    /\ Aged(NoRecord) = NoRecord
    /\ \A r \in Records : Aged(r) \in Records /\ Aged(r).waitingOnReply = r.waitingOnReply
    /\ NoRecord \notin Records
  <1>1. NoRecord \notin Records
    BY ThrottleAssumption DEF Records
  <1>2. ASSUME NEW r \in Records
        PROVE  Aged(r) \in Records /\ Aged(r).waitingOnReply = r.waitingOnReply
    <2>1. Aged(r) = [r EXCEPT !.age = Least(@ + 1, RetryDelay + 1)]
      BY <1>1 DEF Aged
    <2>2. Least(r.age + 1, RetryDelay + 1) \in 0..(RetryDelay + 1)
      BY ThrottleAssumption DEF Records, Least
    <2> QED BY <2>1, <2>2 DEF Records
  <1> QED BY <1>1, <1>2 DEF Aged

\* SendPackets sends when nothing is in flight, and then waits for the reply.
LEMMA BlockFlight ==
    ASSUME TypeOK, NEW c \in Consumers, FlightOf(c), OrderOf(c),
           NEW active \in BOOLEAN, ConsumerBlock(c, active)
    PROVE  FlightOf(c)' /\ OrderOf(c)'
  <1>1. UNCHANGED <<acks, pendingPackets, pendingPacketsIdx, handled>>
    BY DEF ConsumerBlock
  <1>2. OrderOf(c)'
    BY <1>1 DEF OrderOf, First, Replied
  <1>3. slashRecord[c] \in {NoRecord} \cup Records
    BY DEF TypeOK
  <1>4. CASE CanSend(c, active)
    <2> DEFINE head == Head(pendingPackets[c])
               sent == [waitingOnReply |-> TRUE, age |-> 0]
    <2>1. toProvider[c] = <<>> /\ acks[c] = <<>> /\ pendingPackets[c] # <<>>
      BY <1>4 DEF CanSend, PacketSendingPermitted, FlightOf, Waiting
    <2>2. toProvider'[c] = Append(toProvider[c], head) /\ slashRecord'[c] = Aged(sent)
      BY <1>4 DEF ConsumerBlock, TypeOK
    <2>3. toProvider'[c] = <<head>>
      <3> HIDE DEF head
      <3> QED BY <2>1, <2>2
    <2>4. Waiting(c)'
      <3>1. sent \in Records /\ sent.waitingOnReply
        BY ThrottleAssumption DEF Records
      <3> HIDE DEF sent
      <3> QED BY <2>2, <3>1, AgedRecord DEF Waiting
    <2> QED BY <1>1, <1>2, <2>1, <2>3, <2>4 DEF FlightOf
  <1>5. CASE ~CanSend(c, active)
    <2>1. toProvider' = toProvider /\ slashRecord'[c] = Aged(slashRecord[c])
      BY <1>5 DEF ConsumerBlock, TypeOK
    <2>2. Waiting(c)' <=> Waiting(c)
      BY <1>3, <2>1, AgedRecord DEF Waiting
    <2> QED BY <1>1, <2>1, <2>2, FlightKept
  <1> QED BY <1>4, <1>5

\* Nothing follows the only element of a sequence.
LEMMA SingleTail ==
    ASSUME NEW S, NEW s \in Seq(S), Len(s) = 1
    PROVE  Tail(s) = <<>>
  <1>1. s # <<>>
    BY EmptySeq
  <1>2. Tail(s) \in Seq(S) /\ Len(Tail(s)) = 0
    BY <1>1, HeadTailProperties
  <1> QED BY <1>2, EmptySeq

\* OnAcknowledgementPacket deletes the packet it is about, or lets it be retried.
LEMMA AckFlight ==
    ASSUME TypeOK, NEW c \in Consumers, FlightOf(c), OrderOf(c), OnAcknowledgementPacket(c)
    PROVE  FlightOf(c)' /\ OrderOf(c)'
  <1> DEFINE q == pendingPackets[c]
             n == Len(handled[c])
  <1>1. Waiting(c) /\ q # <<>> /\ toProvider[c] = <<>> /\ Len(acks[c]) = 1
    BY DEF OnAcknowledgementPacket, FlightOf
  <1> DEFINE A == [packet : Packets, result : Results]
  <1>2. q \in Seq(Packets) /\ n \in Nat /\ acks[c] \in Seq(A)
    <2>1. handled[c] \in Seq(0..(MaxPackets - 1))
      BY DEF TypeOK
    <2>2. acks[c] \in Seq(A)
      BY DEF TypeOK
    <2>3. q \in Seq(Packets)
      BY DEF TypeOK
    <2> QED BY <2>1, <2>2, <2>3
  <1> HIDE DEF A
  <1>3. /\ toProvider'[c] = <<>> /\ acks'[c] = <<>>
        /\ UNCHANGED <<handled, pendingPacketsIdx>>
    <2>1. acks'[c] = Tail(acks[c])
      BY DEF OnAcknowledgementPacket, TypeOK
    <2>2. Tail(acks[c]) = <<>>
      BY <1>1, <1>2, SingleTail
    <2> QED BY <1>1, <2>1, <2>2 DEF OnAcknowledgementPacket
  <1>4. ~Replied(c)' /\ First(c)' = n
    BY <1>3 DEF Replied, First
  <1>5. Replied(c) <=> Head(acks[c]).result # "BOUNCED"
    BY <1>1, <1>2 DEF Replied
  <1>6. CASE Head(acks[c]).result = "BOUNCED" /\ UpdateSlashRecordOnBounce(c)
    <2>1. ~Waiting(c)'
      <3>1. slashRecord[c] \in Records
        BY <1>6 DEF UpdateSlashRecordOnBounce, TypeOK
      <3>2. slashRecord'[c].waitingOnReply = FALSE
        BY <1>6, <3>1 DEF UpdateSlashRecordOnBounce, TypeOK, Records
      <3> QED BY <3>2 DEF Waiting
    <2>2. pendingPackets' = pendingPackets /\ First(c) = n
      BY <1>5, <1>6 DEF UpdateSlashRecordOnBounce, First
    <2> QED BY <1>3, <1>4, <2>1, <2>2 DEF FlightOf, OrderOf
  <1>7. CASE Head(acks[c]).result # "BOUNCED" /\ DeleteHead(c)
    <2>1. ~Waiting(c)' /\ pendingPackets'[c] = Tail(q)
      BY <1>1, <1>7 DEF DeleteHead, TypeOK, Waiting
    <2>2. First(c) = n - 1
      BY <1>5, <1>7 DEF First
    <2>3. /\ Len(q) \in Nat /\ Len(Tail(q)) = Len(q) - 1
          /\ \A i \in 1..Len(Tail(q)) : Tail(q)[i] = q[i + 1] /\ i + 1 \in 1..Len(q)
      BY <1>1, <1>2
    <2>4. pendingPacketsIdx[c] \in Nat /\ Len(q) = pendingPacketsIdx[c] - (n - 1)
      BY <2>2 DEF OrderOf, TypeOK
    <2>5. Len(Tail(q)) = pendingPacketsIdx[c] - n
      <3> HIDE DEF q, n
      <3> QED BY <1>2, <2>3, <2>4
    <2>6. ASSUME NEW i \in 1..Len(Tail(q)) PROVE Tail(q)[i].idx = n + i - 1
      <3>1. Tail(q)[i].idx = (n - 1) + (i + 1) - 1
        BY <2>2, <2>3 DEF OrderOf
      <3>2. i \in Nat
        BY <2>3
      <3> HIDE DEF q, n
      <3> QED BY <1>2, <3>1, <3>2
    <2>7. \A i \in 1..Len(handled[c]) : handled[c][i] = i - 1
      BY DEF OrderOf
    <2> QED BY <1>3, <1>4, <2>1, <2>5, <2>6, <2>7 DEF FlightOf, OrderOf
  <1> QED BY <1>6, <1>7 DEF OnAcknowledgementPacket

\* Every step keeps the order of the packets; one consumer's step leaves the
\* others alone.
LEMMA NextFlight == TypeOK /\ TypeOK' /\ FlightInv /\ [Next]_vars => FlightInv'
  <1> SUFFICES ASSUME TypeOK, TypeOK', FlightInv, [Next]_vars, NEW c \in Consumers
               PROVE  FlightOf(c)' /\ OrderOf(c)'
    BY DEF FlightInv
  <1> DEFINE Same == /\ toProvider'[c] = toProvider[c] /\ acks'[c] = acks[c]
                     /\ handled'[c] = handled[c] /\ pendingPackets'[c] = pendingPackets[c]
                     /\ pendingPacketsIdx'[c] = pendingPacketsIdx[c]
                     /\ slashRecord'[c] = slashRecord[c]
  <1>1. FlightOf(c) /\ OrderOf(c)
    BY DEF FlightInv
  <1>2. ASSUME Same PROVE FlightOf(c)' /\ OrderOf(c)'
    <2>1. Waiting(c)' <=> Waiting(c)
      BY <1>2 DEF Waiting
    <2> QED BY <1>1, <1>2, <2>1, FlightKept
  <1>3. ASSUME \/ \E d \in 1..MaxBlockTime, epoch \in BOOLEAN : ProviderBlock(d, epoch)
               \/ \E v \in Vals : Unjail(v)
               \/ \E v \in DoubleSigners : Tombstone(v)
               \/ \E b \in Stoppable : StopConsumer(b) \/ ChannelTimeout(b)
               \/ \E b \in Consumers : OnRecvVSCPacket(b)
               \/ UNCHANGED vars
        PROVE  Same
    BY <1>3 DEF ProviderBlock, Unjail, Tombstone, StopConsumer, ChannelTimeout,
                OnRecvVSCPacket, vars
  <1>4. ASSUME NEW b \in Consumers, b # c,
               \/ OnRecvSlashPacket(b)
               \/ \E v \in Vals, i \in Infractions : QueueSlashPacket(b, v, i)
               \/ \E active \in BOOLEAN : ConsumerBlock(b, active)
               \/ OnAcknowledgementPacket(b)
        PROVE  Same
    <2>1. CASE OnRecvSlashPacket(b)
      BY <1>4, <2>1 DEF OnRecvSlashPacket, LogDoubleSign, DropDowntime, BounceDowntime,
                        HandleDowntime, Reply, TypeOK
    <2>2. ASSUME NEW v \in Vals, NEW i \in Infractions, QueueSlashPacket(b, v, i) PROVE Same
      BY <1>4, <2>2 DEF QueueSlashPacket, TypeOK
    <2>3. ASSUME NEW active \in BOOLEAN, ConsumerBlock(b, active) PROVE Same
      BY <1>4, <2>3 DEF ConsumerBlock, TypeOK
    <2>4. CASE OnAcknowledgementPacket(b)
      BY <1>4, <2>4 DEF OnAcknowledgementPacket, UpdateSlashRecordOnBounce, DeleteHead, TypeOK
    <2> QED BY <1>4, <2>1, <2>2, <2>3, <2>4
  <1>5. CASE OnRecvSlashPacket(c)
    BY <1>1, <1>5, RecvFlight
  <1>6. ASSUME NEW v \in Vals, NEW i \in Infractions, QueueSlashPacket(c, v, i)
        PROVE  FlightOf(c)' /\ OrderOf(c)'
    BY <1>1, <1>6, QueueFlight
  <1>7. ASSUME NEW active \in BOOLEAN, ConsumerBlock(c, active)
        PROVE  FlightOf(c)' /\ OrderOf(c)'
    BY <1>1, <1>7, BlockFlight
  <1>8. CASE OnAcknowledgementPacket(c)
    BY <1>1, <1>8, AckFlight
  <1> HIDE DEF Same
  <1> QED BY <1>2, <1>3, <1>4, <1>5, <1>6, <1>7, <1>8 DEF Next

\* Every slash packet is handled once and in order, the record of a consumer fits
\* what it has in flight, and a bounce always finds a record, however consumers,
\* provider, bounces and retries interleave (SendPackets, OnRecvSlashPacket,
\* OnAcknowledgementPacket).
THEOREM QueueCorrect == Spec => []QueueInv
  <1>1. Init => TypeOK /\ FlightInv
    BY InitTypeOK, InitFlight
  <1>2. TypeOK /\ FlightInv /\ [Next]_vars => TypeOK' /\ FlightInv'
    BY NextTypeOK, NextFlight
  <1> QED BY <1>1, <1>2, FlightImpliesQueue, PTL DEF Spec
==============================================================================
