--------------------------- MODULE SlashThrottle ----------------------------
(***************************************************************************)
(* Consumer Initiated Slashing with throttling and retries: several        *)
(* consumers send slash packets, one at a time, to the provider, whose     *)
(* slash meter limits how much voting power they may jail over time.  A    *)
(* packet that arrives while the meter is negative is bounced and retried  *)
(* by its consumer after a delay.                                          *)
(*                                                                         *)
(* Block times are kept as the differences the code compares: the time     *)
(* left until the replenish candidate, and the time since a slash packet   *)
(* was sent.  The vscID of a packet is left to ValsetUpdate, which shows   *)
(* that it always maps to a height; consumer and provider keys are the     *)
(* same here (see KeyAssignment).                                          *)
(***************************************************************************)
EXTENDS Integers, Sequences, Sums

CONSTANTS Consumers,        \* launched consumer chains
          Vals,             \* provider validators
          Tokens,           \* Vals -> voting power of an unjailed validator
          FracNum, FracDen, \* SlashMeterReplenishFraction
          ReplenishPeriod,  \* SlashMeterReplenishPeriod
          RetryDelay,       \* RetryDelayPeriod of the consumers
          NoRecord,         \* stands for the absence of a slash record
          Infractions,      \* bound: kinds of infractions that happen
          DoubleSigners,    \* bound: validators that may be tombstoned
          Stoppable,        \* bound: consumers that may be stopped or cut off
          MaxBlockTime,     \* bound: time between two provider blocks
          MaxPackets,       \* bound: slash packets queued by a consumer
          MaxCycles         \* bound: replenishments counted

ASSUME ThrottleAssumption ==
    /\ IsFiniteSet(Vals) /\ Vals # {} /\ Tokens \in [Vals -> Nat \ {0}]
    /\ FracNum \in Nat /\ FracDen \in Nat \ {0} /\ FracNum <= FracDen
    /\ ReplenishPeriod \in Nat \ {0} /\ RetryDelay \in Nat
    /\ Infractions \subseteq {"DOWNTIME", "DOUBLE_SIGN"}
    /\ DoubleSigners \subseteq Vals /\ Stoppable \subseteq Consumers
    /\ MaxBlockTime \in Nat \ {0} /\ MaxPackets \in Nat /\ MaxCycles \in Nat
    /\ NoRecord \notin [waitingOnReply : BOOLEAN, age : Nat]

VARIABLES
    \* provider
    meter,               \* SlashMeter
    untilCandidate,      \* SlashMeterReplenishTimeCandidate minus block time
    lastPower,           \* staking LastValidatorPower, of the last end of block
    jailed, tombstoned,  \* sets of validators
    phase,               \* ConsumerPhase
    consumerVals,        \* stored consumer validators
    slashAcks,           \* consumer -> downtime requests to acknowledge
    slashLog,            \* validators reported for double signing
    \* network
    vscAcks,             \* slash acks inside VSC packets on their way
    toProvider,          \* slash packets in flight, an ordered channel
    acks,                \* acknowledgements in flight
    channel,             \* state of the CCV channel
    \* consumers
    pendingPackets,      \* queue, each entry with its index
    pendingPacketsIdx,   \* index of the next entry
    slashRecord,         \* NoRecord or [waitingOnReply, age]
    outstandingDowntime, \* validators with a downtime request under way
    \* history
    handled,             \* consumer -> indexes of the packets not bounced
    removed,             \* power that left the provider's set by jailing
    cycles               \* replenishments so far

providerVars == <<meter, untilCandidate, lastPower, jailed, tombstoned, phase,
                  consumerVals, slashAcks, slashLog, removed, cycles>>
vars == <<providerVars, vscAcks, toProvider, acks, channel, pendingPackets,
          pendingPacketsIdx, slashRecord, outstandingDowntime, handled>>

Results == {"V1", "HANDLED", "BOUNCED"}
Packets == [idx : 0..(MaxPackets - 1), val : Vals, infraction : Infractions]
Records == [waitingOnReply : BOOLEAN, age : 0..(RetryDelay + 1)]

Least(a, b) == IF a < b THEN a ELSE b
Greatest(a, b) == IF a < b THEN b ELSE a
TotalPower(power) == SumOver(power, Vals)

\* Mutant of Allowance: without the minimum of 1.
AllowanceRoundedToZero(total) ==
    LET q == (total * FracNum) \div FracDen
        r == (total * FracNum) % FracDen
        up == 2 * r > FracDen \/ (2 * r = FracDen /\ q % 2 = 1)
    IN  IF up THEN q + 1 ELSE q

\* GetSlashMeterAllowance: the fraction of the total power, rounded half to
\* even, and at least 1.
Allowance(total) ==
    LET q == (total * FracNum) \div FracDen
        r == (total * FracNum) % FracDen
        up == 2 * r > FracDen \/ (2 * r = FracDen /\ q % 2 = 1)
    IN  Greatest(1, IF up THEN q + 1 ELSE q)

TypeOK ==
    /\ meter \in Int
    /\ untilCandidate \in 0..ReplenishPeriod
    /\ lastPower \in [Vals -> Nat]
    /\ jailed \subseteq Vals /\ tombstoned \subseteq Vals
    /\ phase \in [Consumers -> {"LAUNCHED", "STOPPED"}]
    /\ consumerVals \in [Consumers -> SUBSET Vals]
    /\ slashAcks \in [Consumers -> SUBSET Vals]
    /\ slashLog \subseteq Vals
    /\ vscAcks \in [Consumers -> SUBSET Vals]
    /\ toProvider \in [Consumers -> Seq(Packets)]
    /\ acks \in [Consumers -> Seq([packet : Packets, result : Results])]
    /\ channel \in [Consumers -> {"OPEN", "CLOSED"}]
    /\ pendingPackets \in [Consumers -> Seq(Packets)]
    /\ pendingPacketsIdx \in [Consumers -> 0..MaxPackets]
    /\ slashRecord \in [Consumers -> {NoRecord} \cup Records]
    /\ outstandingDowntime \in [Consumers -> SUBSET Vals]
    /\ handled \in [Consumers -> Seq(0..(MaxPackets - 1))]
    /\ removed \in Nat
    /\ cycles \in 0..MaxCycles

\* InitializeSlashMeter; every validator validates every consumer.
Init ==
    /\ meter = Allowance(TotalPower(Tokens))
    /\ untilCandidate = ReplenishPeriod
    /\ lastPower = Tokens
    /\ jailed = {} /\ tombstoned = {}
    /\ phase = [c \in Consumers |-> "LAUNCHED"]
    /\ consumerVals = [c \in Consumers |-> Vals]
    /\ slashAcks = [c \in Consumers |-> {}]
    /\ slashLog = {}
    /\ vscAcks = [c \in Consumers |-> {}]
    /\ toProvider = [c \in Consumers |-> <<>>]
    /\ acks = [c \in Consumers |-> <<>>]
    /\ channel = [c \in Consumers |-> "OPEN"]
    /\ pendingPackets = [c \in Consumers |-> <<>>]
    /\ pendingPacketsIdx = [c \in Consumers |-> 0]
    /\ slashRecord = [c \in Consumers |-> NoRecord]
    /\ outstandingDowntime = [c \in Consumers |-> {}]
    /\ handled = [c \in Consumers |-> <<>>]
    /\ removed = 0
    /\ cycles = 0

-----------------------------------------------------------------------------
(* Provider *)

\* ReplenishSlashMeter.
Replenished(allowance) == Least(meter + allowance, allowance)

\* Mutant of CheckForSlashMeterReplenishment: a full meter is not cut when the
\* allowance falls.
CheckReplenishmentNoCut(d, allowance) ==
    LET due == untilCandidate <= d
        m   == IF due THEN Replenished(allowance) ELSE meter
    IN  /\ meter' = m
        /\ untilCandidate' = IF due \/ m >= allowance THEN ReplenishPeriod
                             ELSE untilCandidate - d
        /\ cycles' = IF due THEN Least(cycles + 1, MaxCycles) ELSE cycles

\* CheckForSlashMeterReplenishment after the block time advanced by d: a full
\* meter is cut to the allowance and postpones the next replenishment.
CheckForSlashMeterReplenishment(d, allowance) ==
    LET due == untilCandidate <= d
        m   == IF due THEN Replenished(allowance) ELSE meter
    IN  /\ meter' = Least(m, allowance)
        /\ untilCandidate' = IF due \/ m >= allowance THEN ReplenishPeriod
                             ELSE untilCandidate - d
        /\ cycles' = IF due THEN Least(cycles + 1, MaxCycles) ELSE cycles

\* The staking module's powers at the end of a block (external).
EndBlockPower ==
    [v \in Vals |-> IF v \in jailed \cup tombstoned THEN 0 ELSE Tokens[v]]

\* QueueVSCPackets at the end of an epoch, as far as slash acks are concerned:
\* a launched consumer whose set changes gets a packet with its slash acks.
EndBlockEpoch ==
    LET active == {v \in Vals : EndBlockPower[v] > 0}
        Updated(c) == phase[c] = "LAUNCHED" /\ consumerVals[c] # active
    IN  /\ consumerVals' = [c \in Consumers |-> IF Updated(c) THEN active ELSE consumerVals[c]]
        /\ vscAcks' = [c \in Consumers |->
                          vscAcks[c] \cup IF Updated(c) THEN slashAcks[c] ELSE {}]
        /\ slashAcks' = [c \in Consumers |-> IF Updated(c) THEN {} ELSE slashAcks[c]]

\* EndBlock of the provider followed by BeginBlock (BeginBlockCIS) of the next
\* block, d later; epoch tells whether the ended block ends an epoch.
ProviderBlock(d, epoch) ==
    /\ lastPower' = EndBlockPower
    /\ removed' = removed + SumOver(lastPower, jailed \ tombstoned)
    /\ CheckForSlashMeterReplenishment(d, Allowance(TotalPower(EndBlockPower)))
    /\ IF epoch THEN EndBlockEpoch ELSE UNCHANGED <<consumerVals, vscAcks, slashAcks>>
    /\ UNCHANGED <<jailed, tombstoned, phase, slashLog, toProvider, acks,
                   channel, pendingPackets, pendingPacketsIdx, slashRecord,
                   outstandingDowntime, handled>>

\* GetEffectiveValPower.
EffectiveValPower(v) == IF v \in jailed THEN 0 ELSE lastPower[v]

\* A downtime request can be honoured: the consumer is launched and the
\* validator is in its stored set.
Admissible(c, v) == phase[c] = "LAUNCHED" /\ v \in consumerVals[c]

\* The acknowledgement written by the provider.
Reply(c, packet, result) ==
    /\ acks' = [acks EXCEPT ![c] = Append(@, [packet |-> packet, result |-> result])]
    /\ handled' = [handled EXCEPT ![c] =
                      IF result = "BOUNCED" THEN @ ELSE Append(@, packet.idx)]

AppendSlashAck(c, v) == slashAcks' = [slashAcks EXCEPT ![c] = @ \cup {v}]

\* HandleSlashPacket: nothing for a tombstoned validator, otherwise a slash ack
\* and, unless it is jailed already, jail.
HandleSlashPacket(c, v) ==
    \/ v \in tombstoned /\ UNCHANGED <<slashAcks, jailed>>
    \/ v \notin tombstoned /\ AppendSlashAck(c, v) /\ jailed' = jailed \cup {v}

\* OnRecvSlashPacket: the outcomes.
LogDoubleSign(c, packet) ==
    /\ packet.infraction = "DOUBLE_SIGN"
    /\ slashLog' = slashLog \cup {packet.val}
    /\ Reply(c, packet, "V1")
    /\ UNCHANGED <<slashAcks, meter, jailed>>

DropDowntime(c, packet) ==
    /\ packet.infraction = "DOWNTIME" /\ ~Admissible(c, packet.val)
    /\ AppendSlashAck(c, packet.val)
    /\ Reply(c, packet, "HANDLED")
    /\ UNCHANGED <<slashLog, meter, jailed>>

BounceDowntime(c, packet) ==
    /\ packet.infraction = "DOWNTIME" /\ Admissible(c, packet.val)
    /\ meter < 0
    /\ Reply(c, packet, "BOUNCED")
    /\ UNCHANGED <<slashLog, slashAcks, meter, jailed>>

\* Mutant of HandleDowntime: the meter is not decremented.
HandleDowntimeFree(c, packet) ==
    /\ packet.infraction = "DOWNTIME" /\ Admissible(c, packet.val)
    /\ meter >= 0
    /\ HandleSlashPacket(c, packet.val)
    /\ Reply(c, packet, "HANDLED")
    /\ UNCHANGED <<meter, slashLog>>

HandleDowntime(c, packet) ==
    /\ packet.infraction = "DOWNTIME" /\ Admissible(c, packet.val)
    /\ meter >= 0
    /\ meter' = meter - EffectiveValPower(packet.val)
    /\ HandleSlashPacket(c, packet.val)
    /\ Reply(c, packet, "HANDLED")
    /\ UNCHANGED slashLog

OnRecvSlashPacket(c) ==
    /\ channel[c] = "OPEN" /\ toProvider[c] # <<>>
    /\ LET packet == Head(toProvider[c]) IN
          \/ LogDoubleSign(c, packet)
          \/ DropDowntime(c, packet)
          \/ BounceDowntime(c, packet)
          \/ HandleDowntime(c, packet)
    /\ toProvider' = [toProvider EXCEPT ![c] = Tail(@)]
    /\ UNCHANGED <<untilCandidate, lastPower, tombstoned, phase, consumerVals,
                   vscAcks, channel, pendingPackets, pendingPacketsIdx,
                   slashRecord, outstandingDowntime, removed, cycles>>

\* A validator unjails itself (external: the slashing module).
Unjail(v) ==
    /\ v \in jailed \ tombstoned
    /\ jailed' = jailed \ {v}
    /\ UNCHANGED <<meter, untilCandidate, lastPower, tombstoned, phase,
                   consumerVals, slashAcks, slashLog, vscAcks, toProvider, acks,
                   channel, pendingPackets, pendingPacketsIdx, slashRecord,
                   outstandingDowntime, handled, removed, cycles>>

\* A validator is jailed and tombstoned for double signing, by evidence on the
\* provider or on a consumer, which is not throttled.
Tombstone(v) ==
    /\ v \notin tombstoned
    /\ tombstoned' = tombstoned \cup {v}
    /\ jailed' = jailed \cup {v}
    /\ UNCHANGED <<meter, untilCandidate, lastPower, phase, consumerVals,
                   slashAcks, slashLog, vscAcks, toProvider, acks, channel,
                   pendingPackets, pendingPacketsIdx, slashRecord,
                   outstandingDowntime, handled, removed, cycles>>

\* RemoveConsumer.
StopConsumer(c) ==
    /\ phase[c] = "LAUNCHED"
    /\ phase' = [phase EXCEPT ![c] = "STOPPED"]
    /\ UNCHANGED <<meter, untilCandidate, lastPower, jailed, tombstoned,
                   consumerVals, slashAcks, slashLog, vscAcks, toProvider, acks,
                   channel, pendingPackets, pendingPacketsIdx, slashRecord,
                   outstandingDowntime, handled, removed, cycles>>

\* A packet times out, in either direction: IBC closes the ordered channel and
\* nothing in flight arrives any more.
ChannelTimeout(c) ==
    /\ channel[c] = "OPEN"
    /\ toProvider[c] # <<>> \/ vscAcks[c] # {}
    /\ channel' = [channel EXCEPT ![c] = "CLOSED"]
    /\ UNCHANGED <<providerVars, vscAcks, toProvider, acks, pendingPackets,
                   pendingPacketsIdx, slashRecord, outstandingDowntime, handled>>

-----------------------------------------------------------------------------
(* Consumers *)

\* QueueSlashPacket with AppendPendingPacket.
QueueSlashPacket(c, v, infraction) ==
    /\ pendingPacketsIdx[c] < MaxPackets
    /\ infraction = "DOWNTIME" => v \notin outstandingDowntime[c]
    /\ outstandingDowntime' = IF infraction = "DOWNTIME"
                              THEN [outstandingDowntime EXCEPT ![c] = @ \cup {v}]
                              ELSE outstandingDowntime
    /\ pendingPackets' = [pendingPackets EXCEPT ![c] =
          Append(@, [idx |-> pendingPacketsIdx[c], val |-> v, infraction |-> infraction])]
    /\ pendingPacketsIdx' = [pendingPacketsIdx EXCEPT ![c] = @ + 1]
    /\ UNCHANGED <<providerVars, vscAcks, toProvider, acks, channel,
                   slashRecord, handled>>

\* Mutant of PacketSendingPermitted: the delay alone permits a retry.
PacketSendingPermittedByDelay(c) ==
    slashRecord[c] # NoRecord => slashRecord[c].age > RetryDelay

\* PacketSendingPermitted.
PacketSendingPermitted(c) ==
    \/ slashRecord[c] = NoRecord
    \/ /\ slashRecord[c] # NoRecord
       /\ ~slashRecord[c].waitingOnReply /\ slashRecord[c].age > RetryDelay

\* SendPackets sends the head of the queue, if the IBC client is active.
CanSend(c, clientActive) ==
    /\ clientActive /\ channel[c] = "OPEN"
    /\ pendingPackets[c] # <<>>
    /\ PacketSendingPermitted(c)

\* The record once the block time has advanced.
Aged(record) ==
    IF record = NoRecord THEN NoRecord
    ELSE [record EXCEPT !.age = Least(@ + 1, RetryDelay + 1)]

\* SendPackets at the end of a consumer block, then the next block.  A sent
\* slash packet stays at the head of the queue, and UpdateSlashRecordOnSend
\* blocks the queue.
ConsumerBlock(c, clientActive) ==
    /\ \/ /\ CanSend(c, clientActive)
          /\ toProvider' = [toProvider EXCEPT ![c] = Append(@, Head(pendingPackets[c]))]
          /\ slashRecord' = [slashRecord EXCEPT ![c] =
                                Aged([waitingOnReply |-> TRUE, age |-> 0])]
       \/ /\ ~CanSend(c, clientActive)
          /\ slashRecord' = [slashRecord EXCEPT ![c] = Aged(@)]
          /\ UNCHANGED toProvider
    /\ UNCHANGED <<providerVars, vscAcks, acks, channel, pendingPackets,
                   pendingPacketsIdx, outstandingDowntime, handled>>

\* Mutant of UpdateSlashRecordOnBounce: the bounced packet is deleted.
BounceDeletesPacket(c) ==
    /\ slashRecord[c] # NoRecord
    /\ slashRecord' = [slashRecord EXCEPT ![c].waitingOnReply = FALSE]
    /\ pendingPackets' = [pendingPackets EXCEPT ![c] = Tail(@)]

\* UpdateSlashRecordOnBounce (the code panics if there is no record).
UpdateSlashRecordOnBounce(c) ==
    /\ slashRecord[c] # NoRecord
    /\ slashRecord' = [slashRecord EXCEPT ![c].waitingOnReply = FALSE]
    /\ UNCHANGED pendingPackets

\* ClearSlashRecord and DeleteHeadOfPendingPackets.
DeleteHead(c) ==
    /\ slashRecord' = [slashRecord EXCEPT ![c] = NoRecord]
    /\ pendingPackets' = [pendingPackets EXCEPT ![c] = IF @ = <<>> THEN @ ELSE Tail(@)]

\* OnAcknowledgementPacket: a result other than a bounce clears the record and
\* deletes the head of the queue; a bounce permits a retry.
OnAcknowledgementPacket(c) ==
    /\ channel[c] = "OPEN" /\ acks[c] # <<>>
    /\ \/ Head(acks[c]).result = "BOUNCED" /\ UpdateSlashRecordOnBounce(c)
       \/ Head(acks[c]).result # "BOUNCED" /\ DeleteHead(c)
    /\ acks' = [acks EXCEPT ![c] = Tail(@)]
    /\ UNCHANGED <<providerVars, vscAcks, toProvider, channel,
                   pendingPacketsIdx, outstandingDowntime, handled>>

\* OnRecvVSCPacket, as far as slash acks are concerned.
OnRecvVSCPacket(c) ==
    /\ channel[c] = "OPEN" /\ vscAcks[c] # {}
    /\ outstandingDowntime' = [outstandingDowntime EXCEPT ![c] = @ \ vscAcks[c]]
    /\ vscAcks' = [vscAcks EXCEPT ![c] = {}]
    /\ UNCHANGED <<providerVars, toProvider, acks, channel, pendingPackets,
                   pendingPacketsIdx, slashRecord, handled>>

-----------------------------------------------------------------------------
Next ==
    \/ \E d \in 1..MaxBlockTime, epoch \in BOOLEAN : ProviderBlock(d, epoch)
    \/ \E v \in Vals : Unjail(v)
    \/ \E v \in DoubleSigners : Tombstone(v)
    \/ \E c \in Stoppable : StopConsumer(c) \/ ChannelTimeout(c)
    \/ \E c \in Consumers :
          \/ OnRecvSlashPacket(c)
          \/ \E v \in Vals, i \in Infractions : QueueSlashPacket(c, v, i)
          \/ \E active \in BOOLEAN : ConsumerBlock(c, active)
          \/ OnAcknowledgementPacket(c)
          \/ OnRecvVSCPacket(c)

Spec == Init /\ [][Next]_vars

\* Blocks are produced, clients are eventually usable and a relayer delivers
\* packets and acknowledgements.
Fairness ==
    /\ WF_vars(\E d \in 1..MaxBlockTime, epoch \in BOOLEAN : ProviderBlock(d, epoch))
    /\ \A c \in Consumers :
          /\ WF_vars(ConsumerBlock(c, TRUE))
          /\ WF_vars(OnRecvSlashPacket(c))
          /\ WF_vars(OnAcknowledgementPacket(c))

FairSpec == Spec /\ Fairness

-----------------------------------------------------------------------------
(* Properties *)

MaxPower == Max({Tokens[v] : v \in Vals})
FullAllowance == Allowance(TotalPower(Tokens))

\* The two-state machine of throttle_retry.go: while it waits for a reply, and
\* only then, a consumer has exactly one slash packet or acknowledgement in
\* flight, and it is the head of its queue; so a reply deletes the packet it
\* is about and a bounce always finds a record.
StandbyMatchesFlight ==
    \A c \in Consumers :
        LET flying == [i \in 1..Len(toProvider[c]) |-> toProvider[c][i]]
                        \o [i \in 1..Len(acks[c]) |-> acks[c][i].packet]
        IN  IF slashRecord[c] # NoRecord /\ slashRecord[c].waitingOnReply
            THEN Len(flying) = 1 /\ pendingPackets[c] # <<>>
                    /\ flying[1] = Head(pendingPackets[c])
            ELSE flying = <<>>

\* Every slash packet is handled exactly once, in the order of queueing, and
\* until then it is in the queue, whatever was bounced and retried
\* (SendPackets, OnAcknowledgementPacket, DeleteHeadOfPendingPackets).
HandledOnceInOrder ==
    \A c \in Consumers :
        LET n == Len(handled[c])
            replied == \E i \in 1..Len(acks[c]) : acks[c][i].result # "BOUNCED"
            first == IF replied THEN n - 1 ELSE n
        IN  /\ \A i \in 1..n : handled[c][i] = i - 1
            /\ Len(pendingPackets[c]) = pendingPacketsIdx[c] - first
            /\ \A i \in 1..Len(pendingPackets[c]) :
                  pendingPackets[c][i].idx = first + i - 1

\* The queue of slash packets and the slash record of every consumer fit what is in
\* flight and what the provider has handled (SendPackets,
\* OnAcknowledgementPacket).
QueueInv == TypeOK /\ StandbyMatchesFlight /\ HandledOnceInOrder

\* The meter never exceeds the allowance of the block and never falls below
\* the power of one validator under zero, so the panics of SetSlashMeter are
\* out of reach.
MeterBounds ==
    /\ meter <= Allowance(TotalPower(lastPower))
    /\ meter >= - MaxPower

\* The main throttling property of ADR 002: in C replenishment cycles the
\* consumers together jail at most (C + 1) allowances plus one validator
\* (OnRecvSlashPacket, CheckForSlashMeterReplenishment).
JailRateBounded ==
    cycles < MaxCycles => removed <= (cycles + 1) * FullAllowance + MaxPower

\* Every queued slash packet is eventually handled, bounces and retries
\* notwithstanding, unless the channel is closed: the meter always recovers.
SlashEventuallyHandled ==
    \A c \in Consumers, i \in 0..(MaxPackets - 1) :
        pendingPacketsIdx[c] > i ~> (Len(handled[c]) > i \/ channel[c] = "CLOSED")
=============================================================================
