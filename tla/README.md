# Interchain Security in TLA+

A verification project for the cross-chain validation (CCV) protocol of this
repository: TLA+ modules translated from `x/ccv`, TLC runs that check them on
small instances, and TLAPS proofs of the properties that matter most.

A provider chain lends its validators to consumer chains. Per epoch it computes
a validator set for each consumer and sends the difference over an ordered IBC
channel; the consumer applies it, and reports infractions of its validators
back, which the provider attributes to one of its own heights and validators
and punishes under a throttle. Both chains are deterministic state machines;
what is hard lies between them: the order of blocks, packets, acknowledgements
and timeouts, expiring IBC clients, and long sequences of messages and block
times on the provider.

## 1. Inventory

| Component | State | Operations | Correct if |
|---|---|---|---|
| Validator set updates (`provider/keeper/relay.go`, `consumer/keeper/relay.go`, `validators.go`, both `module.go`) | vscID and its height mapping, stored consumer set, queue of VSC packets; pending changes, cross-chain validators, height-to-vscID mapping | `EndBlockCIS`, `EndBlockVSU`, `QueueVSCPackets`, `SendVSCPackets`, `OnTimeoutPacket`; `OnRecvVSCPacket`, `BeginBlock`, `EndBlock` | the consumer runs sets the provider computed, in order, none lost; infractions map to the right epoch |
| Consumer initiated slashing (`relay.go`, `throttle.go`) | slash meter, replenish candidate, slash acks, slash log | `OnRecvSlashPacket`, `HandleSlashPacket`, `CheckForSlashMeterReplenishment` | power jailed per period is bounded, no report is lost, the meter recovers |
| Slash retries (`throttle_retry.go`, `consumer/keeper/relay.go`) | pending packets, slash record, outstanding downtime flags | `QueueSlashPacket`, `SendPackets`, `OnAcknowledgementPacket` | one packet in flight, each handled once and in order |
| Consumer life cycle (`consumer_lifecycle.go`, `msg_server.go`, `permissionless.go`) | phase, owner, parameters, launch and removal queues, removal time | `CreateConsumer`, `UpdateConsumer`, `RemoveConsumer`, `BeginBlockLaunchConsumers`, `BeginBlockRemoveConsumers`, stops by timeouts | queues and phases agree, phases follow the life cycle, state is kept for the unbonding period |
| Infraction parameters (`infraction_parameters.go`) | current and queued parameters, schedule | `UpdateQueuedInfractionParams`, `BeginBlockUpdateInfractionParameters` | only the last request takes effect, after the unbonding period |
| Key assignment (`key_assignment.go`, `hooks.go`) | assigned keys, reverse index, addresses to prune | `AssignConsumerKey`, staking hooks, `PruneKeyAssignments`, `DeleteKeyAssignments` | every key in use, or replaced recently, leads to its validator |
| Channel handshake and client mappings (`ibc_module.go`, `keeper.go`) | client, connection and channel ids per consumer, the reverse index of clients; the consumer's provider channel | `OnChanOpenInit/Try/Ack/Confirm`, `SetConsumerChain`, `SetConsumerClientId`, closing, `DeleteConsumerChain` | one channel per consumer, on its own client; the mappings are each other's inverse |
| Computation of consumer validator sets (`validator_set_update.go`, `power_shaping.go`) | stored set with join heights, power shaping parameters, priority, allow and deny lists | `ComputeNextValidators`, `CreateConsumerValidator`, `CapValidatorSet`, `CapValidatorsPower` | caps hold, total power is kept, nobody is in or out without a reason |
| Opt-in, opt-out, Top N (`partial_set_security.go`) | opted-in validators, minimum power in Top N | `HandleOptIn`, `HandleOptOut`, `OptInTopNValidators`, `ComputeMinPowerInTopN` | validators of the Top N validate, others by choice |
| Provider consensus set (`provider_consensus.go`) | last provider consensus set | `ProviderValidatorUpdates` | the provider runs the first bonded validators by power |
| Evidence (`consumer_equivocation.go`) | minimum evidence height; staking and slashing state it changes | `HandleConsumerMisbehaviour`, `HandleConsumerDoubleVoting` | offenders can be punished in time, nobody else is, nobody twice |
| Rewards (`consumer/keeper/distribution.go`, `provider/keeper/distribution.go`, `ibc_middleware.go`) | module accounts, last transmission, allocations, reward denoms | `EndBlockRD`, `SendRewardsToProvider`, `OnRecvPacket` of the middleware, `BeginBlockRD`, `AllocateConsumerRewards` | coins are neither lost nor counted twice, and are paid out |
| Changeover (`consumer/keeper/changeover.go`, `democracy/staking`) | pre-CCV state, initial set, height of the upgrade | `InitGenesis` of an upgraded chain, `ChangeoverToConsumer`, `ChangeoverIsComplete` | CometBFT follows the consumer module from a known height on |
| Historical info (`consumer/keeper/validators.go`) | heights with an entry | `TrackHistoricalInfo` | an unbroken, bounded range |
| Genesis export, migrations, queries, command line, applications | | | see section 7 |

How they interact. The VSC packets carry the slash acks, and the vscIDs of the
packets are what slash packets refer to. Slash packets are attributed through
the vscID mappings to a height and through the key-assignment index to a
validator. The stopping of a consumer is triggered by its owner, by a failed
send and by a packet timeout; a stopped consumer is skipped by queueing and its
slash packets are dropped. The staking module calls the hooks, and its powers
feed the sets and the slash meter. BeginBlock of the provider launches, removes,
updates infraction parameters and replenishes the meter, in that order;
EndBlock maps the vscID and then queues and sends. Opted-in validators and power
shaping decide the sets; the sets decide who is eligible for rewards. Evidence is
attributed through the same key index as slash packets. Rewards travel on a
transfer channel that the consumer opens when its CCV channel is confirmed, and
are attributed by the client of that channel or by a memo.

The behaviours that are hard to test, each at its line, are the `hazards` of
`PROJECT.json`; the properties below are aimed at them.

## 2. Modules

| Module | Models |
|---|---|
| `ValidatorUpdates` | the operators on validator sets and update lists: `DiffValidators`, `AccumulateChanges`, `ApplyCCValidatorChanges`, and the updates CometBFT refuses |
| `ValsetReplication` | abstract specification: a publisher of numbered sets and a follower that adopts them in increasing order |
| `ValsetUpdate` | provider, channel and one consumer: the validator set update sub-protocol, vscID mappings, downtime requests and slash acks |
| `SlashThrottle` | provider and several consumers: slash packets, meter, bounces and retries |
| `ConsumerLifecycle` | several consumers on the provider: messages, time queues, stops, deletion, infraction parameters |
| `KeyAssignment` | one consumer: keys, reverse index, pruning, staking hooks |
| `ConsumerEquivocation` | evidence of double voting and of light client attacks, slashing, jailing and tombstoning; composed with `KeyAssignment`, which it extends |
| `PowerShaping` | pure operators: sorting, minimum power of the top N percent, priority list, cap on the size of a set, cap on powers |
| `PartialSetSecurity` | one consumer and the provider's staking: opt-in, opt-out, Top N, parameters, the set of each epoch, join heights, the provider's consensus set |
| `ChannelHandshake` | several consumers and chains: client mappings, handshakes, the first VSC packet, closing, deletion |
| `RewardDistribution` | fees, transfers, attribution and allocation; composed with `ChannelHandshake`, which it extends |
| `Changeover` | a standalone chain that becomes a consumer: staking, upgrade, changeover, CometBFT's sets, historical infos |
| `Sums` | the sum of a function over a finite set, which `SlashThrottle`, `RewardDistribution` and `PowerShaping` share |
| `SumProofs` | lemmas about these sums, and induction over finite sets and numbers |
| `ValsetUpdateProofs`, `SlashThrottleProofs`, `ConsumerLifecycleProofs`, `KeyAssignmentProofs`, `PartialSetSecurityProofs`, `ChannelHandshakeProofs`, `ChangeoverProofs` | theorems, and the lemmas they rest on; `KeyAssignmentProofs` has those of `ConsumerEquivocation` too, and `ChannelHandshakeProofs` those of `RewardDistribution` |
| `MC*` | instances for TLC |

State and actions carry the names of the code. An action is one transaction,
packet callback, BeginBlock or EndBlock, with everything these call. Where no
transaction can come between the end of a block and the beginning of the next
one, the two are one action (`ConsumerEndBlock`, `ProviderBlock`). History
variables, which no guard reads, are marked; `PROJECT.json` maps every
definition to its lines. Operators whose comment begins with "Mutant of" are not part of the model:
each states a plausible mistake in the definition it precedes and shows, when
put in its place, that a property notices it.

Abstractions:

- *Validator sets* are functions from keys to powers, power 0 meaning absent; the
  set of an epoch is an arbitrary one, so `ValsetUpdate` holds whatever power
  shaping computes, the empty set included; what it computes is the subject of
  `PartialSetSecurity`.
- *IBC* is modelled from its use: an ordered channel is a sequence; a timeout
  empties it and closes the end; a client is active or not. What a closed or
  expired client blocks is a guard.
- *Time* is a number. `SlashThrottle` keeps the differences the code compares, so
  time is unbounded there.
- *Chain ids and initial heights* are their revision numbers, infraction
  parameters are opaque, a public key and its address are one value.
- *A launch* succeeds or fails by choice of the block: `LaunchConsumer` needs a
  genesis, a client and an active validator.
- In `ValsetUpdate` a slash packet is delivered, handled and acknowledged in one
  step; `SlashThrottle` has the steps apart, with bounces.
- *Staking* in `PartialSetSecurity` is tokens, divided into voting power, and an
  order by power and address; the code sorts some lists again by tokens, which
  need not agree with it, and the model keeps both.
- *An equivocation* in `ConsumerEquivocation` is who signed twice, with which key
  and when; the key may be an old one for as long as the consumer may lag behind
  (`UpdateDelay`). Its evidence may come at any later time, again, and of both kinds.
  A block is known by its time. A chain that was standalone has validators of its
  own before the launch and after it, until its upgrade; the minimum height of
  evidence is the latest height of its client at the launch, up to `ClientLag`
  behind the chain.
- *Slash packets* in `ChannelHandshake` are there as far as they touch channels: one
  that times out or is refused closes the consumer's end of the channel in use.
  The closing of a channel by `DeleteConsumerChain` may fail, which is only logged.
- *Amounts* in `RewardDistribution` are whole coins on the chains and Unit-ths of a
  coin in decimal accounts, so that each truncation of the code shows. One denom
  is followed; that it is missing from the consumer's `AllowedRewardDenoms` is one
  of the ways in which a transmission fails. The branch of `OnRecvPacket` that gives
  unidentified transfers of Stride on the Cosmos Hub a fixed consumer id
  (`ibc_middleware.go:148`) is left out: no property depends on which consumer is
  credited.
- *CometBFT* in `Changeover` uses the updates of block h from block h + 2 on, and
  refuses the removal of a validator it does not have and an empty set. Both the
  staking module and the provider may take the last validator away. How an
  infraction is routed, by comparing its height with `FirstConsumerHeight`, is not
  part of the module; which set signs which height is.

## 3. Runs

| Run | Instance | Shows |
|---|---|---|
| `ValsetUpdate_sets` | 2 keys, 2 epochs of 2 blocks, 1 slash packet queued; fair | `InForceSet`: the consumer's validators are the set computed for the vscID recorded for the height; `NoUpdateLost`; `HaltsOnlyOnEmptySet`; `SlashesAttributable`: every slash packet has a height, in the right epoch; `DowntimeAccounted`; `AttributionFrozen`; `ImplementsReplication`; `QueuedIsApplied` |
| `SlashThrottle_queue` | 1 consumer, 2 packets, allowance at its minimum of 1; fair | `QueueInv`: one packet in flight, the head of the queue, each handled once and in order; `SlashEventuallyHandled` |
| `SlashThrottle_rate` | 2 consumers, 2 validators, 2 packets each, 3 cycles | `MeterBounds`, `JailRateBounded` |
| `ConsumerLifecycle_queues` | 2 consumers, 1 handled per block and queue; fair | `QueuesInv`: launch and removal queue agree with the phases; `PhaseOrder`, `DeletedAfterUnbonding`, `EveryQueueDrains` |
| `ConsumerLifecycle_messages` | 1 consumer, every combination of message fields, 3 infraction parameters, 4 messages | `TopNOwnedByGov`, `HaltsOnlyOnRevisionMismatch`, `ScheduleMatchesQueued`, `InfractionDelay` |
| `ConsumerLifecycle_launch` | *violated* | a failed launch can fail the block |
| `KeyAssignment_keys` | 2 validators, 1 further key, block times that skip the pruning time, evidence at any time; fair | `KeysInv`, the inductive invariant behind `KeyAttributed` and `OldKeyAttributed`; `EvidenceInv`: evidence in time finds an offender that can be punished, and it is slashed once; `OnlyOffendersPunished`: nobody is slashed for another validator of the provider, nor for what a standalone chain signed below the minimum height; `PrunedEventually` |
| `PartialSetSecurity_epochs` | 3 validators, 2 in the provider's consensus, epochs of 2 blocks, 4 messages | `EpochInv`: a minimum power is known when it is needed, and rewards go to who validated without interruption; `TopNValidates`, `SelectionSound`, `PowersCapped`, `InactiveOnlyByTie` |
| `ChannelHandshake_channels` | 2 consumers, 2 chains, one with a connection before the launch, 3 channels; fair | `MappingsInv`: the mappings of clients and of channels are inverse; `NoPacketOnOtherChannel`; `UsedChannelStaysOpen`: only a failed slash packet closes the channel in use; `EventuallyEstablished` |
| `RewardDistribution_rewards` | 1 consumer, 2 validators, fees of 5 coins three times, quarters of coins; fair | `AccountsInv`: coins are neither lost nor counted, split or granted twice; `RewardsSent`, `RewardsPaidOut` |
| `Changeover_blocks` | 3 keys, 5 blocks, both orders of the end blockers | `FirstHeightExact`, `HandedOver`, `HaltsOnlyWithCause`, `HistoricalRange` |
| `Changeover_handover` | *violated* | a validator that leaves in the block of the changeover keeps signing |

Run one with `tlc -config <run>.cfg <module>`, where the module is `MC` and the part
of the run's name before the underscore, except for `KeyAssignment_keys`
(`MCConsumerEquivocation`, the composition) and `ChannelHandshake_channels`
(`ChannelHandshake` itself, which needs no definitions of its own).

An invariant whose name ends in `Inv` is a conjunction of named parts, each with its
own comment: `QueueInv` of `StandbyMatchesFlight` and `HandledOnceInOrder`,
`QueuesInv` of `LaunchQueueExact` and `RemovalScheduled`, `EpochInv` of `MinPowerKnown`
and `RewardedAfterPeriod`, `MappingsInv` of `ClientIndexInverse` and
`ChannelMappingsInverse`, `AccountsInv` of `RewardsAccounted`, `SplitOnce` and
`ValidatorsGetTheirShare`, `EvidenceInv` of `OffenderPunishable` and `SlashedOnce`, all
of them with the type invariant of their module. The type invariants of
`ValsetUpdate`, `KeyAssignment` and `Changeover` are proved, as is `ChainInv`.
The other inductive invariants of section 5, which are defined with the proofs,
were checked by TLC on the instances of these runs before they were proved.

Bounds and why they are enough. Two keys and two epochs are the least with which
an update can be accumulated on another, undone by it, or overtaken while the
first is in flight, queued behind an expired client, or half applied; the proofs
remove these bounds. `MaxHeight` leaves the consumer enough blocks to apply what
may still arrive (`RoomForBlock`). A limit of one consumer per block and queue
(200 in the code) with two consumers makes entries be left over, and several
entries share a time. `MaxTime` lets a consumer be created, launched, stopped,
stopped again and deleted; at the bound blocks go on with the same time, so
queues drain. Two packets of two consumers exhaust a meter whose allowance is
half the power, and `MaxCycles` counts the replenishments that
`JailRateBounded` talks about. In `KeyAssignment_keys` a third key can be taken by
either validator, given up, pruned and taken by the other within `MaxTime`, with
the consumer's lag in between; a launch at time 3 with `ClientLag` 1 may follow offences
of the standalone chain below the minimum height and between it and the launch, and
precede others. Three validators with two places in the
consensus and tokens in units of two make a tie in power that tokens break, an
inactive validator, and a cap that redistributes with a remainder. Three
channels for two consumers leave one to be tried in parallel and refused. Three
collections of an amount that no fraction divides make decimals add up to
coins while earlier transfers are in flight or come back. Five blocks give two
standalone ones, the upgrade at any height and blocks after its effect; the
proofs remove this bound. Symmetry is used only in runs without liveness, over keys
and consumers that no constant tells apart. Deadlock is not checked where a chain
really may stop (a halted consumer or provider) or where the bounds end all
behaviour.

Fairness. Blocks are produced: weak fairness of the end of block of the provider
and the consumer (of the block in `KeyAssignment_keys`), the assumption consensus
gives. A relayer delivers packets and acknowledgements that can be delivered:
weak fairness of receiving and of the steps of a handshake that has begun, as the
protocol's documentation assumes a live relayer. Nothing is assumed of owners,
validators, clients, timeouts or channel closings, and the liveness properties
except what these cut off. Three assumptions go further, each with its reason:

- in `SlashThrottle_queue` blocks in which the client is active recur
  (`ConsumerBlock(c, TRUE)`): a client that stays expired sends nothing;
- in `ChannelHandshake` the provider has a VSC packet to send to a launched
  consumer sooner or later, since powers change: without a packet a consumer
  never settles on a channel;
- in `RewardDistribution` transmissions that are due again and again succeed once
  (strong fairness), and payments to the validators of launched consumers do not
  fail forever: their set is computed anew at every epoch from validators that
  staking knows. What `RewardsPaidOut` leaves is less than two coins, by truncation.

## 4. Findings

- `UpdateConsumer` may change the revision of the chain id of an initialized
  consumer without new initialization parameters. If its launch then fails,
  resetting the spawn time is refused by the check of the initial height and
  BeginBlock returns an error (`ConsumerLifecycle_launch`). It is the only way
  in which BeginBlock fails in this model (`HaltsOnlyOnRevisionMismatch`).
- The democracy staking module says that the consumer's end blocker runs before its
  own (`democracy/staking/module.go:82`); the democracy application orders them
  the other way round (`app/consumer-democracy/app.go:565`). At the changeover the
  consumer takes power from the validators that staking then has: one that left
  in that very block keeps signing (`Changeover_handover`), and one that joined in
  it is removed although CometBFT never had it, which CometBFT refuses. `HandedOver`
  says that nothing else can be left in CometBFT's set, and `HaltsOnlyWithCause` that
  the only other halts are those of a chain without validators.

Smaller observations, met while modelling; none has a run of its own.

- The comment of `consumer/module.go` BeginBlock (line 161) announces a panic when the
  channel was established and then closed; the code logs and runs on.
- `StopAndPrepareForConsumerRemoval` (`consumer_lifecycle.go:541`) runs again for a
  stopped consumer whose packet times out: the removal time is overwritten, the
  older queue entry stays, and the chain is deleted before the removal time in
  its record. The unbonding period since the first stop is respected all the
  same (`DeletedAfterUnbonding`).
- A chain that does not allow inactive validators may get one when two validators
  have equal power: the consensus set is cut by address and the minimum is
  compared by power, against what the comment in `ComputeNextValidators` says.
  `InactiveOnlyByTie` bounds the case.
- Opting out of a Top N chain compares with the minimum power of the last epoch,
  so a validator that has grown above it since may leave, which the documentation
  for validators excludes; the next epoch opts it in again (`TopNValidates`).
- The doc comment of `SetConsumerChain` speaks of closing a second channel; the code
  refuses the step and leaves the channel.
- Two consumers that name the same connection share a client, and the reverse
  index names the later one. The properties of `ChannelHandshake` speak of
  consumers that have their client to themselves (`Exclusive`).
- A consumer key stays attributable for an unbonding period after it was replaced on
  the provider, while the consumer goes on using it until it applies the update.
  The time that is left for evidence is an unbonding period less this lag
  (`OffenderPunishable`); ADR-018 does not count it. The age of evidence of double
  voting is not checked. Equivocations after the consumer was stopped are left
  out of the property.
- The minimum height keeps evidence of a standalone chain's past away, but not all of
  it: blocks between the client's latest height at the launch and the upgrade are
  signed by the chain's own validators, and evidence of them is accepted. It is held
  against the provider validator that the key leads to, if there is one;
  `OnlyOffendersPunished` states this exception.
- A slash packet that times out, or that the provider refuses, closes the consumer's
  end of the ordered channel while the provider still has the consumer as launched
  (`UsedChannelStaysOpen`); the provider learns of it when its next packet fails or
  times out.
- `SlashRecord` is not part of an exported genesis (`consumer/keeper/genesis.go:179`).
- The SDK's slashing module passes infraction heights that are shifted by the delay of
  validator updates; the models take the height as the code in `x/ccv` uses it.

## 5. Proofs

TLAPS proves, for any keys, powers, numbers of consumers, times and bounds:

- `ValsetUpdateProofs`: `TypeOK`, `ChainInv`, `InForceSet`, `NoUpdateLost`,
  `HaltsOnlyOnEmptySet`, `AttributionFrozen`, `SlashesAttributable`,
  `DowntimeAccounted`, and that `ValsetUpdate` implements `ValsetReplication`. Its
  lemmas on update lists, some of which `ChangeoverProofs` needs too: applying the
  difference of two sets to the first gives the second; applying accumulated
  updates is applying them one after the other; an empty difference means equal sets.
- `SlashThrottleProofs`: `TypeOK`, `MeterBounds`, `JailRateBounded`, `QueueInv`.
- `ConsumerLifecycleProofs`: `QueuesInv`, `ScheduleMatchesQueued`,
  `HaltsOnlyOnRevisionMismatch`, `TopNOwnedByGov`, and the action properties
  `PhaseOrder`, `DeletedAfterUnbonding`, `InfractionDelay`.
- `KeyAssignmentProofs`: `TypeOK`, `KeysInv`, `KeysConsistent`, `KeyAttributed`,
  `OldKeyAttributed`; and, for the composition with evidence, whose steps are steps
  or stutters of `KeyAssignment`, `EvidenceInv` and `OnlyOffendersPunished`.
- `PartialSetSecurityProofs`: `EpochInv`, and the action properties `TopNValidates`,
  `SelectionSound`, `PowersCapped`, `InactiveOnlyByTie`.
- `ChannelHandshakeProofs`: `MappingsInv`, `NoPacketOnOtherChannel`,
  `UsedChannelStaysOpen`; and, for the composition with rewards, `AccountsInv`.
- `ChangeoverProofs`: `TypeOK`, `HandedOver`, `HaltsOnlyWithCause`,
  `FirstHeightExact`, `HistoricalRange`.

So every safety property of the passing runs is proved: every invariant and every
action property, and the refinement.

The assumptions are those named in the modules. Powers are natural numbers with
0 among them, provider keys are keys, periods, fractions and bounds are numbers in
their ranges. Some are there for the proofs and hold of every chain: the sets of
validators, consumers and clients are finite, since the code loops over them;
there is a validator; time can pass (`MaxTime > 0`); addresses differ; power shaping
parameters are those that `ValidatePowerShapingParameters` lets through; the
provider's consensus has at least one place and no more than staking bonds; and the values that stand for
"nothing stored" (`Nil`, `NoRecord`) are none of the values that are stored.

*ChainInv.* `InForceSet` is not inductive: it speaks of what the consumer has,
and the next step brings what is in flight. `ChainInv` says that the packets in
flight followed by those pending have increasing vscIDs after the last one
received, and that each is the difference between the computed set of the packet
before it (or of the last one received) and its own, with no change in between.
The first packet then leads from the set accumulated on the consumer
to a computed one (lemma `ApplyDiff`), and what is accumulated is applied as a
whole (lemma `ApplyAccumulated`). Each action moves packets along this chain,
extends it at the end with the new difference, or cuts it off with the channel.
The refinement maps the published sets to the history of computed sets and the
adopted one to the vscID recorded for the next height.

*AttributionInv.* A slash packet is attributed through two mappings that two chains
write at different times. The invariant ties the height of the provider to the
epoch of the current vscID, says that the height mapped to an older vscID lies in
its epoch, and that every vscID the consumer knows, in its own mapping or in a
queued slash packet, is smaller than the current one, hence mapped: `EndBlockCIS`
maps the vscID before `EndBlockVSU` increments it. `DowntimeAccounted` is
inductive with the types: each step that takes a request or an acknowledgement off its
way puts the next one on it or clears the flag.

*RateInv.* `JailRateBounded` counts power that has left, while a jailed validator
leaves only at the end of the block and the meter has paid for it before. `RateInv`
adds the three up: power removed, power of validators jailed in this block and what
is left in the meter are at most one allowance per replenishment and one more; the
meter may be negative, but by no more than the largest power.
*FlightInv* says of each consumer what its slash record means: with a record that
waits, exactly the head of the queue is in flight, as packet or as answer; without
one, nothing is; and the queue and what was handled are consecutive numbers up to
the last one queued.

*LifecycleInv.* That the entry of a consumer in a time queue is found at its time
is true only if the queue is sorted, and only if all other ways to insert and to
remove leave it alone. The invariant has, for each of the three queues, that it is
sorted and what its entries say of each consumer; for the removal queue also that
no entry is due before the unbonding period since the first stop has passed, which
is what `DeletedAfterUnbonding` needs after a second stop has overwritten the
removal time. The lemmas are about `AppendOnTime`, `Filter` and `NumDue`: they keep
a queue sorted, and have exactly the entries they should.

*KeysInv.* `KeyAttributed` is not inductive either: that the provider key of a
validator without assigned key is free needs that the index has it for nobody
else, which assignment, the hook on creation and pruning maintain together.
`KeysInv` adds this, that assigned keys belong to existing validators, and that
a replaced key has exactly one entry to be pruned, at the end of its period.
*OffencesInv* follows each equivocation from when it was signed: its key is the
provider key of the signer, or the one it uses, or one it replaced whose entry is
pruned too late to matter (`TiedTo`); and the signer is a validator that has not
begun to unbond long before (`StillBound`). As long as evidence is in time, no
message, hook or block gets out of these.

*EpochInv.* `RewardedAfterPeriod` compares a join height with the height of the chain
and speaks of epochs, and `MinPowerKnown` needs a minimum power to exist whenever
one is computed; neither is kept by a step alone. `JoinsCounted` adds that the streak
of a validator is the number of epochs that ended since the block it joined in,
counted as quotients of heights (`EpochEnds`: the quotient grows exactly at the end
of an epoch; `EpochsOfPeriod`: n times the blocks of an epoch contain n ends), and
that nobody outside the set has a streak. `SomebodyBonded` adds that there is a
bonded validator, so that the list of active ones is not empty, and that nobody is in
the set before the launch, so that everybody joins with it.

*A computed set* is described once (`Computed`), and a step in which a set is computed,
at an epoch or at a launch with validators jailed before, is shown to be such a
computation (`ShapedComputes`). The argument then goes through the lists of the code.
`SortDescending`, `Filter` and `Truncate` return the same validators, those of a set,
and the first ones (`SortFacts`, `FilterFacts`, `TruncateFacts`). Of sorting only
this and the decreasing order is used, since `sort.Slice` is stable for short lists
only: this is why the tie that `TopNValidates` excepts is one of no fewer tokens. The
minimum power is that of a validator in the top N percent and at most that of each of
them (`MinPowerFacts`); the validators considered and the active ones are equally
many, so that for each that is only in the one there is one only in the other
(`Exchange`), and the two differ in validators of equal power only (`ConsideredFacts`).

*The cap on powers* is a loop, and what it computes is the value of a recursive
function. Four facts about its state are proved by induction over its steps: powers
stay within their bounds (`LoopBounds`); what was given away and what remains is the
excess (`LoopTotal`); if the room below the cap suffices, what remains never exceeds
the room of the validators still to come, so that nothing remains at the end, and
otherwise everybody is filled up (`LoopSpends`, `LoopFills`); and the share of later validators, which have
less power, exceeds earlier ones by one at most, by rounding, so that the order is
kept (`LoopKeepsOrder`).

*HandshakeInv.* That the two mappings of channels are inverse rests on which steps
of a handshake have been made. The invariant says who has a client and when
(`ClientWhileLaunched`), that consumers share one only through a common connection
(`ClientsShared`), that a chain runs the genesis of a consumer of its client
(`RunsOwnGenesis`), in which order the ends of a channel open (`StepsInOrder`), that
the channel in use is open unless a slash packet failed on the channel the consumer
settled on (`UsedChannelOpen`), and that the packets to a chain with a connection of its own, and the channel it settles
on, are those of the channel the provider has for it (`OneChannelPerChain`). Deleting
a consumer between two steps of its handshake is one of the cases.

*AccountsInv* is inductive with the types of `ChannelHandshake`. Each action moves
an amount between two terms of the sums or leaves them alone (`EndBlockStep`,
`RefundStep`, `RecvStep`); `AllocateTokens` takes from the allocations what it pays
out, consumer by consumer, truncation included (`AllocateFacts`, `TokensFacts`,
`PayoutFacts`), and the equation for the pool then shows that the pool has the
coins. Which coins fall due to truncation is nonlinear arithmetic, done in small
steps with named products.

*Sums and recursion.* `SumOver` is the fold of the community modules. Its equations
(`SumRemove`: any element can be taken out of a sum) are proved from the definition
of the fold by induction over finite sets, which is available in the form that
every nonempty set of finite sets has a minimal element (`SubsetInduction`,
`NatSetInduction`). `Filter` in `ConsumerLifecycle` is a recursive function for the
same reason: the operator `SelectSeq` of the standard module cannot be expanded by
the prover; neither can `SortSeq`, so `PowerShaping` arranges a list by the number of
elements before each (`Arrange`).

*HandoverInv.* `HandedOver` speaks of the time after the changeover and is kept by a
step only if the sets before it are right. `HandoverInv` adds that until then
CometBFT's next set is the bonded one and the consumer module has done nothing
(`StandaloneInv`); that the
heights decided by the consumer begin two after the upgrade (`UpgradeInv`); and
that a halted chain is between two blocks, so that the cause of the halt stays
visible (`HaltedInv`). After the changeover no removal is sent of a validator that
CometBFT does not have, so an empty cross-chain set is the only reason to refuse
that is left. `HistoricalRange` is an action property and follows
from `RangeInv`: the heights with an entry are a range up to the newest block,
which is why pruning may stop at the first missing entry.

Only model-checked:

- liveness, in every module: `QueuedIsApplied`, `SlashEventuallyHandled`,
  `EveryQueueDrains`, `PrunedEventually`, `EventuallyEstablished`, `RewardsSent` and
  `RewardsPaidOut` rest on fairness, out of the prover's reach;
- the two runs of section 4, which end in a counterexample.

## 6. Plan

The modules of the plan are written, and the proofs of the plan are done. What is
left is outside them: a slash record across an export of the genesis of a consumer
(section 4), which needs a model of what a restarted chain keeps of IBC.

## 7. Not modelled

About 49 thousand of the 68 thousand lines of Go counted as implementation are
generated protobuf and gateway code (`*.pb.go`, `*.pb.gw.go`), which has no logic of
its own to model. Of the rest:

- export and import of genesis, and migrations: conversion of data; what a restarted
  chain finds of IBC state lies outside this repository;
- queries and the command line: read-only;
- stateless validation of messages (`ValidateBasic`) beyond the checks that the
  actions' inputs satisfy, key encodings of the store, events, logging;
- the verification of evidence: signatures and light client headers;
- amounts of slashed tokens, commission rates and the shares of delegators: the
  staking and distribution modules of the SDK;
- the applications and the democracy modules, apart from the staking module and the
  order of end blockers in `Changeover`: wiring of SDK modules;
- metadata of a consumer, which has no part in its life cycle.
