------------------------- MODULE ConsumerLifecycle --------------------------
(***************************************************************************)
(* The life of consumer chains on the provider: created, initialized,      *)
(* launched, stopped and deleted, by messages of their owners, by the      *)
(* passing of time and by failures of the CCV channel.  Three time queues  *)
(* drive it, each drained by BeginBlock up to a limit per block: consumers *)
(* to be launched, to be removed, and whose infraction parameters change.  *)
(*                                                                         *)
(* A chain id and an initial height are abstracted to their revision       *)
(* numbers, the only part the code compares; infraction parameters to      *)
(* opaque values.  What a launch needs from staking and IBC (a non-empty   *)
(* initial validator set with an active validator, a genesis, a client)    *)
(* is a choice of BeginBlock.                                              *)
(***************************************************************************)
EXTENDS Integers, Sequences, FiniteSets

CONSTANTS Consumers,        \* consumer ids
          Nil,              \* an absent value
          Gov,              \* the governance account
          Owners,           \* accounts that may own a consumer
          TopNs,            \* values of Top_N
          SpawnTimes,       \* spawn times in messages, 0 is the zero time
          Revisions,        \* revision numbers of chain ids and heights
          Params,           \* infraction parameters
          UnbondingPeriod,  \* of the staking module
          Limit,            \* consumers handled per block and queue
          BlockTimes,       \* bound: times between two blocks
          MaxTime,          \* bound: block time
          MaxUpdates        \* bound: MsgUpdateConsumer messages and timeouts

ASSUME LifecycleAssumption ==
    /\ Gov \in Owners /\ Nil \notin Owners \cup TopNs \cup Revisions \cup Params
    /\ Nil \notin [params : Params, at : 0..MaxTime]
    /\ TopNs \subseteq Nat /\ 0 \in TopNs
    /\ SpawnTimes \subseteq 0..MaxTime
    /\ UnbondingPeriod \in Nat \ {0} /\ Limit \in Nat \ {0}
    /\ BlockTimes \subseteq Nat \ {0}
    /\ MaxTime \in Nat \ {0} /\ MaxUpdates \in Nat

VARIABLES
    now,               \* block time
    halted,            \* BeginBlock returned an error
    phase,             \* ConsumerPhase
    owner, topN,       \* owner address, Top_N of the power shaping parameters
    chainRev,          \* revision of the chain id
    heightRev,         \* revision of InitialHeight
    spawnTime,         \* SpawnTime of the initialization parameters
    hasClient,         \* the consumer has a client id
    established,       \* the consumer has a CCV channel
    inFlight,          \* VSC packets sent to the consumer are in flight
    removalTime,       \* ConsumerIdToRemovalTime, 0 if absent
    infraction,        \* infraction parameters
    queuedInfraction,  \* queued infraction parameters or Nil
    launchQueue, removalQueue, infractionQueue,
    updates,           \* messages so far
    \* history
    stoppedAt,         \* time of the first stop
    requested          \* last update requested after launch, or Nil

queues == <<launchQueue, removalQueue, infractionQueue>>
vars == <<now, halted, phase, owner, topN, chainRev, heightRev, spawnTime,
          hasClient, established, inFlight, removalTime, infraction,
          queuedInfraction, queues, updates, stoppedAt, requested>>

Phases == {"UNSPECIFIED", "REGISTERED", "INITIALIZED", "LAUNCHED", "STOPPED", "DELETED"}
Times == 0..MaxTime
Entries == [time : Times, id : Consumers]
InitParams == [spawn : SpawnTimes, rev : Revisions]

TypeOK ==
    /\ now \in 1..MaxTime
    /\ halted \in BOOLEAN
    /\ phase \in [Consumers -> Phases]
    /\ owner \in [Consumers -> Owners]
    /\ topN \in [Consumers -> TopNs]
    /\ chainRev \in [Consumers -> Revisions]
    /\ heightRev \in [Consumers -> Revisions]
    /\ spawnTime \in [Consumers -> SpawnTimes \cup {0}]
    /\ hasClient \in [Consumers -> BOOLEAN]
    /\ established \in [Consumers -> BOOLEAN]
    /\ inFlight \in [Consumers -> BOOLEAN]
    /\ removalTime \in [Consumers -> Times]
    /\ infraction \in [Consumers -> Params]
    /\ queuedInfraction \in [Consumers -> Params \cup {Nil}]
    /\ launchQueue \in Seq(Entries)
    /\ removalQueue \in Seq(Entries)
    /\ infractionQueue \in Seq(Entries)
    /\ updates \in 0..MaxUpdates
    /\ stoppedAt \in [Consumers -> Times]
    /\ requested \in [Consumers -> {Nil} \cup [params : Params, at : Times]]

\* No consumer exists.  The attributes of a consumer that does not exist are
\* arbitrary; CreateConsumer sets them.
Init ==
    /\ now = 1 /\ halted = FALSE
    /\ phase = [c \in Consumers |-> "UNSPECIFIED"]
    /\ owner = [c \in Consumers |-> Gov]
    /\ topN = [c \in Consumers |-> 0]
    /\ \E r \in Revisions :
          chainRev = [c \in Consumers |-> r] /\ heightRev = [c \in Consumers |-> r]
    /\ spawnTime = [c \in Consumers |-> 0]
    /\ hasClient = [c \in Consumers |-> FALSE]
    /\ established = [c \in Consumers |-> FALSE]
    /\ inFlight = [c \in Consumers |-> FALSE]
    /\ removalTime = [c \in Consumers |-> 0]
    /\ \E p \in Params : infraction = [c \in Consumers |-> p]
    /\ queuedInfraction = [c \in Consumers |-> Nil]
    /\ launchQueue = <<>> /\ removalQueue = <<>> /\ infractionQueue = <<>>
    /\ updates = 0
    /\ stoppedAt = [c \in Consumers |-> 0]
    /\ requested = [c \in Consumers |-> Nil]

-----------------------------------------------------------------------------
(* Time queues.  A queue is the sequence of its entries in the order in which
   the store iterates over them: by time, then by insertion. *)

\* The end of an unbonding period that starts now.
UnbondingEnd == now + UnbondingPeriod

\* The entries of a queue that are in T, in their order.
Filter(queue, T) ==
    LET F[i \in 0..Len(queue)] ==
            IF i = 0 THEN <<>>
            ELSE IF queue[i] \in T THEN Append(F[i - 1], queue[i])
            ELSE F[i - 1]
    IN  F[Len(queue)]

\* How many entries there are up to time t.
NumUpTo(queue, t) == Cardinality({i \in 1..Len(queue) : queue[i].time <= t})

\* appendConsumerIdOnTime.
AppendOnTime(queue, c, t) ==
    SubSeq(queue, 1, NumUpTo(queue, t))
        \o <<[time |-> t, id |-> c]>>
        \o SubSeq(queue, NumUpTo(queue, t) + 1, Len(queue))

\* The entry of c at t is in the queue (removeConsumerIdFromTime fails if not).
Queued(queue, c, t) == \E i \in 1..Len(queue) : queue[i] = [time |-> t, id |-> c]

\* Mutant of RemoveFromTime: the entry stays.
RemoveFromTimeNothing(queue, c, t) == queue

\* removeConsumerIdFromTime, of an entry that occurs once.
RemoveFromTime(queue, c, t) ==
    Filter(queue, Entries \ {[time |-> t, id |-> c]})

\* ConsumeIdsFromTimeQueue at block time t: how many entries are consumed, the
\* consumer ids and the rest.  NumDueEarly and NumDueAllOrNone are
\* mutants: an entry is due too early, a backlog above the limit is put back whole.
NumDueEarly(queue, t) ==
    IF NumUpTo(queue, t + 1) < Limit THEN NumUpTo(queue, t + 1) ELSE Limit
NumDueAllOrNone(queue, t) ==
    IF NumUpTo(queue, t) <= Limit THEN NumUpTo(queue, t) ELSE 0
NumDue(queue, t) ==
    IF NumUpTo(queue, t) < Limit THEN NumUpTo(queue, t) ELSE Limit
DueIds(queue, t) == {queue[i].id : i \in 1..NumDue(queue, t)}
NotDue(queue, t) == SubSeq(queue, NumDue(queue, t) + 1, Len(queue))

-----------------------------------------------------------------------------
(* Messages *)

IsConsumerPrelaunched(c) == phase[c] \in {"REGISTERED", "INITIALIZED"}
IsConsumerActive(c) == IsConsumerPrelaunched(c) \/ phase[c] = "LAUNCHED"

\* CreateConsumer by account o: registered, and initialized at once if the
\* spawn time is set.  The revision of the initial height must match.
CreateConsumer(c, o, init, params) ==
    /\ ~halted
    /\ phase[c] = "UNSPECIFIED"
    /\ owner' = [owner EXCEPT ![c] = o]
    /\ topN' = [topN EXCEPT ![c] = 0]
    /\ chainRev' = [chainRev EXCEPT ![c] = init.rev]
    /\ heightRev' = [heightRev EXCEPT ![c] = init.rev]
    /\ spawnTime' = [spawnTime EXCEPT ![c] = init.spawn]
    /\ infraction' = [infraction EXCEPT ![c] = params]
    /\ \/ /\ init.spawn = 0
          /\ phase' = [phase EXCEPT ![c] = "REGISTERED"]
          /\ UNCHANGED launchQueue
       \/ /\ init.spawn # 0
          /\ phase' = [phase EXCEPT ![c] = "INITIALIZED"]
          /\ launchQueue' = AppendOnTime(launchQueue, c, init.spawn)
    /\ UNCHANGED <<now, halted, hasClient, established, inFlight, removalTime,
                   queuedInfraction, removalQueue, infractionQueue, updates,
                   stoppedAt, requested>>

\* The optional part init of MsgUpdateConsumer, followed by InitializeConsumer
\* and PrepareConsumerForLaunch.  A consumer whose spawn time is cleared goes
\* back to registered; any other update of an initialized consumer moves its
\* entry in the queue, even to the same time.
UpdateInitParams(c, init) ==
    LET spawn == IF init = Nil THEN spawnTime[c] ELSE init.spawn
        old == IF spawnTime[c] = 0 THEN launchQueue
               ELSE RemoveFromTime(launchQueue, c, spawnTime[c])
    IN  /\ init # Nil => IsConsumerPrelaunched(c) /\ init.rev = chainRev'[c]
        /\ heightRev' = IF init = Nil THEN heightRev
                        ELSE [heightRev EXCEPT ![c] = init.rev]
        /\ spawnTime' = [spawnTime EXCEPT ![c] = spawn]
        /\ \/ /\ ~IsConsumerPrelaunched(c)
              /\ UNCHANGED <<phase, launchQueue>>
           \/ /\ IsConsumerPrelaunched(c) /\ spawn = 0
              /\ phase[c] = "INITIALIZED" => Queued(launchQueue, c, spawnTime[c])
              /\ phase' = [phase EXCEPT ![c] = "REGISTERED"]
              /\ launchQueue' = old
           \/ /\ IsConsumerPrelaunched(c) /\ spawn # 0
              /\ spawnTime[c] # 0 => Queued(launchQueue, c, spawnTime[c])
              /\ phase' = [phase EXCEPT ![c] = "INITIALIZED"]
              /\ launchQueue' = AppendOnTime(old, c, spawn)

\* RemoveConsumerInfractionQueuedData, of a consumer scheduled at most once.
WithoutScheduled(queue, S) == Filter(queue, {e \in Entries : e.id \notin S})

\* Mutant of UpdateQueuedInfractionParams: the schedule keeps the replaced entry.
UpdateQueuedKeepsSchedule(c, params) ==
    \/ /\ params = infraction[c]
       /\ queuedInfraction' = [queuedInfraction EXCEPT ![c] = Nil]
       /\ UNCHANGED infractionQueue
    \/ /\ params # infraction[c]
       /\ queuedInfraction' = [queuedInfraction EXCEPT ![c] = params]
       /\ infractionQueue' = AppendOnTime(infractionQueue, c, UnbondingEnd)

\* Mutant of UpdateQueuedInfractionParams: a request for the parameters in force
\* does not cancel the queued one.
UpdateQueuedNoCancel(c, params) ==
    \/ /\ params = infraction[c]
       /\ UNCHANGED <<queuedInfraction, infractionQueue>>
    \/ /\ params # infraction[c]
       /\ queuedInfraction' = [queuedInfraction EXCEPT ![c] = params]
       /\ infractionQueue' =
             AppendOnTime(WithoutScheduled(infractionQueue, {c}), c, UnbondingEnd)

\* UpdateQueuedInfractionParams: a request replaces the queued one, and one
\* that equals the parameters in force cancels it.
UpdateQueuedInfractionParams(c, params) ==
    LET rest == IF queuedInfraction[c] = Nil THEN infractionQueue
                ELSE WithoutScheduled(infractionQueue, {c})
    IN  \/ /\ params = infraction[c]
           /\ queuedInfraction' = [queuedInfraction EXCEPT ![c] = Nil]
           /\ infractionQueue' = rest
        \/ /\ params # infraction[c]
           /\ queuedInfraction' = [queuedInfraction EXCEPT ![c] = params]
           /\ infractionQueue' = AppendOnTime(rest, c, UnbondingEnd)

\* The optional infraction parameters of MsgUpdateConsumer: immediate before
\* the launch, after the unbonding period later.
UpdateInfractionParams(c, params) ==
    \/ /\ params = Nil
       /\ UNCHANGED <<infraction, queuedInfraction, infractionQueue, requested>>
    \/ /\ params # Nil /\ IsConsumerPrelaunched(c)
       /\ infraction' = [infraction EXCEPT ![c] = params]
       /\ UNCHANGED <<queuedInfraction, infractionQueue, requested>>
    \/ /\ params # Nil /\ ~IsConsumerPrelaunched(c)
       /\ now + UnbondingPeriod <= MaxTime
       /\ UpdateQueuedInfractionParams(c, params)
       /\ requested' = [requested EXCEPT ![c] = [params |-> params, at |-> now]]
       /\ UNCHANGED infraction

\* Mutant of UpdateOwnership: the new owner is not checked.
UpdateOwnershipUnchecked(c, newOwner, newTopN) ==
    /\ newTopN # Nil /\ newTopN # 0 => owner[c] = Gov
    /\ owner' = [owner EXCEPT ![c] = newOwner]
    /\ topN' = IF newTopN = Nil THEN topN ELSE [topN EXCEPT ![c] = newTopN]

\* The optional Top_N of MsgUpdateConsumer, and the owner: Top N only for a
\* consumer that governance owned before and owns after the message.
UpdateOwnership(c, newOwner, newTopN) ==
    /\ newTopN # Nil /\ newTopN # 0 => owner[c] = Gov
    /\ owner' = [owner EXCEPT ![c] = newOwner]
    /\ topN' = IF newTopN = Nil THEN topN ELSE [topN EXCEPT ![c] = newTopN]
    /\ topN'[c] # 0 => newOwner = Gov

\* UpdateConsumer, signed by the owner.  The chain id changes only before the
\* launch; the initial height is compared with it only if it is in the message.
UpdateConsumer(c, newRev, newOwner, newTopN, init, params) ==
    /\ ~halted /\ updates < MaxUpdates
    /\ IsConsumerActive(c)
    /\ newRev # chainRev[c] => IsConsumerPrelaunched(c)
    /\ chainRev' = [chainRev EXCEPT ![c] = newRev]
    /\ UpdateInitParams(c, init)
    /\ UpdateInfractionParams(c, params)
    /\ UpdateOwnership(c, newOwner, newTopN)
    /\ updates' = updates + 1
    /\ UNCHANGED <<now, halted, hasClient, established, inFlight, removalTime,
                   removalQueue, stoppedAt>>

-----------------------------------------------------------------------------
(* Stopping *)

\* Mutant of StopAndPrepareForConsumerRemoval: a stopped consumer is not queued
\* again, but its removal time moves.
StopQueuesOnce(c) ==
    /\ now + UnbondingPeriod <= MaxTime
    /\ phase' = [phase EXCEPT ![c] = "STOPPED"]
    /\ removalTime' = [removalTime EXCEPT ![c] = UnbondingEnd]
    /\ removalQueue' = IF phase[c] = "STOPPED" THEN removalQueue
                       ELSE AppendOnTime(removalQueue, c, UnbondingEnd)
    /\ stoppedAt' = [stoppedAt EXCEPT ![c] = IF phase[c] = "STOPPED" THEN @ ELSE now]
    /\ UNCHANGED <<now, halted, owner, topN, chainRev, heightRev, spawnTime,
                   hasClient, established, inFlight, infraction,
                   queuedInfraction, launchQueue, infractionQueue, requested>>

\* StopAndPrepareForConsumerRemoval; it does not look at the phase.
StopAndPrepareForConsumerRemoval(c) ==
    /\ now + UnbondingPeriod <= MaxTime
    /\ phase' = [phase EXCEPT ![c] = "STOPPED"]
    /\ removalTime' = [removalTime EXCEPT ![c] = UnbondingEnd]
    /\ removalQueue' = AppendOnTime(removalQueue, c, UnbondingEnd)
    /\ stoppedAt' = [stoppedAt EXCEPT ![c] = IF phase[c] = "STOPPED" THEN @ ELSE now]
    /\ UNCHANGED <<now, halted, owner, topN, chainRev, heightRev, spawnTime,
                   hasClient, established, inFlight, infraction,
                   queuedInfraction, launchQueue, infractionQueue, requested>>

\* RemoveConsumer, signed by the owner.
RemoveConsumer(c) ==
    /\ ~halted
    /\ phase[c] = "LAUNCHED"
    /\ StopAndPrepareForConsumerRemoval(c)
    /\ UNCHANGED updates

\* SendVSCPackets at the end of a block: packets are sent to a launched
\* consumer with a CCV channel.
SendVSCPackets(c) ==
    /\ ~halted
    /\ phase[c] = "LAUNCHED" /\ established[c] /\ ~inFlight[c]
    /\ inFlight' = [inFlight EXCEPT ![c] = TRUE]
    /\ UNCHANGED <<now, halted, phase, owner, topN, chainRev, heightRev,
                   spawnTime, hasClient, established, removalTime, infraction,
                   queuedInfraction, queues, updates, stoppedAt, requested>>

\* SendVSCPacketsToChain cannot send: the consumer is stopped.
SendVSCPacketsFails(c) ==
    /\ ~halted
    /\ phase[c] = "LAUNCHED" /\ established[c]
    /\ StopAndPrepareForConsumerRemoval(c)
    /\ UNCHANGED updates

\* Mutant of OnTimeoutPacket: the channel is not looked up.
OnTimeoutPacketUnknownChannel(c) ==
    /\ ~halted /\ updates < MaxUpdates
    /\ inFlight[c]
    /\ StopAndPrepareForConsumerRemoval(c)
    /\ updates' = updates + 1

\* OnTimeoutPacket: every packet in flight on the CCV channel may time out,
\* one after the other.
OnTimeoutPacket(c) ==
    /\ ~halted /\ updates < MaxUpdates
    /\ established[c] /\ inFlight[c]
    /\ StopAndPrepareForConsumerRemoval(c)
    /\ updates' = updates + 1

\* OnChanOpenConfirm, SetConsumerChain: the client must belong to a consumer
\* without a CCV channel.
OnChanOpenConfirm(c) ==
    /\ ~halted
    /\ hasClient[c] /\ ~established[c]
    /\ established' = [established EXCEPT ![c] = TRUE]
    /\ UNCHANGED <<now, halted, phase, owner, topN, chainRev, heightRev,
                   spawnTime, hasClient, inFlight, removalTime, infraction,
                   queuedInfraction, queues, updates, stoppedAt, requested>>

-----------------------------------------------------------------------------
(* BeginBlock at block time t, where valid are the consumers for which
   LaunchConsumer succeeds. *)

\* The consumers that BeginBlockLaunchConsumers tries to launch and fails to.
FailedLaunches(t, valid) == DueIds(launchQueue, t) \ valid

\* DeleteConsumerChain succeeds.
DeletedChains(t) == {c \in DueIds(removalQueue, t) : phase[c] = "STOPPED"}

\* Mutant of ScheduleAfterRemoval: deletion leaves the schedule alone.
ScheduleIgnoresRemoval(t) == infractionQueue

\* The schedule and the queued parameters that BeginBlockUpdateInfraction-
\* Parameters finds: those of deleted consumers are gone.
ScheduleAfterRemoval(t) ==
    WithoutScheduled(infractionQueue, {c \in DeletedChains(t) : queuedInfraction[c] # Nil})
QueuedAfterRemoval(t) ==
    [c \in Consumers |-> IF c \in DeletedChains(t) THEN Nil ELSE queuedInfraction[c]]
UpdatedChains(t) == DueIds(ScheduleAfterRemoval(t), t)

\* BeginBlock returns an error: the spawn time of a failed launch cannot be
\* reset because SetConsumerInitializationParameters refuses the parameters,
\* or a scheduled update has no queued parameters.
BeginBlockFails(t, valid) ==
    \/ \E c \in FailedLaunches(t, valid) : chainRev[c] # heightRev[c]
    \/ \E c \in UpdatedChains(t) : QueuedAfterRemoval(t)[c] = Nil

\* BeginBlockLaunchConsumers, then BeginBlockRemoveConsumers.
NextPhase(t, valid, c) ==
    IF c \in DueIds(launchQueue, t)
    THEN IF c \in valid THEN "LAUNCHED" ELSE "REGISTERED"
    ELSE IF c \in DeletedChains(t) THEN "DELETED" ELSE phase[c]

BeginBlock(t, valid) ==
    /\ ~halted
    /\ ~BeginBlockFails(t, valid)
    /\ now' = t
    /\ phase' = [c \in Consumers |-> NextPhase(t, valid, c)]
    /\ spawnTime' = [c \in Consumers |->
                        IF c \in FailedLaunches(t, valid) THEN 0 ELSE spawnTime[c]]
    /\ launchQueue' = NotDue(launchQueue, t)
    /\ hasClient' = [c \in Consumers |->
                        (hasClient[c] \/ c \in DueIds(launchQueue, t) \cap valid)
                            /\ c \notin DeletedChains(t)]
    /\ established' = [c \in Consumers |-> established[c] /\ c \notin DeletedChains(t)]
    /\ removalTime' = [c \in Consumers |->
                          IF c \in DeletedChains(t) THEN 0 ELSE removalTime[c]]
    /\ removalQueue' = NotDue(removalQueue, t)
    /\ infraction' = [c \in Consumers |->
                         IF c \in UpdatedChains(t) THEN QueuedAfterRemoval(t)[c]
                         ELSE infraction[c]]
    /\ queuedInfraction' = [c \in Consumers |->
                               IF c \in UpdatedChains(t) THEN Nil
                               ELSE QueuedAfterRemoval(t)[c]]
    /\ infractionQueue' = NotDue(ScheduleAfterRemoval(t), t)
    /\ UNCHANGED <<halted, owner, topN, chainRev, heightRev, inFlight, updates,
                   stoppedAt, requested>>

\* The block is not committed and the provider stops.
BeginBlockError(t, valid) ==
    /\ ~halted
    /\ BeginBlockFails(t, valid)
    /\ halted' = TRUE
    /\ UNCHANGED <<now, phase, owner, topN, chainRev, heightRev, spawnTime,
                   hasClient, established, inFlight, removalTime, infraction,
                   queuedInfraction, queues, updates, stoppedAt, requested>>

-----------------------------------------------------------------------------
\* Block times grow; at the bound blocks go on, to drain the queues.
BlockTimesFrom(t) ==
    {IF t + d > MaxTime THEN MaxTime ELSE t + d : d \in BlockTimes}

Block == \E t \in BlockTimesFrom(now), valid \in SUBSET Consumers :
            BeginBlock(t, valid) \/ BeginBlockError(t, valid)

Next ==
    \/ Block
    \/ \E c \in Consumers :
          \/ \E o \in Owners, init \in InitParams, p \in Params :
                CreateConsumer(c, o, init, p)
          \/ \E r \in Revisions, o \in Owners, n \in TopNs \cup {Nil},
                init \in InitParams \cup {Nil}, p \in Params \cup {Nil} :
                UpdateConsumer(c, r, o, n, init, p)
          \/ RemoveConsumer(c)
          \/ SendVSCPackets(c)
          \/ SendVSCPacketsFails(c)
          \/ OnTimeoutPacket(c)
          \/ OnChanOpenConfirm(c)

Spec == Init /\ [][Next]_vars

\* Blocks are produced.
FairSpec == Spec /\ WF_vars(Block)

-----------------------------------------------------------------------------
(* Properties *)

EntriesOf(queue, c) == {i \in 1..Len(queue) : queue[i].id = c}

\* An initialized consumer is in the launch queue once, at its spawn time, and
\* no other consumer is; a registered one has no spawn time.  So the removals
\* from the queue in UpdateConsumer never fail, and a launch never meets a
\* consumer in another phase.
LaunchQueueExact ==
    \A c \in Consumers :
        /\ phase[c] = "REGISTERED" => spawnTime[c] = 0
        /\ IF phase[c] = "INITIALIZED"
           THEN /\ spawnTime[c] # 0
                /\ \E i \in 1..Len(launchQueue) :
                      /\ EntriesOf(launchQueue, c) = {i}
                      /\ launchQueue[i].time = spawnTime[c]
           ELSE EntriesOf(launchQueue, c) = {}

\* A stopped consumer is queued for removal, and only stopped or deleted ones
\* are; a deleted consumer has left no client, no channel and no schedule
\* (StopAndPrepareForConsumerRemoval, DeleteConsumerChain).
RemovalScheduled ==
    \A c \in Consumers :
        /\ phase[c] = "STOPPED" => Queued(removalQueue, c, removalTime[c])
        /\ EntriesOf(removalQueue, c) # {} => phase[c] \in {"STOPPED", "DELETED"}
        /\ phase[c] = "DELETED" =>
              /\ ~hasClient[c] /\ ~established[c]
              /\ removalTime[c] = 0
              /\ queuedInfraction[c] = Nil

\* The launch and the removal queue agree with the phases and times of the
\* consumers, when more are due than a block handles, spawn times are moved,
\* launches fail and consumers are stopped again (PrepareConsumerForLaunch,
\* ConsumeIdsFromTimeQueue, StopAndPrepareForConsumerRemoval).
QueuesInv == TypeOK /\ LaunchQueueExact /\ RemovalScheduled

\* An update of infraction parameters is scheduled exactly if parameters are
\* queued, and once.  Otherwise BeginBlockUpdateInfractionParameters would
\* return an error and stop the provider.
ScheduleMatchesQueued ==
    \A c \in Consumers :
        IF queuedInfraction[c] = Nil THEN EntriesOf(infractionQueue, c) = {}
        ELSE \E i \in 1..Len(infractionQueue) : EntriesOf(infractionQueue, c) = {i}

\* The provider stops only because of a consumer whose chain id was changed to
\* another revision than that of its initial height.
HaltsOnlyOnRevisionMismatch ==
    halted => \E c \in Consumers :
                 phase[c] = "INITIALIZED" /\ chainRev[c] # heightRev[c]

\* A Top N chain is owned by governance, whatever sequence of messages changed
\* its owner and its Top_N (UpdateConsumer).
TopNOwnedByGov == \A c \in Consumers : topN[c] # 0 => owner[c] = Gov

\* Phases only move along the documented life cycle; in particular a packet
\* timeout never revives a deleted consumer.
PhaseOrder ==
    [][\A c \in Consumers : <<phase[c], phase'[c]>> \in
          {<<p, p>> : p \in Phases} \cup
          {<<"UNSPECIFIED", "REGISTERED">>, <<"UNSPECIFIED", "INITIALIZED">>,
           <<"REGISTERED", "INITIALIZED">>, <<"INITIALIZED", "REGISTERED">>,
           <<"INITIALIZED", "LAUNCHED">>, <<"LAUNCHED", "STOPPED">>,
           <<"STOPPED", "DELETED">>}]_vars

\* The state of a consumer is kept for at least the unbonding period after the
\* chain was stopped for the first time (StopAndPrepareForConsumerRemoval,
\* BeginBlockRemoveConsumers).
DeletedAfterUnbonding ==
    [][\A c \in Consumers :
          phase[c] # "DELETED" /\ phase'[c] = "DELETED"
              => now' >= stoppedAt[c] + UnbondingPeriod]_vars

\* Once a consumer is launched its infraction parameters change only to the
\* ones last requested, and not before the unbonding period has passed since
\* that request (UpdateQueuedInfractionParams, BeginBlockUpdateInfraction-
\* Parameters): a superseded or cancelled request is never applied.
InfractionDelay ==
    [][\A c \in Consumers :
          hasClient[c] /\ infraction'[c] # infraction[c]
              => /\ requested[c] # Nil
                 /\ infraction'[c] = requested[c].params
                 /\ now' >= requested[c].at + UnbondingPeriod]_vars

\* A stopped consumer is eventually deleted, and an initialized one leaves that
\* phase, even if more of them are due than a block handles; as long as the
\* provider runs and, for launches, owners have finitely many updates.
EveryQueueDrains ==
    \A c \in Consumers :
        /\ phase[c] = "STOPPED" ~> (phase[c] = "DELETED" \/ halted)
        /\ phase[c] = "INITIALIZED" ~> (phase[c] # "INITIALIZED" \/ halted)

\* A failed launch is contained: BeginBlock resets the spawn time so that the
\* owner can try again, and the provider goes on.
FailedLaunchContained == ~halted
=============================================================================
