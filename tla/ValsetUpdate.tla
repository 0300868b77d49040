---------------------------- MODULE ValsetUpdate ----------------------------
(***************************************************************************)
(* The Validator Set Update sub-protocol between the provider and one      *)
(* launched consumer chain: the provider computes a validator set per      *)
(* epoch, queues the difference as a VSC packet and sends it over an       *)
(* ordered IBC channel; the consumer accumulates the packets of a block    *)
(* and applies them at its end.  Beside the sets the protocol maintains    *)
(* the two mappings through which an infraction on the consumer is         *)
(* attributed to a provider height, and the loop of downtime requests and  *)
(* slash acknowledgements that rides on the same packets.                  *)
(*                                                                         *)
(* Throttling, bouncing and retrying of slash packets is in SlashThrottle; *)
(* here a slash packet is handled in one step, some time after it was      *)
(* queued.  Deletion of a stopped consumer is in ConsumerLifecycle.        *)
(***************************************************************************)
EXTENDS Integers, Sequences, ValidatorUpdates

CONSTANTS BlocksPerEpoch,   \* provider parameter
          MaxVscId,         \* bound: epochs of the provider
          MaxHeight,        \* bound: consumer heights
          MaxSlashQueue,    \* bound: slash packets queued on the consumer
          Tombstonable      \* bound: validators that may be tombstoned or unbond

ASSUME BoundsAssumption ==
    /\ BlocksPerEpoch \in Nat \ {0}
    /\ MaxVscId \in Nat \ {0}
    /\ MaxHeight \in Nat /\ MaxHeight > MaxVscId
    /\ MaxSlashQueue \in Nat

VARIABLES
    \* provider
    pHeight,                  \* height of the block being executed
    phase,                    \* ConsumerPhase of the consumer
    valsetUpdateId,           \* current vscID
    valsetUpdateBlockHeight,  \* vscID -> provider height, 0 if not set
    initChainHeight,          \* provider height at channel opening, 0 if not set
    consumerValSet,           \* validator set last computed for the consumer
    pendingVSCs,              \* VSC packets not yet sent
    slashAcks,                \* downtime requests to acknowledge
    tombstoned,               \* validators that are tombstoned or unbonded
    clientActive,             \* the IBC client of the consumer is not expired
    pChannel,                 \* provider end of the CCV channel
    \* network
    inFlight,                 \* VSC packets sent and not yet received
    \* consumer
    cHeight,                  \* height of the block being executed
    halted,                   \* CometBFT refused the last validator updates
    cChannel,                 \* consumer end of the CCV channel
    providerChannel,          \* the first VSC packet has been received
    pendingChanges,           \* updates accumulated in this block
    ccValidators,             \* cross-chain validators
    heightValsetUpdateID,     \* consumer height -> vscID
    outstandingDowntime,      \* validators with a downtime request under way
    pendingPackets,           \* downtime slash packets not yet handled
    \* history
    computed                  \* vscID -> the set computed in that epoch

providerVars == <<pHeight, phase, valsetUpdateId, valsetUpdateBlockHeight,
                  initChainHeight, consumerValSet, pendingVSCs, slashAcks,
                  tombstoned, clientActive, pChannel>>
consumerVars == <<cHeight, halted, cChannel, providerChannel, pendingChanges,
                  ccValidators, heightValsetUpdateID, outstandingDowntime,
                  pendingPackets>>
vars == <<providerVars, inFlight, consumerVars, computed>>

VscIds == 1..MaxVscId

\* ValidatorSetChangePacketData.
VSCPackets == [updates : Updates, vscId : VscIds, acks : SUBSET Keys]

\* SlashPacketData of a downtime infraction.
SlashPackets == [val : Keys, vscId : 0..MaxVscId]

ChannelStates == {"NONE", "OPEN", "CLOSED"}

TypeOK ==
    /\ pHeight \in Nat \ {0}
    /\ phase \in {"LAUNCHED", "STOPPED"}
    /\ valsetUpdateId \in 1..(MaxVscId + 1)
    /\ valsetUpdateBlockHeight \in [1..(MaxVscId + 1) -> Nat]
    /\ initChainHeight \in Nat
    /\ consumerValSet \in ValSets
    /\ pendingVSCs \in Seq(VSCPackets)
    /\ slashAcks \subseteq Keys
    /\ tombstoned \subseteq Keys
    /\ clientActive \in BOOLEAN
    /\ pChannel \in ChannelStates
    /\ inFlight \in Seq(VSCPackets)
    /\ cHeight \in 1..MaxHeight
    /\ halted \in BOOLEAN
    /\ cChannel \in ChannelStates
    /\ providerChannel \in BOOLEAN
    /\ pendingChanges \in Updates
    /\ ccValidators \in ValSets
    /\ heightValsetUpdateID \in [0..(MaxHeight + 1) -> 0..MaxVscId]
    /\ outstandingDowntime \subseteq Keys
    /\ pendingPackets \in Seq(SlashPackets)
    /\ computed \in [0..MaxVscId -> ValSets]

\* The consumer has just been launched: its genesis carries the initial
\* validator set that the provider stored (LaunchConsumer, InitGenesis).
Init ==
    /\ pHeight = 1
    /\ phase = "LAUNCHED"
    /\ valsetUpdateId = 1
    /\ valsetUpdateBlockHeight = [i \in 1..(MaxVscId + 1) |-> 0]
    /\ initChainHeight = 0
    /\ consumerValSet \in {s \in ValSets : ~EmptySet(s)}
    /\ pendingVSCs = <<>>
    /\ slashAcks = {}
    /\ tombstoned = {}
    /\ clientActive = TRUE
    /\ pChannel = "NONE"
    /\ inFlight = <<>>
    /\ cHeight = 1
    /\ halted = FALSE
    /\ cChannel = "NONE"
    /\ providerChannel = FALSE
    /\ pendingChanges = NoUpdates
    /\ ccValidators = consumerValSet
    /\ heightValsetUpdateID = [h \in 0..(MaxHeight + 1) |-> 0]
    /\ outstandingDowntime = {}
    /\ pendingPackets = <<>>
    /\ computed = [i \in 0..MaxVscId |-> consumerValSet]

-----------------------------------------------------------------------------
(* Provider *)

\* BlocksUntilNextEpoch(ctx) = 0.
EpochBoundary == pHeight % BlocksPerEpoch = 0

\* Mutant of EndBlockCIS: the current height instead of the next.
EndBlockCISCurrentHeight ==
    valsetUpdateBlockHeight' =
        [valsetUpdateBlockHeight EXCEPT ![valsetUpdateId] = pHeight]

\* EndBlockCIS: the current vscID is mapped to the next height.
EndBlockCIS ==
    valsetUpdateBlockHeight' =
        [valsetUpdateBlockHeight EXCEPT ![valsetUpdateId] = pHeight + 1]

\* QueueVSCPackets: the queue after the set of the epoch became next.  A
\* packet is queued only if the set changes; the slash acks wait otherwise.
QueuedVSCs(next) ==
    LET updates == DiffValidators(consumerValSet, next) IN
    IF DOMAIN updates = {} THEN pendingVSCs
    ELSE Append(pendingVSCs, [updates |-> updates, vscId |-> valsetUpdateId,
                              acks |-> slashAcks])

\* Mutant of SendVSCPackets: the queue is deleted although the client expired.
SendVSCPacketsExpiredDrops(queue) ==
    /\ pendingVSCs' = IF pChannel = "OPEN" THEN <<>> ELSE queue
    /\ inFlight' = IF pChannel = "OPEN" /\ clientActive THEN inFlight \o queue
                   ELSE inFlight
    /\ phase' = IF pChannel = "CLOSED" /\ queue # <<>> THEN "STOPPED" ELSE phase

\* Mutant of SendVSCPackets: the loop stops before the last packet.
SendVSCPacketsHoldsLast(queue) ==
    /\ pendingVSCs' = IF pChannel = "OPEN" /\ clientActive /\ queue # <<>>
                      THEN <<queue[Len(queue)]>> ELSE queue
    /\ inFlight' = IF pChannel = "OPEN" /\ clientActive /\ queue # <<>>
                   THEN inFlight \o SubSeq(queue, 1, Len(queue) - 1) ELSE inFlight
    /\ phase' = IF pChannel = "CLOSED" /\ queue # <<>> THEN "STOPPED" ELSE phase

\* SendVSCPackets: what becomes of the queue, by the state of the channel.
SendVSCPackets(queue) ==
    \/ /\ pChannel = "NONE" \/ (pChannel = "OPEN" /\ ~clientActive)
       /\ pendingVSCs' = queue
       /\ UNCHANGED <<inFlight, phase>>
    \/ /\ pChannel = "OPEN" /\ clientActive
       /\ inFlight' = inFlight \o queue
       /\ pendingVSCs' = <<>>
       /\ UNCHANGED phase
    \/ /\ pChannel = "CLOSED"      \* SendPacket fails: stop the consumer
       /\ pendingVSCs' = queue
       /\ phase' = IF queue = <<>> THEN phase ELSE "STOPPED"
       /\ UNCHANGED inFlight

\* Mutant of EndBlock: the vscID in force is mapped again along with the current one.
EndBlockMapsInForce ==
    /\ ~EpochBoundary
    /\ valsetUpdateBlockHeight' =
          [i \in 1..(MaxVscId + 1) |-> IF i \in {valsetUpdateId - 1, valsetUpdateId}
                                       THEN pHeight + 1 ELSE valsetUpdateBlockHeight[i]]
    /\ pHeight' = pHeight + 1
    /\ UNCHANGED <<phase, valsetUpdateId, initChainHeight, consumerValSet,
                   pendingVSCs, slashAcks, tombstoned, clientActive, pChannel,
                   inFlight, consumerVars, computed>>

\* EndBlock in the middle of an epoch.
EndBlock ==
    /\ ~EpochBoundary
    /\ EndBlockCIS
    /\ pHeight' = pHeight + 1
    /\ UNCHANGED <<phase, valsetUpdateId, initChainHeight, consumerValSet,
                   pendingVSCs, slashAcks, tombstoned, clientActive, pChannel,
                   inFlight, consumerVars, computed>>

\* EndBlock at the end of an epoch.  ComputeConsumerNextValSet is abstracted to
\* an arbitrary next set.
EndBlockEpoch(next) ==
    /\ EpochBoundary
    /\ valsetUpdateId <= MaxVscId
    /\ phase = "LAUNCHED"
    /\ EndBlockCIS
    /\ consumerValSet' = next
    /\ slashAcks' = IF next = consumerValSet THEN slashAcks ELSE {}
    /\ SendVSCPackets(QueuedVSCs(next))
    /\ valsetUpdateId' = valsetUpdateId + 1
    /\ computed' = [computed EXCEPT ![valsetUpdateId] = next]
    /\ pHeight' = pHeight + 1
    /\ UNCHANGED <<initChainHeight, tombstoned, clientActive, pChannel,
                   consumerVars>>

\* Mutant of EndBlockEpochStopped: the vscID does not advance.
EndBlockEpochStoppedSameId ==
    /\ EpochBoundary
    /\ valsetUpdateId <= MaxVscId
    /\ phase = "STOPPED"
    /\ EndBlockCIS
    /\ computed' = [computed EXCEPT ![valsetUpdateId] = consumerValSet]
    /\ pHeight' = pHeight + 1 /\ pHeight < BlocksPerEpoch * (MaxVscId + 1)
    /\ UNCHANGED <<phase, valsetUpdateId, initChainHeight, consumerValSet, pendingVSCs,
                   slashAcks, tombstoned, clientActive, pChannel, inFlight,
                   consumerVars>>

\* The same for a consumer that is no longer launched: it is skipped, but the
\* vscID still advances.
EndBlockEpochStopped ==
    /\ EpochBoundary
    /\ valsetUpdateId <= MaxVscId
    /\ phase = "STOPPED"
    /\ EndBlockCIS
    /\ valsetUpdateId' = valsetUpdateId + 1
    /\ computed' = [computed EXCEPT ![valsetUpdateId] = consumerValSet]
    /\ pHeight' = pHeight + 1
    /\ UNCHANGED <<phase, initChainHeight, consumerValSet, pendingVSCs,
                   slashAcks, tombstoned, clientActive, pChannel, inFlight,
                   consumerVars>>

\* Mutant of OnChanOpenConfirm: the init chain height is not recorded.
OnChanOpenConfirmNoHeight ==
    /\ pChannel = "NONE" /\ cChannel = "OPEN"
    /\ clientActive
    /\ pChannel' = "OPEN"
    /\ UNCHANGED <<pHeight, phase, valsetUpdateId, valsetUpdateBlockHeight,
                   initChainHeight, consumerValSet, pendingVSCs, slashAcks,
                   tombstoned, clientActive, inFlight, consumerVars, computed>>

\* OnChanOpenConfirm, SetConsumerChain: the end of the handshake.  The phase
\* of the consumer is not checked.
OnChanOpenConfirm ==
    /\ pChannel = "NONE" /\ cChannel = "OPEN"
    /\ clientActive
    /\ pChannel' = "OPEN"
    /\ initChainHeight' = pHeight
    /\ UNCHANGED <<pHeight, phase, valsetUpdateId, valsetUpdateBlockHeight,
                   consumerValSet, pendingVSCs, slashAcks, tombstoned,
                   clientActive, inFlight, consumerVars, computed>>

\* OnChanCloseConfirm after the consumer closed its end: the module does
\* nothing, in particular the consumer stays launched; IBC closes the end.
OnChanCloseConfirm ==
    /\ pChannel = "OPEN" /\ cChannel = "CLOSED"
    /\ clientActive
    /\ pChannel' = "CLOSED"
    /\ UNCHANGED <<pHeight, phase, valsetUpdateId, valsetUpdateBlockHeight,
                   initChainHeight, consumerValSet, pendingVSCs, slashAcks,
                   tombstoned, clientActive, inFlight, consumerVars, computed>>

\* OnTimeoutPacket: the oldest packet in flight timed out, or the consumer end
\* is closed.  IBC closes the ordered channel and no packet in flight can be
\* received any more; the module stops the consumer.
OnTimeoutPacket ==
    /\ inFlight # <<>>
    /\ clientActive
    /\ inFlight' = <<>>
    /\ pChannel' = "CLOSED"
    /\ phase' = "STOPPED"
    /\ UNCHANGED <<pHeight, valsetUpdateId, valsetUpdateBlockHeight,
                   initChainHeight, consumerValSet, pendingVSCs, slashAcks,
                   tombstoned, clientActive, consumerVars, computed>>

\* RemoveConsumer: the owner stops the chain.
RemoveConsumer ==
    /\ phase = "LAUNCHED"
    /\ phase' = "STOPPED"
    /\ UNCHANGED <<pHeight, valsetUpdateId, valsetUpdateBlockHeight,
                   initChainHeight, consumerValSet, pendingVSCs, slashAcks,
                   tombstoned, clientActive, pChannel, inFlight, consumerVars,
                   computed>>

\* The IBC client of the consumer expires, or governance recovers it.
ClientExpiryOrRecovery ==
    /\ clientActive' = ~clientActive
    /\ UNCHANGED <<pHeight, phase, valsetUpdateId, valsetUpdateBlockHeight,
                   initChainHeight, consumerValSet, pendingVSCs, slashAcks,
                   tombstoned, pChannel, inFlight, consumerVars, computed>>

\* A validator is tombstoned on the provider, or unbonds.
Tombstone(v) ==
    /\ v \in Tombstonable \ tombstoned
    /\ tombstoned' = tombstoned \cup {v}
    /\ UNCHANGED <<pHeight, phase, valsetUpdateId, valsetUpdateBlockHeight,
                   initChainHeight, consumerValSet, pendingVSCs, slashAcks,
                   clientActive, pChannel, inFlight, consumerVars, computed>>

\* getMappedInfractionHeight finds a height for the vscID.
HeightMapped(vscId) ==
    IF vscId = 0 THEN initChainHeight # 0
    ELSE valsetUpdateBlockHeight[vscId] # 0

\* Mutant of AckedBy: a dropped request is not acknowledged.
AckedByHandledOnly(packet) ==
    IF phase = "LAUNCHED" /\ consumerValSet[packet.val] > 0 /\ packet.val \notin tombstoned
    THEN {packet.val} ELSE {}

\* The slash acks after the provider handled the packet: a dropped request is
\* acknowledged except for a tombstoned or unbonded consumer validator.
AckedBy(packet) ==
    IF phase = "LAUNCHED" /\ consumerValSet[packet.val] > 0 /\ packet.val \in tombstoned
    THEN {} ELSE {packet.val}

\* OnRecvSlashPacket together with the acknowledgement of the packet.  A
\* handled packet leaves the head of the consumer's queue.  A vscID without a
\* height is answered by an error, upon which the consumer closes the channel
\* (ChanCloseInit) and keeps the packet.
OnRecvSlashPacket ==
    /\ pendingPackets # <<>>
    /\ providerChannel /\ ~halted
    /\ cChannel = "OPEN" /\ pChannel = "OPEN" /\ clientActive
    /\ LET packet == Head(pendingPackets) IN
       IF HeightMapped(packet.vscId)
       THEN /\ slashAcks' = slashAcks \cup AckedBy(packet)
            /\ pendingPackets' = Tail(pendingPackets)
            /\ UNCHANGED cChannel
       ELSE /\ cChannel' = "CLOSED"
            /\ UNCHANGED <<slashAcks, pendingPackets>>
    /\ UNCHANGED <<pHeight, phase, valsetUpdateId, valsetUpdateBlockHeight,
                   initChainHeight, consumerValSet, pendingVSCs, tombstoned,
                   clientActive, pChannel, inFlight, cHeight, halted,
                   providerChannel, pendingChanges, ccValidators,
                   heightValsetUpdateID, outstandingDowntime, computed>>

-----------------------------------------------------------------------------
(* Consumer *)

\* OnChanOpenAck: the consumer end opens.
OnChanOpenAck ==
    /\ cChannel = "NONE" /\ ~halted
    /\ cChannel' = "OPEN"
    /\ UNCHANGED <<providerVars, inFlight, cHeight, halted, providerChannel,
                   pendingChanges, ccValidators, heightValsetUpdateID,
                   outstandingDowntime, pendingPackets, computed>>

\* OnRecvVSCPacket.
OnRecvVSCPacket ==
    /\ inFlight # <<>>
    /\ cChannel = "OPEN" /\ ~halted
    /\ LET packet == Head(inFlight) IN
          /\ pendingChanges' = AccumulateChanges(pendingChanges, packet.updates)
          /\ heightValsetUpdateID' =
                [heightValsetUpdateID EXCEPT ![cHeight + 1] = packet.vscId]
          /\ outstandingDowntime' = outstandingDowntime \ packet.acks
    /\ providerChannel' = TRUE
    /\ inFlight' = Tail(inFlight)
    /\ UNCHANGED <<providerVars, cHeight, halted, cChannel, ccValidators,
                   pendingPackets, computed>>

\* Bound: an idle block is executed only while enough heights remain to apply
\* every packet that may still arrive.
RoomForBlock ==
    /\ cHeight < MaxHeight
    /\ \/ pendingChanges # NoUpdates
       \/ MaxHeight - cHeight > MaxVscId - heightValsetUpdateID[cHeight + 1]

\* The updates returned by EndBlock to CometBFT.
EndBlockUpdates == ForwardedUpdates(ccValidators, pendingChanges)

\* EndBlock of the consumer followed by BeginBlock of the next height, with no
\* transaction in between.
ConsumerEndBlock ==
    /\ ~halted /\ RoomForBlock
    /\ ~CometRejects(ccValidators, EndBlockUpdates)
    /\ ccValidators' = ApplyChanges(ccValidators, pendingChanges)
    /\ outstandingDowntime' =
          outstandingDowntime \ NewlyBonded(ccValidators, pendingChanges)
    /\ pendingChanges' = NoUpdates
    /\ cHeight' = cHeight + 1
    /\ heightValsetUpdateID' =
          [heightValsetUpdateID EXCEPT
              ![cHeight + 2] = heightValsetUpdateID[cHeight + 1]]
    /\ UNCHANGED <<providerVars, inFlight, halted, cChannel, providerChannel,
                   pendingPackets, computed>>

\* EndBlock returns updates that CometBFT refuses: the consumer chain halts.
ConsumerHalt ==
    /\ ~halted
    /\ CometRejects(ccValidators, EndBlockUpdates)
    /\ halted' = TRUE
    /\ UNCHANGED <<providerVars, inFlight, cHeight, cChannel, providerChannel,
                   pendingChanges, ccValidators, heightValsetUpdateID,
                   outstandingDowntime, pendingPackets, computed>>

\* SlashWithInfractionReason for downtime of v at height h, and
\* QueueSlashPacket: nothing happens while a request is outstanding.
SlashWithInfractionReason(v, h) ==
    /\ ~halted
    /\ v \notin outstandingDowntime
    /\ Len(pendingPackets) < MaxSlashQueue
    /\ outstandingDowntime' = outstandingDowntime \cup {v}
    /\ pendingPackets' =
          Append(pendingPackets, [val |-> v, vscId |-> heightValsetUpdateID[h]])
    /\ UNCHANGED <<providerVars, inFlight, cHeight, halted, cChannel,
                   providerChannel, pendingChanges, ccValidators,
                   heightValsetUpdateID, computed>>

\* A slash packet sent by the consumer times out: IBC closes the consumer end
\* of the ordered channel; OnTimeoutPacket of the consumer changes no state.
SlashPacketTimeout ==
    /\ cChannel = "OPEN" /\ providerChannel /\ ~halted
    /\ pendingPackets # <<>>
    /\ cChannel' = "CLOSED"
    /\ UNCHANGED <<providerVars, inFlight, cHeight, halted, providerChannel,
                   pendingChanges, ccValidators, heightValsetUpdateID,
                   outstandingDowntime, pendingPackets, computed>>

\* OnChanCloseConfirm of the consumer after the provider end was closed: the
\* module does nothing, the chain keeps running with the validators it has.
ConsumerChanCloseConfirm ==
    /\ cChannel = "OPEN" /\ pChannel = "CLOSED" /\ ~halted
    /\ cChannel' = "CLOSED"
    /\ UNCHANGED <<providerVars, inFlight, cHeight, halted, providerChannel,
                   pendingChanges, ccValidators, heightValsetUpdateID,
                   outstandingDowntime, pendingPackets, computed>>

-----------------------------------------------------------------------------
ProviderStep ==
    \/ EndBlock
    \/ \E next \in ValSets : EndBlockEpoch(next)
    \/ EndBlockEpochStopped
    \/ OnChanOpenConfirm
    \/ OnChanCloseConfirm
    \/ OnTimeoutPacket
    \/ RemoveConsumer
    \/ ClientExpiryOrRecovery
    \/ \E v \in Keys : Tombstone(v)
    \/ OnRecvSlashPacket

ConsumerStep ==
    \/ OnChanOpenAck
    \/ OnRecvVSCPacket
    \/ ConsumerEndBlock
    \/ ConsumerHalt
    \/ \E v \in Keys, h \in 0..cHeight : SlashWithInfractionReason(v, h)
    \/ SlashPacketTimeout
    \/ ConsumerChanCloseConfirm

Next == ProviderStep \/ ConsumerStep

Spec == Init /\ [][Next]_vars

\* Blocks are produced on both chains, and a relayer delivers what it can.
\* Nothing is assumed of users, of clients or of timeouts.
Fairness ==
    /\ WF_vars(EndBlock \/ (\E next \in ValSets : EndBlockEpoch(next)) \/ EndBlockEpochStopped)
    /\ WF_vars(OnRecvVSCPacket)
    /\ WF_vars(ConsumerEndBlock \/ ConsumerHalt)

FairSpec == Spec /\ Fairness

-----------------------------------------------------------------------------
(* Properties *)

\* The consumer's validators at its current height are exactly the set the
\* provider computed for the vscID recorded for that height, and the updates
\* accumulated so far lead to the set of the vscID recorded for the next one
\* (OnRecvVSCPacket, BeginBlock and EndBlock of the consumer).
InForceSet ==
    /\ ccValidators = computed[heightValsetUpdateID[cHeight]]
    /\ ApplyChanges(ccValidators, pendingChanges) =
          computed[heightValsetUpdateID[cHeight + 1]]

\* No update is lost: with a live channel and nothing queued or in flight, the
\* consumer has, or is about to have, the set the provider stored for it
\* (SendVSCPacketsToChain deletes its queue only after sending all of it).
NoUpdateLost ==
    pChannel # "CLOSED" /\ inFlight = <<>> /\ pendingVSCs = <<>>
        => ApplyChanges(ccValidators, pendingChanges) = consumerValSet

\* Every slash packet that can reach the provider carries a vscID for which
\* the provider has a height, so that the error path of ValidateSlashPacket,
\* which closes the CCV channel, is never taken.
SlashPacketsMapped ==
    providerChannel =>
        \A i \in 1..Len(pendingPackets) : HeightMapped(pendingPackets[i].vscId)

\* The provider height to which vscID i is mapped lies in the epoch that
\* follows the computation of set i and precedes that of set i + 1, so a
\* slash is applied to the stake the set was computed from (EndBlockCIS runs
\* before EndBlockVSU).
MappedHeightInEpoch ==
    \A i \in 1..(valsetUpdateId - 1) :
        /\ i * BlocksPerEpoch < valsetUpdateBlockHeight[i]
        /\ valsetUpdateBlockHeight[i] <= (i + 1) * BlocksPerEpoch

\* Every slash packet is attributed, and to the right epoch: whatever the order of
\* handshake, epochs, packets and blocks, its vscID has a height on the provider,
\* and the heights lie in the epochs of their vscIDs (ValidateSlashPacket,
\* EndBlockCIS).
SlashesAttributable == SlashPacketsMapped /\ MappedHeightInEpoch

\* A validator with an outstanding downtime flag is still waiting for
\* something: a request on its way, an acknowledgement to be sent or on its
\* way.  Only tombstoned or unbonded validators and a closed channel may leave
\* a flag behind (QueueSlashPacket, AppendSlashAck, ConsumeSlashAcks,
\* OnRecvVSCPacket, ApplyCCValidatorChanges).
DowntimeAccounted ==
    pChannel # "CLOSED" /\ cChannel # "CLOSED" =>
        \A v \in outstandingDowntime \ tombstoned :
            \/ v \in slashAcks
            \/ \E i \in 1..Len(pendingPackets) : pendingPackets[i].val = v
            \/ \E i \in 1..Len(inFlight) : v \in inFlight[i].acks
            \/ \E i \in 1..Len(pendingVSCs) : v \in pendingVSCs[i].acks

\* The consumer chain halts only if the provider left it without validators:
\* the removal of a validator that joined and left within one block is never
\* forwarded to CometBFT (ApplyCCValidatorChanges).
HaltsOnlyOnEmptySet ==
    halted => EmptySet(ApplyChanges(ccValidators, pendingChanges))

\* The vscID of the last packet received by the consumer.
ReceivedVscId == heightValsetUpdateID[cHeight + 1]

\* Some packet queued or in flight carries a vscID in (j, k].
PacketBetween(j, k) ==
    \/ \E i \in 1..Len(inFlight) : j < inFlight[i].vscId /\ inFlight[i].vscId <= k
    \/ \E i \in 1..Len(pendingVSCs) :
          j < pendingVSCs[i].vscId /\ pendingVSCs[i].vscId <= k

\* A packet leads from the set of the epoch before its own to the set of its
\* own epoch, and has not been received.
PacketOK(packet) ==
    /\ ReceivedVscId < packet.vscId /\ packet.vscId < valsetUpdateId
    /\ ApplyChanges(computed[packet.vscId - 1], packet.updates) =
          computed[packet.vscId]

\* The vscIDs increase along the packets in flight and then those queued.
PacketsOrdered ==
    /\ \A i, j \in 1..Len(inFlight) : i < j => inFlight[i].vscId < inFlight[j].vscId
    /\ \A i, j \in 1..Len(pendingVSCs) :
          i < j => pendingVSCs[i].vscId < pendingVSCs[j].vscId
    /\ \A i \in 1..Len(inFlight), j \in 1..Len(pendingVSCs) :
          inFlight[i].vscId < pendingVSCs[j].vscId

\* While the channel is alive, the set changes between two epochs that the
\* consumer has not passed only if a packet for the change is under way.
NoGap ==
    pChannel # "CLOSED" =>
        \A j, k \in 0..(valsetUpdateId - 1) :
            ReceivedVscId <= j /\ j <= k /\ ~PacketBetween(j, k)
                => computed[j] = computed[k]

\* The inductive invariant behind InForceSet and NoUpdateLost: the packets
\* under way are an ordered chain of differences, without a gap, from the set
\* the consumer last received to the set the provider stored
\* (QueueVSCPackets, SendVSCPackets, OnRecvVSCPacket).
ChainInv ==
    /\ InForceSet
    /\ heightValsetUpdateID[cHeight] <= ReceivedVscId
    /\ ReceivedVscId < valsetUpdateId
    /\ consumerValSet = computed[valsetUpdateId - 1]
    /\ \A i \in 1..Len(inFlight) : PacketOK(inFlight[i])
    /\ \A i \in 1..Len(pendingVSCs) : PacketOK(pendingVSCs[i])
    /\ PacketsOrdered
    /\ NoGap
    /\ (pChannel = "CLOSED" /\ inFlight # <<>> => cChannel = "CLOSED")

\* The attribution of an infraction is never rewritten: the vscID of a height
\* that has been executed and the provider height of a superseded vscID are
\* final (BeginBlock and OnRecvVSCPacket write the next height only,
\* EndBlockCIS the current vscID only).
AttributionFrozen ==
    [][/\ \A h \in 0..cHeight : heightValsetUpdateID'[h] = heightValsetUpdateID[h]
       /\ \A i \in 1..(valsetUpdateId - 1) :
             valsetUpdateBlockHeight'[i] = valsetUpdateBlockHeight[i]]_vars

\* The sub-protocol implements the replication of validator sets: the
\* consumer only ever moves forward through the sets the provider computed.
Replication ==
    INSTANCE ValsetReplication WITH
        published <- computed,
        latest    <- valsetUpdateId - 1,
        inForce   <- heightValsetUpdateID[cHeight],
        valset    <- ccValidators

\* See Replication: the abstract specification as a property.
ImplementsReplication == Replication!Spec

\* A VSC packet queued while the channel is open is eventually applied by the
\* consumer, unless the client expires, the channel closes, or the consumer
\* halts or is stopped first.  The last epoch of the bounded model sends what
\* was queued before it.
Interrupted ==
    ~clientActive \/ pChannel = "CLOSED" \/ cChannel = "CLOSED" \/ halted
        \/ phase = "STOPPED"

\* See above.
QueuedIsApplied ==
    \A id \in VscIds :
        (/\ pChannel = "OPEN"
         /\ \/ \E i \in 1..Len(inFlight) : inFlight[i].vscId = id
            \/ /\ \E i \in 1..Len(pendingVSCs) : pendingVSCs[i].vscId = id
               /\ valsetUpdateId <= MaxVscId)
        ~> (heightValsetUpdateID[cHeight] >= id \/ Interrupted)
=============================================================================
