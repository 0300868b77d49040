------------------------- MODULE ValsetUpdateProofs -------------------------
(***************************************************************************)
(* Type correctness of the Validator Set Update sub-protocol, the chain of *)
(* differences between provider and consumer, and the refinement of        *)
(* ValsetReplication, for any keys, powers, epoch length and bounds.       *)
(***************************************************************************)
EXTENDS ValsetUpdate, SequenceTheorems, TLAPS

-----------------------------------------------------------------------------
(* Update lists. *)

\* DiffValidators, AccumulateChanges and ApplyCCValidatorChanges yield update
\* lists and validator sets again.
LEMMA UpdatesTyping ==
    /\ NoUpdates \in Updates
    /\ \A cur, next \in ValSets : DiffValidators(cur, next) \in Updates
    /\ \A u, w \in Updates : AccumulateChanges(u, w) \in Updates
    /\ \A vals \in ValSets, u \in Updates : ApplyChanges(vals, u) \in ValSets
  <1>1. NoUpdates \in [{} -> Powers]
    BY DEF NoUpdates
  <1>2. ASSUME NEW cur \in ValSets, NEW next \in ValSets
        PROVE  DiffValidators(cur, next) \in Updates
    <2>1. DiffDomain(cur, next) \in SUBSET Keys
      BY DEF DiffDomain
    <2>2. DiffValidators(cur, next) \in [DiffDomain(cur, next) -> Powers]
      BY DEF DiffValidators, DiffDomain, ValSets
    <2> QED BY <2>1, <2>2 DEF Updates
  <1>3. ASSUME NEW u \in Updates, NEW w \in Updates
        PROVE  AccumulateChanges(u, w) \in Updates
    <2>1. PICK D \in SUBSET Keys : u \in [D -> Powers]
      BY DEF Updates
    <2>2. PICK E \in SUBSET Keys : w \in [E -> Powers]
      BY DEF Updates
    <2>3. AccumulateChanges(u, w) \in [D \cup E -> Powers]
      BY <2>1, <2>2 DEF AccumulateChanges
    <2>4. D \cup E \in SUBSET Keys
      BY <2>1, <2>2
    <2> QED BY <2>3, <2>4 DEF Updates
  <1>4. ASSUME NEW vals \in ValSets, NEW u \in Updates
        PROVE  ApplyChanges(vals, u) \in ValSets
    <2>1. PICK D \in SUBSET Keys : u \in [D -> Powers]
      BY DEF Updates
    <2> QED BY <2>1 DEF ApplyChanges, ValSets
  <1>5. NoUpdates \in Updates
    <2>1. {} \in SUBSET Keys
      OBVIOUS
    <2> QED BY <1>1, <2>1 DEF Updates
  <1> QED BY <1>2, <1>3, <1>4, <1>5

\* Applying the difference of two sets to the first yields the second: a VSC
\* packet takes a consumer from the old set to the new one.
LEMMA ApplyDiff ==
    ASSUME NEW cur \in ValSets, NEW next \in ValSets
    PROVE  ApplyChanges(cur, DiffValidators(cur, next)) = next
  <1>1. \A k \in Keys : ApplyChanges(cur, DiffValidators(cur, next))[k] = next[k]
    BY DEF ApplyChanges, DiffValidators, DiffDomain, ValSets
  <1> QED BY <1>1 DEF ApplyChanges, ValSets

\* Applying accumulated changes is applying one list after the other: the
\* consumer may receive several VSC packets in one block.
LEMMA ApplyAccumulated ==
    ASSUME NEW vals \in ValSets, NEW u \in Updates, NEW w \in Updates
    PROVE  ApplyChanges(vals, AccumulateChanges(u, w))
                = ApplyChanges(ApplyChanges(vals, u), w)
  <1>1. (DOMAIN u) \subseteq Keys /\ (DOMAIN w) \subseteq Keys
    BY DEF Updates
  <1> QED BY <1>1 DEF ApplyChanges, AccumulateChanges

\* The empty list changes nothing.
LEMMA ApplyNothing ==
    ASSUME NEW vals \in ValSets
    PROVE  ApplyChanges(vals, NoUpdates) = vals
  BY DEF ApplyChanges, NoUpdates, ValSets

\* A difference without entries means equal sets: no packet is queued in that
\* case.
LEMMA EmptyDiff ==
    ASSUME NEW cur \in ValSets, NEW next \in ValSets
    PROVE  DOMAIN DiffValidators(cur, next) = {} <=> next = cur
  <1>1. DOMAIN DiffValidators(cur, next) = {k \in Keys : cur[k] # next[k]}
    BY DEF DiffValidators, DiffDomain
  <1>2. (\A k \in Keys : cur[k] = next[k]) => next = cur
    BY DEF ValSets
  <1> QED BY <1>1, <1>2

-----------------------------------------------------------------------------
(* The queue of QueueVSCPackets. *)

\* QueueVSCPackets leaves the queue as it is when the set does not change, and
\* otherwise appends one packet with the difference and the current vscID.
LEMMA QueuedVSCsCases ==
    ASSUME TypeOK, NEW next \in ValSets, valsetUpdateId <= MaxVscId
    PROVE  /\ QueuedVSCs(next) \in Seq(VSCPackets)
           /\ \/ /\ next = consumerValSet
                 /\ QueuedVSCs(next) = pendingVSCs
              \/ /\ next # consumerValSet
                 /\ Len(QueuedVSCs(next)) = Len(pendingVSCs) + 1
                 /\ \A i \in 1..Len(pendingVSCs) : QueuedVSCs(next)[i] = pendingVSCs[i]
                 /\ QueuedVSCs(next)[Len(pendingVSCs) + 1].vscId = valsetUpdateId
                 /\ QueuedVSCs(next)[Len(pendingVSCs) + 1].updates
                        = DiffValidators(consumerValSet, next)
  <1> DEFINE new == [updates |-> DiffValidators(consumerValSet, next),
                     vscId |-> valsetUpdateId, acks |-> slashAcks]
  <1>1. consumerValSet \in ValSets /\ pendingVSCs \in Seq(VSCPackets)
    BY DEF TypeOK
  <1>2. new \in VSCPackets
    <2>1. DiffValidators(consumerValSet, next) \in Updates
      BY <1>1, UpdatesTyping
    <2>2. valsetUpdateId \in VscIds
      BY BoundsAssumption DEF TypeOK, VscIds
    <2>3. slashAcks \in SUBSET Keys
      BY DEF TypeOK
    <2> QED BY <2>1, <2>2, <2>3 DEF VSCPackets
  <1>3. DOMAIN DiffValidators(consumerValSet, next) = {} <=> next = consumerValSet
    BY <1>1, EmptyDiff
  <1>4. CASE next = consumerValSet
    BY <1>1, <1>3, <1>4 DEF QueuedVSCs
  <1>5. CASE next # consumerValSet
    <2>1. QueuedVSCs(next) = Append(pendingVSCs, new)
      BY <1>3, <1>5 DEF QueuedVSCs
    <2>2. /\ Append(pendingVSCs, new) \in Seq(VSCPackets)
          /\ Len(Append(pendingVSCs, new)) = Len(pendingVSCs) + 1
          /\ \A i \in 1..Len(pendingVSCs) : Append(pendingVSCs, new)[i] = pendingVSCs[i]
          /\ Append(pendingVSCs, new)[Len(pendingVSCs) + 1] = new
      <3> HIDE DEF new
      <3> QED BY <1>1, <1>2, AppendProperties
    <2>3. new.vscId = valsetUpdateId /\ new.updates = DiffValidators(consumerValSet, next)
      OBVIOUS
    <2> QED BY <1>5, <2>1, <2>2, <2>3
  <1> QED BY <1>4, <1>5

-----------------------------------------------------------------------------
(* Type correctness. *)

\* The initial state is well typed.
LEMMA InitTypeOK == Init => TypeOK
  <1> SUFFICES ASSUME Init PROVE TypeOK
    OBVIOUS
  <1>1. /\ pendingVSCs \in Seq(VSCPackets)
        /\ inFlight \in Seq(VSCPackets)
        /\ pendingPackets \in Seq(SlashPackets)
    BY EmptySeq DEF Init
  <1>2. pendingChanges \in Updates
    BY UpdatesTyping DEF Init
  <1>3. consumerValSet \in ValSets /\ ccValidators \in ValSets
    BY DEF Init
  <1>4. computed \in [0..MaxVscId -> ValSets]
    BY <1>3 DEF Init
  <1>5. /\ valsetUpdateBlockHeight \in [1..(MaxVscId + 1) -> Nat]
        /\ heightValsetUpdateID \in [0..(MaxHeight + 1) -> 0..MaxVscId]
    BY BoundsAssumption DEF Init
  <1>6. valsetUpdateId \in 1..(MaxVscId + 1) /\ cHeight \in 1..MaxHeight
    BY BoundsAssumption DEF Init
  <1>7. pChannel \in ChannelStates /\ cChannel \in ChannelStates
    BY DEF Init, ChannelStates
  <1>8. pHeight \in Nat \ {0} /\ phase \in {"LAUNCHED", "STOPPED"} /\ initChainHeight \in Nat
    BY DEF Init
  <1>9. slashAcks \subseteq Keys /\ tombstoned \subseteq Keys /\ outstandingDowntime \subseteq Keys
    BY DEF Init
  <1>10. clientActive \in BOOLEAN /\ halted \in BOOLEAN /\ providerChannel \in BOOLEAN
    BY DEF Init
  <1> QED BY <1>1, <1>2, <1>3, <1>4, <1>5, <1>6, <1>7, <1>8, <1>9, <1>10 DEF TypeOK

\* Every provider step preserves the types.
LEMMA ProviderTypeOK == TypeOK /\ ProviderStep => TypeOK'
  <1> SUFFICES ASSUME TypeOK, ProviderStep PROVE TypeOK'
    OBVIOUS
  <1> USE BoundsAssumption
  <1>1. CASE EndBlock
    <2>1. /\ valsetUpdateBlockHeight' \in [1..(MaxVscId + 1) -> Nat]
          /\ pHeight' \in Nat \ {0}
      BY <1>1 DEF EndBlock, EndBlockCIS, TypeOK
    <2> QED BY <1>1, <2>1 DEF EndBlock, TypeOK, consumerVars
  <1>2. ASSUME NEW next \in ValSets, EndBlockEpoch(next)
        PROVE  TypeOK'
    <2> DEFINE queue == QueuedVSCs(next)
    <2>1. queue \in Seq(VSCPackets)
      BY <1>2, QueuedVSCsCases DEF EndBlockEpoch
    <2>2. inFlight \o queue \in Seq(VSCPackets) /\ <<>> \in Seq(VSCPackets)
      BY <2>1, ConcatProperties, EmptySeq DEF TypeOK
    <2>3. /\ pendingVSCs' \in Seq(VSCPackets)
          /\ inFlight' \in Seq(VSCPackets)
          /\ phase' \in {"LAUNCHED", "STOPPED"}
      <3> HIDE DEF queue
      <3>1. SendVSCPackets(queue)
        BY <1>2 DEF EndBlockEpoch, queue
      <3> QED BY <2>1, <2>2, <3>1 DEF SendVSCPackets, TypeOK
    <2>4. slashAcks' \subseteq Keys
      BY <1>2 DEF EndBlockEpoch, TypeOK
    <2>5. /\ valsetUpdateId' \in 1..(MaxVscId + 1)
          /\ pHeight' \in Nat \ {0}
          /\ consumerValSet' \in ValSets
      BY <1>2 DEF EndBlockEpoch, TypeOK
    <2>6. valsetUpdateBlockHeight' \in [1..(MaxVscId + 1) -> Nat]
      BY <1>2 DEF EndBlockEpoch, EndBlockCIS, TypeOK
    <2>7. computed' \in [0..MaxVscId -> ValSets]
      BY <1>2 DEF EndBlockEpoch, TypeOK
    <2> QED BY <1>2, <2>3, <2>4, <2>5, <2>6, <2>7 DEF EndBlockEpoch, TypeOK, consumerVars
  <1>3. CASE EndBlockEpochStopped
    <2>1. pHeight' \in Nat \ {0} /\ valsetUpdateId' \in 1..(MaxVscId + 1)
      BY <1>3 DEF EndBlockEpochStopped, TypeOK
    <2>2. valsetUpdateBlockHeight' \in [1..(MaxVscId + 1) -> Nat]
      BY <1>3 DEF EndBlockEpochStopped, EndBlockCIS, TypeOK
    <2>3. computed' \in [0..MaxVscId -> ValSets]
      BY <1>3 DEF EndBlockEpochStopped, TypeOK
    <2> QED BY <1>3, <2>1, <2>2, <2>3 DEF EndBlockEpochStopped, TypeOK, consumerVars
  <1>4. CASE OnChanOpenConfirm
    BY <1>4 DEF OnChanOpenConfirm, TypeOK, consumerVars, ChannelStates
  <1>5. CASE OnChanCloseConfirm
    BY <1>5 DEF OnChanCloseConfirm, TypeOK, consumerVars, ChannelStates
  <1>6. CASE OnTimeoutPacket
    <2>1. <<>> \in Seq(VSCPackets)
      BY EmptySeq
    <2> QED BY <1>6, <2>1 DEF OnTimeoutPacket, TypeOK, consumerVars, ChannelStates
  <1>7. CASE RemoveConsumer
    BY <1>7 DEF RemoveConsumer, TypeOK, consumerVars
  <1>8. CASE ClientExpiryOrRecovery
    BY <1>8 DEF ClientExpiryOrRecovery, TypeOK, consumerVars
  <1>9. ASSUME NEW v \in Keys, Tombstone(v)
        PROVE  TypeOK'
    BY <1>9 DEF Tombstone, TypeOK, consumerVars
  <1>10. CASE OnRecvSlashPacket
    <2>1. Tail(pendingPackets) \in Seq(SlashPackets) /\ Head(pendingPackets) \in SlashPackets
      BY <1>10, HeadTailProperties DEF OnRecvSlashPacket, TypeOK
    <2>2. AckedBy(Head(pendingPackets)) \subseteq Keys
      BY <2>1 DEF AckedBy, SlashPackets
    <2>3. /\ slashAcks' \subseteq Keys
          /\ pendingPackets' \in Seq(SlashPackets)
          /\ cChannel' \in ChannelStates
      BY <1>10, <2>1, <2>2 DEF OnRecvSlashPacket, TypeOK, ChannelStates
    <2> QED BY <1>10, <2>3 DEF OnRecvSlashPacket, TypeOK
  <1> QED BY <1>1, <1>2, <1>3, <1>4, <1>5, <1>6, <1>7, <1>8, <1>9, <1>10 DEF ProviderStep

\* Every consumer step preserves the types.
LEMMA ConsumerTypeOK == TypeOK /\ ConsumerStep => TypeOK'
  <1> SUFFICES ASSUME TypeOK, ConsumerStep PROVE TypeOK'
    OBVIOUS
  <1> USE BoundsAssumption
  <1>1. CASE OnChanOpenAck
    BY <1>1 DEF OnChanOpenAck, TypeOK, providerVars, ChannelStates
  <1>2. CASE OnRecvVSCPacket
    <2>1. Head(inFlight) \in VSCPackets /\ Tail(inFlight) \in Seq(VSCPackets)
      BY <1>2, HeadTailProperties DEF OnRecvVSCPacket, TypeOK
    <2>2. pendingChanges' \in Updates
      BY <1>2, <2>1, UpdatesTyping DEF OnRecvVSCPacket, TypeOK, VSCPackets
    <2>3. Head(inFlight).vscId \in 0..MaxVscId
      BY <2>1 DEF VSCPackets, VscIds
    <2>4. heightValsetUpdateID' \in [0..(MaxHeight + 1) -> 0..MaxVscId]
      BY <1>2, <2>3 DEF OnRecvVSCPacket, TypeOK
    <2>5. outstandingDowntime' \subseteq Keys
      BY <1>2 DEF OnRecvVSCPacket, TypeOK
    <2> QED BY <1>2, <2>1, <2>2, <2>4, <2>5 DEF OnRecvVSCPacket, TypeOK, providerVars
  <1>3. CASE ConsumerEndBlock
    <2>1. ccValidators' \in ValSets /\ pendingChanges' \in Updates
      BY <1>3, UpdatesTyping DEF ConsumerEndBlock, TypeOK
    <2>2. cHeight' \in 1..MaxHeight
      BY <1>3 DEF ConsumerEndBlock, RoomForBlock, TypeOK
    <2>3. heightValsetUpdateID' \in [0..(MaxHeight + 1) -> 0..MaxVscId]
      BY <1>3 DEF ConsumerEndBlock, RoomForBlock, TypeOK
    <2>4. outstandingDowntime' \subseteq Keys
      BY <1>3 DEF ConsumerEndBlock, TypeOK
    <2> QED BY <1>3, <2>1, <2>2, <2>3, <2>4 DEF ConsumerEndBlock, TypeOK, providerVars
  <1>4. CASE ConsumerHalt
    BY <1>4 DEF ConsumerHalt, TypeOK, providerVars
  <1>5. ASSUME NEW v \in Keys, NEW h \in 0..cHeight, SlashWithInfractionReason(v, h)
        PROVE  TypeOK'
    <2>1. [val |-> v, vscId |-> heightValsetUpdateID[h]] \in SlashPackets
      BY DEF TypeOK, SlashPackets
    <2>2. pendingPackets' \in Seq(SlashPackets)
      BY <1>5, <2>1, AppendProperties DEF SlashWithInfractionReason, TypeOK
    <2> QED BY <1>5, <2>2 DEF SlashWithInfractionReason, TypeOK, providerVars
  <1>6. CASE SlashPacketTimeout
    BY <1>6 DEF SlashPacketTimeout, TypeOK, providerVars, ChannelStates
  <1>7. CASE ConsumerChanCloseConfirm
    BY <1>7 DEF ConsumerChanCloseConfirm, TypeOK, providerVars, ChannelStates
  <1> QED BY <1>1, <1>2, <1>3, <1>4, <1>5, <1>6, <1>7 DEF ConsumerStep

\* Type correctness of the sub-protocol: every variable keeps its type in
\* every reachable state, for any bounds.
THEOREM TypeCorrect == Spec => []TypeOK
  <1>1. TypeOK /\ UNCHANGED vars => TypeOK'
    BY DEF vars, providerVars, consumerVars, TypeOK
  <1>2. TypeOK /\ [Next]_vars => TypeOK'
    BY <1>1, ProviderTypeOK, ConsumerTypeOK DEF Next
  <1> QED BY InitTypeOK, <1>2, PTL DEF Spec

-----------------------------------------------------------------------------
(* The chain of differences. *)

\* Initially there is nothing under way and both chains have the same set.
LEMMA InitChain == Init => ChainInv
  <1> SUFFICES ASSUME Init PROVE ChainInv
    OBVIOUS
  <1> USE BoundsAssumption
  <1>1. consumerValSet \in ValSets
    BY DEF Init
  <1>2. cHeight = 1 /\ heightValsetUpdateID[1] = 0 /\ heightValsetUpdateID[2] = 0
    BY DEF Init
  <1>3. computed[0] = consumerValSet
    BY DEF Init
  <1>4. ApplyChanges(ccValidators, pendingChanges) = consumerValSet
    BY <1>1, ApplyNothing DEF Init
  <1>5. InForceSet
    BY <1>2, <1>3, <1>4 DEF InForceSet, Init
  <1>6. Len(inFlight) = 0 /\ Len(pendingVSCs) = 0
    BY DEF Init
  <1>7. PacketsOrdered
    BY <1>6 DEF PacketsOrdered
  <1>8. NoGap
    BY <1>2 DEF NoGap, Init
  <1> QED BY <1>2, <1>3, <1>5, <1>6, <1>7, <1>8 DEF ChainInv, ReceivedVscId, Init

\* Steps that change only the ends of the channel: a closed provider end
\* weakens the invariant, provided nothing can be received any more.
LEMMA ChannelChain ==
    ASSUME ChainInv,
           UNCHANGED <<valsetUpdateId, consumerValSet, pendingVSCs, inFlight,
                       cHeight, pendingChanges, ccValidators,
                       heightValsetUpdateID, computed>>,
           pChannel = "CLOSED" => pChannel' = "CLOSED",
           (pChannel' = "CLOSED" /\ inFlight' # <<>>) => cChannel' = "CLOSED"
    PROVE  ChainInv'
  <1>1. ReceivedVscId' = ReceivedVscId /\ InForceSet' /\ PacketsOrdered'
    BY DEF ReceivedVscId, InForceSet, PacketsOrdered, ChainInv
  <1>2. /\ \A i \in 1..Len(inFlight') : PacketOK(inFlight[i])'
        /\ \A i \in 1..Len(pendingVSCs') : PacketOK(pendingVSCs[i])'
    BY <1>1 DEF ChainInv, PacketOK
  <1>3. \A j, k : PacketBetween(j, k)' <=> PacketBetween(j, k)
    BY DEF PacketBetween
  <1>4. NoGap'
    BY <1>1, <1>3 DEF NoGap, ChainInv
  <1> QED BY <1>1, <1>2, <1>4 DEF ChainInv

\* A new epoch of a launched consumer extends the chain at its end.
LEMMA EpochChain ==
    ASSUME TypeOK, ChainInv, NEW next \in ValSets, EndBlockEpoch(next)
    PROVE  ChainInv'
  <1> USE BoundsAssumption
  <1>0. valsetUpdateId \in Nat
    BY DEF TypeOK
  <1> PICK u \in Nat : u = valsetUpdateId
    BY <1>0
  <1> PICK Q : Q = QueuedVSCs(next)
    OBVIOUS
  <1> PICK C : C = inFlight \o Q
    OBVIOUS
  <1> PICK r \in Nat : r = ReceivedVscId
    <2>1. heightValsetUpdateID[cHeight + 1] \in 0..MaxVscId
      BY DEF TypeOK
    <2> QED BY <2>1 DEF ReceivedVscId
  <1>1. /\ u \in 1..MaxVscId /\ valsetUpdateId' = u + 1
        /\ computed' = [computed EXCEPT ![u] = next]
        /\ computed \in [0..MaxVscId -> ValSets]
        /\ consumerValSet' = next /\ consumerValSet \in ValSets
        /\ UNCHANGED <<pChannel, cChannel, cHeight, pendingChanges,
                       ccValidators, heightValsetUpdateID>>
    BY DEF EndBlockEpoch, TypeOK, consumerVars
  <1>2. /\ ReceivedVscId' = r
        /\ heightValsetUpdateID[cHeight] \in 0..r
        /\ r < u
    <2>1. heightValsetUpdateID[cHeight] \in 0..MaxVscId
      BY DEF TypeOK
    <2>2. heightValsetUpdateID[cHeight] <= r /\ r < u
      BY DEF ChainInv
    <2>3. ReceivedVscId' = r
      BY <1>1 DEF ReceivedVscId
    <2> QED BY <2>1, <2>2, <2>3
  <1>3. /\ computed'[u] = next
        /\ \A i \in 0..(u - 1) : computed'[i] = computed[i]
        /\ computed[u - 1] = consumerValSet
    BY <1>1 DEF ChainInv
  <1>4. InForceSet'
    <2>1. /\ ccValidators = computed[heightValsetUpdateID[cHeight]]
          /\ ApplyChanges(ccValidators, pendingChanges) = computed[r]
      BY DEF InForceSet, ChainInv, ReceivedVscId
    <2>2. /\ computed'[heightValsetUpdateID[cHeight]] = computed[heightValsetUpdateID[cHeight]]
          /\ computed'[r] = computed[r]
      BY <1>1, <1>2, <1>3
    <2>3. heightValsetUpdateID'[cHeight' + 1] = r
      BY <1>2 DEF ReceivedVscId
    <2> QED BY <1>1, <2>1, <2>2, <2>3 DEF InForceSet, ApplyChanges
  <1>5. /\ inFlight \in Seq(VSCPackets) /\ pendingVSCs \in Seq(VSCPackets)
        /\ Q \in Seq(VSCPackets)
        /\ Len(inFlight) \in Nat /\ Len(pendingVSCs) \in Nat /\ Len(Q) \in Nat
    BY <1>1, QueuedVSCsCases, LenProperties DEF TypeOK
  <1>6. /\ \A i \in 1..Len(inFlight) : inFlight[i].vscId \in 1..MaxVscId
        /\ \A i \in 1..Len(pendingVSCs) : pendingVSCs[i].vscId \in 1..MaxVscId
        /\ \A i \in 1..Len(Q) : Q[i].vscId \in 1..MaxVscId
    <2>1. /\ \A i \in 1..Len(inFlight) : inFlight[i] \in VSCPackets
          /\ \A i \in 1..Len(pendingVSCs) : pendingVSCs[i] \in VSCPackets
          /\ \A i \in 1..Len(Q) : Q[i] \in VSCPackets
      BY <1>5, ElementOfSeq
    <2> QED BY <2>1 DEF VSCPackets, VscIds
  <1>7. ApplyChanges(consumerValSet, DiffValidators(consumerValSet, next)) = next
    BY <1>1, ApplyDiff
  \* What PacketOK' says of a packet.
  <1> DEFINE Good(packet) ==
                /\ r < packet.vscId /\ packet.vscId < u + 1
                /\ ApplyChanges(computed'[packet.vscId - 1], packet.updates)
                       = computed'[packet.vscId]
  <1>8. ASSUME NEW packet, packet.vscId \in 1..MaxVscId, PacketOK(packet)
        PROVE  Good(packet) /\ packet.vscId < u
    <2>1. packet.vscId \in 1..(u - 1) /\ packet.vscId - 1 \in 0..(u - 1)
      BY <1>1, <1>8 DEF PacketOK
    <2> QED BY <1>1, <1>3, <1>8, <2>1 DEF PacketOK
  <1>9. \/ next = consumerValSet /\ Q = pendingVSCs
        \/ /\ next # consumerValSet
           /\ Len(Q) = Len(pendingVSCs) + 1
           /\ \A i \in 1..Len(pendingVSCs) : Q[i] = pendingVSCs[i]
           /\ Q[Len(pendingVSCs) + 1].vscId = u
           /\ Q[Len(pendingVSCs) + 1].updates = DiffValidators(consumerValSet, next)
    BY <1>1, QueuedVSCsCases
  <1>10. \A i \in 1..Len(pendingVSCs) : Good(pendingVSCs[i]) /\ pendingVSCs[i].vscId < u
    BY <1>6, <1>8 DEF ChainInv
  <1>11. \A i \in 1..Len(inFlight) : Good(inFlight[i]) /\ inFlight[i].vscId < u
    BY <1>6, <1>8 DEF ChainInv
  <1>12. \A i \in 1..Len(Q) :
             \/ i \in 1..Len(pendingVSCs) /\ Q[i] = pendingVSCs[i]
             \/ /\ i = Len(pendingVSCs) + 1 /\ Q[i].vscId = u
                /\ Q[i].updates = DiffValidators(consumerValSet, next)
    BY <1>5, <1>9
  <1>13. \A i \in 1..Len(Q) : Good(Q[i])
    <2> SUFFICES ASSUME NEW i \in 1..Len(Q) PROVE Good(Q[i])
      OBVIOUS
    <2>1. CASE i \in 1..Len(pendingVSCs) /\ Q[i] = pendingVSCs[i]
      BY <1>10, <2>1
    <2>2. CASE Q[i].vscId = u /\ Q[i].updates = DiffValidators(consumerValSet, next)
      BY <1>1, <1>2, <1>3, <1>7, <2>2
    <2> QED BY <1>12, <2>1, <2>2
  <1>14. \A i, j \in 1..Len(Q) : i < j => Q[i].vscId < Q[j].vscId
    <2> SUFFICES ASSUME NEW i \in 1..Len(Q), NEW j \in 1..Len(Q), i < j
                 PROVE  Q[i].vscId < Q[j].vscId
      OBVIOUS
    <2>1. i \in 1..Len(pendingVSCs) /\ Q[i] = pendingVSCs[i]
      <3>1. j \in 1..(Len(pendingVSCs) + 1)
        BY <1>5, <1>12
      <3>2. i # Len(pendingVSCs) + 1
        BY <1>5, <3>1
      <3> QED BY <1>12, <3>2
    <2>2. CASE j \in 1..Len(pendingVSCs) /\ Q[j] = pendingVSCs[j]
      BY <2>1, <2>2 DEF ChainInv, PacketsOrdered
    <2>3. CASE Q[j].vscId = u
      BY <1>10, <2>1, <2>3
    <2> QED BY <1>12, <2>2, <2>3
  <1>15. \A i \in 1..Len(inFlight), j \in 1..Len(Q) : inFlight[i].vscId < Q[j].vscId
    <2> SUFFICES ASSUME NEW i \in 1..Len(inFlight), NEW j \in 1..Len(Q)
                 PROVE  inFlight[i].vscId < Q[j].vscId
      OBVIOUS
    <2>1. CASE j \in 1..Len(pendingVSCs) /\ Q[j] = pendingVSCs[j]
      BY <2>1 DEF ChainInv, PacketsOrdered
    <2>2. CASE Q[j].vscId = u
      BY <1>11, <2>2
    <2> QED BY <1>12, <2>1, <2>2
  <1>16. \A i \in 1..Len(pendingVSCs) : i \in 1..Len(Q) /\ Q[i] = pendingVSCs[i]
    BY <1>5, <1>9
  <1>17. next # consumerValSet => \E i \in 1..Len(Q) : Q[i].vscId = u
    <2>1. next # consumerValSet =>
             Len(pendingVSCs) + 1 \in 1..Len(Q) /\ Q[Len(pendingVSCs) + 1].vscId = u
      BY <1>5, <1>9
    <2> QED BY <2>1
  <1>18. /\ Len(C) = Len(inFlight) + Len(Q)
         /\ \A i \in 1..Len(C) :
               \/ i \in 1..Len(inFlight) /\ C[i] = inFlight[i]
               \/ /\ i > Len(inFlight)
                  /\ i - Len(inFlight) \in 1..Len(Q)
                  /\ C[i] = Q[i - Len(inFlight)]
         /\ \A i \in 1..Len(inFlight) : i \in 1..Len(C) /\ C[i] = inFlight[i]
         /\ \A i \in 1..Len(Q) :
               Len(inFlight) + i \in 1..Len(C) /\ C[Len(inFlight) + i] = Q[i]
    <2>1. /\ Len(C) = Len(inFlight) + Len(Q)
          /\ \A i \in 1..Len(inFlight) + Len(Q) :
                C[i] = IF i <= Len(inFlight) THEN inFlight[i] ELSE Q[i - Len(inFlight)]
      BY <1>5, ConcatProperties
    <2>2. ASSUME NEW i \in 1..Len(C)
          PROVE  \/ i \in 1..Len(inFlight) /\ C[i] = inFlight[i]
                 \/ /\ i > Len(inFlight)
                    /\ i - Len(inFlight) \in 1..Len(Q)
                    /\ C[i] = Q[i - Len(inFlight)]
      BY <1>5, <2>1
    <2>3. ASSUME NEW i \in 1..Len(inFlight)
          PROVE  i \in 1..Len(C) /\ C[i] = inFlight[i]
      BY <1>5, <2>1
    <2>4. ASSUME NEW i \in 1..Len(Q)
          PROVE  Len(inFlight) + i \in 1..Len(C) /\ C[Len(inFlight) + i] = Q[i]
      <3>1. Len(inFlight) + i \in 1..Len(inFlight) + Len(Q)
        BY <1>5
      <3>2. ~(Len(inFlight) + i <= Len(inFlight)) /\ Len(inFlight) + i - Len(inFlight) = i
        BY <1>5
      <3> QED BY <2>1, <3>1, <3>2
    <2> QED BY <2>1, <2>2, <2>3, <2>4
  <1>19. \/ inFlight' = inFlight /\ pendingVSCs' = Q
         \/ inFlight' = C /\ pendingVSCs' = <<>> /\ pChannel = "OPEN"
    BY DEF EndBlockEpoch, SendVSCPackets
  <1>20. ASSUME NEW packet, Good(packet) PROVE PacketOK(packet)'
    BY <1>1, <1>2, <1>20 DEF PacketOK, ApplyChanges
  <1>21. /\ \A i \in 1..Len(inFlight') : PacketOK(inFlight[i])'
         /\ \A i \in 1..Len(pendingVSCs') : PacketOK(pendingVSCs[i])'
    <2> HIDE DEF Good
    <2>1. /\ \A i \in 1..Len(inFlight') : Good(inFlight'[i])
          /\ \A i \in 1..Len(pendingVSCs') : Good(pendingVSCs'[i])
      <3>1. CASE inFlight' = inFlight /\ pendingVSCs' = Q
        BY <1>11, <1>13, <3>1
      <3>2. CASE inFlight' = C /\ pendingVSCs' = <<>>
        <4>1. Len(pendingVSCs') = 0
          BY <3>2
        <4>2. \A i \in 1..Len(C) : Good(C[i])
          BY <1>11, <1>13, <1>18
        <4> QED BY <3>2, <4>1, <4>2
      <3> QED BY <1>19, <3>1, <3>2
    <2>2. ASSUME NEW i \in 1..Len(inFlight') PROVE PacketOK(inFlight[i])'
      <3> PICK p : p = inFlight'[i]
        OBVIOUS
      <3>1. PacketOK(p)'
        BY <1>20, <2>1
      <3> QED BY <3>1 DEF PacketOK
    <2>3. ASSUME NEW i \in 1..Len(pendingVSCs') PROVE PacketOK(pendingVSCs[i])'
      <3> PICK p : p = pendingVSCs'[i]
        OBVIOUS
      <3>1. PacketOK(p)'
        BY <1>20, <2>1
      <3> QED BY <3>1 DEF PacketOK
    <2> QED BY <2>2, <2>3
  <1>22. PacketsOrdered'
    <2>1. CASE inFlight' = inFlight /\ pendingVSCs' = Q
      BY <1>14, <1>15, <2>1 DEF PacketsOrdered, ChainInv
    <2>2. CASE inFlight' = C /\ pendingVSCs' = <<>>
      <3>1. Len(pendingVSCs') = 0
        BY <2>2
      <3>2. ASSUME NEW i \in 1..Len(C), NEW j \in 1..Len(C), i < j
            PROVE  C[i].vscId < C[j].vscId
        <4> DEFINE n == Len(inFlight)
        <4>1. CASE i \in 1..n /\ C[i] = inFlight[i] /\ j \in 1..n /\ C[j] = inFlight[j]
          BY <3>2, <4>1 DEF PacketsOrdered, ChainInv
        <4>2. CASE /\ i \in 1..n /\ C[i] = inFlight[i]
                   /\ j - n \in 1..Len(Q) /\ C[j] = Q[j - n]
          BY <1>15, <4>2
        <4>3. CASE /\ i - n \in 1..Len(Q) /\ C[i] = Q[i - n]
                   /\ j - n \in 1..Len(Q) /\ C[j] = Q[j - n]
          <5>1. i - n < j - n
            BY <1>5, <1>18, <3>2
          <5> QED BY <1>14, <4>3, <5>1
        <4>4. ~(i > n /\ j \in 1..n)
          BY <1>5, <1>18, <3>2
        <4> QED BY <1>18, <4>1, <4>2, <4>3, <4>4
      <3> QED BY <2>2, <3>1, <3>2 DEF PacketsOrdered
    <2> QED BY <1>19, <2>1, <2>2
  <1>23. ASSUME NEW j \in 0..u, NEW k \in 0..u, PacketBetween(j, k)
         PROVE  PacketBetween(j, k)'
    <2>1. CASE inFlight' = inFlight /\ pendingVSCs' = Q
      BY <1>16, <1>23, <2>1 DEF PacketBetween
    <2>2. CASE inFlight' = C /\ pendingVSCs' = <<>>
      <3>1. CASE \E i \in 1..Len(inFlight) : j < inFlight[i].vscId /\ inFlight[i].vscId <= k
        BY <1>18, <2>2, <3>1 DEF PacketBetween
      <3>2. CASE \E i \in 1..Len(pendingVSCs) :
                    j < pendingVSCs[i].vscId /\ pendingVSCs[i].vscId <= k
        <4>1. PICK i \in 1..Len(Q) : j < Q[i].vscId /\ Q[i].vscId <= k
          BY <1>16, <3>2
        <4>2. Len(inFlight) + i \in 1..Len(C) /\ C[Len(inFlight) + i] = Q[i]
          BY <1>18
        <4>3. \E m \in 1..Len(C) : j < C[m].vscId /\ C[m].vscId <= k
          BY <4>1, <4>2
        <4> QED BY <2>2, <4>3 DEF PacketBetween
      <3> QED BY <1>23, <3>1, <3>2 DEF PacketBetween
    <2> QED BY <1>19, <2>1, <2>2
  <1>24. ASSUME NEW j \in 0..u, j < u, next # consumerValSet
         PROVE  PacketBetween(j, u)'
    <2>1. PICK i \in 1..Len(Q) : Q[i].vscId = u
      BY <1>17, <1>24
    <2>2. CASE inFlight' = inFlight /\ pendingVSCs' = Q
      <3>1. \E m \in 1..Len(Q) : j < Q[m].vscId /\ Q[m].vscId <= u
        BY <1>1, <1>24, <2>1
      <3> QED BY <2>2, <3>1 DEF PacketBetween
    <2>3. CASE inFlight' = C /\ pendingVSCs' = <<>>
      <3>1. Len(inFlight) + i \in 1..Len(C) /\ C[Len(inFlight) + i].vscId = u
        BY <1>18, <2>1
      <3>2. \E m \in 1..Len(C) : j < C[m].vscId /\ C[m].vscId <= u
        <4>1. j < C[Len(inFlight) + i].vscId /\ C[Len(inFlight) + i].vscId <= u
          BY <1>1, <1>24, <3>1
        <4> QED BY <3>1, <4>1
      <3> QED BY <2>3, <3>2 DEF PacketBetween
    <2> QED BY <1>19, <2>2, <2>3
  <1>25. NoGap'
    <2> SUFFICES ASSUME pChannel # "CLOSED",
                        NEW j \in 0..u, NEW k \in 0..u,
                        r <= j, j <= k, ~PacketBetween(j, k)'
                 PROVE  computed'[j] = computed'[k]
      BY <1>1, <1>2 DEF NoGap
    <2>1. ASSUME NEW m \in 0..(u - 1), j <= m, m <= k
          PROVE  computed[j] = computed[m]
      <3>1. ~PacketBetween(j, k)
        BY <1>23
      <3>2. ~PacketBetween(j, m)
        BY <1>1, <1>6, <2>1, <3>1 DEF PacketBetween
      <3>3. j \in 0..(u - 1)
        BY <1>1, <2>1
      <3> QED BY <2>1, <3>2, <3>3 DEF ChainInv, NoGap
    <2>2. CASE k < u
      BY <1>1, <1>3, <2>1, <2>2
    <2>3. CASE k = u /\ j = u
      BY <2>3
    <2>4. CASE k = u /\ j < u
      <3>1. next = consumerValSet
        BY <1>24, <2>4
      <3>2. computed[j] = computed[u - 1]
        BY <1>1, <2>1, <2>4
      <3> QED BY <1>1, <1>3, <2>4, <3>1, <3>2
    <2> QED BY <1>1, <2>2, <2>3, <2>4
  <1>26. (pChannel' = "CLOSED" /\ inFlight' # <<>>) => cChannel' = "CLOSED"
    BY <1>1, <1>19 DEF ChainInv
  <1>27. /\ heightValsetUpdateID'[cHeight'] <= ReceivedVscId'
         /\ ReceivedVscId' < valsetUpdateId'
         /\ consumerValSet' = computed'[valsetUpdateId' - 1]
    BY <1>1, <1>2, <1>3 DEF ChainInv
  <1> QED BY <1>4, <1>21, <1>22, <1>25, <1>26, <1>27 DEF ChainInv

\* A new epoch of a stopped consumer repeats the last set.
LEMMA StoppedChain ==
    ASSUME TypeOK, ChainInv, EndBlockEpochStopped
    PROVE  ChainInv'
  <1> USE BoundsAssumption
  <1>0. valsetUpdateId \in Nat /\ ReceivedVscId \in 0..MaxVscId
    BY DEF TypeOK, ReceivedVscId
  <1> PICK u \in Nat : u = valsetUpdateId
    BY <1>0
  <1> PICK r \in Nat : r = ReceivedVscId
    BY <1>0
  <1>1. /\ u \in 1..MaxVscId /\ valsetUpdateId' = u + 1
        /\ computed' = [computed EXCEPT ![u] = consumerValSet]
        /\ computed \in [0..MaxVscId -> ValSets]
        /\ UNCHANGED <<pChannel, cChannel, cHeight, pendingChanges, inFlight,
                       pendingVSCs, consumerValSet, ccValidators,
                       heightValsetUpdateID>>
    BY DEF EndBlockEpochStopped, TypeOK, consumerVars
  <1>2. /\ ReceivedVscId' = r
        /\ heightValsetUpdateID[cHeight] \in 0..r
        /\ r < u
    <2>1. heightValsetUpdateID[cHeight] \in 0..MaxVscId
      BY DEF TypeOK
    <2>2. heightValsetUpdateID[cHeight] <= r /\ r < u
      BY DEF ChainInv
    <2>3. ReceivedVscId' = r
      BY <1>1 DEF ReceivedVscId
    <2> QED BY <2>1, <2>2, <2>3
  <1>3. /\ computed'[u] = consumerValSet
        /\ \A i \in 0..(u - 1) : computed'[i] = computed[i]
        /\ computed[u - 1] = consumerValSet
    BY <1>1 DEF ChainInv
  <1>4. InForceSet'
    <2>1. /\ ccValidators = computed[heightValsetUpdateID[cHeight]]
          /\ ApplyChanges(ccValidators, pendingChanges) = computed[r]
      BY DEF InForceSet, ChainInv, ReceivedVscId
    <2>2. /\ computed'[heightValsetUpdateID[cHeight]] = computed[heightValsetUpdateID[cHeight]]
          /\ computed'[r] = computed[r]
      BY <1>1, <1>2, <1>3
    <2>3. heightValsetUpdateID'[cHeight' + 1] = r
      BY <1>2 DEF ReceivedVscId
    <2> QED BY <1>1, <2>1, <2>2, <2>3 DEF InForceSet, ApplyChanges
  <1>5. /\ \A i \in 1..Len(inFlight) : inFlight[i].vscId \in 1..MaxVscId
        /\ \A i \in 1..Len(pendingVSCs) : pendingVSCs[i].vscId \in 1..MaxVscId
    <2>1. /\ \A i \in 1..Len(inFlight) : inFlight[i] \in VSCPackets
          /\ \A i \in 1..Len(pendingVSCs) : pendingVSCs[i] \in VSCPackets
      BY ElementOfSeq DEF TypeOK
    <2> QED BY <2>1 DEF VSCPackets, VscIds
  <1>6. ASSUME NEW packet, packet.vscId \in 1..MaxVscId, PacketOK(packet)
        PROVE  PacketOK(packet)'
    <2>1. packet.vscId \in 1..(u - 1) /\ packet.vscId - 1 \in 0..(u - 1)
      BY <1>1, <1>6 DEF PacketOK
    <2> QED BY <1>1, <1>2, <1>3, <1>6, <2>1 DEF PacketOK, ApplyChanges
  <1>7. /\ \A i \in 1..Len(inFlight') : PacketOK(inFlight[i])'
        /\ \A i \in 1..Len(pendingVSCs') : PacketOK(pendingVSCs[i])'
    <2>1. ASSUME NEW i \in 1..Len(inFlight) PROVE PacketOK(inFlight[i])'
      <3> PICK p : p = inFlight[i]
        OBVIOUS
      <3>1. PacketOK(p)'
        BY <1>5, <1>6 DEF ChainInv
      <3> QED BY <1>1, <3>1 DEF PacketOK
    <2>2. ASSUME NEW i \in 1..Len(pendingVSCs) PROVE PacketOK(pendingVSCs[i])'
      <3> PICK p : p = pendingVSCs[i]
        OBVIOUS
      <3>1. PacketOK(p)'
        BY <1>5, <1>6 DEF ChainInv
      <3> QED BY <1>1, <3>1 DEF PacketOK
    <2> QED BY <1>1, <2>1, <2>2
  <1>8. PacketsOrdered'
    BY <1>1 DEF PacketsOrdered, ChainInv
  <1>9. \A j, k : PacketBetween(j, k)' <=> PacketBetween(j, k)
    BY <1>1 DEF PacketBetween
  <1>10. NoGap'
    <2> SUFFICES ASSUME pChannel # "CLOSED",
                        NEW j \in 0..u, NEW k \in 0..u,
                        r <= j, j <= k, ~PacketBetween(j, k)'
                 PROVE  computed'[j] = computed'[k]
      BY <1>1, <1>2 DEF NoGap
    <2>1. ASSUME NEW m \in 0..(u - 1), j <= m, m <= k
          PROVE  computed[j] = computed[m]
      <3>1. ~PacketBetween(j, m)
        BY <1>1, <1>5, <1>9, <2>1 DEF PacketBetween
      <3>2. j \in 0..(u - 1)
        BY <1>1, <2>1
      <3> QED BY <2>1, <3>1, <3>2 DEF ChainInv, NoGap
    <2>2. CASE k < u
      BY <1>1, <1>3, <2>1, <2>2
    <2>3. CASE k = u /\ j = u
      BY <2>3
    <2>4. CASE k = u /\ j < u
      <3>1. computed[j] = computed[u - 1]
        BY <1>1, <2>1, <2>4
      <3> QED BY <1>1, <1>3, <2>4, <3>1
    <2> QED BY <1>1, <2>2, <2>3, <2>4
  <1>11. /\ heightValsetUpdateID'[cHeight'] <= ReceivedVscId'
         /\ ReceivedVscId' < valsetUpdateId'
         /\ consumerValSet' = computed'[valsetUpdateId' - 1]
         /\ (pChannel' = "CLOSED" /\ inFlight' # <<>>) => cChannel' = "CLOSED"
    BY <1>1, <1>2, <1>3 DEF ChainInv
  <1> QED BY <1>4, <1>7, <1>8, <1>10, <1>11 DEF ChainInv

\* Receiving a packet removes the first link of the chain.
LEMMA RecvChain ==
    ASSUME TypeOK, ChainInv, OnRecvVSCPacket
    PROVE  ChainInv'
  <1> USE BoundsAssumption
  <1>0. ReceivedVscId \in 0..MaxVscId
    BY DEF TypeOK, ReceivedVscId
  <1> PICK r \in Nat : r = ReceivedVscId
    BY <1>0
  <1> PICK p : p = Head(inFlight)
    OBVIOUS
  <1>1. /\ inFlight # <<>> /\ inFlight \in Seq(VSCPackets)
        /\ Len(inFlight) \in Nat \ {0}
        /\ inFlight' = Tail(inFlight)
        /\ p \in VSCPackets /\ p = inFlight[1]
        /\ Len(inFlight') = Len(inFlight) - 1
        /\ \A i \in 1..Len(inFlight') :
              i + 1 \in 1..Len(inFlight) /\ inFlight'[i] = inFlight[i + 1]
    <2>1. inFlight # <<>> /\ inFlight \in Seq(VSCPackets) /\ inFlight' = Tail(inFlight)
      BY DEF OnRecvVSCPacket, TypeOK
    <2>2. Len(inFlight) \in Nat \ {0}
      BY <2>1, LenProperties, EmptySeq
    <2>3. /\ p \in VSCPackets /\ p = inFlight[1]
          /\ Len(inFlight') = Len(inFlight) - 1
          /\ \A i \in 1..Len(inFlight') : inFlight'[i] = inFlight[i + 1]
      BY <2>1, HeadTailProperties
    <2> QED BY <2>1, <2>2, <2>3
  <1>2. p.vscId \in 1..MaxVscId /\ p.updates \in Updates
    BY <1>1 DEF VSCPackets, VscIds
  <1>3. /\ cHeight \in 1..MaxHeight
        /\ heightValsetUpdateID' = [heightValsetUpdateID EXCEPT ![cHeight + 1] = p.vscId]
        /\ heightValsetUpdateID \in [0..(MaxHeight + 1) -> 0..MaxVscId]
        /\ pendingChanges' = AccumulateChanges(pendingChanges, p.updates)
        /\ pendingChanges \in Updates /\ ccValidators \in ValSets
        /\ cChannel = "OPEN"
        /\ UNCHANGED <<pChannel, cChannel, cHeight, pendingVSCs, valsetUpdateId,
                       consumerValSet, ccValidators, computed>>
        /\ valsetUpdateId \in 1..(MaxVscId + 1)
    BY DEF OnRecvVSCPacket, TypeOK, providerVars
  <1>4. /\ ReceivedVscId' = p.vscId
        /\ heightValsetUpdateID'[cHeight] = heightValsetUpdateID[cHeight]
        /\ heightValsetUpdateID[cHeight] \in 0..r
        /\ pChannel # "CLOSED"
    <2>1. heightValsetUpdateID[cHeight] \in 0..MaxVscId
      BY <1>3
    <2>2. heightValsetUpdateID[cHeight] <= r
      BY DEF ChainInv
    <2> QED BY <1>1, <1>3, <2>1, <2>2 DEF ReceivedVscId, ChainInv
  <1>5. /\ r < p.vscId /\ p.vscId < valsetUpdateId
        /\ ApplyChanges(computed[p.vscId - 1], p.updates) = computed[p.vscId]
    <2>1. PacketOK(inFlight[1])
      BY <1>1 DEF ChainInv
    <2> QED BY <1>1, <2>1 DEF PacketOK
  <1>6. /\ \A i \in 1..Len(inFlight) : inFlight[i].vscId \in 1..MaxVscId
        /\ \A i \in 1..Len(pendingVSCs) : pendingVSCs[i].vscId \in 1..MaxVscId
    <2>1. /\ \A i \in 1..Len(inFlight) : inFlight[i] \in VSCPackets
          /\ \A i \in 1..Len(pendingVSCs) : pendingVSCs[i] \in VSCPackets
      BY ElementOfSeq DEF TypeOK
    <2> QED BY <2>1 DEF VSCPackets, VscIds
  \* Every other packet is newer than the first.
  <1>7. /\ \A i \in 1..Len(inFlight) : i = 1 \/ p.vscId < inFlight[i].vscId
        /\ \A i \in 1..Len(pendingVSCs) : p.vscId < pendingVSCs[i].vscId
    BY <1>1 DEF ChainInv, PacketsOrdered
  <1>8. computed[r] = computed[p.vscId - 1]
    <2>1. ~PacketBetween(r, p.vscId - 1)
      <3>1. ASSUME NEW i \in 1..Len(inFlight)
            PROVE  ~(inFlight[i].vscId <= p.vscId - 1)
        <4>1. inFlight[i].vscId \in Int /\ p.vscId \in Int
          BY <1>2, <1>6
        <4>2. p.vscId <= inFlight[i].vscId
          BY <1>1, <1>7, <4>1
        <4> QED BY <4>1, <4>2
      <3>2. ASSUME NEW i \in 1..Len(pendingVSCs)
            PROVE  ~(pendingVSCs[i].vscId <= p.vscId - 1)
        <4>1. pendingVSCs[i].vscId \in Int /\ p.vscId \in Int
          BY <1>2, <1>6
        <4> QED BY <1>7, <4>1
      <3> QED BY <3>1, <3>2 DEF PacketBetween
    <2>2. r \in 0..(valsetUpdateId - 1) /\ p.vscId - 1 \in 0..(valsetUpdateId - 1)
          /\ r <= p.vscId - 1
      BY <1>2, <1>3, <1>5
    <2> QED BY <1>4, <2>1, <2>2 DEF ChainInv, NoGap
  <1>9. InForceSet'
    <2>1. /\ ccValidators = computed[heightValsetUpdateID[cHeight]]
          /\ ApplyChanges(ccValidators, pendingChanges) = computed[r]
      BY DEF InForceSet, ChainInv, ReceivedVscId
    <2>2. ApplyChanges(ccValidators, AccumulateChanges(pendingChanges, p.updates))
             = computed[p.vscId]
      BY <1>2, <1>3, <1>5, <1>8, <2>1, ApplyAccumulated
    <2>3. heightValsetUpdateID'[cHeight' + 1] = p.vscId
      BY <1>4 DEF ReceivedVscId
    <2> QED BY <1>3, <1>4, <2>1, <2>2, <2>3 DEF InForceSet, ApplyChanges
  <1>10. ASSUME NEW packet, PacketOK(packet), p.vscId < packet.vscId
         PROVE  PacketOK(packet)'
    BY <1>3, <1>4, <1>10 DEF PacketOK, ApplyChanges
  <1>11. /\ \A i \in 1..Len(inFlight') : PacketOK(inFlight[i])'
         /\ \A i \in 1..Len(pendingVSCs') : PacketOK(pendingVSCs[i])'
    <2>1. ASSUME NEW i \in 1..Len(inFlight') PROVE PacketOK(inFlight[i])'
      <3> PICK q : q = inFlight'[i]
        OBVIOUS
      <3>1. i + 1 \in 1..Len(inFlight) /\ q = inFlight[i + 1] /\ i + 1 # 1
        BY <1>1
      <3>2. PacketOK(q) /\ p.vscId < q.vscId
        BY <1>7, <3>1 DEF ChainInv
      <3>3. PacketOK(q)'
        BY <1>10, <3>2
      <3> QED BY <3>3 DEF PacketOK
    <2>2. ASSUME NEW i \in 1..Len(pendingVSCs) PROVE PacketOK(pendingVSCs[i])'
      <3> PICK q : q = pendingVSCs[i]
        OBVIOUS
      <3>1. PacketOK(q)'
        BY <1>7, <1>10 DEF ChainInv
      <3> QED BY <1>3, <3>1 DEF PacketOK
    <2> QED BY <1>3, <2>1, <2>2
  <1>12. PacketsOrdered'
    <2>1. ASSUME NEW i \in 1..Len(inFlight'), NEW j \in 1..Len(inFlight'), i < j
          PROVE  inFlight'[i].vscId < inFlight'[j].vscId
      <3>1. i + 1 < j + 1
        BY <1>1, <2>1
      <3> QED BY <1>1, <3>1 DEF ChainInv, PacketsOrdered
    <2>2. ASSUME NEW i \in 1..Len(inFlight'), NEW j \in 1..Len(pendingVSCs)
          PROVE  inFlight'[i].vscId < pendingVSCs[j].vscId
      BY <1>1 DEF ChainInv, PacketsOrdered
    <2>3. \A i, j \in 1..Len(pendingVSCs) :
             i < j => pendingVSCs[i].vscId < pendingVSCs[j].vscId
      BY DEF ChainInv, PacketsOrdered
    <2> QED BY <1>3, <2>1, <2>2, <2>3 DEF PacketsOrdered
  <1>13. NoGap'
    <2> SUFFICES ASSUME NEW j \in 0..(valsetUpdateId - 1), NEW k \in 0..(valsetUpdateId - 1),
                        p.vscId <= j, j <= k, ~PacketBetween(j, k)'
                 PROVE  computed[j] = computed[k]
      BY <1>3, <1>4 DEF NoGap
    <2>1. ~PacketBetween(j, k)
      <3>1. ASSUME NEW i \in 1..Len(inFlight), j < inFlight[i].vscId, inFlight[i].vscId <= k
            PROVE  FALSE
        <4>1. i # 1
          BY <1>1, <1>2, <1>6, <3>1
        <4>2. i - 1 \in 1..Len(inFlight') /\ inFlight'[i - 1] = inFlight[i]
          BY <1>1, <4>1
        <4> QED BY <3>1, <4>2 DEF PacketBetween
      <3>2. ASSUME NEW i \in 1..Len(pendingVSCs),
                   j < pendingVSCs[i].vscId, pendingVSCs[i].vscId <= k
            PROVE  FALSE
        BY <1>3, <3>2 DEF PacketBetween
      <3> QED BY <3>1, <3>2 DEF PacketBetween
    <2>2. r <= j
      BY <1>2, <1>5
    <2> QED BY <1>4, <2>1, <2>2 DEF ChainInv, NoGap
  <1>14. heightValsetUpdateID'[cHeight'] <= ReceivedVscId'
    BY <1>2, <1>3, <1>4, <1>5
  <1>15. /\ ReceivedVscId' < valsetUpdateId'
         /\ consumerValSet' = computed'[valsetUpdateId' - 1]
         /\ (pChannel' = "CLOSED" /\ inFlight' # <<>>) => cChannel' = "CLOSED"
    BY <1>3, <1>4, <1>5 DEF ChainInv
  <1> QED BY <1>9, <1>11, <1>12, <1>13, <1>14, <1>15 DEF ChainInv

\* The end of a consumer block puts the accumulated changes in force.
LEMMA ConsumerBlockChain ==
    ASSUME TypeOK, ChainInv, ConsumerEndBlock
    PROVE  ChainInv'
  <1> USE BoundsAssumption
  <1>1. /\ cHeight \in 1..MaxHeight /\ cHeight < MaxHeight /\ cHeight' = cHeight + 1
        /\ heightValsetUpdateID' =
              [heightValsetUpdateID EXCEPT ![cHeight + 2] = heightValsetUpdateID[cHeight + 1]]
        /\ heightValsetUpdateID \in [0..(MaxHeight + 1) -> 0..MaxVscId]
        /\ ccValidators' = ApplyChanges(ccValidators, pendingChanges)
        /\ ccValidators' \in ValSets
        /\ pendingChanges' = NoUpdates
        /\ UNCHANGED <<pChannel, cChannel, pendingVSCs, inFlight, valsetUpdateId,
                       consumerValSet, computed>>
    BY UpdatesTyping DEF ConsumerEndBlock, RoomForBlock, TypeOK, providerVars
  <1>2. /\ ReceivedVscId' = ReceivedVscId
        /\ heightValsetUpdateID'[cHeight'] = ReceivedVscId
        /\ ReceivedVscId \in 0..MaxVscId
    BY <1>1 DEF ReceivedVscId
  <1>3. InForceSet'
    <2>1. ccValidators' = computed[ReceivedVscId]
      BY <1>1 DEF ChainInv, InForceSet, ReceivedVscId
    <2>2. ApplyChanges(ccValidators', NoUpdates) = ccValidators'
      BY <1>1, ApplyNothing
    <2>3. heightValsetUpdateID'[cHeight' + 1] = ReceivedVscId
      BY <1>2 DEF ReceivedVscId
    <2> QED BY <1>1, <1>2, <2>1, <2>2, <2>3 DEF InForceSet, ApplyChanges
  <1>4. /\ \A i \in 1..Len(inFlight') : PacketOK(inFlight[i])'
        /\ \A i \in 1..Len(pendingVSCs') : PacketOK(pendingVSCs[i])'
    BY <1>1, <1>2 DEF ChainInv, PacketOK
  <1>5. PacketsOrdered'
    BY <1>1 DEF ChainInv, PacketsOrdered
  <1>6. \A j, k : PacketBetween(j, k)' <=> PacketBetween(j, k)
    BY <1>1 DEF PacketBetween
  <1>7. NoGap'
    BY <1>1, <1>2, <1>6 DEF NoGap, ChainInv
  <1>8. /\ heightValsetUpdateID'[cHeight'] <= ReceivedVscId'
        /\ ReceivedVscId' < valsetUpdateId'
        /\ consumerValSet' = computed'[valsetUpdateId' - 1]
        /\ (pChannel' = "CLOSED" /\ inFlight' # <<>>) => cChannel' = "CLOSED"
    BY <1>1, <1>2 DEF ChainInv
  <1> QED BY <1>3, <1>4, <1>5, <1>7, <1>8 DEF ChainInv

\* A timeout closes the channel and drops what was in flight.
LEMMA TimeoutChain ==
    ASSUME ChainInv, OnTimeoutPacket
    PROVE  ChainInv'
  <1>1. /\ inFlight' = <<>> /\ Len(inFlight') = 0 /\ pChannel' = "CLOSED"
        /\ UNCHANGED <<valsetUpdateId, consumerValSet, pendingVSCs, cHeight,
                       pendingChanges, ccValidators, heightValsetUpdateID, computed>>
    BY DEF OnTimeoutPacket, consumerVars
  <1>2. ReceivedVscId' = ReceivedVscId /\ InForceSet'
    BY <1>1 DEF ReceivedVscId, InForceSet, ChainInv
  <1>3. /\ \A i \in 1..Len(inFlight') : PacketOK(inFlight[i])'
        /\ \A i \in 1..Len(pendingVSCs') : PacketOK(pendingVSCs[i])'
    BY <1>1, <1>2 DEF ChainInv, PacketOK
  <1>4. PacketsOrdered'
    BY <1>1 DEF ChainInv, PacketsOrdered
  <1>5. NoGap'
    BY <1>1 DEF NoGap
  <1> QED BY <1>1, <1>2, <1>3, <1>4, <1>5 DEF ChainInv

\* Every step of the sub-protocol preserves the chain.
LEMMA NextChain == TypeOK /\ ChainInv /\ [Next]_vars => ChainInv'
  <1> SUFFICES ASSUME TypeOK, ChainInv, [Next]_vars PROVE ChainInv'
    OBVIOUS
  <1>1. CASE EndBlock
    BY <1>1, ChannelChain DEF EndBlock, consumerVars, ChainInv
  <1>2. ASSUME NEW next \in ValSets, EndBlockEpoch(next) PROVE ChainInv'
    BY <1>2, EpochChain
  <1>3. CASE EndBlockEpochStopped
    BY <1>3, StoppedChain
  <1>4. CASE OnChanOpenConfirm
    BY <1>4, ChannelChain DEF OnChanOpenConfirm, consumerVars
  <1>5. CASE OnChanCloseConfirm
    BY <1>5, ChannelChain DEF OnChanCloseConfirm, consumerVars
  <1>6. CASE OnTimeoutPacket
    BY <1>6, TimeoutChain
  <1>7. CASE RemoveConsumer
    BY <1>7, ChannelChain DEF RemoveConsumer, consumerVars, ChainInv
  <1>8. CASE ClientExpiryOrRecovery
    BY <1>8, ChannelChain DEF ClientExpiryOrRecovery, consumerVars, ChainInv
  <1>9. ASSUME NEW v \in Keys, Tombstone(v) PROVE ChainInv'
    BY <1>9, ChannelChain DEF Tombstone, consumerVars, ChainInv
  <1>10. CASE OnRecvSlashPacket
    BY <1>10, ChannelChain DEF OnRecvSlashPacket, ChainInv
  <1>11. CASE OnChanOpenAck
    BY <1>11, ChannelChain DEF OnChanOpenAck, providerVars, ChainInv
  <1>12. CASE OnRecvVSCPacket
    BY <1>12, RecvChain
  <1>13. CASE ConsumerEndBlock
    BY <1>13, ConsumerBlockChain
  <1>14. CASE ConsumerHalt
    BY <1>14, ChannelChain DEF ConsumerHalt, providerVars, ChainInv
  <1>15. ASSUME NEW v \in Keys, NEW h \in 0..cHeight, SlashWithInfractionReason(v, h)
         PROVE  ChainInv'
    BY <1>15, ChannelChain DEF SlashWithInfractionReason, providerVars, ChainInv
  <1>16. CASE SlashPacketTimeout
    BY <1>16, ChannelChain DEF SlashPacketTimeout, providerVars, ChainInv
  <1>17. CASE ConsumerChanCloseConfirm
    BY <1>17, ChannelChain DEF ConsumerChanCloseConfirm, providerVars, ChainInv
  <1>18. CASE UNCHANGED vars
    BY <1>18, ChannelChain DEF vars, providerVars, consumerVars, ChainInv
  <1> QED BY <1>1, <1>2, <1>3, <1>4, <1>5, <1>6, <1>7, <1>8, <1>9, <1>10, <1>11,
             <1>12, <1>13, <1>14, <1>15, <1>16, <1>17, <1>18
          DEF Next, ProviderStep, ConsumerStep

\* The packets under way always form an ordered chain of differences, without
\* a gap, from the consumer's set to the provider's (QueueVSCPackets,
\* SendVSCPackets, OnRecvVSCPacket, EndBlock of both modules).
THEOREM ChainCorrect == Spec => []ChainInv
  <1>1. TypeOK /\ ChainInv /\ [Next]_vars => ChainInv'
    BY NextChain
  <1> QED BY InitChain, <1>1, TypeCorrect, PTL DEF Spec

\* The consumer always runs with exactly the set that the provider computed
\* for the vscID recorded for the height (ApplyCCValidatorChanges, EndBlock).
THEOREM InForceCorrect == Spec => []InForceSet
  <1>1. ChainInv => InForceSet
    BY DEF ChainInv
  <1> QED BY <1>1, ChainCorrect, PTL

\* With a live channel and nothing under way, the consumer has, or is about to
\* have, the set the provider stored (SendVSCPacketsToChain).
THEOREM NothingLost == Spec => []NoUpdateLost
  <1>1. TypeOK /\ ChainInv => NoUpdateLost
    <2> SUFFICES ASSUME TypeOK, ChainInv, pChannel # "CLOSED",
                        inFlight = <<>>, pendingVSCs = <<>>
                 PROVE  ApplyChanges(ccValidators, pendingChanges) = consumerValSet
      BY DEF NoUpdateLost
    <2>1. Len(inFlight) = 0 /\ Len(pendingVSCs) = 0
      OBVIOUS
    <2>2. ~PacketBetween(ReceivedVscId, valsetUpdateId - 1)
      BY <2>1 DEF PacketBetween
    <2>3. ReceivedVscId \in 0..MaxVscId /\ valsetUpdateId \in 1..(MaxVscId + 1)
      BY BoundsAssumption DEF TypeOK, ReceivedVscId
    <2>4. /\ ReceivedVscId \in 0..(valsetUpdateId - 1)
          /\ valsetUpdateId - 1 \in 0..(valsetUpdateId - 1)
          /\ ReceivedVscId <= valsetUpdateId - 1
      BY <2>3, BoundsAssumption DEF ChainInv
    <2>5. computed[ReceivedVscId] = computed[valsetUpdateId - 1]
      BY <2>2, <2>4 DEF ChainInv, NoGap
    <2> QED BY <2>5 DEF ChainInv, InForceSet, ReceivedVscId
  <1> QED BY <1>1, ChainCorrect, TypeCorrect, PTL

\* CometBFT refuses what ApplyCCValidatorChanges forwards only if the result
\* is the empty set.
LEMMA RejectsOnlyEmpty ==
    ASSUME NEW vals \in ValSets, NEW changes \in Updates,
           CometRejects(vals, ForwardedUpdates(vals, changes))
    PROVE  EmptySet(ApplyChanges(vals, changes))
  <1> DEFINE fwd == ForwardedUpdates(vals, changes)
             kept == {j \in DOMAIN changes : vals[j] > 0 \/ changes[j] > 0}
  <1>1. DOMAIN fwd = kept /\ \A k \in kept : fwd[k] = changes[k]
    BY DEF ForwardedUpdates
  <1>2. /\ (DOMAIN changes) \subseteq Keys
        /\ \A k \in DOMAIN changes : changes[k] \in Nat
        /\ \A k \in Keys : vals[k] \in Nat
    BY PowersAssumption DEF Updates, ValSets
  <1> HIDE DEF fwd
  <1>3. ~ \E k \in DOMAIN fwd : vals[k] = 0 /\ fwd[k] = 0
    BY <1>1, <1>2
  <1>4. ASSUME NEW k \in Keys
        PROVE  (IF k \in DOMAIN fwd THEN fwd[k] ELSE vals[k])
                  = (IF k \in DOMAIN changes THEN changes[k] ELSE vals[k])
    <2>1. CASE k \in kept
      BY <1>1, <2>1
    <2>2. CASE k \in (DOMAIN changes) \ kept
      BY <1>1, <1>2, <2>2
    <2>3. CASE k \notin DOMAIN changes
      BY <1>1, <2>3
    <2> QED BY <2>1, <2>2, <2>3
  <1>5. ApplyChanges(vals, fwd) = ApplyChanges(vals, changes)
    BY <1>4 DEF ApplyChanges
  <1> QED BY <1>3, <1>5 DEF CometRejects, fwd

\* The consumer chain halts only on the empty validator set: the removal of a
\* validator that joined and left within one block never reaches CometBFT
\* (ApplyCCValidatorChanges).
THEOREM HaltCorrect == Spec => []HaltsOnlyOnEmptySet
  <1>1. Init => HaltsOnlyOnEmptySet
    BY DEF Init, HaltsOnlyOnEmptySet
  <1>2. TypeOK /\ HaltsOnlyOnEmptySet /\ [Next]_vars => HaltsOnlyOnEmptySet'
    <2> SUFFICES ASSUME TypeOK, HaltsOnlyOnEmptySet, [Next]_vars, halted'
                 PROVE  EmptySet(ApplyChanges(ccValidators, pendingChanges))'
      BY DEF HaltsOnlyOnEmptySet
    <2>1. CASE ConsumerHalt
      <3>1. EmptySet(ApplyChanges(ccValidators, pendingChanges))
        BY <2>1, RejectsOnlyEmpty DEF ConsumerHalt, EndBlockUpdates, TypeOK
      <3> QED BY <2>1, <3>1 DEF ConsumerHalt, ApplyChanges, EmptySet, ActiveKeys
    <2>2. CASE UNCHANGED <<halted, ccValidators, pendingChanges>>
      BY <2>2 DEF HaltsOnlyOnEmptySet, ApplyChanges, EmptySet, ActiveKeys
    <2>3. ConsumerHalt \/ UNCHANGED <<halted, ccValidators, pendingChanges>>
      <3>1. ProviderStep => UNCHANGED <<halted, ccValidators, pendingChanges>>
        BY DEF ProviderStep, consumerVars, EndBlock, EndBlockEpoch,
               EndBlockEpochStopped, OnChanOpenConfirm, OnChanCloseConfirm,
               OnTimeoutPacket, RemoveConsumer, ClientExpiryOrRecovery, Tombstone,
               OnRecvSlashPacket
      <3>2. OnRecvVSCPacket => ~halted'
        BY DEF OnRecvVSCPacket, TypeOK
      <3>3. ConsumerEndBlock => ~halted'
        BY DEF ConsumerEndBlock, TypeOK
      <3>4. ConsumerStep => \/ ConsumerHalt \/ OnRecvVSCPacket \/ ConsumerEndBlock
                            \/ UNCHANGED <<halted, ccValidators, pendingChanges>>
        BY DEF ConsumerStep, OnChanOpenAck, SlashWithInfractionReason,
               SlashPacketTimeout, ConsumerChanCloseConfirm
      <3> QED BY <3>1, <3>2, <3>3, <3>4 DEF Next, vars, consumerVars
    <2> QED BY <2>1, <2>2, <2>3
  <1> QED BY <1>1, <1>2, TypeCorrect, PTL DEF Spec

\* The vscID of an executed consumer height and the provider height of a
\* superseded vscID are never rewritten (OnRecvVSCPacket, BeginBlock of the
\* consumer, EndBlockCIS).
THEOREM AttributionCorrect == Spec => AttributionFrozen
  <1> DEFINE Frozen ==
        /\ \A h \in 0..cHeight : heightValsetUpdateID'[h] = heightValsetUpdateID[h]
        /\ \A i \in 1..(valsetUpdateId - 1) :
              valsetUpdateBlockHeight'[i] = valsetUpdateBlockHeight[i]
  <1>1. TypeOK /\ [Next]_vars => [Frozen]_vars
    <2> SUFFICES ASSUME TypeOK, Next PROVE Frozen
      OBVIOUS
    <2> USE BoundsAssumption
    <2>1. /\ heightValsetUpdateID \in [0..(MaxHeight + 1) -> 0..MaxVscId]
          /\ valsetUpdateBlockHeight \in [1..(MaxVscId + 1) -> Nat]
          /\ cHeight \in 1..MaxHeight
          /\ valsetUpdateId \in 1..(MaxVscId + 1)
      BY DEF TypeOK
    <2>2. CASE UNCHANGED <<heightValsetUpdateID, valsetUpdateBlockHeight>>
      BY <2>2
    <2>3. CASE EndBlockCIS /\ UNCHANGED heightValsetUpdateID
      BY <2>1, <2>3 DEF EndBlockCIS
    <2>4. CASE OnRecvVSCPacket
      BY <2>1, <2>4 DEF OnRecvVSCPacket, providerVars
    <2>5. CASE ConsumerEndBlock
      BY <2>1, <2>5 DEF ConsumerEndBlock, providerVars
    <2>6. ProviderStep => \/ EndBlockCIS /\ UNCHANGED heightValsetUpdateID
                          \/ UNCHANGED <<heightValsetUpdateID, valsetUpdateBlockHeight>>
      BY DEF ProviderStep, consumerVars, EndBlock, EndBlockEpoch,
             EndBlockEpochStopped, OnChanOpenConfirm, OnChanCloseConfirm,
             OnTimeoutPacket, RemoveConsumer, ClientExpiryOrRecovery, Tombstone,
             OnRecvSlashPacket
    <2>7. ConsumerStep => \/ OnRecvVSCPacket \/ ConsumerEndBlock
                          \/ UNCHANGED <<heightValsetUpdateID, valsetUpdateBlockHeight>>
      BY DEF ConsumerStep, providerVars, OnChanOpenAck, ConsumerHalt,
             SlashWithInfractionReason, SlashPacketTimeout, ConsumerChanCloseConfirm
    <2> HIDE DEF Frozen
    <2> QED BY <2>2, <2>3, <2>4, <2>5, <2>6, <2>7 DEF Next
  <1> QED BY <1>1, TypeCorrect, PTL DEF Spec, AttributionFrozen

-----------------------------------------------------------------------------
(* Attribution of slash packets. *)

\* The provider's height lies in the epoch that ends with the computation of the
\* set of the current vscID (EndBlockVSU).
HeightInEpoch ==
    /\ (valsetUpdateId - 1) * BlocksPerEpoch < pHeight
    /\ pHeight <= valsetUpdateId * BlocksPerEpoch

\* The provider has recorded the height of the channel before a packet leaves it
\* (OnChanOpenConfirm, SendVSCPackets), and the consumer knows only vscIDs of
\* epochs that have ended (OnRecvVSCPacket, SlashWithInfractionReason).
KnownVscIds ==
    /\ pChannel # "NONE" => initChainHeight # 0
    /\ inFlight # <<>> \/ providerChannel => pChannel # "NONE"
    /\ \A h \in 0..(cHeight + 1) : heightValsetUpdateID[h] < valsetUpdateId
    /\ \A i \in 1..Len(pendingPackets) : pendingPackets[i].vscId < valsetUpdateId

\* The inductive invariant behind SlashesAttributable.
AttributionInv == HeightInEpoch /\ MappedHeightInEpoch /\ KnownVscIds

\* An epoch ends at the multiple of its length, and nowhere before.
LEMMA EpochEnd ==
    ASSUME NEW b \in Nat \ {0}, NEW u \in Nat \ {0}, NEW h \in Nat,
           (u - 1) * b < h, h <= u * b
    PROVE  h % b = 0 <=> h = u * b
  <1>1. (u * b) % b = 0
    OBVIOUS
  <1>2. ASSUME h % b = 0 PROVE h = u * b
    <2> DEFINE q == h \div b
    <2>1. q \in Int /\ h = b * q
      BY <1>2
    <2> HIDE DEF q
    <2>2. CASE q <= u - 1
      <3>1. b * q <= b * (u - 1)
        BY <2>1, <2>2
      <3> QED BY <2>1, <3>1
    <2>3. CASE q >= u + 1
      <3>1. b * q >= b * (u + 1)
        BY <2>1, <2>3
      <3> QED BY <2>1, <3>1
    <2>4. CASE q = u
      BY <2>1, <2>4
    <2> QED BY <2>1, <2>2, <2>3, <2>4
  <1> QED BY <1>1, <1>2

\* At the end of a block, the height of the next one is in the epoch of the vscID
\* that is then current, and it is what the vscID of before is mapped to.
LEMMA EpochsAdvance ==
    ASSUME TypeOK, HeightInEpoch, MappedHeightInEpoch, EndBlockCIS, pHeight' = pHeight + 1,
           \/ ~EpochBoundary /\ UNCHANGED valsetUpdateId
           \/ EpochBoundary /\ valsetUpdateId' = valsetUpdateId + 1
    PROVE  HeightInEpoch' /\ MappedHeightInEpoch'
  <1> PICK u \in Nat \ {0}, b \in Nat \ {0}, h \in Nat \ {0} :
          u = valsetUpdateId /\ b = BlocksPerEpoch /\ h = pHeight
    BY BoundsAssumption DEF TypeOK
  <1>1. /\ (u - 1) * b < h /\ h <= u * b
        /\ h % b = 0 <=> h = u * b
    BY EpochEnd DEF HeightInEpoch
  <1>2. /\ valsetUpdateBlockHeight \in [1..(MaxVscId + 1) -> Nat] /\ u \in 1..(MaxVscId + 1)
        /\ valsetUpdateBlockHeight' = [valsetUpdateBlockHeight EXCEPT ![u] = h + 1]
    BY DEF TypeOK, EndBlockCIS
  <1>3. \A i \in 1..(u - 1) : /\ i * b < valsetUpdateBlockHeight'[i]
                              /\ valsetUpdateBlockHeight'[i] <= (i + 1) * b
    <2> SUFFICES ASSUME NEW i \in 1..(u - 1)
                 PROVE  /\ i * b < valsetUpdateBlockHeight'[i]
                        /\ valsetUpdateBlockHeight'[i] <= (i + 1) * b
      OBVIOUS
    <2>1. valsetUpdateBlockHeight'[i] = valsetUpdateBlockHeight[i]
      BY <1>2
    <2> QED BY <2>1 DEF MappedHeightInEpoch
  <1>4. CASE h % b # 0 /\ valsetUpdateId' = u
    <2>1. h + 1 <= u * b
      BY <1>1, <1>4
    <2>2. HeightInEpoch'
      BY <1>1, <1>4, <2>1 DEF HeightInEpoch
    <2> QED BY <1>3, <1>4, <2>2 DEF MappedHeightInEpoch
  <1>5. CASE h % b = 0 /\ valsetUpdateId' = u + 1
    <2>1. h = u * b
      BY <1>1, <1>5
    <2>2. u * b < h + 1 /\ h + 1 <= (u + 1) * b
      BY <2>1
    <2>3. HeightInEpoch'
      BY <1>5, <2>2 DEF HeightInEpoch
    <2>4. valsetUpdateBlockHeight'[u] = h + 1
      BY <1>2
    <2> QED BY <1>3, <1>5, <2>2, <2>3, <2>4 DEF MappedHeightInEpoch
  <1> QED BY <1>4, <1>5 DEF EpochBoundary

\* Steps that touch neither heights nor vscIDs of the provider.
LEMMA EpochsKept ==
    ASSUME HeightInEpoch, MappedHeightInEpoch,
           UNCHANGED <<pHeight, valsetUpdateId, valsetUpdateBlockHeight>>
    PROVE  HeightInEpoch' /\ MappedHeightInEpoch'
  BY DEF HeightInEpoch, MappedHeightInEpoch

\* Every step keeps the epochs of the mapped heights.
LEMMA NextEpochs ==
    TypeOK /\ AttributionInv /\ [Next]_vars => HeightInEpoch' /\ MappedHeightInEpoch'
  <1> SUFFICES ASSUME TypeOK, AttributionInv, [Next]_vars
               PROVE  HeightInEpoch' /\ MappedHeightInEpoch'
    OBVIOUS
  <1> DEFINE Same == UNCHANGED <<pHeight, valsetUpdateId, valsetUpdateBlockHeight>>
             Block == /\ EndBlockCIS /\ pHeight' = pHeight + 1
                      /\ \/ ~EpochBoundary /\ UNCHANGED valsetUpdateId
                         \/ EpochBoundary /\ valsetUpdateId' = valsetUpdateId + 1
  <1>1. CASE Same
    BY <1>1, EpochsKept DEF AttributionInv
  <1>2. CASE Block
    BY <1>2, EpochsAdvance DEF AttributionInv
  <1>3. ProviderStep => Block \/ Same
    BY DEF ProviderStep, EndBlock, EndBlockEpoch, EndBlockEpochStopped,
           OnChanOpenConfirm, OnChanCloseConfirm, OnTimeoutPacket, RemoveConsumer,
           ClientExpiryOrRecovery, Tombstone, OnRecvSlashPacket
  <1>4. ConsumerStep => Same
    BY DEF ConsumerStep, providerVars, OnChanOpenAck, OnRecvVSCPacket, ConsumerEndBlock,
           ConsumerHalt, SlashWithInfractionReason, SlashPacketTimeout,
           ConsumerChanCloseConfirm
  <1>5. UNCHANGED vars => Same
    BY DEF vars, providerVars
  <1> HIDE DEF Same, Block
  <1> QED BY <1>1, <1>2, <1>3, <1>4, <1>5 DEF Next

\* Steps of the provider that let the vscIDs of the consumer alone.
LEMMA KnownKept ==
    ASSUME TypeOK, KnownVscIds,
           UNCHANGED <<providerChannel, cHeight, heightValsetUpdateID, pendingPackets>>,
           valsetUpdateId' \in {valsetUpdateId, valsetUpdateId + 1},
           pChannel' # "NONE" => initChainHeight' # 0,
           inFlight' # <<>> \/ providerChannel => pChannel' # "NONE"
    PROVE  KnownVscIds'
  <1>1. /\ cHeight \in Int /\ valsetUpdateId \in Int /\ MaxVscId \in Int
        /\ \A h \in 0..(cHeight + 1) : heightValsetUpdateID[h] \in 0..MaxVscId
        /\ \A i \in 1..Len(pendingPackets) : pendingPackets[i] \in SlashPackets
    BY BoundsAssumption DEF TypeOK
  <1>2. \A h \in 0..(cHeight + 1) : heightValsetUpdateID[h] < valsetUpdateId'
    BY <1>1 DEF KnownVscIds
  <1>3. \A i \in 1..Len(pendingPackets) : pendingPackets[i].vscId < valsetUpdateId'
    BY <1>1 DEF KnownVscIds, SlashPackets
  <1> QED BY <1>2, <1>3 DEF KnownVscIds

\* Every step keeps the vscIDs known to the consumer below the current one.
LEMMA NextKnown == TypeOK /\ ChainInv /\ AttributionInv /\ [Next]_vars => KnownVscIds'
  <1> SUFFICES ASSUME TypeOK, ChainInv, KnownVscIds, [Next]_vars PROVE KnownVscIds'
    BY DEF AttributionInv
  <1> USE BoundsAssumption
  <1>0. /\ cHeight \in 1..MaxHeight /\ valsetUpdateId \in 1..(MaxVscId + 1)
        /\ heightValsetUpdateID \in [0..(MaxHeight + 1) -> 0..MaxVscId]
        /\ pHeight \in Nat \ {0} /\ pChannel \in {"NONE", "OPEN", "CLOSED"}
    BY DEF TypeOK, ChannelStates
  <1>1. CASE EndBlock
    BY <1>1, KnownKept DEF EndBlock, consumerVars, KnownVscIds
  <1>2. ASSUME NEW next \in ValSets, EndBlockEpoch(next) PROVE KnownVscIds'
    <2>1. inFlight' # <<>> => pChannel # "NONE"
      BY <1>2 DEF EndBlockEpoch, SendVSCPackets, KnownVscIds
    <2> QED BY <1>2, <2>1, KnownKept DEF EndBlockEpoch, consumerVars, KnownVscIds
  <1>3. CASE EndBlockEpochStopped
    BY <1>3, KnownKept DEF EndBlockEpochStopped, consumerVars, KnownVscIds
  <1>4. CASE OnChanOpenConfirm
    BY <1>0, <1>4, KnownKept DEF OnChanOpenConfirm, consumerVars, KnownVscIds
  <1>5. CASE OnChanCloseConfirm
    BY <1>5, KnownKept DEF OnChanCloseConfirm, consumerVars, KnownVscIds
  <1>6. CASE OnTimeoutPacket
    BY <1>6, KnownKept DEF OnTimeoutPacket, consumerVars, KnownVscIds
  <1>7. CASE RemoveConsumer
    BY <1>7, KnownKept DEF RemoveConsumer, consumerVars, KnownVscIds
  <1>8. CASE ClientExpiryOrRecovery
    BY <1>8, KnownKept DEF ClientExpiryOrRecovery, consumerVars, KnownVscIds
  <1>9. ASSUME NEW v \in Keys, Tombstone(v) PROVE KnownVscIds'
    BY <1>9, KnownKept DEF Tombstone, consumerVars, KnownVscIds
  <1>10. CASE OnRecvSlashPacket
    <2>1. /\ pendingPackets \in Seq(SlashPackets) /\ pendingPackets # <<>>
          /\ pendingPackets' \in {pendingPackets, Tail(pendingPackets)}
      BY <1>10 DEF OnRecvSlashPacket, TypeOK
    <2>2. \A i \in 1..Len(pendingPackets') : pendingPackets'[i].vscId < valsetUpdateId
      BY <2>1 DEF KnownVscIds
    <2> QED BY <1>10, <2>2 DEF OnRecvSlashPacket, KnownVscIds
  <1>11. CASE OnChanOpenAck
    BY <1>11, KnownKept DEF OnChanOpenAck, providerVars, KnownVscIds
  <1>12. CASE OnRecvVSCPacket
    <2>1. inFlight # <<>> /\ inFlight \in Seq(VSCPackets)
      BY <1>12 DEF OnRecvVSCPacket, TypeOK
    <2>2. Len(inFlight) >= 1 /\ Head(inFlight) = inFlight[1]
      BY <2>1
    <2>3. Head(inFlight).vscId < valsetUpdateId
      BY <2>2 DEF ChainInv, PacketOK
    <2>4. \A h \in 0..(cHeight + 1) : heightValsetUpdateID'[h] < valsetUpdateId
      BY <1>0, <1>12, <2>3 DEF OnRecvVSCPacket, KnownVscIds
    <2> QED BY <1>12, <2>1, <2>4 DEF OnRecvVSCPacket, providerVars, KnownVscIds
  <1>13. CASE ConsumerEndBlock
    <2>1. cHeight' = cHeight + 1 /\ cHeight < MaxHeight
      BY <1>13 DEF ConsumerEndBlock, RoomForBlock
    <2>2. \A h \in 0..(cHeight + 2) : heightValsetUpdateID'[h] < valsetUpdateId
      BY <1>0, <1>13, <2>1 DEF ConsumerEndBlock, KnownVscIds
    <2> QED BY <1>0, <1>13, <2>1, <2>2 DEF ConsumerEndBlock, providerVars, KnownVscIds
  <1>14. CASE ConsumerHalt
    BY <1>14, KnownKept DEF ConsumerHalt, providerVars, KnownVscIds
  <1>15. ASSUME NEW v \in Keys, NEW h \in 0..cHeight, SlashWithInfractionReason(v, h)
         PROVE  KnownVscIds'
    <2> DEFINE p == [val |-> v, vscId |-> heightValsetUpdateID[h]]
    <2>1. p.vscId < valsetUpdateId
      BY <1>0 DEF KnownVscIds
    <2>2. pendingPackets \in Seq(SlashPackets) /\ pendingPackets' = Append(pendingPackets, p)
      BY <1>15 DEF SlashWithInfractionReason, TypeOK
    <2> HIDE DEF p
    <2>3. \A i \in 1..Len(pendingPackets') : pendingPackets'[i].vscId < valsetUpdateId
      BY <2>1, <2>2 DEF KnownVscIds
    <2> QED BY <1>15, <2>3 DEF SlashWithInfractionReason, providerVars, KnownVscIds
  <1>16. CASE SlashPacketTimeout
    BY <1>16, KnownKept DEF SlashPacketTimeout, providerVars, KnownVscIds
  <1>17. CASE ConsumerChanCloseConfirm
    BY <1>17, KnownKept DEF ConsumerChanCloseConfirm, providerVars, KnownVscIds
  <1>18. CASE UNCHANGED vars
    BY <1>18, KnownKept DEF vars, providerVars, consumerVars, KnownVscIds
  <1> QED BY <1>1, <1>2, <1>3, <1>4, <1>5, <1>6, <1>7, <1>8, <1>9, <1>10, <1>11,
             <1>12, <1>13, <1>14, <1>15, <1>16, <1>17, <1>18
          DEF Next, ProviderStep, ConsumerStep

\* The error path of ValidateSlashPacket, which closes the channel, is never taken:
\* every slash packet is attributed, and to the epoch of its vscID
\* (getMappedInfractionHeight, EndBlockCIS before EndBlockVSU).
THEOREM AttributableCorrect == Spec => []SlashesAttributable
  <1> USE BoundsAssumption
  <1>1. Init => AttributionInv
    BY DEF Init, AttributionInv, HeightInEpoch, MappedHeightInEpoch, KnownVscIds
  <1>2. TypeOK /\ ChainInv /\ AttributionInv /\ [Next]_vars => AttributionInv'
    BY NextEpochs, NextKnown DEF AttributionInv
  <1>3. TypeOK /\ AttributionInv => SlashesAttributable
    <2> SUFFICES ASSUME TypeOK, AttributionInv, providerChannel,
                        NEW i \in 1..Len(pendingPackets)
                 PROVE  HeightMapped(pendingPackets[i].vscId)
      BY DEF AttributionInv, SlashesAttributable, SlashPacketsMapped
    <2>0. pendingPackets[i] \in SlashPackets
      BY DEF TypeOK
    <2>1. pendingPackets[i].vscId \in 0..MaxVscId /\ valsetUpdateId \in 1..(MaxVscId + 1)
      BY <2>0 DEF TypeOK, SlashPackets
    <2>2. pendingPackets[i].vscId < valsetUpdateId /\ initChainHeight # 0
      BY DEF AttributionInv, KnownVscIds
    <2>3. ASSUME NEW j \in 1..(valsetUpdateId - 1) PROVE valsetUpdateBlockHeight[j] # 0
      <3>1. j * BlocksPerEpoch < valsetUpdateBlockHeight[j]
        BY <2>3 DEF AttributionInv, MappedHeightInEpoch
      <3>2. j \in Nat
        BY <2>1, <2>3
      <3>3. j * BlocksPerEpoch \in Nat
        BY <3>2
      <3> QED BY <3>1, <3>3
    <2>4. CASE pendingPackets[i].vscId = 0
      BY <2>2, <2>4 DEF HeightMapped
    <2>5. CASE pendingPackets[i].vscId # 0
      <3>1. pendingPackets[i].vscId \in 1..(valsetUpdateId - 1)
        BY <2>1, <2>2, <2>5
      <3> QED BY <2>3, <2>5, <3>1 DEF HeightMapped
    <2> QED BY <2>4, <2>5
  <1> QED BY <1>1, <1>2, <1>3, TypeCorrect, ChainCorrect, PTL DEF Spec

-----------------------------------------------------------------------------
(* Downtime requests and their acknowledgements. *)

\* v is acknowledged by a packet of the queue s.
AckedIn(s, v) == \E i \in 1..Len(s) : v \in s[i].acks

\* A request for v is on its way.
Requested(v) == \E i \in 1..Len(pendingPackets) : pendingPackets[i].val = v

\* What v may be waiting for.
Awaited(v) == v \in slashAcks \/ Requested(v) \/ AckedIn(inFlight, v) \/ AckedIn(pendingVSCs, v)

\* DowntimeAccounted, in these terms.
LEMMA AccountedAwaited ==
    DowntimeAccounted <=> (pChannel # "CLOSED" /\ cChannel # "CLOSED" =>
                              \A v \in outstandingDowntime \ tombstoned : Awaited(v))
  BY DEF DowntimeAccounted, Awaited, Requested, AckedIn

\* The acknowledgements of an epoch go along with its packet, which is either sent
\* or queued: none is lost, and none is taken if no packet is made.
LEMMA EpochAwaited ==
    ASSUME TypeOK, NEW next \in ValSets, EndBlockEpoch(next), NEW v, Awaited(v),
           pChannel # "CLOSED"
    PROVE  Awaited(v)'
  <1> DEFINE queue == QueuedVSCs(next)
             new == [updates |-> DiffValidators(consumerValSet, next),
                     vscId |-> valsetUpdateId, acks |-> slashAcks]
  <1>1. /\ inFlight \in Seq(VSCPackets) /\ pendingVSCs \in Seq(VSCPackets)
        /\ queue \in Seq(VSCPackets)
    BY QueuedVSCsCases DEF TypeOK, EndBlockEpoch
  <1>2. UNCHANGED <<pendingPackets, pChannel, cChannel>>
    BY DEF EndBlockEpoch, consumerVars
  <1>3. Requested(v) => Requested(v)'
    BY <1>2 DEF Requested
  <1>4. v \in slashAcks \/ AckedIn(pendingVSCs, v) => v \in slashAcks' \/ AckedIn(queue, v)
    <2>1. CASE next = consumerValSet
      <3>1. queue = pendingVSCs /\ slashAcks' = slashAcks
        BY <2>1, EmptyDiff DEF EndBlockEpoch, QueuedVSCs, TypeOK
      <3> QED BY <3>1
    <2>2. CASE next # consumerValSet
      <3>1. queue = Append(pendingVSCs, new)
        BY <2>2, EmptyDiff DEF QueuedVSCs, TypeOK
      <3>2. new.acks = slashAcks
        OBVIOUS
      <3> HIDE DEF new, queue
      <3>3. Len(queue) = Len(pendingVSCs) + 1 /\ Len(pendingVSCs) \in Nat
        BY <1>1, <3>1
      <3>4. /\ queue[Len(pendingVSCs) + 1] = new
            /\ \A i \in 1..Len(pendingVSCs) : queue[i] = pendingVSCs[i]
        BY <1>1, <3>1
      <3>5. v \in slashAcks => AckedIn(queue, v)
        BY <3>2, <3>3, <3>4 DEF AckedIn
      <3>6. AckedIn(pendingVSCs, v) => AckedIn(queue, v)
        BY <3>3, <3>4 DEF AckedIn
      <3> QED BY <3>5, <3>6
    <2> QED BY <2>1, <2>2
  <1> HIDE DEF queue
  <1>5. \/ inFlight' = inFlight /\ pendingVSCs' = queue
        \/ inFlight' = inFlight \o queue
    BY DEF EndBlockEpoch, SendVSCPackets, queue
  <1>6. CASE inFlight' = inFlight /\ pendingVSCs' = queue
    BY <1>3, <1>4, <1>6 DEF Awaited, AckedIn
  <1>7. CASE inFlight' = inFlight \o queue
    <2>1. /\ Len(inFlight') = Len(inFlight) + Len(queue)
          /\ Len(inFlight) \in Nat /\ Len(queue) \in Nat
          /\ \A i \in 1..Len(inFlight) : inFlight'[i] = inFlight[i]
          /\ \A i \in 1..Len(queue) : inFlight'[Len(inFlight) + i] = queue[i]
      BY <1>1, <1>7
    <2>2. AckedIn(inFlight, v) => AckedIn(inFlight, v)'
      BY <2>1 DEF AckedIn
    <2>3. AckedIn(queue, v) => AckedIn(inFlight, v)'
      <3> SUFFICES ASSUME NEW i \in 1..Len(queue), v \in queue[i].acks
                   PROVE  AckedIn(inFlight, v)'
        BY DEF AckedIn
      <3>1. /\ Len(inFlight) + i \in 1..Len(inFlight')
            /\ v \in inFlight'[Len(inFlight) + i].acks
        BY <2>1
      <3> QED BY <3>1 DEF AckedIn
    <2> QED BY <1>3, <1>4, <2>2, <2>3 DEF Awaited
  <1> QED BY <1>5, <1>6, <1>7

\* The provider acknowledges what it takes from the queue, unless the validator is
\* tombstoned or unbonded.
LEMMA SlashAwaited ==
    ASSUME TypeOK, OnRecvSlashPacket, cChannel' # "CLOSED", NEW v, Awaited(v),
           v \notin tombstoned
    PROVE  Awaited(v)'
  <1> DEFINE packet == Head(pendingPackets)
  <1>1. /\ pendingPackets \in Seq(SlashPackets) /\ pendingPackets # <<>>
        /\ slashAcks' = slashAcks \cup AckedBy(packet)
        /\ pendingPackets' = Tail(pendingPackets)
        /\ UNCHANGED <<inFlight, pendingVSCs>>
    BY DEF OnRecvSlashPacket, TypeOK
  <1>2. packet.val = v => v \in AckedBy(packet)
    BY DEF AckedBy
  <1>3. packet = pendingPackets[1] /\ Len(pendingPackets) \in Nat
    BY <1>1
  <1>4. /\ Len(pendingPackets') = Len(pendingPackets) - 1
        /\ \A i \in 1..(Len(pendingPackets) - 1) : pendingPackets'[i] = pendingPackets[i + 1]
    BY <1>1
  <1> HIDE DEF packet
  <1>5. Requested(v) => packet.val = v \/ Requested(v)'
    <2> SUFFICES ASSUME NEW i \in 1..Len(pendingPackets), pendingPackets[i].val = v, i # 1
                 PROVE  Requested(v)'
      BY <1>3 DEF Requested
    <2>1. i - 1 \in 1..Len(pendingPackets') /\ pendingPackets'[i - 1].val = v
      BY <1>3, <1>4
    <2> QED BY <2>1 DEF Requested
  <1>6. /\ AckedIn(inFlight, v) => AckedIn(inFlight, v)'
        /\ AckedIn(pendingVSCs, v) => AckedIn(pendingVSCs, v)'
    BY <1>1 DEF AckedIn
  <1> QED BY <1>1, <1>2, <1>5, <1>6 DEF Awaited

\* A received packet clears the flags of the validators it acknowledges.
LEMMA RecvAwaited ==
    ASSUME TypeOK, OnRecvVSCPacket, NEW v \in outstandingDowntime', Awaited(v)
    PROVE  Awaited(v)'
  <1>1. /\ inFlight \in Seq(VSCPackets) /\ inFlight # <<>> /\ inFlight' = Tail(inFlight)
        /\ v \notin Head(inFlight).acks
        /\ UNCHANGED <<slashAcks, pendingPackets, pendingVSCs>>
    BY DEF OnRecvVSCPacket, TypeOK, providerVars
  <1>2. Head(inFlight) = inFlight[1] /\ Len(inFlight) \in Nat
    BY <1>1
  <1>3. /\ Len(inFlight') = Len(inFlight) - 1
        /\ \A i \in 1..(Len(inFlight) - 1) : inFlight'[i] = inFlight[i + 1]
    BY <1>1
  <1>4. AckedIn(inFlight, v) => AckedIn(inFlight, v)'
    <2> SUFFICES ASSUME NEW i \in 1..Len(inFlight), v \in inFlight[i].acks
                 PROVE  AckedIn(inFlight, v)'
      BY DEF AckedIn
    <2>1. i # 1
      BY <1>1, <1>2
    <2>2. i - 1 \in 1..Len(inFlight') /\ v \in inFlight'[i - 1].acks
      BY <1>2, <1>3, <2>1
    <2> QED BY <2>2 DEF AckedIn
  <1>5. /\ Requested(v) => Requested(v)'
        /\ AckedIn(pendingVSCs, v) => AckedIn(pendingVSCs, v)'
    BY <1>1 DEF Requested, AckedIn
  <1> QED BY <1>1, <1>4, <1>5 DEF Awaited

\* A new request is queued before the flag is set.
LEMMA RequestAwaited ==
    ASSUME TypeOK, NEW w \in Keys, NEW h \in 0..cHeight, SlashWithInfractionReason(w, h),
           NEW v \in outstandingDowntime', v \in outstandingDowntime => Awaited(v)
    PROVE  Awaited(v)'
  <1> DEFINE p == [val |-> w, vscId |-> heightValsetUpdateID[h]]
  <1>1. /\ pendingPackets \in Seq(SlashPackets) /\ pendingPackets' = Append(pendingPackets, p)
        /\ v \in outstandingDowntime \/ v = w
        /\ UNCHANGED <<slashAcks, inFlight, pendingVSCs>>
    BY DEF SlashWithInfractionReason, TypeOK, providerVars
  <1>2. p.val = w
    OBVIOUS
  <1> HIDE DEF p
  <1>3. /\ Len(pendingPackets') = Len(pendingPackets) + 1 /\ Len(pendingPackets) \in Nat
        /\ pendingPackets'[Len(pendingPackets) + 1] = p
        /\ \A i \in 1..Len(pendingPackets) : pendingPackets'[i] = pendingPackets[i]
    BY <1>1
  <1>4. Requested(v) => Requested(v)'
    BY <1>3 DEF Requested
  <1>5. Requested(w)'
    BY <1>2, <1>3 DEF Requested
  <1> QED BY <1>1, <1>4, <1>5 DEF Awaited, AckedIn

\* Every step keeps the account of the flags.
LEMMA NextAccounted == TypeOK /\ DowntimeAccounted /\ [Next]_vars => DowntimeAccounted'
  <1> SUFFICES ASSUME TypeOK, DowntimeAccounted, [Next]_vars,
                      pChannel' # "CLOSED", cChannel' # "CLOSED",
                      NEW v \in outstandingDowntime' \ tombstoned'
               PROVE  Awaited(v)'
    BY DEF DowntimeAccounted, Awaited, Requested, AckedIn
  <1> DEFINE Queues == <<slashAcks, pendingPackets, inFlight, pendingVSCs>>
  <1>1. pChannel # "CLOSED" /\ cChannel # "CLOSED" /\ v \in outstandingDowntime \ tombstoned
           => Awaited(v)
    BY AccountedAwaited
  <1>2. ASSUME UNCHANGED Queues, pChannel # "CLOSED", cChannel # "CLOSED",
               v \in outstandingDowntime \ tombstoned
        PROVE  Awaited(v)'
    BY <1>1, <1>2 DEF Awaited, Requested, AckedIn
  <1>3. CASE EndBlock
    BY <1>2, <1>3 DEF EndBlock, consumerVars
  <1>4. ASSUME NEW next \in ValSets, EndBlockEpoch(next) PROVE Awaited(v)'
    BY <1>1, <1>4, EpochAwaited DEF EndBlockEpoch, consumerVars
  <1>5. CASE EndBlockEpochStopped
    BY <1>2, <1>5 DEF EndBlockEpochStopped, consumerVars
  <1>6. CASE OnChanOpenConfirm
    BY <1>2, <1>6 DEF OnChanOpenConfirm, consumerVars
  <1>7. CASE OnChanCloseConfirm \/ OnTimeoutPacket
    BY <1>7 DEF OnChanCloseConfirm, OnTimeoutPacket
  <1>8. CASE RemoveConsumer
    BY <1>2, <1>8 DEF RemoveConsumer, consumerVars
  <1>9. CASE ClientExpiryOrRecovery
    BY <1>2, <1>9 DEF ClientExpiryOrRecovery, consumerVars
  <1>10. ASSUME NEW w \in Keys, Tombstone(w) PROVE Awaited(v)'
    BY <1>2, <1>10 DEF Tombstone, consumerVars
  <1>11. CASE OnRecvSlashPacket
    <2>1. UNCHANGED <<outstandingDowntime, tombstoned, pChannel>> /\ cChannel = "OPEN"
      BY <1>11 DEF OnRecvSlashPacket
    <2> QED BY <1>1, <1>11, <2>1, SlashAwaited
  <1>12. CASE OnChanOpenAck
    BY <1>2, <1>12 DEF OnChanOpenAck, providerVars
  <1>13. CASE OnRecvVSCPacket
    <2>1. UNCHANGED <<tombstoned, pChannel, cChannel>> /\ v \in outstandingDowntime
      BY <1>13 DEF OnRecvVSCPacket, providerVars
    <2> QED BY <1>1, <1>13, <2>1, RecvAwaited
  <1>14. CASE ConsumerEndBlock
    BY <1>2, <1>14 DEF ConsumerEndBlock, providerVars
  <1>15. CASE ConsumerHalt
    BY <1>2, <1>15 DEF ConsumerHalt, providerVars
  <1>16. ASSUME NEW w \in Keys, NEW h \in 0..cHeight, SlashWithInfractionReason(w, h)
         PROVE  Awaited(v)'
    <2>1. UNCHANGED <<tombstoned, pChannel, cChannel>>
      BY <1>16 DEF SlashWithInfractionReason, providerVars
    <2> QED BY <1>1, <1>16, <2>1, RequestAwaited
  <1>17. CASE SlashPacketTimeout \/ ConsumerChanCloseConfirm
    BY <1>17 DEF SlashPacketTimeout, ConsumerChanCloseConfirm
  <1>18. CASE UNCHANGED vars
    BY <1>2, <1>18 DEF vars, providerVars, consumerVars
  <1> QED BY <1>3, <1>4, <1>5, <1>6, <1>7, <1>8, <1>9, <1>10, <1>11,
             <1>12, <1>13, <1>14, <1>15, <1>16, <1>17, <1>18
          DEF Next, ProviderStep, ConsumerStep

\* A flag is outstanding only while a request or an acknowledgement is on its way,
\* whatever the epochs, packets, blocks and tombstones in between, as long as the
\* channel lives (QueueSlashPacket, ConsumeSlashAcks, OnRecvVSCPacket).
THEOREM DowntimeCorrect == Spec => []DowntimeAccounted
  <1>1. Init => DowntimeAccounted
    BY DEF Init, DowntimeAccounted
  <1>2. TypeOK /\ DowntimeAccounted /\ [Next]_vars => DowntimeAccounted'
    BY NextAccounted
  <1> QED BY <1>1, <1>2, TypeCorrect, PTL DEF Spec

-----------------------------------------------------------------------------
(* Refinement. *)

\* The sub-protocol implements ValsetReplication: the consumer only ever moves
\* forward through the sets the provider computed, never to a mixture.
THEOREM Refinement == Spec => ImplementsReplication
  <1> USE BoundsAssumption
  <1>1. Init => Replication!Init
    <2> SUFFICES ASSUME Init PROVE Replication!Init
      OBVIOUS
    <2>1. computed \in [0..MaxVscId -> [Keys -> Powers]]
      BY InitTypeOK DEF TypeOK, ValSets
    <2>2. valsetUpdateId - 1 = 0 /\ heightValsetUpdateID[cHeight] = 0
      BY DEF Init
    <2>3. ccValidators = computed[0]
      BY DEF Init
    <2> QED BY <2>1, <2>2, <2>3 DEF Replication!Init
  <1>2. TypeOK /\ ChainInv /\ [Next]_vars => [Replication!Next]_(Replication!vars)
    <2> SUFFICES ASSUME TypeOK, ChainInv, [Next]_vars
                 PROVE  Replication!Next \/ UNCHANGED (Replication!vars)
      OBVIOUS
    <2> DEFINE Same == UNCHANGED <<computed, valsetUpdateId, cHeight,
                                   heightValsetUpdateID, ccValidators>>
    <2>0. /\ valsetUpdateId \in 1..(MaxVscId + 1)
          /\ computed \in [0..MaxVscId -> ValSets]
          /\ cHeight \in 1..MaxHeight
          /\ heightValsetUpdateID \in [0..(MaxHeight + 1) -> 0..MaxVscId]
      BY DEF TypeOK
    <2>1. CASE Same
      BY <2>1 DEF Replication!vars
    <2>2. ASSUME NEW next \in ValSets,
                 valsetUpdateId <= MaxVscId, valsetUpdateId' = valsetUpdateId + 1,
                 computed' = [computed EXCEPT ![valsetUpdateId] = next],
                 UNCHANGED consumerVars
          PROVE  Replication!Next
      <3>1. /\ valsetUpdateId - 1 < MaxVscId
            /\ valsetUpdateId' - 1 = (valsetUpdateId - 1) + 1
            /\ (valsetUpdateId - 1) + 1 = valsetUpdateId
        BY <2>0, <2>2
      <3>2. next \in [Keys -> Powers]
        BY DEF ValSets
      <3>3. UNCHANGED <<heightValsetUpdateID[cHeight], ccValidators>>
        BY <2>2 DEF consumerVars
      <3> QED BY <2>2, <3>1, <3>2, <3>3 DEF Replication!Next, Replication!Publish
    <2>3. ASSUME NEW next \in ValSets, EndBlockEpoch(next)
          PROVE  Replication!Next
      BY <2>2, <2>3 DEF EndBlockEpoch
    <2>4. CASE EndBlockEpochStopped
      BY <2>2, <2>4 DEF EndBlockEpochStopped, TypeOK
    <2>5. CASE OnRecvVSCPacket
      <3>1. heightValsetUpdateID'[cHeight'] = heightValsetUpdateID[cHeight]
        BY <2>0, <2>5 DEF OnRecvVSCPacket
      <3> QED BY <2>5, <3>1 DEF OnRecvVSCPacket, providerVars, Replication!vars
    <2>6. CASE ConsumerEndBlock
      <3>1. /\ heightValsetUpdateID'[cHeight'] = ReceivedVscId
            /\ ReceivedVscId \in 0..MaxVscId
            /\ heightValsetUpdateID[cHeight] \in 0..MaxVscId
        BY <2>0, <2>6 DEF ConsumerEndBlock, RoomForBlock, ReceivedVscId
      <3>2. /\ ccValidators' = computed[ReceivedVscId]
            /\ ccValidators = computed[heightValsetUpdateID[cHeight]]
            /\ UNCHANGED <<computed, valsetUpdateId>>
        BY <2>6 DEF ConsumerEndBlock, providerVars, ChainInv, InForceSet, ReceivedVscId
      <3>3. CASE heightValsetUpdateID[cHeight] = ReceivedVscId
        BY <3>1, <3>2, <3>3 DEF Replication!vars
      <3>4. CASE heightValsetUpdateID[cHeight] # ReceivedVscId
        <4>1. ReceivedVscId \in (heightValsetUpdateID[cHeight] + 1)..(valsetUpdateId - 1)
          BY <2>0, <3>1, <3>4 DEF ChainInv
        <4> QED BY <3>1, <3>2, <4>1 DEF Replication!Next, Replication!Adopt
      <3> QED BY <3>3, <3>4
    <2>7. ProviderStep => \/ \E next \in ValSets : EndBlockEpoch(next)
                          \/ EndBlockEpochStopped
                          \/ Same
      BY DEF ProviderStep, consumerVars, EndBlock, OnChanOpenConfirm,
             OnChanCloseConfirm, OnTimeoutPacket, RemoveConsumer,
             ClientExpiryOrRecovery, Tombstone, OnRecvSlashPacket
    <2>8. ConsumerStep => OnRecvVSCPacket \/ ConsumerEndBlock \/ Same
      BY DEF ConsumerStep, providerVars, OnChanOpenAck, ConsumerHalt,
             SlashWithInfractionReason, SlashPacketTimeout, ConsumerChanCloseConfirm
    <2>9. UNCHANGED vars => Same
      BY DEF vars, providerVars, consumerVars
    <2> QED BY <2>1, <2>3, <2>4, <2>5, <2>6, <2>7, <2>8, <2>9 DEF Next
  <1> QED BY <1>1, <1>2, TypeCorrect, ChainCorrect, PTL
          DEF Spec, ImplementsReplication, Replication!Spec
=============================================================================
