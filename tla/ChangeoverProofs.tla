-------------------------- MODULE ChangeoverProofs --------------------------
(***************************************************************************)
(* The changeover from a standalone chain to a consumer chain is correct   *)
(* for any keys, powers, orders of the end blockers, choices of the        *)
(* parameter HistoricalEntries and number of blocks.                       *)
(***************************************************************************)
EXTENDS Changeover, TLAPS

-----------------------------------------------------------------------------
(* Update lists. *)

\* DiffValidators, AccumulateChanges and ApplyCCValidatorChanges yield update
\* lists and validator sets again.
LEMMA UpdatesTyping ==
    /\ NoUpdates \in Updates
    /\ \A old, next \in ValSets : DiffValidators(old, next) \in Updates
    /\ \A u, w \in Updates : AccumulateChanges(u, w) \in Updates
    /\ \A vals \in ValSets, u \in Updates : ApplyChanges(vals, u) \in ValSets
  <1>1. NoUpdates \in [{} -> Powers]
    BY DEF NoUpdates
  <1>2. ASSUME NEW old \in ValSets, NEW next \in ValSets
        PROVE  DiffValidators(old, next) \in Updates
    <2>1. DiffDomain(old, next) \in SUBSET Keys
      BY DEF DiffDomain
    <2>2. DiffValidators(old, next) \in [DiffDomain(old, next) -> Powers]
      BY DEF DiffValidators, DiffDomain, ValSets
    <2> QED BY <2>1, <2>2 DEF Updates
  <1>3. ASSUME NEW u \in Updates, NEW w \in Updates
        PROVE  AccumulateChanges(u, w) \in Updates
    <2>1. PICK D \in SUBSET Keys : u \in [D -> Powers]
      BY DEF Updates
    <2>2. PICK E \in SUBSET Keys : w \in [E -> Powers]
      BY DEF Updates
    <2>3. AccumulateChanges(u, w) \in [D \cup E -> Powers]
      BY <2>1, <2>2 DEF AccumulateChanges
    <2>4. D \cup E \in SUBSET Keys
      BY <2>1, <2>2
    <2> QED BY <2>3, <2>4 DEF Updates
  <1>4. ASSUME NEW vals \in ValSets, NEW u \in Updates
        PROVE  ApplyChanges(vals, u) \in ValSets
    <2>1. PICK D \in SUBSET Keys : u \in [D -> Powers]
      BY DEF Updates
    <2> QED BY <2>1 DEF ApplyChanges, ValSets
  <1>5. NoUpdates \in Updates
    <2>1. {} \in SUBSET Keys
      OBVIOUS
    <2> QED BY <1>1, <2>1 DEF Updates
  <1> QED BY <1>2, <1>3, <1>4, <1>5

\* Applying the difference of two sets to the first yields the second: a VSC
\* packet takes a consumer from the old set to the new one.
LEMMA ApplyDiff ==
    ASSUME NEW old \in ValSets, NEW next \in ValSets
    PROVE  ApplyChanges(old, DiffValidators(old, next)) = next
  <1>1. \A k \in Keys : ApplyChanges(old, DiffValidators(old, next))[k] = next[k]
    BY DEF ApplyChanges, DiffValidators, DiffDomain, ValSets
  <1> QED BY <1>1 DEF ApplyChanges, ValSets

-----------------------------------------------------------------------------
(* Type correctness. *)

\* The lists of updates that the end of a block hands to CometBFT are update
\* lists.
LEMMA UpdateLists ==
    ASSUME TypeOK
    PROVE  /\ GetInitialValSet \in Updates
           /\ ChangeoverUpdates \in Updates
           /\ ForwardedUpdates(ccVals, pendingChanges) \in Updates
           /\ DiffValidators(bonded, staked) \in Updates
  <1>1. GetInitialValSet \in [ActiveKeys(initialValSet) -> Powers]
    BY DEF GetInitialValSet, TypeOK, ValSets, ActiveKeys
  <1>2. GetLastStandaloneValidators \in SUBSET Keys
    BY DEF GetLastStandaloneValidators, ActiveKeys
  <1>3. ActiveKeys(initialValSet) \in SUBSET Keys
    BY DEF ActiveKeys
  <1> DEFINE D == ActiveKeys(initialValSet) \cup GetLastStandaloneValidators
  <1>4. D \in SUBSET Keys
    BY <1>2, <1>3
  <1>5. ChangeoverUpdates \in [D -> Powers]
    BY <1>4 DEF ChangeoverUpdates, TypeOK, ValSets
  <1>6. PICK E \in SUBSET Keys : pendingChanges \in [E -> Powers]
    BY DEF TypeOK, Updates
  <1> DEFINE G == {j \in E : ccVals[j] > 0 \/ pendingChanges[j] > 0}
  <1>7. ForwardedUpdates(ccVals, pendingChanges) \in [G -> Powers] /\ G \in SUBSET Keys
    BY <1>6 DEF ForwardedUpdates
  <1>8. DiffValidators(bonded, staked) \in Updates
    BY UpdatesTyping DEF TypeOK
  <1> QED BY <1>1, <1>3, <1>4, <1>5, <1>7, <1>8 DEF Updates

\* What CometBFT makes of a list of updates keeps the types of its part of the
\* state.
LEMMA CometTyping ==
    ASSUME TypeOK, NEW u \in Updates, CometTakes(u), height < MaxHeight
    PROVE  /\ cur' \in ValSets /\ nxt' \in ValSets
           /\ height' \in Heights /\ inBlock' \in BOOLEAN
           /\ halted' \in BOOLEAN
           /\ consumerHeights' \subseteq 1..(MaxHeight + 1)
  <1>1. ApplyChanges(nxt, u) \in ValSets
    BY UpdatesTyping DEF TypeOK
  <1>2. CASE CometApplies(u)
    <2>1. height' \in Heights
      BY <1>2, ChangeoverAssumption DEF CometApplies, TypeOK, Heights
    <2>2. consumerHeights' \subseteq consumerHeights \cup {height + 2}
      BY <1>2 DEF CometApplies
    <2>3. height + 2 \in 1..(MaxHeight + 1)
      BY ChangeoverAssumption DEF TypeOK, Heights
    <2> QED BY <1>1, <1>2, <2>1, <2>2, <2>3 DEF CometApplies, TypeOK
  <1>3. CASE CometHalts(u)
    BY <1>3 DEF CometHalts, TypeOK, comet
  <1> QED BY <1>2, <1>3 DEF CometTakes

\* A block begins with a well-typed set of historical infos.
LEMMA HistoricalTyping ==
    ASSUME TypeOK, TrackHistoricalInfo
    PROVE  historical' \subseteq Heights
  BY DEF TrackHistoricalInfo, TypeOK

\* The types are kept.
LEMMA TypeInductive == TypeOK /\ [Next]_vars => TypeOK'
  <1> SUFFICES ASSUME TypeOK, [Next]_vars PROVE TypeOK'
    OBVIOUS
  <1> USE ChangeoverAssumption
  <1>1. CASE BeginBlockStandalone
    BY <1>1 DEF BeginBlockStandalone, TypeOK, comet, staking, history
  <1>2. ASSUME NEW vals \in ValSets, Upgrade(vals) PROVE TypeOK'
    <2>1. historical' \subseteq Heights
      BY <1>2, HistoricalTyping DEF Upgrade
    <2> QED BY <1>2, <2>1 DEF Upgrade, TypeOK, comet, staking, history, Heights
  <1>3. CASE BeginBlock
    <2>1. historical' \subseteq Heights
      BY <1>3, HistoricalTyping DEF BeginBlock
    <2> QED BY <1>3, <2>1 DEF BeginBlock, TypeOK, comet, staking, history
  <1>4. ASSUME NEW k \in Keys, NEW p \in Powers, StakingTx(k, p) PROVE TypeOK'
    <2>1. staked' \in ValSets
      BY <1>4 DEF StakingTx, TypeOK, ValSets
    <2> QED BY <1>4, <2>1 DEF StakingTx, TypeOK, block, comet, history
  <1>5. ASSUME NEW vals \in ValSets, OnRecvVSCPacket(vals) PROVE TypeOK'
    <2>1. pendingChanges' \in Updates
      <3>1. ApplyChanges(ccVals, pendingChanges) \in ValSets
        BY UpdatesTyping DEF TypeOK
      <3>2. DiffValidators(ApplyChanges(ccVals, pendingChanges), vals) \in Updates
        BY <3>1, UpdatesTyping
      <3> QED BY <1>5, <3>2, UpdatesTyping DEF OnRecvVSCPacket, TypeOK
    <2> QED BY <1>5, <2>1 DEF OnRecvVSCPacket, TypeOK, block, comet, staking, history
  <1>6. ASSUME NEW n \in EntryChoices, UpdateParams(n) PROVE TypeOK'
    BY <1>6 DEF UpdateParams, TypeOK, block, comet, staking, history
  <1>7. CASE EndBlockStandalone
    <2>1. DiffValidators(bonded, staked) \in Updates
      BY UpdateLists
    <2>2. /\ cur' \in ValSets /\ nxt' \in ValSets
          /\ height' \in Heights /\ inBlock' \in BOOLEAN
          /\ halted' \in BOOLEAN
          /\ consumerHeights' \subseteq 1..(MaxHeight + 1)
      BY <1>7, <2>1, CometTyping DEF EndBlockStandalone
    <2> QED BY <1>7, <2>2 DEF EndBlockStandalone, TypeOK
  <1>8. CASE EndBlockChangeover
    <2>1. GetInitialValSet \in Updates /\ ChangeoverUpdates \in Updates
      BY UpdateLists
    <2>2. /\ cur' \in ValSets /\ nxt' \in ValSets
          /\ height' \in Heights /\ inBlock' \in BOOLEAN
          /\ halted' \in BOOLEAN
          /\ consumerHeights' \subseteq 1..(MaxHeight + 1)
      BY <1>8, <2>1, CometTyping DEF EndBlockChangeover
    <2>3. ccVals' \in ValSets
      BY <1>8, <2>1, UpdatesTyping DEF EndBlockChangeover, TypeOK
    <2>4. lateLeavers' \subseteq Keys /\ lateJoiners' \subseteq Keys
      BY <1>8 DEF EndBlockChangeover, ActiveKeys
    <2> QED BY <1>8, <2>2, <2>3, <2>4 DEF EndBlockChangeover, DeletePreCCV, TypeOK
  <1>9. CASE EndBlock
    <2>1. ForwardedUpdates(ccVals, pendingChanges) \in Updates
      BY UpdateLists
    <2>2. /\ cur' \in ValSets /\ nxt' \in ValSets
          /\ height' \in Heights /\ inBlock' \in BOOLEAN
          /\ halted' \in BOOLEAN
          /\ consumerHeights' \subseteq 1..(MaxHeight + 1)
      BY <1>9, <2>1, CometTyping DEF EndBlock
    <2>3. ccVals' \in ValSets /\ pendingChanges' \in Updates
      BY <1>9, UpdatesTyping DEF EndBlock, TypeOK
    <2> QED BY <1>9, <2>2, <2>3 DEF EndBlock, TypeOK
  <1>10. CASE UNCHANGED vars
    BY <1>10 DEF vars, block, comet, staking, history, TypeOK
  <1> QED
    BY <1>1, <1>2, <1>3, <1>4, <1>5, <1>6, <1>7, <1>8, <1>9, <1>10 DEF Next

\* A key without positive power has power 0.
LEMMA NoPower ==
    /\ \A p \in Powers : p > 0 \/ p = 0
    /\ \A vals \in ValSets, k \in Keys : k \in ActiveKeys(vals) \/ vals[k] = 0
  <1>1. \A p \in Powers : p > 0 \/ p = 0
    <2> SUFFICES ASSUME NEW p \in Powers PROVE p > 0 \/ p = 0
      OBVIOUS
    <2>1. p \in Nat
      BY PowersAssumption
    <2> QED BY <2>1
  <1>2. \A vals \in ValSets, k \in Keys : vals[k] \in Powers
    BY DEF ValSets
  <1> QED BY <1>1, <1>2 DEF ActiveKeys

\* The initial state is well typed.
LEMMA InitTypeOK == Init => TypeOK
  <1> SUFFICES ASSUME Init PROVE TypeOK
    OBVIOUS
  <1>1. NoVals \in ValSets
    BY PowersAssumption DEF NoVals, ValSets
  <1>2. NoUpdates \in Updates
    BY UpdatesTyping
  <1>3. 1 \in Heights /\ 0 \in 0..MaxHeight
    BY ChangeoverAssumption DEF Heights
  <1> QED BY <1>1, <1>2, <1>3 DEF Init, TypeOK

\* The state of the chain keeps its types from the standalone blocks through the
\* upgrade to the blocks of the consumer.
THEOREM TypeCorrect == Spec => []TypeOK
  BY InitTypeOK, TypeInductive, PTL DEF Spec

-----------------------------------------------------------------------------
(* The handover. *)

\* Before the changeover CometBFT runs the bonded validators and the consumer
\* module is idle.
StandaloneInv ==
    (~Upgraded \/ preCCV) /\ ~halted =>
        nxt = bonded /\ ccVals = NoVals /\ pendingChanges = NoUpdates

\* The pre-CCV state is that of the upgrade's block, with validators to hand
\* over to.
UpgradeInv ==
    /\ ~Upgraded => ~preCCV /\ consumerHeights = {}
    /\ preCCV => ~EmptySet(initialValSet)
    /\ Upgraded => consumerHeights = (initGenesisHeight + 2)..(height + 1)
    /\ initGenesisHeight <= height

\* A chain that halted is between two blocks, so nothing changes any more.
HaltedInv == halted => ~inBlock

\* The inductive invariant.
HandoverInv ==
    StandaloneInv /\ UpgradeInv /\ HaltedInv /\ HandedOver /\ HaltsOnlyWithCause

\* It holds initially.
LEMMA InitHandover == Init => HandoverInv
  <1> SUFFICES ASSUME Init PROVE HandoverInv
    OBVIOUS
  <1> QED
    BY DEF Init, HandoverInv, StandaloneInv, UpgradeInv, HaltedInv, HandedOver,
           HaltsOnlyWithCause, Upgraded

\* The end of a standalone block: CometBFT follows the stake and refuses only if
\* there is none.
LEMMA StandaloneHandover ==
    ASSUME TypeOK, HandoverInv, EndBlockStandalone
    PROVE  HandoverInv'
  <1> DEFINE u == DiffValidators(bonded, staked)
  <1>1. nxt = bonded /\ ~Upgraded /\ ~halted /\ ~preCCV
    BY DEF EndBlockStandalone, HandoverInv, StandaloneInv, UpgradeInv
  <1>2. ApplyChanges(nxt, u) = staked
    BY <1>1, ApplyDiff DEF TypeOK
  <1>3. \A k \in DOMAIN u : nxt[k] # 0 \/ u[k] # 0
    BY <1>1 DEF DiffValidators, DiffDomain
  <1>4. UNCHANGED <<staked, initGenesisHeight, preCCV, ccVals, pendingChanges>>
        /\ bonded' = staked
    BY DEF EndBlockStandalone
  <1>5. ~Upgraded' /\ ~preCCV'
    BY <1>1, <1>4 DEF Upgraded
  <1>6. CASE CometApplies(u)
    <2>1. /\ nxt' = staked /\ height' = height + 1 /\ ~halted'
          /\ consumerHeights' = consumerHeights
      BY <1>1, <1>2, <1>6 DEF CometApplies
    <2>2. StandaloneInv'
      BY <1>1, <1>4, <2>1 DEF HandoverInv, StandaloneInv, NoVals, NoUpdates
    <2>3. UpgradeInv'
      BY <1>1, <1>4, <1>5, <2>1 DEF HandoverInv, UpgradeInv, TypeOK, Heights
    <2> QED BY <1>5, <2>1, <2>2, <2>3
            DEF HandoverInv, HaltedInv, HandedOver, HaltsOnlyWithCause
  <1>7. CASE CometHalts(u)
    <2>1. halted' /\ ~inBlock' /\ UNCHANGED <<height, consumerHeights>>
      BY <1>7 DEF CometHalts
    <2>2. EmptySet(staked)
      BY <1>2, <1>3, <1>7 DEF CometHalts, CometRejects
    <2>3. HaltsOnlyWithCause'
      BY <1>4, <1>5, <2>2 DEF HaltsOnlyWithCause, EmptySet, ActiveKeys
    <2>4. UpgradeInv'
      BY <1>1, <1>4, <1>5, <2>1 DEF HandoverInv, UpgradeInv
    <2> QED BY <1>5, <2>1, <2>3, <2>4
            DEF HandoverInv, StandaloneInv, HaltedInv, HandedOver
  <1> QED BY <1>6, <1>7 DEF EndBlockStandalone, CometTakes

\* The end of the upgrade's block: the cross-chain validators are the initial set,
\* and CometBFT runs them and at most the validators that just left, or refuses
\* to remove one that just joined.
LEMMA ChangeoverHandover ==
    ASSUME TypeOK, HandoverInv, EndBlockChangeover
    PROVE  HandoverInv'
  <1> USE PowersAssumption
  <1> DEFINE u == ChangeoverUpdates
  <1>1. /\ nxt = bonded /\ ccVals = NoVals /\ pendingChanges = NoUpdates
        /\ ~EmptySet(initialValSet) /\ ~halted /\ Upgraded
    BY DEF EndBlockChangeover, HandoverInv, StandaloneInv, UpgradeInv
  <1>2. /\ ~preCCV' /\ Upgraded' /\ pendingChanges' = NoUpdates
        /\ initialValSet' = initialValSet /\ stakingFirst' = stakingFirst
        /\ initGenesisHeight' = initGenesisHeight
        /\ lateLeavers' = ActiveKeys(bonded) \ ActiveKeys(staked)
        /\ lateJoiners' = ActiveKeys(staked) \ ActiveKeys(bonded)
    BY <1>1 DEF EndBlockChangeover, DeletePreCCV, Upgraded
  <1>3. ccVals' = initialValSet
    <2>1. ccVals' \in ValSets
      BY UpdateLists, UpdatesTyping DEF EndBlockChangeover, TypeOK
    <2>2. \A k \in Keys : ccVals'[k] = initialValSet[k]
      <3> SUFFICES ASSUME NEW k \in Keys PROVE ccVals'[k] = initialValSet[k]
        OBVIOUS
      <3>1. k \in ActiveKeys(initialValSet) \/ initialValSet[k] = 0
        BY NoPower DEF TypeOK
      <3> QED BY <1>1, <3>1 DEF EndBlockChangeover, ApplyChanges, GetInitialValSet, NoVals
    <2> QED BY <2>1, <2>2 DEF TypeOK, ValSets
  <1>4. ~EmptySet(ApplyChanges(nxt, u))
    BY <1>1 DEF EmptySet, ActiveKeys, ApplyChanges, ChangeoverUpdates
  <1>5. StandaloneInv'
    BY <1>2 DEF StandaloneInv
  <1>6. HaltedInv'
    BY DEF HaltedInv, EndBlockChangeover, CometTakes, CometApplies, CometHalts
  <1>7. CASE CometApplies(u)
    <2>1. /\ nxt' = ApplyChanges(nxt, u) /\ height' = height + 1 /\ ~halted'
          /\ consumerHeights' = consumerHeights \cup {height + 2}
      BY <1>1, <1>7 DEF CometApplies
    <2>2. UpgradeInv'
      <3>1. (initGenesisHeight + 2)..(height + 2)
                = ((initGenesisHeight + 2)..(height + 1)) \cup {height + 2}
        BY ChangeoverAssumption DEF HandoverInv, UpgradeInv, TypeOK, Heights
      <3>2. height' + 1 = height + 2 /\ initGenesisHeight <= height'
        BY <2>1, ChangeoverAssumption DEF HandoverInv, UpgradeInv, TypeOK, Heights
      <3> QED BY <1>1, <1>2, <2>1, <3>1, <3>2 DEF HandoverInv, UpgradeInv
    <2>3. HandedOver'
      <3> SUFFICES ASSUME NEW k \in Keys
                   PROVE  nxt'[k] = ccVals'[k] \/ (ccVals'[k] = 0 /\ k \in lateLeavers')
        BY DEF HandedOver
      <3>1. CASE k \in DOMAIN u
        BY <1>3, <2>1, <3>1 DEF ApplyChanges, ChangeoverUpdates
      <3>2. CASE k \notin DOMAIN u
        <4>1. initialValSet[k] = 0 /\ k \notin GetLastStandaloneValidators
          BY <3>2, NoPower DEF ChangeoverUpdates, TypeOK
        <4>2. nxt'[k] = bonded[k]
          BY <1>1, <2>1, <3>2 DEF ApplyChanges
        <4>3. bonded[k] = 0 \/ k \in lateLeavers'
          <5>1. k \in ActiveKeys(bonded) => k \notin ActiveKeys(staked)
            BY <4>1 DEF GetLastStandaloneValidators
          <5> QED BY <1>2, <5>1, NoPower DEF TypeOK
        <4> QED BY <1>3, <4>1, <4>2, <4>3
      <3> QED BY <3>1, <3>2
    <2> QED BY <1>5, <1>6, <2>1, <2>2, <2>3 DEF HandoverInv, HaltsOnlyWithCause
  <1>8. CASE CometHalts(u)
    <2>1. halted' /\ height' = height /\ consumerHeights' = consumerHeights
      BY <1>8 DEF CometHalts
    <2>2. PICK k \in DOMAIN u : nxt[k] = 0 /\ u[k] = 0
      BY <1>4, <1>8 DEF CometHalts, CometRejects
    <2>3. initialValSet[k] = 0 /\ k \in GetLastStandaloneValidators
      BY <2>2 DEF ChangeoverUpdates, ActiveKeys, TypeOK, ValSets
    <2>4. stakingFirst /\ k \in lateJoiners'
      BY <1>1, <1>2, <2>2, <2>3 DEF GetLastStandaloneValidators, ActiveKeys, TypeOK, ValSets
    <2>5. HaltsOnlyWithCause'
      BY <1>2, <2>3, <2>4 DEF HaltsOnlyWithCause
    <2>6. UpgradeInv'
      BY <1>1, <1>2, <2>1 DEF HandoverInv, UpgradeInv
    <2> QED BY <1>5, <1>6, <2>1, <2>5, <2>6 DEF HandoverInv, HandedOver
  <1> QED BY <1>7, <1>8 DEF EndBlockChangeover, CometTakes

\* The end of a later block: CometBFT follows the cross-chain validators and
\* refuses only if there are none.
LEMMA ConsumerHandover ==
    ASSUME TypeOK, HandoverInv, EndBlock
    PROVE  HandoverInv'
  <1> USE PowersAssumption
  <1> DEFINE u == ForwardedUpdates(ccVals, pendingChanges)
  <1>1. Upgraded /\ ~preCCV /\ ~halted
    BY DEF EndBlock
  <1>2. \A k \in Keys : nxt[k] = ccVals[k] \/ (ccVals[k] = 0 /\ k \in lateLeavers)
    BY <1>1 DEF HandoverInv, HandedOver
  <1>3. PICK E \in SUBSET Keys : pendingChanges \in [E -> Powers]
    BY DEF TypeOK, Updates
  <1>4. DOMAIN u \subseteq E /\ \A k \in DOMAIN u : u[k] = pendingChanges[k]
    BY <1>3 DEF ForwardedUpdates
  <1>5. \A k \in E : k \notin DOMAIN u => ccVals[k] = 0 /\ pendingChanges[k] = 0
    <2> SUFFICES ASSUME NEW k \in E, k \notin DOMAIN u
                 PROVE  ccVals[k] = 0 /\ pendingChanges[k] = 0
      OBVIOUS
    <2>1. ~(ccVals[k] > 0) /\ ~(pendingChanges[k] > 0)
      BY <1>3 DEF ForwardedUpdates
    <2>2. ccVals[k] \in Powers /\ pendingChanges[k] \in Powers
      BY <1>3 DEF TypeOK, ValSets
    <2> QED BY <2>1, <2>2, NoPower
  <1>6. \A k \in DOMAIN u : nxt[k] # 0 \/ u[k] # 0
    <2> SUFFICES ASSUME NEW k \in DOMAIN u, u[k] = 0 PROVE nxt[k] # 0
      OBVIOUS
    <2>1. ccVals[k] > 0
      BY <1>3 DEF ForwardedUpdates
    <2> QED BY <1>2, <1>3, <1>4, <2>1 DEF TypeOK, ValSets
  <1>7. ASSUME ~EmptySet(ApplyChanges(ccVals, pendingChanges))
        PROVE  ~EmptySet(ApplyChanges(nxt, u))
    <2>1. PICK k \in Keys : ApplyChanges(ccVals, pendingChanges)[k] > 0
      BY <1>7 DEF EmptySet, ActiveKeys
    <2>2. CASE k \in E
      <3>1. pendingChanges[k] > 0
        BY <1>3, <2>1, <2>2 DEF ApplyChanges
      <3>2. k \in DOMAIN u
        BY <1>3, <1>5, <2>2, <3>1
      <3> QED BY <1>4, <3>1, <3>2 DEF EmptySet, ActiveKeys, ApplyChanges
    <2>3. CASE k \notin E
      <3>1. ccVals[k] > 0
        BY <1>3, <2>1, <2>3 DEF ApplyChanges
      <3>2. nxt[k] > 0 /\ k \notin DOMAIN u
        BY <1>2, <1>4, <2>3, <3>1
      <3> QED BY <3>2 DEF EmptySet, ActiveKeys, ApplyChanges
    <2> QED BY <2>2, <2>3
  <1>8. /\ ccVals' = ApplyChanges(ccVals, pendingChanges)
        /\ UNCHANGED <<initGenesisHeight, preCCV, lateLeavers>>
    BY DEF EndBlock
  <1>9. Upgraded' /\ ~preCCV'
    BY <1>1, <1>8 DEF Upgraded
  <1>10. CASE CometApplies(u)
    <2>1. /\ nxt' = ApplyChanges(nxt, u) /\ height' = height + 1 /\ ~halted'
          /\ consumerHeights' = consumerHeights \cup {height + 2}
      BY <1>1, <1>10 DEF CometApplies
    <2>2. HandedOver'
      <3> SUFFICES ASSUME NEW k \in Keys
                   PROVE  nxt'[k] = ccVals'[k] \/ (ccVals'[k] = 0 /\ k \in lateLeavers')
        BY DEF HandedOver
      <3>1. CASE k \in DOMAIN u
        BY <1>3, <1>4, <1>8, <2>1, <3>1 DEF ApplyChanges
      <3>2. CASE k \in E /\ k \notin DOMAIN u
        BY <1>2, <1>3, <1>5, <1>8, <2>1, <3>2 DEF ApplyChanges
      <3>3. CASE k \notin E
        BY <1>2, <1>3, <1>4, <1>8, <2>1, <3>3 DEF ApplyChanges
      <3> QED BY <3>1, <3>2, <3>3
    <2>3. UpgradeInv'
      <3>1. (initGenesisHeight + 2)..(height + 2)
                = ((initGenesisHeight + 2)..(height + 1)) \cup {height + 2}
        BY ChangeoverAssumption DEF HandoverInv, UpgradeInv, TypeOK, Heights
      <3>2. height' + 1 = height + 2 /\ initGenesisHeight <= height'
        BY <2>1, ChangeoverAssumption DEF HandoverInv, UpgradeInv, TypeOK, Heights
      <3> QED BY <1>1, <1>8, <1>9, <2>1, <3>1, <3>2 DEF HandoverInv, UpgradeInv
    <2> QED BY <1>9, <2>1, <2>2, <2>3
            DEF HandoverInv, StandaloneInv, HaltedInv, HaltsOnlyWithCause
  <1>11. CASE CometHalts(u)
    <2>1. halted' /\ ~inBlock' /\ UNCHANGED <<height, consumerHeights>>
      BY <1>11 DEF CometHalts
    <2>2. EmptySet(ApplyChanges(ccVals, pendingChanges))
      BY <1>6, <1>7, <1>11 DEF CometHalts, CometRejects
    <2>3. HaltsOnlyWithCause'
      BY <1>8, <1>9, <2>2 DEF HaltsOnlyWithCause, EmptySet, ActiveKeys
    <2>4. UpgradeInv'
      BY <1>1, <1>8, <1>9, <2>1 DEF HandoverInv, UpgradeInv
    <2> QED BY <1>9, <2>1, <2>3, <2>4
            DEF HandoverInv, StandaloneInv, HaltedInv, HandedOver
  <1> QED BY <1>10, <1>11 DEF EndBlock, CometTakes

\* The invariant is inductive.
LEMMA HandoverInductive == TypeOK /\ HandoverInv /\ [Next]_vars => HandoverInv'
  <1> SUFFICES ASSUME TypeOK, HandoverInv, [Next]_vars PROVE HandoverInv'
    OBVIOUS
  <1> USE DEF HandoverInv, HandedOver, HaltsOnlyWithCause, Upgraded, EmptySet,
              ActiveKeys, ApplyChanges, StandaloneInv, UpgradeInv, HaltedInv, NoVals
  <1>1. CASE BeginBlockStandalone
    BY <1>1 DEF BeginBlockStandalone, comet, staking, history
  <1>2. ASSUME NEW vals \in ValSets, Upgrade(vals) PROVE HandoverInv'
    <2>1. height # 0 /\ (height + 2)..(height + 1) = {}
      BY ChangeoverAssumption DEF TypeOK, Heights
    <2>2. StandaloneInv' /\ HaltedInv' /\ HandedOver' /\ HaltsOnlyWithCause'
      BY <1>2 DEF Upgrade, comet, staking, history
    <2>3. UpgradeInv'
      <3>1. /\ initGenesisHeight' = height /\ height' = height /\ preCCV'
            /\ initialValSet' = vals /\ ~EmptySet(vals)
            /\ consumerHeights' = consumerHeights /\ consumerHeights = {}
        BY <1>2 DEF Upgrade, history
      <3>2. height <= height
        BY DEF TypeOK, Heights
      <3> QED BY <2>1, <3>1, <3>2
    <2> QED BY <2>2, <2>3
  <1>3. CASE BeginBlock
    BY <1>3 DEF BeginBlock, comet, staking, history
  <1>4. ASSUME NEW k \in Keys, NEW p \in Powers, StakingTx(k, p) PROVE HandoverInv'
    BY <1>4 DEF StakingTx, block, comet, history
  <1>5. ASSUME NEW vals \in ValSets, OnRecvVSCPacket(vals) PROVE HandoverInv'
    BY <1>5 DEF OnRecvVSCPacket, block, comet, staking, history
  <1>6. ASSUME NEW n \in EntryChoices, UpdateParams(n) PROVE HandoverInv'
    BY <1>6 DEF UpdateParams, block, comet, staking, history
  <1>7. CASE EndBlockStandalone
    BY <1>7, StandaloneHandover
  <1>8. CASE EndBlockChangeover
    BY <1>8, ChangeoverHandover
  <1>9. CASE EndBlock
    BY <1>9, ConsumerHandover
  <1>10. CASE UNCHANGED vars
    BY <1>10 DEF vars, block, comet, staking, history
  <1> QED
    BY <1>1, <1>2, <1>3, <1>4, <1>5, <1>6, <1>7, <1>8, <1>9, <1>10 DEF Next

\* After the changeover CometBFT runs the cross-chain validators and, at most,
\* validators that left the staking set in the block of the upgrade.
THEOREM HandoverCorrect == Spec => []HandedOver
  <1>1. HandoverInv => HandedOver
    BY DEF HandoverInv
  <1> QED BY <1>1, InitTypeOK, TypeInductive, InitHandover, HandoverInductive, PTL DEF Spec

\* CometBFT refuses the updates of a block only if the staking set became empty
\* before the upgrade, the cross-chain set after the changeover, or a validator
\* joined the staking set in the block of the upgrade, before the consumer's
\* EndBlock, without being chosen by the provider.
THEOREM HaltCorrect == Spec => []HaltsOnlyWithCause
  <1>1. HandoverInv => HaltsOnlyWithCause
    BY DEF HandoverInv
  <1> QED BY <1>1, InitTypeOK, TypeInductive, InitHandover, HandoverInductive, PTL DEF Spec

\* The consumer module decides exactly the blocks from FirstConsumerHeight on.
THEOREM FirstHeightCorrect == Spec => []FirstHeightExact
  <1>1. TypeOK /\ HandoverInv => FirstHeightExact
    BY ChangeoverAssumption
    DEF HandoverInv, UpgradeInv, FirstHeightExact, FirstConsumerHeight,
        ValidatorUpdateDelay, TypeOK, Heights
  <1> QED BY <1>1, InitTypeOK, TypeInductive, InitHandover, HandoverInductive, PTL DEF Spec

-----------------------------------------------------------------------------
(* Historical infos. *)

\* The newest height with a historical info.
Newest == IF inBlock THEN height ELSE height - 1

\* The heights with a historical info form a range up to the newest one.
RangeInv ==
    ~halted => IF Upgraded THEN \E a \in 1..Newest : historical = a..Newest
               ELSE historical = {}

\* TrackHistoricalInfo shortens the range at its lower end and extends it by the
\* block that begins.
LEMMA TrackedRange ==
    ASSUME TypeOK, NEW a \in 1..height, historical = a..(height - 1), TrackHistoricalInfo
    PROVE  \E b \in 1..height : historical' = b..height /\ b > height - historicalEntries
  <1> DEFINE e == height - historicalEntries
             b == IF a > e THEN a ELSE e + 1
  <1>1. height \in Nat \ {0} /\ historicalEntries \in Nat \ {0} /\ a \in Nat /\ a >= 1
    BY ChangeoverAssumption DEF TypeOK, Heights
  <1>2. e \in Int /\ e < height /\ b \in Int /\ b >= 1 /\ b <= height /\ b > e
    BY <1>1
  <1>3. Pruned = {h \in a..(height - 1) : h <= e}
    BY <1>1, <1>2 DEF Pruned
  <1>4. historical' = b..height
    BY <1>1, <1>2, <1>3 DEF TrackHistoricalInfo
  <1> QED BY <1>1, <1>2, <1>4

\* The least element of a range.
LEMMA Oldest ==
    ASSUME NEW b \in Int, NEW c \in Int, b <= c
    PROVE  (CHOOSE g \in b..c : \A h \in b..c : g <= h) = b
  <1> DEFINE P(g) == g \in b..c /\ \A h \in b..c : g <= h
  <1>1. P(b)
    OBVIOUS
  <1>2. \A g : P(g) => g = b
    OBVIOUS
  <1> QED BY <1>1, <1>2

\* The range is kept by every step.
LEMMA RangeInductive ==
    TypeOK /\ HandoverInv /\ RangeInv /\ [Next]_vars => RangeInv'
  <1> SUFFICES ASSUME TypeOK, HandoverInv, RangeInv, [Next]_vars PROVE RangeInv'
    OBVIOUS
  <1>0. height \in Nat \ {0}
    BY ChangeoverAssumption DEF TypeOK, Heights
  <1>1. CASE BeginBlockStandalone
    BY <1>1 DEF BeginBlockStandalone, RangeInv, Upgraded
  <1>2. ASSUME NEW vals \in ValSets, Upgrade(vals) PROVE RangeInv'
    <2>1. historical = height..(height - 1)
      <3>1. historical = {}
        BY <1>2 DEF Upgrade, RangeInv
      <3>2. height..(height - 1) = {}
        BY <1>0
      <3> QED BY <3>1, <3>2
    <2>2. \E b \in 1..height : historical' = b..height
      BY <1>0, <1>2, <2>1, TrackedRange DEF Upgrade
    <2> QED BY <1>2, <2>2 DEF Upgrade, RangeInv, Newest, Upgraded
  <1>3. CASE BeginBlock
    <2>1. PICK a \in 1..height : historical = a..(height - 1)
      BY <1>0, <1>3 DEF BeginBlock, RangeInv, Newest
    <2>2. \E b \in 1..height : historical' = b..height
      BY <1>3, <2>1, TrackedRange DEF BeginBlock
    <2> QED BY <1>3, <2>2 DEF BeginBlock, RangeInv, Newest, Upgraded
  <1>4. ASSUME NEW k \in Keys, NEW p \in Powers, StakingTx(k, p) PROVE RangeInv'
    BY <1>4 DEF StakingTx, block, RangeInv, Newest, Upgraded
  <1>5. ASSUME NEW vals \in ValSets, OnRecvVSCPacket(vals) PROVE RangeInv'
    BY <1>5 DEF OnRecvVSCPacket, block, RangeInv, Newest, Upgraded
  <1>6. ASSUME NEW n \in EntryChoices, UpdateParams(n) PROVE RangeInv'
    BY <1>6 DEF UpdateParams, block, RangeInv, Newest, Upgraded
  <1>7. CASE EndBlockStandalone
    BY <1>7 DEF EndBlockStandalone, RangeInv, Newest, Upgraded
  <1>8. ASSUME ~halted, inBlock, Upgraded, NEW u, CometTakes(u),
               UNCHANGED <<initGenesisHeight, historical>>
        PROVE  RangeInv'
    <2>1. PICK a \in 1..height : historical = a..height
      BY <1>8 DEF RangeInv, Newest
    <2>2. CASE CometHalts(u)
      BY <2>2 DEF CometHalts, RangeInv
    <2>3. CASE CometApplies(u)
      <3>1. height' = height + 1 /\ ~inBlock'
        BY <2>3 DEF CometApplies
      <3>2. Newest' = height
        BY <1>0, <3>1 DEF Newest
      <3> QED BY <1>8, <2>1, <3>2 DEF RangeInv, Upgraded
    <2> QED BY <1>8, <2>2, <2>3 DEF CometTakes
  <1>9. CASE EndBlockChangeover
    BY <1>8, <1>9 DEF EndBlockChangeover, HandoverInv, UpgradeInv
  <1>10. CASE EndBlock
    BY <1>8, <1>10 DEF EndBlock
  <1>11. CASE UNCHANGED vars
    BY <1>11 DEF vars, block, RangeInv, Newest, Upgraded
  <1> QED
    BY <1>1, <1>2, <1>3, <1>4, <1>5, <1>6, <1>7, <1>9, <1>10, <1>11 DEF Next

\* The historical infos of a consumer are an unbroken range that ends with the
\* block that begins, no longer than the parameter allows.
THEOREM HistoricalCorrect == Spec => HistoricalRange
  <1>1. Init => RangeInv
    BY DEF Init, RangeInv, Upgraded
  <1> DEFINE A == inBlock' /\ ~inBlock /\ Upgraded' =>
                    LET oldest == CHOOSE g \in historical' : \A h \in historical' : g <= h
                    IN  historical' = oldest..height /\ oldest > height - historicalEntries
  <1>2. TypeOK /\ RangeInv /\ [Next]_vars => [A]_vars
    <2> SUFFICES ASSUME TypeOK, RangeInv, Next, inBlock', ~inBlock, Upgraded'
                 PROVE  A
      OBVIOUS
    <2>0. height \in Nat \ {0} /\ historicalEntries \in Nat
      BY ChangeoverAssumption DEF TypeOK, Heights
    <2>1. \E b \in 1..height : historical' = b..height /\ b > height - historicalEntries
      <3>1. ASSUME NEW vals \in ValSets, Upgrade(vals)
            PROVE  \E b \in 1..height : historical' = b..height
                                        /\ b > height - historicalEntries
        <4>1. historical = height..(height - 1)
          <5>1. historical = {}
            BY <3>1 DEF Upgrade, RangeInv
          <5>2. height..(height - 1) = {}
            BY <2>0
          <5> QED BY <5>1, <5>2
        <4> QED BY <2>0, <3>1, <4>1, TrackedRange DEF Upgrade
      <3>2. CASE BeginBlock
        <4>1. PICK a \in 1..height : historical = a..(height - 1)
          BY <2>0, <3>2 DEF BeginBlock, RangeInv, Newest
        <4> QED BY <3>2, <4>1, TrackedRange DEF BeginBlock
      <3>3. ~BeginBlockStandalone
        BY DEF BeginBlockStandalone, Upgraded
      <3> QED BY <3>1, <3>2, <3>3 DEF Next, StakingTx, OnRecvVSCPacket, UpdateParams,
                 EndBlockStandalone, EndBlockChangeover, EndBlock
    <2>2. PICK b \in 1..height : historical' = b..height /\ b > height - historicalEntries
      BY <2>1
    <2>3. (CHOOSE g \in historical' : \A h \in historical' : g <= h) = b
      BY <2>0, <2>2, Oldest
    <2> QED BY <2>2, <2>3
  <1>3. HistoricalRange <=> [][A]_vars
    BY PTL DEF HistoricalRange
  <1> QED
    BY <1>1, <1>2, <1>3, InitTypeOK, TypeInductive, InitHandover, HandoverInductive,
       RangeInductive, PTL DEF Spec

=============================================================================
