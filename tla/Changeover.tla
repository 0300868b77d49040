------------------------------ MODULE Changeover ------------------------------
(***************************************************************************)
(* A standalone chain becomes a consumer chain.  An upgrade adds the       *)
(* consumer module in the pre-CCV state; at the end of that block the      *)
(* module hands the initial validator set of the provider to CometBFT and  *)
(* takes the validators of the standalone staking module away; from then   *)
(* on its own blocks decide.  The staking module goes on as the democracy  *)
(* staking module, whose validator updates are dropped.                    *)
(*                                                                         *)
(* A block is BeginBlock, transactions and packets, EndBlock.  CometBFT    *)
(* uses the updates of block h from block h + 2 on.                        *)
(***************************************************************************)
EXTENDS Integers, ValidatorUpdates

CONSTANTS Orders,         \* values of stakingFirst
          EntryChoices,   \* values of the parameter HistoricalEntries
          MaxHeight       \* bound: block height

ASSUME ChangeoverAssumption ==
    /\ Orders \subseteq BOOLEAN /\ Orders # {}
    /\ EntryChoices \subseteq Nat \ {0} /\ EntryChoices # {}
    /\ MaxHeight \in Nat \ {0}

VARIABLES
    stakingFirst,       \* the application runs the staking module's EndBlock before
                        \* the consumer's (SetOrderEndBlockers); it never changes
    height, inBlock,    \* block height, and whether the block has begun
    cur, nxt,           \* CometBFT: the sets that sign this block and the next one
    staked,             \* staking: power of each key that is not jailed
    bonded,             \* staking: powers of the bonded validators
    initGenesisHeight,  \* InitGenesisHeight, 0 before the upgrade
    preCCV,             \* PreCCV
    initialValSet,      \* InitialValSet
    ccVals,             \* cross-chain validators
    pendingChanges,     \* PendingChanges
    historical,         \* heights with a HistoricalInfo
    historicalEntries,  \* parameter HistoricalEntries
    halted,             \* CometBFT refused the updates of a block
    \* history
    consumerHeights,    \* heights signed by a set the consumer module decided
    lateLeavers,        \* keys that left the staking set in the upgrade's block
    lateJoiners         \* keys that joined it there

block == <<stakingFirst, height, inBlock>>
comet == <<cur, nxt>>
staking == <<staked, bonded>>
history == <<consumerHeights, lateLeavers, lateJoiners>>
vars == <<block, comet, staking, initGenesisHeight, preCCV, initialValSet,
          ccVals, pendingChanges, historical, historicalEntries,
          halted, history>>

Heights == 1..MaxHeight
NoVals == [k \in Keys |-> 0]

TypeOK ==
    /\ stakingFirst \in Orders
    /\ height \in Heights /\ inBlock \in BOOLEAN
    /\ cur \in ValSets /\ nxt \in ValSets
    /\ staked \in ValSets /\ bonded \in ValSets
    /\ initGenesisHeight \in 0..MaxHeight /\ preCCV \in BOOLEAN
    /\ initialValSet \in ValSets /\ ccVals \in ValSets
    /\ pendingChanges \in Updates
    /\ historical \subseteq Heights /\ historicalEntries \in EntryChoices
    /\ halted \in BOOLEAN
    /\ consumerHeights \subseteq 1..(MaxHeight + 1)
    /\ lateLeavers \subseteq Keys /\ lateJoiners \subseteq Keys

\* The standalone chain has some validators.
Init ==
    /\ stakingFirst \in Orders
    /\ height = 1 /\ inBlock = FALSE
    /\ staked \in ValSets /\ ~EmptySet(staked)
    /\ bonded = staked /\ cur = staked /\ nxt = staked
    /\ initGenesisHeight = 0 /\ preCCV = FALSE
    /\ initialValSet = NoVals /\ ccVals = NoVals
    /\ pendingChanges = NoUpdates
    /\ historical = {} /\ historicalEntries \in EntryChoices
    /\ halted = FALSE
    /\ consumerHeights = {} /\ lateLeavers = {} /\ lateJoiners = {}

Upgraded == initGenesisHeight # 0

\* sdk.ValidatorUpdateDelay (external).
ValidatorUpdateDelay == 1

\* Mutant of FirstConsumerHeight: the updates are thought to be in force earlier.
FirstConsumerHeightNext == initGenesisHeight + ValidatorUpdateDelay

\* FirstConsumerHeight, which SlashWithInfractionReason compares infractions with.
FirstConsumerHeight == initGenesisHeight + ValidatorUpdateDelay + 1

-----------------------------------------------------------------------------
(* BeginBlock *)

\* The heights TrackHistoricalInfo deletes: downwards from the newest one to be
\* pruned, up to the first that is missing.  PrunedTooFew, a mutant, keeps one
\* entry more than the parameter says.
PrunedTooFew ==
    {h \in historical : h <= height - historicalEntries - 1
                        /\ h..(height - historicalEntries - 1) \subseteq historical}
Pruned ==
    {h \in historical : h <= height - historicalEntries
                        /\ h..(height - historicalEntries) \subseteq historical}

\* TrackHistoricalInfo.
TrackHistoricalInfo == historical' = (historical \ Pruned) \cup {height}

\* The standalone chain has no consumer module.
BeginBlockStandalone ==
    /\ ~halted /\ ~inBlock /\ ~Upgraded
    /\ inBlock' = TRUE
    /\ UNCHANGED <<stakingFirst, height, comet, staking, initGenesisHeight, preCCV,
                   initialValSet, ccVals, pendingChanges, historical,
                   historicalEntries, halted, history>>

\* The upgrade handler calls InitGenesis with the consumer genesis vals is taken
\* from, then the block begins.
Upgrade(vals) ==
    /\ ~halted /\ ~inBlock /\ ~Upgraded
    /\ ~EmptySet(vals)
    /\ preCCV' = TRUE
    /\ initialValSet' = vals
    /\ initGenesisHeight' = height
    /\ TrackHistoricalInfo
    /\ inBlock' = TRUE
    /\ UNCHANGED <<stakingFirst, height, comet, staking, ccVals, pendingChanges,
                   historicalEntries, halted, history>>

BeginBlock ==
    /\ ~halted /\ ~inBlock /\ Upgraded
    /\ TrackHistoricalInfo
    /\ inBlock' = TRUE
    /\ UNCHANGED <<stakingFirst, height, comet, staking, initGenesisHeight, preCCV,
                   initialValSet, ccVals, pendingChanges, historicalEntries,
                   halted, history>>

-----------------------------------------------------------------------------
(* Within a block *)

\* A transaction of the staking module changes the power of a validator, jails
\* it or adds one, or takes the last one away (external).  After the changeover
\* nothing here depends on it.
StakingTx(k, p) ==
    /\ inBlock /\ (Upgraded => preCCV)
    /\ staked' = [staked EXCEPT ![k] = p]
    /\ UNCHANGED <<block, comet, bonded, initGenesisHeight, preCCV,
                   initialValSet, ccVals, pendingChanges, historical,
                   historicalEntries, halted, history>>

\* OnRecvVSCPacket: the provider's next set is vals, empty if all validators opted
\* out.  The CCV channel is opened after the block of the upgrade.
OnRecvVSCPacket(vals) ==
    /\ inBlock /\ Upgraded /\ ~preCCV
    /\ pendingChanges' =
          AccumulateChanges(pendingChanges,
              DiffValidators(ApplyChanges(ccVals, pendingChanges), vals))
    /\ UNCHANGED <<block, comet, staking, initGenesisHeight, preCCV,
                   initialValSet, ccVals, historical, historicalEntries, halted,
                   history>>

\* UpdateParams.
UpdateParams(n) ==
    /\ inBlock /\ Upgraded
    /\ historicalEntries' = n
    /\ UNCHANGED <<block, comet, staking, initGenesisHeight, preCCV,
                   initialValSet, ccVals, pendingChanges, historical, halted,
                   history>>

-----------------------------------------------------------------------------
(* EndBlock *)

\* GetLastStandaloneValidators: bonded and not jailed, as the staking module has
\* them when the consumer's EndBlock runs.
GetLastStandaloneValidators ==
    IF stakingFirst THEN ActiveKeys(staked)
    ELSE ActiveKeys(bonded) \cap ActiveKeys(staked)

\* The updates in the consumer genesis.
GetInitialValSet == [k \in ActiveKeys(initialValSet) |-> initialValSet[k]]

\* Mutant of ChangeoverUpdates: the standalone validators are not taken away.
ChangeoverInitialOnly == GetInitialValSet

\* ChangeoverToConsumer: the updates for CometBFT.
ChangeoverUpdates ==
    [k \in ActiveKeys(initialValSet) \cup GetLastStandaloneValidators |->
        initialValSet[k]]

\* CometBFT (external) takes the updates of this block, or the chain halts.
CometApplies(updates) ==
    /\ ~CometRejects(nxt, updates)
    /\ cur' = nxt
    /\ nxt' = ApplyChanges(nxt, updates)
    /\ height' = height + 1
    /\ inBlock' = FALSE
    /\ consumerHeights' = IF Upgraded THEN consumerHeights \cup {height + 2}
                          ELSE consumerHeights
    /\ UNCHANGED halted
CometHalts(updates) ==
    /\ CometRejects(nxt, updates)
    /\ halted' = TRUE
    /\ inBlock' = FALSE
    /\ UNCHANGED <<comet, height, consumerHeights>>
CometTakes(updates) == CometApplies(updates) \/ CometHalts(updates)

\* EndBlock of the staking module: the bonded validators follow the stake.  The
\* updates count on the standalone chain only.
EndBlockStandalone ==
    /\ ~halted /\ inBlock /\ ~Upgraded /\ height < MaxHeight
    /\ bonded' = staked
    /\ CometTakes(DiffValidators(bonded, staked))
    /\ UNCHANGED <<stakingFirst, staked, initGenesisHeight, preCCV, initialValSet,
                   ccVals, pendingChanges, historical, historicalEntries,
                   lateLeavers, lateJoiners>>

\* Mutant of DeletePreCCV: the flag stays.
KeepPreCCV == UNCHANGED preCCV
DeletePreCCV == preCCV' = FALSE

\* EndBlock of the consumer module in the pre-CCV state, ChangeoverToConsumer,
\* and of the democracy staking module.
EndBlockChangeover ==
    /\ ~halted /\ inBlock /\ preCCV /\ height < MaxHeight
    /\ ccVals' = ApplyChanges(ccVals, GetInitialValSet)
    /\ DeletePreCCV
    /\ bonded' = staked
    /\ CometTakes(ChangeoverUpdates)
    /\ lateLeavers' = ActiveKeys(bonded) \ ActiveKeys(staked)
    /\ lateJoiners' = ActiveKeys(staked) \ ActiveKeys(bonded)
    /\ UNCHANGED <<stakingFirst, staked, initGenesisHeight, initialValSet,
                   pendingChanges, historical, historicalEntries>>

\* EndBlock of the consumer module afterwards.
EndBlock ==
    /\ ~halted /\ inBlock /\ Upgraded /\ ~preCCV /\ height < MaxHeight
    /\ ccVals' = ApplyChanges(ccVals, pendingChanges)
    /\ pendingChanges' = NoUpdates
    /\ bonded' = staked
    /\ CometTakes(ForwardedUpdates(ccVals, pendingChanges))
    /\ UNCHANGED <<stakingFirst, staked, initGenesisHeight, preCCV, initialValSet,
                   historical, historicalEntries, lateLeavers, lateJoiners>>

Next ==
    \/ BeginBlockStandalone
    \/ \E vals \in ValSets : Upgrade(vals)
    \/ BeginBlock
    \/ \E k \in Keys, p \in Powers : StakingTx(k, p)
    \/ \E vals \in ValSets : OnRecvVSCPacket(vals)
    \/ \E n \in EntryChoices : UpdateParams(n)
    \/ EndBlockStandalone
    \/ EndBlockChangeover
    \/ EndBlock

Spec == Init /\ [][Next]_vars

-----------------------------------------------------------------------------
(* Properties *)

\* The blocks from FirstConsumerHeight on, and no others, are signed by a set
\* the consumer module decided: the height with which SlashWithInfractionReason
\* and ChangeoverIsComplete compare is the one at which CometBFT changes over.
FirstHeightExact ==
    Upgraded => \A h \in 1..(height + 1) :
                   h \in consumerHeights <=> h >= FirstConsumerHeight

\* After the changeover CometBFT runs the cross-chain validators, through every
\* later update; what else may be left are validators that dropped out of the
\* staking set in the very block of the changeover (ChangeoverToConsumer,
\* ApplyCCValidatorChanges).
HandedOver ==
    Upgraded /\ ~preCCV /\ ~halted =>
        \A k \in Keys : nxt[k] = ccVals[k] \/ (ccVals[k] = 0 /\ k \in lateLeavers)

\* CometBFT refuses the updates of a block for one of three reasons: the set that
\* decides has become empty, which is the staking set before the upgrade and the
\* cross-chain set after the changeover (all validators of the provider opted
\* out), or the staking module bonded, in the block of the changeover and before
\* the consumer's EndBlock, a validator CometBFT never heard of, whose power is
\* then taken away (ChangeoverToConsumer, ApplyCCValidatorChanges).
HaltsOnlyWithCause ==
    halted => \/ ~Upgraded /\ EmptySet(staked)
              \/ Upgraded /\ ~preCCV /\ EmptySet(ccVals)
              \/ stakingFirst /\ \E k \in lateJoiners : initialValSet[k] = 0

\* The heights with a historical info are an unbroken range that ends with the
\* block that begins, no more than the parameter allows, however it was changed
\* before (TrackHistoricalInfo stops at the first missing entry).
HistoricalRange ==
    [][inBlock' /\ ~inBlock /\ Upgraded' =>
          LET oldest == CHOOSE g \in historical' : \A h \in historical' : g <= h
          IN  historical' = oldest..height /\ oldest > height - historicalEntries
      ]_vars

\* What the handover is for: no validator of the standalone set that the
\* provider did not choose signs a block of the consumer.
OldValidatorsRemoved ==
    Upgraded /\ ~preCCV /\ ~halted => ActiveKeys(nxt) = ActiveKeys(ccVals)
=============================================================================
