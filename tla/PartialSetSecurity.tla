------------------------ MODULE PartialSetSecurity --------------------------
(***************************************************************************)
(* Opt-in, opt-out and power shaping of one consumer chain: which          *)
(* validators of the provider validate it, epoch by epoch, with which      *)
(* power and since when, and the provider's own consensus set.             *)
(*                                                                         *)
(* The staking module (external) orders bonded validators by voting power, *)
(* tokens in units of PowerReduction, and validators of equal power by     *)
(* address; the code under study sorts some lists again by tokens.  A      *)
(* jailed or unbonded validator is one without tokens.  Keys are left to   *)
(* KeyAssignment, owners and queues to ConsumerLifecycle.                  *)
(***************************************************************************)
EXTENDS PowerShaping

CONSTANTS Addresses,         \* the validators, a sequence ordered by address
          PowerReduction,    \* tokens per unit of voting power
          MaxValidators,     \* staking: bonded validators
          MaxProviderConsensusValidators,
          BlocksPerEpoch,
          NumberOfEpochsToStartReceivingRewards,
          Nil,               \* stands for an absent minimum power
          ParamChoices,      \* bound: power shaping parameters that are used
          TokenChoices,      \* bound: tokens a validator may have
          InitTokens,        \* bound: tokens at the start
          MaxHeight,         \* bound: height of the provider
          MaxMsgs            \* bound: messages and changes of stake

Vals == Range(Addresses)

PowerShapingParameters ==
    [Top_N : {0} \cup 50 .. 100, ValidatorSetCap : Nat, ValidatorsPowerCap : 0 .. 100,
     Allowlist : SUBSET Vals, Denylist : SUBSET Vals, Prioritylist : SUBSET Vals,
     MinStake : Nat, AllowInactiveVals : BOOLEAN]

ASSUME PSSAssumption ==
    /\ Addresses \in Seq(Vals)
    /\ \A i, j \in DOMAIN Addresses : Addresses[i] = Addresses[j] => i = j
    /\ PowerReduction \in Nat \ {0} /\ BlocksPerEpoch \in Nat \ {0}
    /\ MaxValidators \in Nat \ {0}
    /\ MaxProviderConsensusValidators \in 1 .. MaxValidators
    /\ NumberOfEpochsToStartReceivingRewards \in Nat
    /\ Nil \notin Nat
    /\ TokenChoices \subseteq Nat /\ InitTokens \subseteq [Vals -> TokenChoices]
    /\ MaxHeight \in Nat /\ MaxMsgs \in Nat
    /\ ParamChoices \subseteq PowerShapingParameters
    /\ \E p \in ParamChoices : p.Top_N = 0

VARIABLES
    \* staking (external)
    tokens,       \* bonded tokens of the validators
    lastPower,    \* LastValidatorPower, 0 when not bonded, of the last end of block
    \* provider
    height,       \* of the block being executed
    phase,        \* ConsumerPhase
    params,       \* PowerShapingParameters and the indexes of its lists
    optedIn,      \* opted-in validators
    minPower,     \* MinimumPowerInTopN
    consumerSet,  \* stored consumer validators: validator -> [power, JoinHeight]
    providerSet,  \* LastProviderConsensusValSet: validator -> power
    \* history
    streak,       \* consecutive epochs for which a validator was in the set
    msgs          \* messages so far

vars == <<tokens, lastPower, height, phase, params, optedIn, minPower,
          consumerSet, providerSet, streak, msgs>>

-----------------------------------------------------------------------------
(* What the staking module answers *)

Power(t) == [v \in Vals |-> t[v] \div PowerReduction]

\* Validators in the order of the power index: by power, then by address.
ByPower(t, S) ==
    SortDescending(Filter(Addresses, S), Power(t))

\* GetBondedValidatorsByPower: the index has current tokens, the status and the
\* last power are those of the last end of block.
BondedValidatorsByPower(t, last) ==
    ByPower(t, {v \in Vals : Power(t)[v] > 0 /\ last[v] > 0})

\* The last powers after the end of block of the staking module.
ApplyValidatorSetUpdates(t) ==
    LET bonded == Truncate(ByPower(t, {v \in Vals : Power(t)[v] > 0}), MaxValidators)
    IN [v \in Vals |-> IF v \in Range(bonded) THEN Power(t)[v] ELSE 0]

GetLastBondedValidators(t, last) ==
    Truncate(BondedValidatorsByPower(t, last), MaxValidators)

GetLastProviderConsensusActiveValidators(t, last) ==
    Truncate(BondedValidatorsByPower(t, last), MaxProviderConsensusValidators)

-----------------------------------------------------------------------------
(* The next consumer validator set *)

CanValidateChain(p, opted, last, min, v) ==
    /\ v \in opted \/ (p.Top_N > 0 /\ last[v] >= min)
    /\ p.Allowlist = {} \/ v \in p.Allowlist
    /\ v \notin p.Denylist

FulfillsMinStake(p, t, v) == t[v] >= p.MinStake

\* The height at which a validator joined is kept while it is in the stored set.
CreateConsumerValidator(set, v, power, h) ==
    [power |-> power,
     JoinHeight |-> IF v \in DOMAIN set THEN set[v].JoinHeight ELSE h]

\* Mutant of ConsideredValidators: inactive validators are always considered.
ConsiderAllBonded(p, t, last) == SortDescending(GetLastBondedValidators(t, last), t)

\* All bonded validators, or the first ones by tokens.
ConsideredValidators(p, t, last) ==
    LET byTokens == SortDescending(GetLastBondedValidators(t, last), t)
    IN IF p.AllowInactiveVals THEN byTokens
       ELSE Truncate(byTokens, MaxProviderConsensusValidators)

\* The validators of the next set, before their powers are capped.
SelectValidators(p, opted, t, last, min) ==
    LET filtered == Filter(ConsideredValidators(p, t, last),
                        {v \in Vals : /\ CanValidateChain(p, opted, last, min, v)
                                      /\ FulfillsMinStake(p, t, v)})
    IN CapValidatorSet(
           PartitionBasedOnPriorityList(filtered, last, p.Prioritylist),
           p.Top_N, p.ValidatorSetCap)

ComputeNextValidators(p, opted, t, last, min, set, h) ==
    LET selected == SelectValidators(p, opted, t, last, min)
        power == CapValidatorsPower(selected, last, p.ValidatorsPowerCap)
    IN [v \in Range(selected) |-> CreateConsumerValidator(set, v, power[v], h)]

OptInTopNValidators(opted, active, last, min) ==
    opted \cup {v \in Range(active) : last[v] >= min}

\* Stores the minimum power, opts in the top N, and stores the next set.
ComputeConsumerNextValSet(t, last, h) ==
    LET active == GetLastProviderConsensusActiveValidators(t, last)
        topN == params.Top_N > 0
        min == IF topN THEN ComputeMinPowerInTopN(active, last, params.Top_N) ELSE 0
        opted == IF topN THEN OptInTopNValidators(optedIn, active, last, min)
                         ELSE optedIn
    IN /\ minPower' = IF topN THEN min ELSE minPower
       /\ optedIn' = opted
       /\ consumerSet' = ComputeNextValidators(params, opted, t, last, min,
                                               consumerSet, h)

-----------------------------------------------------------------------------
(* Messages *)

ActivePhases == {"REGISTERED", "INITIALIZED", "LAUNCHED"}

Message == msgs < MaxMsgs /\ msgs' = msgs + 1

\* Delegations, undelegations and jailing between two ends of block; the provider
\* never loses all its validators.
ChangeStake(v, t) ==
    /\ Message /\ t # tokens[v]
    /\ tokens' = [tokens EXCEPT ![v] = t]
    /\ \E w \in Vals : Power(tokens')[w] > 0 /\ lastPower[w] > 0
    /\ UNCHANGED <<lastPower, height, phase, params, optedIn, minPower,
                   consumerSet, providerSet, streak>>

HandleOptIn(v) ==
    /\ Message /\ phase \in ActivePhases
    /\ optedIn' = optedIn \cup {v}
    /\ UNCHANGED <<tokens, lastPower, height, phase, params, minPower,
                   consumerSet, providerSet, streak>>

HandleOptOut(v) ==
    /\ Message /\ phase = "LAUNCHED"
    /\ params.Top_N > 0 => minPower # Nil /\ lastPower[v] < minPower
    /\ optedIn' = optedIn \ {v}
    /\ UNCHANGED <<tokens, lastPower, height, phase, params, minPower,
                   consumerSet, providerSet, streak>>

\* Mutant of UpdateMinimumPowerInTopN: the minimum is left to the next epoch.
UpdateMinimumAtEpoch(oldTopN, newTopN) ==
    minPower' = IF newTopN = 0 THEN Nil ELSE minPower

UpdateMinimumPowerInTopN(oldTopN, newTopN) ==
    minPower' =
        IF newTopN = oldTopN THEN minPower
        ELSE IF newTopN = 0 THEN Nil
        ELSE ComputeMinPowerInTopN(
                 GetLastProviderConsensusActiveValidators(tokens, lastPower),
                 lastPower, newTopN)

\* MsgUpdateConsumer with power shaping parameters.
UpdateConsumer(p) ==
    /\ Message /\ phase \in ActivePhases /\ p # params
    /\ params' = p
    /\ UpdateMinimumPowerInTopN(params.Top_N, p.Top_N)
    /\ UNCHANGED <<tokens, lastPower, height, phase, optedIn, consumerSet,
                   providerSet, streak>>

StopConsumer ==
    /\ Message /\ phase = "LAUNCHED"
    /\ phase' = "STOPPED"
    /\ UNCHANGED <<tokens, lastPower, height, params, optedIn, minPower,
                   consumerSet, providerSet, streak>>

\* DeleteConsumerChain, as far as the state of this module goes.
DeleteConsumerChain ==
    /\ Message /\ phase = "STOPPED"
    /\ phase' = "DELETED"
    /\ optedIn' = {} /\ minPower' = Nil /\ consumerSet' = <<>>
    /\ params' = [params EXCEPT !.Allowlist = {}, !.Denylist = {}, !.Prioritylist = {}]
    /\ UNCHANGED <<tokens, lastPower, height, providerSet, streak>>

-----------------------------------------------------------------------------
(* Blocks *)

\* ProviderValidatorUpdates: the set sent to the provider's consensus engine.
ProviderValidatorUpdates(t, last) ==
    LET list == BondedValidatorsByPower(t, last)
    IN providerSet' = [v \in Range(Truncate(list, MaxProviderConsensusValidators))
                           |-> last[v]]

BlocksUntilNextEpoch ==
    LET since == height % BlocksPerEpoch
    IN IF since = 0 THEN 0 ELSE BlocksPerEpoch - since

\* The end of block of staking and then of the provider, and the beginning of
\* the next block without a launch.
EndBlock ==
    LET epoch == phase = "LAUNCHED" /\ BlocksUntilNextEpoch = 0
    IN /\ height < MaxHeight /\ height' = height + 1
       /\ lastPower' = ApplyValidatorSetUpdates(tokens)
       /\ ProviderValidatorUpdates(tokens, lastPower')
       /\ IF epoch THEN ComputeConsumerNextValSet(tokens, lastPower', height)
                   ELSE UNCHANGED <<minPower, optedIn, consumerSet>>
       /\ streak' = IF epoch
                    THEN [v \in Vals |-> IF v \in DOMAIN consumerSet'
                                         THEN streak[v] + 1 ELSE 0]
                    ELSE streak
       /\ UNCHANGED <<tokens, phase, params, msgs>>

\* The same with a launch in the next block, whose slashing module may have
\* jailed validators before.  A launch needs a validator, and one of them active.
EndBlockAndLaunch(jailed) ==
    LET t == [v \in Vals |-> IF v \in jailed THEN 0 ELSE tokens[v]]
    IN /\ height < MaxHeight /\ height' = height + 1
       /\ phase = "INITIALIZED" /\ phase' = "LAUNCHED"
       /\ lastPower' = ApplyValidatorSetUpdates(tokens)
       /\ ProviderValidatorUpdates(tokens, lastPower')
       /\ tokens' = t
       /\ \E v \in Vals : Power(t)[v] > 0 /\ lastPower'[v] > 0
       /\ ComputeConsumerNextValSet(t, lastPower', height + 1)
       /\ DOMAIN consumerSet'
              \cap Range(GetLastProviderConsensusActiveValidators(t, lastPower')) # {}
       /\ streak' = [v \in Vals |-> 0]
       /\ UNCHANGED <<params, msgs>>

-----------------------------------------------------------------------------
Init ==
    /\ tokens \in InitTokens
    /\ lastPower = ApplyValidatorSetUpdates(tokens)
    /\ \E v \in Vals : lastPower[v] > 0
    /\ providerSet = [v \in Range(Truncate(BondedValidatorsByPower(tokens, lastPower),
                                           MaxProviderConsensusValidators))
                          |-> lastPower[v]]
    /\ height = 1 /\ phase = "INITIALIZED" /\ minPower = Nil
    /\ params \in {p \in ParamChoices : p.Top_N = 0}
    /\ optedIn = {} /\ consumerSet = <<>>
    /\ streak = [v \in Vals |-> 0] /\ msgs = 0

Next ==
    \/ \E v \in Vals, t \in TokenChoices : ChangeStake(v, t)
    \/ \E v \in Vals : HandleOptIn(v) \/ HandleOptOut(v)
    \/ \E p \in ParamChoices : UpdateConsumer(p)
    \/ StopConsumer \/ DeleteConsumerChain
    \/ EndBlock
    \/ \E jailed \in {{}} \cup {{v} : v \in Vals} : EndBlockAndLaunch(jailed)

Spec == Init /\ [][Next]_vars

-----------------------------------------------------------------------------
(* Properties *)

\* Type correctness: tokens, powers, phases and parameters stay in their sets, the
\* stored sets are functions on validators, no validator joined in the future.
TypeOK ==
    /\ tokens \in [Vals -> TokenChoices \cup {0}] /\ lastPower \in [Vals -> Nat]
    /\ height \in Nat \ {0} /\ msgs \in 0 .. MaxMsgs
    /\ phase \in ActivePhases \cup {"STOPPED", "DELETED"}
    /\ params \in PowerShapingParameters
    /\ optedIn \subseteq Vals /\ minPower \in Nat \cup {Nil}
    /\ DOMAIN consumerSet \subseteq Vals /\ DOMAIN providerSet \subseteq Vals
    /\ \A v \in DOMAIN consumerSet : /\ consumerSet[v].power \in Nat
                                     /\ consumerSet[v].JoinHeight \in 1 .. height
    /\ streak \in [Vals -> Nat]

\* HandleOptOut never fails for want of a minimum power: one is stored exactly
\* while the chain is a Top N chain that was not deleted, whichever way it
\* became one.
MinPowerKnown ==
    minPower # Nil <=> params.Top_N > 0 /\ phase # "DELETED"

\* Mutant of IsEligibleForConsumerRewards: epochs are taken for blocks.
EligibleAfterBlocks(joinHeight) ==
    height - joinHeight >= NumberOfEpochsToStartReceivingRewards

\* IsEligibleForConsumerRewards, at the beginning of a block.
IsEligibleForConsumerRewards(joinHeight) ==
    height - joinHeight >= NumberOfEpochsToStartReceivingRewards * BlocksPerEpoch

\* The join height keeps short-term validators from rewards: on a launched chain
\* who is eligible was in the sets of the last
\* NumberOfEpochsToStartReceivingRewards epochs, without interruption, however
\* often it opted out and in again.
RewardedAfterPeriod ==
    phase = "LAUNCHED" =>
        \A v \in DOMAIN consumerSet :
            IsEligibleForConsumerRewards(consumerSet[v].JoinHeight)
                => streak[v] >= NumberOfEpochsToStartReceivingRewards

\* The join heights count the epochs: a validator has been in the sets of all epochs
\* that ended since it joined, and a validator outside the set has no streak
\* (CreateConsumerValidator).
JoinsCounted ==
    phase = "LAUNCHED" =>
        \A v \in Vals :
            streak[v] = IF v \in DOMAIN consumerSet
                        THEN (height - 1) \div BlocksPerEpoch
                                 - (consumerSet[v].JoinHeight - 1) \div BlocksPerEpoch
                        ELSE 0

\* Nobody validates before the launch, and the provider has a bonded validator, so
\* that there is always a minimum power to compute.
SomebodyBonded ==
    /\ phase = "INITIALIZED" => DOMAIN consumerSet = {}
    /\ \E v \in Vals : Power(tokens)[v] > 0 /\ lastPower[v] > 0

\* What is stored between epochs is consistent: the minimum power with the parameters
\* and the phase, the join heights with the sets of the past epochs
\* (HandleOptOut, CreateConsumerValidator).
EpochInv ==
    TypeOK /\ MinPowerKnown /\ RewardedAfterPeriod /\ JoinsCounted /\ SomebodyBonded

\* A step in which the consumer set is computed.
Shaped ==
    \/ height' # height /\ phase = "LAUNCHED" /\ BlocksUntilNextEpoch = 0
    \/ phase = "INITIALIZED" /\ phase' = "LAUNCHED"

Bonded(t, last) == {v \in Vals : Power(t)[v] > 0 /\ last[v] > 0}
Active(t, last) == Range(GetLastProviderConsensusActiveValidators(t, last))

\* The validators of the top N percent: those with more power do not make up N
\* percent of the power of the active validators.
TopNSet(t, last) ==
    LET active == Active(t, last)
        total == TotalPower(active, last)
    IN {v \in active :
           TotalPower({w \in active : last[w] > last[v]}, last) * 100
               < params.Top_N * total}

\* What the owner of the chain demands of every validator.
Admitted(t) ==
    {v \in Vals : /\ params.Allowlist = {} \/ v \in params.Allowlist
                  /\ v \notin params.Denylist
                  /\ t[v] >= params.MinStake}

\* Validators that are among the first by tokens whatever the order of equal ones.
FirstByTokens(t, last) ==
    LET bonded == Bonded(t, last)
    IN {v \in bonded : Cardinality({w \in bonded : t[w] >= t[v]})
                           <= MaxProviderConsensusValidators}

\* The guarantee of Top N chains: whenever the set is computed, every active
\* validator in the top N percent that the lists and the minimum stake admit is
\* in it, even if it opted out since the last epoch.  Only a validator that ties
\* in power with an inactive one, which has no fewer tokens, may be left out.
TopNValidates ==
    [][Shaped /\ params.Top_N > 0 =>
        LET t == tokens'
            last == lastPower'
            inactive == Bonded(t, last) \ Active(t, last)
        IN \A v \in TopNSet(t, last) \cap Admitted(t) :
               \/ v \in DOMAIN consumerSet'
               \/ /\ ~params.AllowInactiveVals
                  /\ \E w \in inactive : last[w] = last[v] /\ t[w] >= t[v]]_vars

\* Nobody validates without consent: who is in a computed set opted in, or has at
\* least the power of a validator in the top N percent, and is admitted.  The
\* set of an Opt In chain respects the cap, and no better candidate was left
\* out for a member: priority goes before power.
SelectionSound ==
    [][Shaped =>
        LET set == DOMAIN consumerSet'
            t == tokens'
            last == lastPower'
            admitted == Bonded(t, last) \cap Admitted(t)
            Better(v, w) ==
                \/ v \in params.Prioritylist /\ w \notin params.Prioritylist
                \/ /\ v \in params.Prioritylist <=> w \in params.Prioritylist
                   /\ last[v] > last[w]
        IN /\ set \subseteq admitted
           /\ IF params.Top_N > 0
              THEN LET top == TopNSet(t, last)
                   IN \A v \in set \ optedIn :
                          \E w \in top : last[v] >= last[w]
              ELSE /\ set \subseteq optedIn
                   /\ params.ValidatorSetCap > 0
                          => Cardinality(set) <= params.ValidatorSetCap
                   /\ \A v \in (optedIn \cap admitted) \ set :
                         params.AllowInactiveVals \/ v \in FirstByTokens(t, last)
                            => /\ Cardinality(set) = params.ValidatorSetCap
                               /\ \A w \in set : ~Better(v, w)]_vars

\* NoMoreThanPercentOfTheSum keeps what its comment says: if the cap can be met,
\* the total power is kept and nobody exceeds the cap, otherwise everybody has
\* exactly the cap.  Nobody is left with no power, nobody loses power that the
\* cap allows, and nobody overtakes a validator with more power.
PowersCapped ==
    [][Shaped =>
        LET set == DOMAIN consumerSet'
            old == lastPower'
            new == [v \in set |-> consumerSet'[v].power]
            max == MaxPower(set, old, params.ValidatorsPowerCap)
        IN IF params.ValidatorsPowerCap = 0 THEN \A v \in set : new[v] = old[v]
           ELSE /\ \A v \in set : new[v] <= max /\ new[v] >= Min({old[v], max})
                /\ TotalPower(set, new)
                       = Min({TotalPower(set, old), Cardinality(set) * max})
                /\ \A v, w \in set : old[v] > old[w] => new[v] >= new[w]]_vars

\* Only validators in the consensus of the provider validate a chain that does not
\* allow inactive validators, up to a tie: ComputeNextValidators takes the first
\* ones by tokens and the provider the first ones by power, so that an inactive
\* validator gets in only instead of an active one of the same power and with no
\* more tokens.
InactiveOnlyByTie ==
    [][height' # height /\ phase = "LAUNCHED" /\ BlocksUntilNextEpoch = 0
            /\ ~params.AllowInactiveVals
        => LET t == tokens'
               last == lastPower'
               active == DOMAIN providerSet'
           IN \A v \in DOMAIN consumerSet' \ active :
                  \E w \in active \ DOMAIN consumerSet' : last[w] = last[v] /\ t[w] <= t[v]]_vars
=============================================================================
