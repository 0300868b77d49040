------------------------ MODULE ConsumerEquivocation ------------------------
(***************************************************************************)
(* Evidence of equivocation on one consumer chain: anyone may submit to    *)
(* the provider the evidence that validators of the consumer have signed   *)
(* two blocks at a height, as duplicate votes of one of them or as         *)
(* conflicting headers (consumer_equivocation.go).  The provider attributes *)
(* the consumer keys through the index of KeyAssignment and slashes, jails *)
(* and tombstones the validators behind them.                              *)
(*                                                                         *)
(* The keys and the set in force on the consumer follow those of the       *)
(* provider with a delay: the end of the epoch, then the VSC packet.       *)
(* Signatures are genuine; evidence that does not verify changes nothing.  *)
(* A block of the consumer is known by its time: heights grow with it.     *)
(***************************************************************************)
EXTENDS KeyAssignment, FiniteSets

CONSTANTS UpdateDelay,  \* bound: until the consumer applies a change of keys or set
          ClientLag,    \* bound: of the client of a standalone chain behind the chain
          Tombstone     \* InfractionParameters.DoubleSign.Tombstone

ASSUME EquivocationAssumption ==
    /\ UpdateDelay \in Nat /\ UpdateDelay < UnbondingPeriod
    /\ ClientLag \in Nat
    /\ Tombstone \in BOOLEAN

VARIABLES
    left,        \* staking: when a validator began to unbond, None if bonded
    tombstoned,  \* slashing: the validators tombstoned
    offences,    \* one equivocation on the consumer: who signed twice, with which
                 \* key and when; val is None for a validator of the chain's own
    minHeight,   \* EquivocationEvidenceMinHeight, 0 if not set
    slashes      \* number of times each validator was slashed

equivocationVars == <<vars, left, tombstoned, offences, minHeight, slashes>>

Offences == [key : Keys, val : Vals \cup {None}, at : Times]

EquivocationTypeOK ==
    /\ left \in [Vals -> Times \cup {None}]
    /\ tombstoned \subseteq Vals
    /\ offences \subseteq Offences
    /\ minHeight \in Times
    /\ slashes \in [Vals -> Nat]

EquivocationInit ==
    /\ Init
    /\ left = [v \in Vals |-> None]
    /\ tombstoned = {}
    /\ offences = {}
    /\ minHeight = 0
    /\ slashes = [v \in Vals |-> 0]

-----------------------------------------------------------------------------
(* The staking module and the consumer (external) *)

\* Validator.IsUnbonded.
IsUnbonded(v) == left[v] # None /\ left[v] + UnbondingPeriod <= now

\* v leaves the set of bonded validators, or comes back.
BeginUnbonding(v) ==
    /\ v \in validators /\ left[v] = None
    /\ left' = [left EXCEPT ![v] = now]
    /\ UNCHANGED <<vars, tombstoned, offences, minHeight, slashes>>

Rebond(v) ==
    /\ v \in validators \ tombstoned /\ left[v] # None
    /\ left' = [left EXCEPT ![v] = None]
    /\ UNCHANGED <<vars, tombstoned, offences, minHeight, slashes>>

\* The keys v may sign blocks of the consumer with: its key, one it has replaced
\* shortly before, or its provider key, in force until the first one it assigns.
SigningKeys(v) ==
    {EffectiveKey(v), v} \cup
        {k \in Keys : replaced[k] # None /\ replaced[k].val = v
                      /\ now <= replaced[k].at + UpdateDelay}

CanSign(v) ==
    v \in validators /\ (left[v] # None => now <= left[v] + UpdateDelay)

\* The validators of S sign two blocks at a height of the consumer.  A consumer
\* that is stopped hears of no more updates: what is signed there is left out,
\* the evidence of earlier offences is not.
DoubleSign(S) ==
    /\ phase = "LAUNCHED"
    /\ offences = {}
    /\ S # {} /\ \A v \in S : CanSign(v)
    /\ \E signedWith \in [S -> Keys] :
        /\ \A v \in S : signedWith[v] \in SigningKeys(v)
        /\ offences' = {[key |-> signedWith[v], val |-> v, at |-> now] : v \in S}
    /\ UNCHANGED <<vars, left, tombstoned, minHeight, slashes>>

\* A standalone chain runs with validators of its own, whose keys may also be keys
\* of validators of the provider, before its launch as a consumer and after it,
\* until its software upgrade.
StandaloneDoubleSign(k) ==
    /\ phase \in {"REGISTERED", "LAUNCHED"}
    /\ offences = {}
    /\ offences' = {[key |-> k, val |-> None, at |-> now]}
    /\ UNCHANGED <<vars, left, tombstoned, minHeight, slashes>>

-----------------------------------------------------------------------------
(* The provider *)

\* Mutants of Punishable: the tombstone is not looked at; a validator that is
\* jailed or unbonding is spared.
PunishableAgain(v) == v \in validators /\ ~IsUnbonded(v)
PunishableIfBonded(v) == v \in validators \ tombstoned /\ left[v] = None

\* What SlashValidator and JailAndTombstoneValidator both require.
Punishable(v) ==
    /\ v \in validators
    /\ ~IsUnbonded(v)
    /\ v \notin tombstoned

\* SlashValidator and JailAndTombstoneValidator of the validators in S.
Punish(S) ==
    /\ slashes' = [v \in Vals |-> IF v \in S THEN slashes[v] + 1 ELSE slashes[v]]
    /\ left' = [v \in Vals |-> IF v \in S /\ left[v] = None THEN now ELSE left[v]]
    /\ tombstoned' = IF Tombstone THEN tombstoned \cup S ELSE tombstoned
    /\ UNCHANGED <<vars, offences, minHeight>>

\* The consumer has a client from its launch to its deletion.
HasClient == phase \in {"LAUNCHED", "STOPPED"}

\* Mutant of RecentEnough: evidence of any height is accepted.
AnyHeight(o) == TRUE

\* The height is at least GetEquivocationEvidenceMinHeight.
RecentEnough(o) == o.at >= minHeight

\* HandleConsumerDoubleVoting.  On an error nothing changes.
HandleConsumerDoubleVoting(o) ==
    /\ HasClient
    /\ RecentEnough(o)
    /\ Punishable(GetProviderAddrFromConsumerAddr(o.key))
    /\ Punish({GetProviderAddrFromConsumerAddr(o.key)})

\* GetByzantineValidators: none for an amnesia attack, otherwise those that
\* signed both headers.  E is the part of offences the headers show.
GetByzantineValidators(E, amnesia) == IF amnesia THEN {} ELSE {o.key : o \in E}

\* The validators behind the keys K, through GetProviderAddrFromConsumerAddr.
Attributed(K) == {GetProviderAddrFromConsumerAddr(k) : k \in K}

\* HandleConsumerMisbehaviour: those that cannot be punished are passed over,
\* and it is an error if nobody was.
HandleConsumerMisbehaviour(E, amnesia) ==
    /\ HasClient
    /\ \A o \in E : RecentEnough(o)
    /\ LET S == {v \in Attributed(GetByzantineValidators(E, amnesia)) : Punishable(v)}
       IN  S # {} /\ Punish(S)

-----------------------------------------------------------------------------
\* The steps of KeyAssignment; a validator is removed once it is unbonded.
KeyStep ==
    /\ \/ \E v \in Vals, k \in Keys : AssignConsumerKey(v, k)
       \/ \E v \in Vals : CreateValidator(v)
       \/ \E v \in Vals : IsUnbonded(v) /\ RemoveValidator(v)
       \/ Stop
    /\ left' = [v \in Vals |-> IF v \in validators' THEN left[v] ELSE None]
    /\ UNCHANGED <<tombstoned, offences, minHeight, slashes>>

\* The minimum height of evidence is set with the client: the initial height of a
\* new chain, or the latest height of the client of a standalone chain, which lags
\* behind the chain by as much as it has not been updated.
LaunchStep ==
    /\ Launch
    /\ minHeight' \in {h \in 1..now : now <= h + ClientLag}
    /\ UNCHANGED <<left, tombstoned, offences, slashes>>

\* DeleteEquivocationEvidenceMinHeight.
DeleteStep ==
    /\ Delete
    /\ minHeight' = 0
    /\ UNCHANGED <<left, tombstoned, offences, slashes>>

BlockStep ==
    /\ \E d \in BlockTimes : EndBlock(d)
    /\ UNCHANGED <<left, tombstoned, offences, minHeight, slashes>>

EquivocationNext ==
    \/ KeyStep
    \/ LaunchStep
    \/ DeleteStep
    \/ BlockStep
    \/ \E v \in Vals : BeginUnbonding(v) \/ Rebond(v)
    \/ \E S \in SUBSET Vals : DoubleSign(S)
    \/ \E k \in Keys : StandaloneDoubleSign(k)
    \/ \E o \in offences : HandleConsumerDoubleVoting(o)
    \/ \E E \in SUBSET offences, amnesia \in BOOLEAN :
          HandleConsumerMisbehaviour(E, amnesia)

EquivocationSpec == EquivocationInit /\ [][EquivocationNext]_equivocationVars

\* Blocks are produced.
EquivocationFairSpec == EquivocationSpec /\ WF_equivocationVars(BlockStep)

-----------------------------------------------------------------------------
(* Properties *)

\* The evidence of o reaches the provider early enough: within an unbonding
\* period, less the time the consumer may lag behind the provider.
InTime(o) == now + UpdateDelay < o.at + UnbondingPeriod

\* However keys are replaced, pruned and reused and validators leave and are
\* removed after an equivocation of validators of the provider, evidence that
\* comes in time finds the one that signed: its height is not below the minimum,
\* the key leads to it, and unless it is tombstoned already it can still be slashed
\* (AssignConsumerKey, PruneKeyAssignments, SlashValidator).
OffenderPunishable ==
    phase # "DELETED" =>
        \A o \in offences : o.val # None /\ InTime(o) =>
            /\ minHeight <= o.at
            /\ GetProviderAddrFromConsumerAddr(o.key) = o.val
            /\ o.val \in tombstoned \/ Punishable(o.val)

\* Nobody is slashed for what another validator of the provider signed, unless the
\* evidence comes so late that the key has changed hands: its age is not checked.
\* Nor for what the chain's own validators signed below the minimum height, that is
\* before the last update of the client that preceded the launch.  What they sign
\* later, until the upgrade, is held against the validator their key leads to
\* (HandleConsumerDoubleVoting, HandleConsumerMisbehaviour).
OnlyOffendersPunished ==
    [][\A v \in Vals : slashes'[v] # slashes[v] =>
          \E o \in offences :
              /\ minHeight <= o.at
              /\ \/ o.val = v
                 \/ o.val = None /\ GetProviderAddrFromConsumerAddr(o.key) = v
                 \/ o.val # None /\ ~InTime(o)]_equivocationVars

\* A tombstoned validator is not slashed again, whichever kind of evidence is
\* submitted, however often and in whatever order (JailAndTombstoneValidator).
SlashedOnce == Tombstone => \A v \in Vals : slashes[v] <= 1

\* Evidence that comes in time can be acted on, and is acted on once
\* (HandleConsumerDoubleVoting, HandleConsumerMisbehaviour).
EvidenceInv == EquivocationTypeOK /\ OffenderPunishable /\ SlashedOnce
=============================================================================
