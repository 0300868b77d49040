--------------------------- MODULE KeyAssignment ----------------------------
(***************************************************************************)
(* Key assignment on one consumer chain.  A validator may validate the     *)
(* consumer with a key of its choice instead of its provider key.  The     *)
(* provider keeps the key assigned to each validator and a reverse index   *)
(* from consumer addresses to validators, through which infractions on the *)
(* consumer are attributed; the address of a replaced key stays in the     *)
(* index for an unbonding period.                                          *)
(*                                                                         *)
(* A public key and its address are one value, and a validator is          *)
(* identified with its provider key.  Consumers do not share this state;   *)
(* the hooks of the staking module go through all of them.                 *)
(***************************************************************************)
EXTENDS Integers

CONSTANTS Keys,             \* consensus keys
          Vals,             \* those that may become keys of provider validators
          None,             \* an absent value
          UnbondingPeriod,  \* of the staking module
          BlockTimes,       \* bound: times between two blocks
          MaxTime           \* bound: block time

ASSUME KeysAssumption ==
    /\ Vals \subseteq Keys /\ None \notin Keys
    /\ UnbondingPeriod \in Nat \ {0}
    /\ BlockTimes \subseteq Nat \ {0}
    /\ MaxTime \in Nat \ {0}

VARIABLES
    now,         \* block time
    phase,       \* ConsumerPhase; REGISTERED stands for both prelaunch phases
    validators,  \* validators in the staking module
    pubKey,      \* ValidatorConsumerPubKey
    byAddr,      \* ValidatorByConsumerAddr
    toPrune,     \* ConsumerAddrsToPrune: entries [time, key]
    replaced     \* history: key -> who replaced it last after launch, and when

vars == <<now, phase, validators, pubKey, byAddr, toPrune, replaced>>

Times == 0..MaxTime
Entries == [time : Times, key : Keys]

TypeOK ==
    /\ now \in Times
    /\ phase \in {"REGISTERED", "LAUNCHED", "STOPPED", "DELETED"}
    /\ validators \subseteq Vals
    /\ pubKey \in [Vals -> Keys \cup {None}]
    /\ byAddr \in [Keys -> Vals \cup {None}]
    /\ toPrune \subseteq Entries
    /\ replaced \in [Keys -> {None} \cup [val : Vals, at : Times]]

\* The consumer has been created.
Init ==
    /\ now = 1
    /\ phase = "REGISTERED"
    /\ validators \in SUBSET Vals
    /\ pubKey = [v \in Vals |-> None]
    /\ byAddr = [k \in Keys |-> None]
    /\ toPrune = {}
    /\ replaced = [k \in Keys |-> None]

-----------------------------------------------------------------------------
IsConsumerActive == phase \in {"REGISTERED", "LAUNCHED"}

\* The key v validates with on the consumer (CreateConsumerValidator).
EffectiveKey(v) == IF pubKey[v] = None THEN v ELSE pubKey[v]

\* GetProviderAddrFromConsumerAddr.
GetProviderAddrFromConsumerAddr(k) == IF byAddr[k] = None THEN k ELSE byAddr[k]

\* Mutant of KeyFree: the keys of provider validators are not checked.
KeyFreeUnchecked(v, k) == byAddr[k] = None

\* The checks of AssignConsumerKey: k is not the provider key of another
\* validator, nor v's own unless v has assigned another one, and no validator
\* has it, or had it recently, on the consumer.
KeyFree(v, k) ==
    /\ k \in validators => k = v /\ pubKey[v] # None
    /\ byAddr[k] = None

\* Mutant of RetiredAddrs: the old address is forgotten at once.
RetiredAddrsForgotten(v) ==
    [k \in Keys |-> IF k = pubKey[v] THEN None ELSE byAddr[k]]

\* The index without the old address of v, which is kept after the launch.
RetiredAddrs(v) ==
    [k \in Keys |-> IF k = pubKey[v] /\ phase # "LAUNCHED" THEN None ELSE byAddr[k]]

\* When a replaced key may be pruned.
PruneTime == now + UnbondingPeriod

\* Mutant of IsRegistered: anyone may assign a key.
IsRegisteredAnyone(v) == TRUE

\* The message handler requires a validator of the staking module.
IsRegistered(v) == v \in validators

\* AssignConsumerKey.
AssignConsumerKey(v, k) ==
    /\ IsConsumerActive
    /\ IsRegistered(v)
    /\ KeyFree(v, k)
    /\ byAddr' = [RetiredAddrs(v) EXCEPT ![k] = v]
    /\ pubKey' = [pubKey EXCEPT ![v] = k]
    /\ \/ /\ pubKey[v] # None /\ phase = "LAUNCHED"
          /\ now + UnbondingPeriod <= MaxTime
          /\ toPrune' = toPrune \cup {[time |-> PruneTime, key |-> pubKey[v]]}
          /\ replaced' = [replaced EXCEPT ![pubKey[v]] = [val |-> v, at |-> now]]
       \/ /\ pubKey[v] = None \/ phase # "LAUNCHED"
          /\ UNCHANGED <<toPrune, replaced>>
    /\ UNCHANGED <<now, phase, validators>>

\* A validator is created in the staking module, unless AfterValidatorCreated
\* (ValidatorConsensusKeyInUse) aborts the transaction.
CreateValidator(v) ==
    /\ v \notin validators
    /\ ~(IsConsumerActive /\ byAddr[v] # None)
    /\ validators' = validators \cup {v}
    /\ UNCHANGED <<now, phase, pubKey, byAddr, toPrune, replaced>>

\* Mutant of AfterValidatorRemoved: the index keeps the address.
AfterValidatorRemovedKeepsAddr(v) ==
    /\ pubKey' = [pubKey EXCEPT ![v] = None]
    /\ UNCHANGED byAddr

\* AfterValidatorRemoved: the assigned key and its address are deleted.
AfterValidatorRemoved(v) ==
    /\ byAddr' = [k \in Keys |-> IF k = pubKey[v] THEN None ELSE byAddr[k]]
    /\ pubKey' = [pubKey EXCEPT ![v] = None]

RemoveValidator(v) ==
    /\ v \in validators
    /\ validators' = validators \ {v}
    /\ AfterValidatorRemoved(v)
    /\ UNCHANGED <<now, phase, toPrune, replaced>>

\* Mutant of Prunable: only the entries of the very block time.
PrunableNow == {e \in toPrune : e.time = now}

\* ConsumeConsumerAddrsToPrune.
Prunable == {e \in toPrune : e.time <= now}

\* EndBlockCIS, PruneKeyAssignments, for a consumer that has a client, followed
\* by the next block, d later; the bound keeps block times in range.
EndBlock(d) ==
    /\ \/ /\ phase \in {"LAUNCHED", "STOPPED"}
          /\ toPrune' = toPrune \ Prunable
          /\ byAddr' = [k \in Keys |-> IF \E e \in Prunable : e.key = k THEN None
                                       ELSE byAddr[k]]
       \/ /\ phase \notin {"LAUNCHED", "STOPPED"}
          /\ UNCHANGED <<toPrune, byAddr>>
    /\ now' = IF now + d <= MaxTime THEN now + d ELSE MaxTime
    /\ UNCHANGED <<phase, validators, pubKey, replaced>>

\* The life cycle of the consumer, see ConsumerLifecycle.
Launch ==
    /\ phase = "REGISTERED"
    /\ phase' = "LAUNCHED"
    /\ UNCHANGED <<now, validators, pubKey, byAddr, toPrune, replaced>>

Stop ==
    /\ phase = "LAUNCHED"
    /\ phase' = "STOPPED"
    /\ UNCHANGED <<now, validators, pubKey, byAddr, toPrune, replaced>>

\* DeleteConsumerChain: DeleteKeyAssignments.
Delete ==
    /\ phase = "STOPPED"
    /\ phase' = "DELETED"
    /\ pubKey' = [v \in Vals |-> None]
    /\ byAddr' = [k \in Keys |-> None]
    /\ toPrune' = {}
    /\ UNCHANGED <<now, validators, replaced>>

Next ==
    \/ \E v \in Vals, k \in Keys : AssignConsumerKey(v, k)
    \/ \E v \in Vals : CreateValidator(v) \/ RemoveValidator(v)
    \/ \E d \in BlockTimes : EndBlock(d)
    \/ Launch
    \/ Stop
    \/ Delete

Spec == Init /\ [][Next]_vars

\* Blocks are produced.
FairSpec == Spec /\ WF_vars(\E d \in BlockTimes : EndBlock(d))

-----------------------------------------------------------------------------
(* Properties *)

\* The invariant stated above AppendConsumerAddrsToPrune, and what makes it
\* useful: the addresses in the index are exactly those of the assigned keys,
\* each leading back to its validator, and those waiting to be pruned, which
\* are nobody's key.  So pruning never cuts off a key in use.
KeysConsistent ==
    /\ \A v \in Vals : pubKey[v] # None => byAddr[pubKey[v]] = v
    /\ \A e \in toPrune : byAddr[e.key] # None /\ \A v \in Vals : pubKey[v] # e.key
    /\ \A k \in Keys : byAddr[k] # None =>
          (\E v \in Vals : pubKey[v] = k) \/ (\E e \in toPrune : e.key = k)

\* On a consumer that is not stopped, an infraction with the key a validator
\* uses is attributed to that validator; hence no two validators share a key,
\* in whatever order keys are assigned and replaced and validators come and go
\* (AssignConsumerKey, AfterValidatorCreated, AfterValidatorRemoved).
KeyAttributed ==
    IsConsumerActive =>
        \A v \in validators : GetProviderAddrFromConsumerAddr(EffectiveKey(v)) = v

\* An infraction with a key replaced after the launch is attributed to the
\* validator that replaced it until an unbonding period has passed, even if
\* that validator is removed meanwhile (AppendConsumerAddrsToPrune).
OldKeyAttributed ==
    phase # "DELETED" =>
        \A k \in Keys :
            replaced[k] # None /\ now < replaced[k].at + UnbondingPeriod =>
                byAddr[k] = replaced[k].val

\* The address of a replaced key is eventually pruned.
PrunedEventually ==
    \A k \in Keys : (\E e \in toPrune : e.key = k) ~> ~(\E e \in toPrune : e.key = k)

\* The inductive invariant: beside KeysConsistent, keys are assigned to existing
\* validators only, the provider key of a validator is in the index for no
\* other one, and a key is to be pruned once, an unbonding period after it was
\* replaced (AssignConsumerKey, PruneKeyAssignments).
KeysInv ==
    /\ KeysConsistent
    /\ \A v \in Vals : pubKey[v] # None => v \in validators
    /\ IsConsumerActive => \A v \in validators : byAddr[v] \in {None, v}
    /\ \A e, f \in toPrune : e.key = f.key => e = f
    /\ phase # "DELETED" =>
        \A k \in Keys :
            replaced[k] # None /\ now < replaced[k].at + UnbondingPeriod =>
                /\ byAddr[k] = replaced[k].val
                /\ [time |-> replaced[k].at + UnbondingPeriod, key |-> k] \in toPrune
=============================================================================
