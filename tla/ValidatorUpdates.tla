-------------------------- MODULE ValidatorUpdates --------------------------
(***************************************************************************)
(* The algebra of validator updates shared by the provider and the         *)
(* consumer.  A validator set is a function from consensus keys to voting  *)
(* powers in which power 0 means "not a validator".  A list of             *)
(* abci.ValidatorUpdate is a function from a set of keys to powers: every  *)
(* list the code builds has at most one entry per key, and its order only  *)
(* matters for determinism.                                                *)
(***************************************************************************)
EXTENDS Naturals

CONSTANTS Keys,    \* consensus public keys that may validate the consumer chain
          Powers   \* voting powers, 0 meaning "not a validator"

ASSUME PowersAssumption == Powers \subseteq Nat /\ 0 \in Powers

\* Validator sets and update lists.
ValSets == [Keys -> Powers]
Updates == UNION {[D -> Powers] : D \in SUBSET Keys}
NoUpdates == [k \in {} |-> 0]

\* The keys that hold voting power in a set.
ActiveKeys(vals) == {k \in Keys : vals[k] > 0}
EmptySet(vals) == ActiveKeys(vals) = {}

\* DiffValidators: an update for every key whose power differs, a removed key
\* being an update to power 0 and a new key an update from power 0.
DiffDomain(cur, next) == {k \in Keys : cur[k] # next[k]}
DiffValidators(cur, next) == [k \in DiffDomain(cur, next) |-> next[k]]

\* Mutant of AccumulateChanges: the older entry wins.
AccumulateKeepsOlder(current, new) ==
    [k \in (DOMAIN current) \cup (DOMAIN new) |->
        IF k \in DOMAIN current THEN current[k] ELSE new[k]]

\* AccumulateChanges: the union of two lists where the newer entry wins.
AccumulateChanges(current, new) ==
    [k \in (DOMAIN current) \cup (DOMAIN new) |->
        IF k \in DOMAIN new THEN new[k] ELSE current[k]]

\* ApplyCCValidatorChanges, the effect on the stored validators: a positive
\* power is stored, power 0 removes the validator, and removing an unknown
\* validator changes nothing.
ApplyChanges(vals, changes) ==
    [k \in Keys |-> IF k \in DOMAIN changes THEN changes[k] ELSE vals[k]]

\* ApplyCCValidatorChanges, the keys that become validators: their
\* outstanding-downtime flag is cleared.
NewlyBonded(vals, changes) ==
    {k \in DOMAIN changes : vals[k] = 0 /\ changes[k] > 0}

\* Mutant of ForwardedUpdates: unknown validators are not filtered out.
ForwardedUnfiltered(vals, changes) == changes

\* ApplyCCValidatorChanges, the updates forwarded to CometBFT: the removal of
\* an unknown validator is not forwarded.
ForwardedUpdates(vals, changes) ==
    [k \in {j \in DOMAIN changes : vals[j] > 0 \/ changes[j] > 0} |-> changes[k]]

\* CometBFT (external) refuses updates that remove a validator it does not
\* know or that leave no validator; the chain then halts at that block.
CometRejects(vals, forwarded) ==
    \/ \E k \in DOMAIN forwarded : vals[k] = 0 /\ forwarded[k] = 0
    \/ EmptySet(ApplyChanges(vals, forwarded))
=============================================================================
