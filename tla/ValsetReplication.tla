------------------------- MODULE ValsetReplication --------------------------
(***************************************************************************)
(* What the Validator Set Update sub-protocol promises.  The provider      *)
(* publishes one validator set per epoch; the consumer runs with one of    *)
(* the published sets, possibly an old one, and only ever moves forward to *)
(* a newer one.  It never runs with a mixture of two sets.                 *)
(***************************************************************************)
EXTENDS Naturals

CONSTANTS Keys,       \* consensus public keys
          Powers,     \* voting powers
          MaxVscId    \* bound: number of epochs

VARIABLES published,  \* published[i]: the set of epoch i, 0 is the genesis set
          latest,     \* the last published epoch
          inForce,    \* the epoch whose set the consumer runs with
          valset      \* the validator set of the consumer

vars == <<published, latest, inForce, valset>>

Init ==
    /\ published \in [0..MaxVscId -> [Keys -> Powers]]
    /\ latest = 0
    /\ inForce = 0
    /\ valset = published[0]

\* The provider computes the set of the next epoch.
Publish ==
    /\ latest < MaxVscId
    /\ latest' = latest + 1
    /\ \E next \in [Keys -> Powers] :
          published' = [published EXCEPT ![latest + 1] = next]
    /\ UNCHANGED <<inForce, valset>>

\* The consumer moves to a set published after the one in force.
Adopt ==
    /\ inForce' \in (inForce + 1)..latest
    /\ valset' = published[inForce']
    /\ UNCHANGED <<published, latest>>

Next == Publish \/ Adopt

Spec == Init /\ [][Next]_vars
=============================================================================
