-------------------------- MODULE MCSlashThrottle ---------------------------
(***************************************************************************)
(* Instances of SlashThrottle for TLC.                                     *)
(***************************************************************************)
EXTENDS SlashThrottle, TLC

CONSTANTS c1, c2, v1, v2

\* A large and a small validator.
MCTokens == (v1 :> 3) @@ (v2 :> 2)

\* Consumers are interchangeable.
ConsumerSymmetry == Permutations(Consumers)
=============================================================================
