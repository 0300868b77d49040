----------------------- MODULE MCConsumerEquivocation -----------------------
(* Instances of KeyAssignment and ConsumerEquivocation for TLC: a cfg gives model
   values to Keys, among which Vals are the provider keys of validators.
   Liveness is checked, so no symmetry is declared. *)
EXTENDS ConsumerEquivocation
=============================================================================
