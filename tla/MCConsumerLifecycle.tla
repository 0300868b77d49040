------------------------ MODULE MCConsumerLifecycle -------------------------
(* Instances of ConsumerLifecycle for TLC. *)
EXTENDS ConsumerLifecycle, TLC

\* Consumers are interchangeable.
ConsumerSymmetry == Permutations(Consumers)
=============================================================================
