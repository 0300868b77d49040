---------------------------- MODULE MCChangeover ----------------------------
(* Instances of Changeover for TLC. *)
EXTENDS Changeover, TLC

\* Keys are interchangeable.
KeySymmetry == Permutations(Keys)
=============================================================================
