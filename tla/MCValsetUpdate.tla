--------------------------- MODULE MCValsetUpdate ---------------------------
(* Instances of ValsetUpdate for TLC. *)
EXTENDS ValsetUpdate, TLC

\* Keys may be permuted: the initial sets are all the non-empty ones.
KeySymmetry == Permutations(Keys)
=============================================================================
