-------------------------------- MODULE Sums --------------------------------
(***************************************************************************)
(* Sums of the values of a function, as the loops of the code over         *)
(* validators and consumers compute them.                                  *)
(***************************************************************************)
EXTENDS Integers, FiniteSetsExt

\* The sum of f[x] over x \in S, in any order.
SumOver(f, S) == MapThenSumSet(LAMBDA x : f[x], S)
=============================================================================
