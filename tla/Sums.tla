-------------------------------- MODULE Sums --------------------------------
(***************************************************************************)
(* The sum of a function over a finite set, for the totals the contracts    *)
(* keep beside the amounts they are made of.                                *)
(***************************************************************************)
EXTENDS Integers, FiniteSets, FiniteSetsExt

Sum(f, S) == MapThenSumSet(LAMBDA x : f[x], S)
=============================================================================
