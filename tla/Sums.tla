-------------------------------- MODULE Sums --------------------------------
(***************************************************************************)
(* Sums of money and of results over sets of bets, entries and markets.    *)
(* Amounts are given as functions, so that what they add up to can be      *)
(* reasoned about (MoneyTheorems).                                         *)
(***************************************************************************)
EXTENDS Integers, Folds

\* The sum of f[x] for x in S, a finite set.
Sum(f, S) == MapThenFoldSet(LAMBDA m, n : m + n, 0, LAMBDA x : f[x], LAMBDA s : CHOOSE x \in s : TRUE, S)
=============================================================================
