-------------------------------- MODULE Sums --------------------------------
(***************************************************************************)
(* The sum of a function over a finite set, by which the server projects   *)
(* its ledger onto balances and a device its movements onto stock levels.  *)
(***************************************************************************)
EXTENDS Integers, FiniteSetsExt

(* The values of f at the elements of S, added up (SUM in SQL, reduce in the *)
(* code).                                                                    *)
SumOver(f, S) == MapThenSumSet(LAMBDA x : f[x], S)
=============================================================================
