-------------------------------- MODULE Sums --------------------------------
(***************************************************************************)
(* The sum of the values of a function with a finite domain, in terms of   *)
(* which the modules count rows, records and operations.                   *)
(***************************************************************************)
EXTENDS Integers, FiniteSets, Folds

(* The sum of f[x] over the domain of f. *)
SumOf(f) ==
    MapThenFoldSet(+, 0, LAMBDA x : f[x], LAMBDA s : CHOOSE x \in s : TRUE, DOMAIN f)
=============================================================================
