-------------------------- MODULE MCMutationBench --------------------------
(* Instances of MutationBench for TLC; the constants are in the .cfg files. *)
EXTENDS MutationBench
=============================================================================
