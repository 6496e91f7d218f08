---------------------------- MODULE MCStressJob ----------------------------
(* Instances of StressJob for TLC; the constants are in the .cfg files. *)
EXTENDS StressJob
=============================================================================
