---------------------------- MODULE MCStressRun ----------------------------
(* Instance of StressRun for TLC. *)
EXTENDS StressRun
=============================================================================
