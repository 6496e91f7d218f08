------------------------------ MODULE Selection ------------------------------
(***************************************************************************)
(* What is kept of a sequence, in its order: a Python comprehension with   *)
(* an if.  Written as a concatenation, so that it can be proved about as   *)
(* one.                                                                    *)
(***************************************************************************)
EXTENDS SequencesExt

Kept(s, S) == FlattenSeq([k \in DOMAIN s |-> IF s[k] \in S THEN <<s[k]>> ELSE <<>>])
=============================================================================
