--------------------------- MODULE MCCompactIndex ---------------------------
(* Two combinations for TLC, one on each compaction path, one of an index  *)
(* type whose counts are known and one of a type whose counts are not.     *)
EXTENDS CompactIndex

TwoCombos == << [spec |-> "BTREE", path |-> "default"], [spec |-> "INVERTED", path |-> "defer"] >>
=============================================================================
