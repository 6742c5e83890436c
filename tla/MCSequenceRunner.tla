--------------------------- MODULE MCSequenceRunner ---------------------------
(* SequenceRunner with a single send, a counted run and runs without end, one *)
(* of them asked for by a negative count.                                      *)
EXTENDS SequenceRunner

MCCounts == {-1, 0, 1, 3}
=============================================================================
