---------------------------- MODULE MCMatchReport ----------------------------
(* A report with a substitution in the added time of the first segment.      *)
EXTENDS MatchReport

CONSTANTS s1, s2, b1

MCTime == {<<1, 2>>, <<2, 0>>}
MCSegmentsAt == [t \in Time |-> {t[1]}]
=============================================================================
