---------------------------- MODULE MCSuspensions ----------------------------
(* Suspensions for TLC: two tournaments of two stages.                      *)
EXTENDS Suspensions

CONSTANTS a1, a2, a3, b1, b2, ta, tb

MCTournamentOf == [m \in Match |-> IF m \in {b1, b2} THEN tb ELSE ta]
MCStageOf == [m \in Match |-> IF m \in {a3, b2} THEN 2 ELSE 1]
MCRegistered == [m \in Match |-> Player]
MCCardSeqs == {<<>>, <<"yellow">>, <<"direct_red_card">>,
               <<"yellow", "yellow", "double_yellow_red">>}
=============================================================================
