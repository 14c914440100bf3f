----------------------------- MODULE MCMatchDay -----------------------------
(***************************************************************************)
(* What happens around the matches, for TLC: the suspensions, the          *)
(* operation of a match, the replay of a report, the rosters and the       *)
(* objects of the pictures, side by side.  A behaviour is one of one of    *)
(* the five, which share no state here.                                    *)
(***************************************************************************)
EXTENDS MCSuspensions, MatchOperation, Rosters, Media, MatchReport

CONSTANTS h, a, d1, d2, n1, n2, s1, s2, s3, o

MCTeamOf == [p \in Registration |-> IF p = h THEN "home" ELSE "away"]

(* Two files with the same documents in opposite orders.                   *)
MCFiles == {<<[person |-> d1, dorsal |-> n1], [person |-> d2, dorsal |-> n2]>>,
            <<[person |-> d2, dorsal |-> n1], [person |-> d1, dorsal |-> n2]>>}

(* An event of the first minute may name the segment that begins in it.    *)
MCTime == {<<1, 0>>, <<2, 0>>, <<2, 1>>}
MCSegmentsAt == [t \in Time |-> IF t = <<1, 0>> THEN {1, 2} ELSE {2}]

(* The theorems about the reports need it.                                 *)
ASSUME MCTimesAgree == TimesAgree

VARIABLE part   \* which of the five moves

dayVars == <<vars, matchVars, rostersVars, mediaVars, reportVars, part>>

DayInit ==
  /\ part \in {"suspensions", "match", "rosters", "media", "report"}
  /\ Init /\ MatchInit /\ RostersInit /\ MediaInit /\ ReportInit
  /\ part # "match" => rules = [r \in DOMAIN rules |-> TRUE]

DayNext ==
  \/ /\ part = "suspensions" /\ Next
     /\ UNCHANGED <<part, matchVars, rostersVars, mediaVars, reportVars>>
  \/ /\ part = "match" /\ MatchNext
     /\ UNCHANGED <<part, vars, rostersVars, mediaVars, reportVars>>
  \/ /\ part = "rosters" /\ RostersNext
     /\ UNCHANGED <<part, vars, matchVars, mediaVars, reportVars>>
  \/ /\ part = "media" /\ MediaNext
     /\ UNCHANGED <<part, vars, matchVars, rostersVars, reportVars>>
  \/ /\ part = "report" /\ ReportNext
     /\ UNCHANGED <<part, vars, matchVars, rostersVars, mediaVars>>

DaySpec == DayInit /\ [][DayNext]_dayVars

(* One type invariant for the five modules.                                *)
DayTypeOK ==
  TypeOK /\ MatchTypeOK /\ RostersTypeOK /\ MediaTypeOK /\ ReportTypeOK

=============================================================================
