-------------------------------- MODULE League --------------------------------
(***************************************************************************)
(* A league stage or a stage of groups while its version is a draft: teams *)
(* come and go, the calendar is drawn again, matches are added by hand,    *)
(* and the version is published and cloned.  Each request holds the locks  *)
(* of stage and version to its end, but create_match has read how many     *)
(* legs the stage has before it asks for them.                             *)
(*                                                                         *)
(* A drawn calendar is one match of every two teams of a group in each     *)
(* leg, and groups are of even size: Calendar checks that of the code.     *)
(* A clone is followed instead of the version it was made from.            *)
(***************************************************************************)
EXTENDS Integers, FiniteSets

CONSTANTS
  Entrant,    \* teams the tournament may come to have
  Creation,   \* requests to add a match that may be under way
  MaxGroups,  \* bound: groups of a draw
  MaxAdded    \* bound: matches added by hand that the stage has at a time

ASSUME LeagueAssumption ==
  IsFiniteSet(Entrant) /\ MaxGroups \in Nat /\ MaxAdded \in Nat

VARIABLES
  stageType,     \* stages.stage_type
  status,        \* status of the tournament version
  scheduleLegs,  \* stages.schedule_legs
  groupOf,       \* where each team stands: Absent, Outside, Ungrouped or a group
  calendar,      \* matches of the stage
  legsRead       \* the legs each request has read, NotRead before it has

leagueVars == <<stageType, status, scheduleLegs, groupOf, calendar, legsRead>>

Absent == -2      \* not in the tournament
Outside == -1     \* registered, but not in the stage
Ungrouped == 0    \* in the stage, group_id IS NULL

StageTeams == {t \in Entrant : groupOf[t] >= Ungrouped}
StageGroups == {groupOf[t] : t \in StageTeams} \ {Ungrouped}

StageMatch == [group : Ungrouped .. MaxGroups, teams : SUBSET Entrant,
               leg : 0 .. 2, byHand : 0 .. MaxAdded, operated : BOOLEAN]

NotRead == 0

-----------------------------------------------------------------------------
(* The teams.                                                              *)

(* create_tournament_team(s), in the stage and in one of its groups or not *)
Enrol(batch, where) ==
  /\ batch # {} /\ \A t \in batch : groupOf[t] = Absent
  /\ where >= Ungrouped => status = "draft"
  /\ groupOf' = [t \in Entrant |-> IF t \in batch THEN where ELSE groupOf[t]]
  /\ UNCHANGED <<stageType, status, scheduleLegs, calendar, legsRead>>

(* Those who are assigned already stay where they are.                     *)
AssignToStage(batch) ==
  /\ status = "draft"
  /\ \A t \in batch : groupOf[t] # Absent
  /\ \E t \in batch : groupOf[t] = Outside
  /\ groupOf' = [t \in Entrant |-> IF t \in batch /\ groupOf[t] = Outside THEN Ungrouped
                                   ELSE groupOf[t]]
  /\ UNCHANGED <<stageType, status, scheduleLegs, calendar, legsRead>>

PlaysInStage(t) == \E m \in calendar : t \in m.teams

RemoveFromStage(t) ==
  /\ status = "draft"
  /\ t \in StageTeams /\ ~PlaysInStage(t)
  /\ groupOf' = [groupOf EXCEPT ![t] = Outside]
  /\ UNCHANGED <<stageType, status, scheduleLegs, calendar, legsRead>>

-----------------------------------------------------------------------------
(* The draw.                                                               *)

(* Nothing may have been done with any match that is going to be deleted.  *)
Clearable(replace) ==
  IF replace THEN \A m \in calendar : ~m.operated ELSE calendar = {}

(* One match of every two teams of a group in each leg.                    *)
Schedule(group, n) ==
  {[group |-> group[x[1]], teams |-> {x[1], x[2]}, leg |-> x[3], byHand |-> 0,
    operated |-> FALSE] :
     x \in {y \in StageTeams \X StageTeams \X (1 .. n) :
              y[1] # y[2] /\ group[y[1]] = group[y[2]]}}

(* distribute_groups: at least two teams in each, one more in some.        *)
Distributions(k) ==
  {g \in [StageTeams -> 1 .. k] :
     LET size(i) == Cardinality({t \in StageTeams : g[t] = i})
     IN  \A i, j \in 1 .. k : size(i) >= 2 /\ size(i) - size(j) <= 1}

MayDraw(replace) ==
  status = "draft" /\ Cardinality(StageTeams) >= 2 /\ Clearable(replace)

DrawLeague(replace, n) ==
  /\ stageType = "round_robin" /\ MayDraw(replace)
  /\ \A t \in StageTeams : groupOf[t] = Ungrouped
  /\ calendar' = Schedule([t \in StageTeams |-> Ungrouped], n)
  /\ scheduleLegs' = n
  /\ UNCHANGED <<stageType, status, groupOf, legsRead>>

(* The groups of the draw before are deleted, and every team moves.        *)
DrawGroups(replace, n, k) ==
  /\ stageType = "custom_group" /\ MayDraw(replace)
  /\ k <= Cardinality(StageTeams)
  /\ \E g \in Distributions(k) :
       /\ groupOf' = [t \in Entrant |-> IF t \in StageTeams THEN g[t] ELSE groupOf[t]]
       /\ calendar' = Schedule(g, n)
  /\ scheduleLegs' = n
  /\ UNCHANGED <<stageType, status, legsRead>>

-----------------------------------------------------------------------------
(* create_match.                                                           *)

CreateRead(q) ==
  /\ legsRead[q] = NotRead /\ status = "draft"
  /\ legsRead' = [legsRead EXCEPT ![q] = scheduleLegs]
  /\ UNCHANGED <<stageType, status, scheduleLegs, groupOf, calendar>>

MeetingsOf(pair, group) == {m \in calendar : m.teams = pair /\ m.group = group}

(* Mutant: the pair may meet once more than the format allows.             *)
UnderLimit_Closed(pair, group, n) ==
  Cardinality(pair) = 2 => Cardinality(MeetingsOf(pair, group)) <= n

(* max_meetings_per_pair; a match with an empty side is not a meeting.     *)
UnderLimit(pair, group, n) ==
  Cardinality(pair) = 2 => Cardinality(MeetingsOf(pair, group)) < n

CreateWrite(q, group, sides) ==
  /\ legsRead[q] # NotRead /\ status = "draft"
  /\ \A t \in sides : groupOf[t] = group
  /\ UnderLimit(sides, group, legsRead[q])
  /\ \E i \in 1 .. MaxAdded :
       /\ \A m \in calendar : m.byHand # i
       /\ \A j \in 1 .. i - 1 : \E m \in calendar : m.byHand = j
       /\ calendar' = calendar \cup {[group |-> group, teams |-> sides, leg |-> 0,
                                        byHand |-> i, operated |-> FALSE]}
  /\ legsRead' = [legsRead EXCEPT ![q] = NotRead]
  /\ UNCHANGED <<stageType, status, scheduleLegs, groupOf>>

CreateFails(q) ==
  /\ legsRead[q] # NotRead
  /\ legsRead' = [legsRead EXCEPT ![q] = NotRead]
  /\ UNCHANGED <<stageType, status, scheduleLegs, groupOf, calendar>>

-----------------------------------------------------------------------------
(* Officials, lineups and segments of a match, of a draft as well.         *)
OperateMatch(m) ==
  /\ m \in calendar
  /\ calendar' = (calendar \ {m}) \cup {[m EXCEPT !.operated = TRUE]}
  /\ UNCHANGED <<stageType, status, scheduleLegs, groupOf, legsRead>>

PublishStage ==
  /\ status = "draft" /\ Cardinality(StageTeams) >= 2 /\ calendar # {}
  /\ status' = "published"
  /\ UNCHANGED <<stageType, scheduleLegs, groupOf, calendar, legsRead>>

(* The copy has the groups, the teams, the legs and the matches of its     *)
(* source; the matches are scheduled and nothing has been done with them.  *)
CloneStage ==
  /\ status = "published"
  /\ status' = "draft"
  /\ calendar' = {[m EXCEPT !.operated = FALSE] : m \in calendar}
  /\ legsRead' = [q \in Creation |-> NotRead]
  /\ UNCHANGED <<stageType, scheduleLegs, groupOf>>

LeagueInit ==
  /\ stageType \in {"round_robin", "custom_group"} /\ status = "draft" /\ scheduleLegs = 1
  /\ groupOf = [t \in Entrant |-> Absent]
  /\ calendar = {} /\ legsRead = [q \in Creation |-> NotRead]

LeagueNext ==
  \/ \E batch \in SUBSET Entrant :
       \/ AssignToStage(batch)
       \/ \E where \in {Outside, Ungrouped} \cup StageGroups : Enrol(batch, where)
  \/ \E t \in Entrant : RemoveFromStage(t)
  \/ \E replace \in BOOLEAN, n \in {1, 2} :
       \/ DrawLeague(replace, n)
       \/ \E k \in 2 .. MaxGroups : DrawGroups(replace, n, k)
  \/ \E q \in Creation :
       \/ CreateRead(q) \/ CreateFails(q)
       \/ \E group \in {Ungrouped} \cup StageGroups, sides \in SUBSET StageTeams :
            Cardinality(sides) <= 2 /\ CreateWrite(q, group, sides)
  \/ \E m \in calendar : OperateMatch(m)
  \/ PublishStage \/ CloneStage

LeagueSpec == LeagueInit /\ [][LeagueNext]_leagueVars

-----------------------------------------------------------------------------
LeagueTypeOK ==
  /\ stageType \in {"round_robin", "custom_group"} /\ status \in {"draft", "published"}
  /\ scheduleLegs \in {1, 2} /\ groupOf \in [Entrant -> Absent .. MaxGroups]
  /\ calendar \subseteq StageMatch /\ legsRead \in [Creation -> {0, 1, 2}]

(* However the teams of a stage are dealt out again, every match is of two *)
(* teams that are still in its group, so the table never passes a result   *)
(* over.                                                                   *)
MatchesOfTheirGroup == \A m \in calendar : \A t \in m.teams : groupOf[t] = m.group

(* Two teams never meet more than twice in a group, whatever a request has *)
(* read of a calendar that is no longer there: with more the mini-table    *)
(* would not apply.                                                        *)
AtMostTwice ==
  \A group \in {Ungrouped} \cup StageGroups : \A t \in StageTeams : \A u \in StageTeams \ {t} :
    Cardinality(MeetingsOf({t, u}, group)) <= 2

(* The two together.                                                       *)
LeagueHolds == MatchesOfTheirGroup /\ AtMostTwice
===============================================================================
