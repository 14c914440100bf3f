--------------------------- MODULE MatchOperation ---------------------------
(***************************************************************************)
(* The operation of one match: its segments and interruptions, the lineups  *)
(* of its two teams and the close of its report, while the version of the   *)
(* tournament goes from draft to published and archived.                    *)
(*                                                                          *)
(* Every write of the operation holds the row of the match (FOR UPDATE)     *)
(* for its whole transaction, READ COMMITTED.  Registrations and the rules  *)
(* of the version are changed by routes that do not take that row: saving   *)
(* and publishing a lineup are therefore two steps, what the transaction    *)
(* has read and what it writes; the others write at once.                   *)
(*                                                                          *)
(* Minutes are those of the regular and of the extra time.  The score, the  *)
(* winner and the substitutions are left to MatchReport.                    *)
(***************************************************************************)
EXTENDS Integers, FiniteSets, Sequences, SequencesExt

CONSTANTS
  Registration,        \* registrations of the two teams in the tournament
  TeamOf,        \* team of a registration
  Slots,         \* starters of a formation: eleven in the code
  Regular,       \* regular_time_minutes
  Extra,         \* extra_time_minutes
  RosterSizes,   \* sizes of a roster the rules of the version allow
  Changing,      \* bound: registrations that may be retired and reactivated
  MaxSegment,    \* bound: segments of the match
  MaxEvents      \* bound: events of the report

Team == {"home", "away"}
Rules == [extra : BOOLEAN, penalties : BOOLEAN, eleven : BOOLEAN]
Resolution == {"regular", "extra_time", "penalties", "administrative"}
Role == {"starter", "substitute"}

ASSUME MatchOperationAssumption ==
  /\ TeamOf \in [Registration -> Team]
  /\ Slots \in Nat \ {0}
  /\ Regular \in Nat \ {0} /\ Extra \in Nat /\ Regular < Extra
  /\ Changing \subseteq Registration
  /\ RosterSizes \subseteq Nat /\ MaxSegment \in Nat \ {0} /\ MaxEvents \in Nat

VARIABLES
  version,        \* status of the version of the tournament
  rules,          \* what its rules_config says of this stage
  isActive,       \* registrations with is_active
  status,         \* status of the match
  segments,       \* match_segments, by segment_number
  interruptions,  \* match_segment_interruptions: <<segment, minute>>
  snapshots,      \* match_lineup_snapshots of each segment: role of a player
  formations,     \* match_team_lineups of each segment and team
  matchRoster,    \* match_rosters: players of the match
  events,         \* match_events: <<segment, minute>>
  writer          \* what the lineup request that holds the match will write

tournamentVars == <<version, rules, isActive>>
playVars == <<status, segments, interruptions, events>>
lineupVars == <<snapshots, formations, matchRoster>>
matchVars == <<tournamentVars, playVars, lineupVars, writer>>

NoMinute == -1
NoWriter == [kind |-> "none"]

Minute == 0..Extra
NoLineup == [p \in {} |-> "starter"]
Lineup == UNION {[S -> Role] : S \in SUBSET Registration}

-----------------------------------------------------------------------------
(* The minutes of the stage.                                                *)

StageMaximum == IF rules.extra THEN Extra ELSE Regular

MaximumFor(r) ==
  IF r \in {"extra_time", "penalties"} /\ rules.extra THEN Extra ELSE Regular

Enabled(r) == /\ r = "extra_time" => rules.extra
              /\ r = "penalties" => rules.penalties

(* Mutant: a shoot-out is taken to follow an extra time.                    *)
MaximumOfRequest_Shootout(r) ==
  IF r = "none" THEN StageMaximum
  ELSE IF r = "regular" THEN Regular ELSE Extra

(* A segment and an interruption may name the resolution they foresee.      *)
MaximumOfRequest(r) == IF r = "none" THEN StageMaximum ELSE MaximumFor(r)

Foreseen == Resolution \cup {"none"}
Accepted(r, minute) ==
  /\ r = "none" \/ Enabled(r)
  /\ minute <= MaximumOfRequest(r)

Open == status = "scheduled"
Idle == writer = NoWriter       \* nobody holds the row of the match

Active == {n \in DOMAIN segments : segments[n].status = "active"}

ClosedAt(segs, end) ==
  [n \in DOMAIN segs |->
     IF segs[n].status = "active"
     THEN [segs[n] EXCEPT !.status = "completed", !.end = end] ELSE segs[n]]

RosterOf(t) == {p \in isActive : TeamOf[p] = t}

-----------------------------------------------------------------------------
(* Segments.                                                                *)

(* The size of the rosters is checked when the match is opened, never       *)
(* again.                                                                   *)
RightSize ==
  segments = <<>> => \A t \in Team : Cardinality(RosterOf(t)) \in RosterSizes

(* Mutant: only the end of the latest segment is looked at; an active one   *)
(* has none.                                                                *)
MayStart_Unordered(start) ==
  \A n \in DOMAIN segments :
    n = Len(segments) /\ segments[n].end # NoMinute => segments[n].end <= start

(* The new segment starts when the latest has ended; if the latest is       *)
(* active, not before it.                                                   *)
MayStart(start) ==
  \A n \in DOMAIN segments :
    n = Len(segments) =>
      IF segments[n].status = "active" THEN segments[n].start <= start
                                       ELSE segments[n].end <= start

CreateSegment(r, start) ==
  /\ Open /\ Idle /\ Len(segments) < MaxSegment
  /\ Accepted(r, start) /\ RightSize
  /\ MayStart(start)
  /\ segments' = Append(ClosedAt(segments, start),
                        [start |-> start, end |-> NoMinute, status |-> "active"])
  /\ UNCHANGED <<tournamentVars, lineupVars, status, interruptions, events, writer>>

Interrupt(r, n, minute) ==
  /\ Open /\ Idle
  /\ Accepted(r, minute)
  /\ n \in Active /\ minute >= segments[n].start
  /\ segments' = [segments EXCEPT ![n].status = "interrupted", ![n].end = minute]
  /\ interruptions' = interruptions \cup {<<n, minute>>}
  /\ UNCHANGED <<tournamentVars, lineupVars, status, events, writer>>

(* next_segment_proposal: the minute the next segment is offered.           *)
ProposedStart ==
  IF segments = <<>> THEN 0
  ELSE LET n == Len(segments)
       IN  CASE segments[n].status = "interrupted" ->
                  Max({i[2] : i \in {j \in interruptions : j[1] = n}})
             [] segments[n].status = "completed" -> segments[n].end
             [] OTHER -> NoMinute

-----------------------------------------------------------------------------
(* Lineups.                                                                 *)

Starters(l, t) == {p \in DOMAIN l : l[p] = "starter" /\ TeamOf[p] = t}
FullFormations(l) == \A t \in Team : Cardinality(Starters(l, t)) = Slots

(* A lineup is of the active segment, of players registered and active, of  *)
(* both teams.  The formations are of both teams or of none.                *)
SaveRead(l, withFormation) ==
  /\ Open /\ Idle
  /\ Active # {} /\ events = {}
  /\ DOMAIN l \subseteq isActive
  /\ {TeamOf[p] : p \in DOMAIN l} = Team
  /\ withFormation => rules.eleven /\ FullFormations(l)
  /\ writer' = [kind |-> "save", lineup |-> l, withFormation |-> withFormation]
  /\ UNCHANGED <<tournamentVars, playVars, lineupVars>>

(* The rows of the formations are deleted and written again.                *)
Rewritten(old, withFormation) ==
  [t \in Team |-> IF withFormation THEN "private" ELSE "none"]

(* The squad of the match is that of the lineup saved last.                 *)
SaveWrite ==
  /\ writer.kind = "save"
  /\ \E n \in Active :
       /\ snapshots' = [snapshots EXCEPT ![n] = writer.lineup]
       /\ formations' = [formations EXCEPT ![n] =
                           Rewritten(@, writer.withFormation)]
  /\ matchRoster' = DOMAIN writer.lineup
  /\ writer' = NoWriter
  /\ UNCHANGED <<tournamentVars, playVars>>

(* A formation may be published and withdrawn after the match too.          *)
PublishRead(n, t, public) ==
  /\ Idle
  /\ formations[n][t] # "none"
  /\ public => rules.eleven /\ Cardinality(Starters(snapshots[n], t)) = Slots
  /\ writer' = [kind |-> "publish", segment |-> n, team |-> t, public |-> public]
  /\ UNCHANGED <<tournamentVars, playVars, lineupVars>>

PublishWrite ==
  /\ writer.kind = "publish"
  /\ formations' = [formations EXCEPT ![writer.segment][writer.team] =
                      IF writer.public THEN "public" ELSE "private"]
  /\ writer' = NoWriter
  /\ UNCHANGED <<tournamentVars, playVars, snapshots, matchRoster>>

(* The request fails and its transaction is rolled back.                    *)
LineupFails ==
  /\ ~Idle
  /\ writer' = NoWriter
  /\ UNCHANGED <<tournamentVars, playVars, lineupVars>>

-----------------------------------------------------------------------------
(* The close of the report.                                                 *)

(* Every segment is within the minutes of the resolution.                   *)
Fits(r) == \A n \in DOMAIN segments : /\ segments[n].start <= MaximumFor(r)
                                      /\ segments[n].end <= MaximumFor(r)

InItsSegment(e, r) ==
  /\ e[1] \in DOMAIN segments /\ segments[e[1]].status # "interrupted"
  /\ segments[e[1]].start <= e[2] /\ e[2] <= MaximumFor(r)
  /\ segments[e[1]].end # NoMinute => e[2] <= segments[e[1]].end

(* The active segment ends with the last event of the report.               *)
EndOfPlay(n, E) == Max({segments[n].start} \cup {e[2] : e \in E})

Report == {E \in SUBSET ((1..MaxSegment) \X Minute) : Cardinality(E) <= MaxEvents}

Close(r, E) ==
  /\ Open /\ Idle /\ version = "published" /\ Enabled(r)
  /\ Active # {} /\ Fits(r)
  /\ \A e \in E : InItsSegment(e, r)
  /\ matchRoster \subseteq isActive /\ {TeamOf[p] : p \in matchRoster} = Team
  /\ r = "administrative" => E = {}
  /\ status' = IF r = "administrative" THEN "administrative_resolution" ELSE "finished"
  /\ events' = E
  /\ segments' = ClosedAt(segments, EndOfPlay(Len(segments), E))
  /\ UNCHANGED <<tournamentVars, lineupVars, interruptions, writer>>

(* A walkover looks at neither segments nor squad; the active segment ends  *)
(* where it started.                                                        *)
DeclareWalkover ==
  /\ Open /\ Idle /\ version = "published"
  /\ status' = "finished"
  /\ segments' = ClosedAt(segments, segments[Len(segments)].start)
  /\ UNCHANGED <<tournamentVars, lineupVars, interruptions, events, writer>>

-----------------------------------------------------------------------------
(* Around the match: none of these takes its row.                           *)

Published == \E n \in DOMAIN formations, t \in Team : formations[n][t] = "public"

(* The rules of a draft; formations belong to eleven a side.                *)
UpdateRules(new) ==
  /\ version = "draft"
  /\ ~new.eleven => ~Published
  /\ rules' = new
  /\ UNCHANGED <<playVars, lineupVars, version, isActive, writer>>

MoveVersion(from, to) ==
  /\ version = from /\ version' = to
  /\ UNCHANGED <<playVars, lineupVars, rules, isActive, writer>>

PublishVersion == MoveVersion("draft", "published")
ArchiveVersion == MoveVersion("published", "archived")

(* The status of a registration; the lock of the first matchday is in       *)
(* Rosters.                                                                 *)
ChangeRegistration(p) ==
  /\ isActive' = IF p \in isActive THEN isActive \ {p} ELSE isActive \cup {p}
  /\ UNCHANGED <<playVars, lineupVars, version, rules, writer>>

MatchInit ==
  /\ version = "draft"
  /\ rules \in {r \in Rules : r.eleven}
  /\ isActive = Registration
  /\ status = "scheduled"
  /\ segments = <<>> /\ interruptions = {}
  /\ snapshots = [n \in 1..MaxSegment |-> NoLineup]
  /\ formations = [n \in 1..MaxSegment |-> [t \in Team |-> "none"]]
  /\ matchRoster = {} /\ events = {}
  /\ writer = NoWriter

MatchNext ==
  \/ \E r \in Foreseen, m \in Minute : CreateSegment(r, m)
  \/ \E r \in Foreseen, n \in DOMAIN segments, m \in Minute : Interrupt(r, n, m)
  \/ \E l \in Lineup, w \in BOOLEAN : SaveRead(l, w)
  \/ SaveWrite
  \/ \E n \in DOMAIN segments, t \in Team, b \in BOOLEAN : PublishRead(n, t, b)
  \/ PublishWrite
  \/ LineupFails
  \/ \E r \in Resolution, E \in Report : Close(r, E)
  \/ DeclareWalkover
  \/ \E new \in Rules : UpdateRules(new)
  \/ PublishVersion
  \/ ArchiveVersion
  \/ \E p \in Changing : ChangeRegistration(p)

MatchSpec == MatchInit /\ [][MatchNext]_matchVars

-----------------------------------------------------------------------------
MatchTypeOK ==
  /\ version \in {"draft", "published", "archived"}
  /\ rules \in Rules
  /\ isActive \subseteq Registration /\ matchRoster \subseteq Registration
  /\ status \in {"scheduled", "finished", "administrative_resolution"}
  /\ Len(segments) <= MaxSegment
  /\ \A n \in DOMAIN segments :
       segments[n] \in [start : Minute, end : Minute \cup {NoMinute},
                        status : {"active", "interrupted", "completed"}]
  /\ interruptions \subseteq (1..MaxSegment) \X Minute
  /\ events \subseteq (1..MaxSegment) \X Minute
  /\ snapshots \in [1..MaxSegment -> Lineup]
  /\ formations \in [1..MaxSegment -> [Team -> {"none", "private", "public"}]]
  /\ writer.kind \in {"none", "save", "publish"}

(* The segments are a timeline: each starts after the one before it has     *)
(* ended, only the last of them may be active and none is once the match    *)
(* is over, and no event of the report is outside the segment it names.     *)
Timeline ==
  /\ \A n \in DOMAIN segments :
       /\ segments[n].status = "active" <=> segments[n].end = NoMinute
       /\ segments[n].status = "active" => n = Len(segments) /\ Open
       /\ segments[n].end # NoMinute => segments[n].start <= segments[n].end
       /\ n > 1 => segments[n - 1].end <= segments[n].start
  /\ \A e \in events :
       segments[e[1]].start <= e[2] /\ e[2] <= segments[e[1]].end

(* There is no way to a report: no resolution the rules enable fits the     *)
(* segments, or there is none active and the segment the operation offers   *)
(* would be refused.                                                        *)
Stranded ==
  /\ Open
  /\ \/ ~\E r \in Resolution : Enabled(r) /\ Fits(r)
     \/ /\ segments # <<>> /\ Active = {}
        /\ ~(ProposedStart <= StageMaximum /\ MayStart(ProposedStart))

(* Whatever minutes and resolutions the requests of the operation name, no  *)
(* request leaves an open match with no way to a report.  Only the rules    *)
(* of a draft do, changed after the match was opened.                       *)
NeverStranded == [][Stranded' => Stranded \/ rules' # rules]_matchVars

(* What the public sees of a formation is complete: it has the starters of  *)
(* a formation, however the lineup has been saved again since.              *)
PublicLineupComplete ==
  \A n \in DOMAIN formations, t \in Team :
    formations[n][t] = "public" => Cardinality(Starters(snapshots[n], t)) = Slots

(* Both, of every match: the part of its operation that is not about rules. *)
OperationInOrder == Timeline /\ PublicLineupComplete
=============================================================================
