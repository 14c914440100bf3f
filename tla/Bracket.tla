------------------------------- MODULE Bracket --------------------------------
(***************************************************************************)
(* An elimination stage while it is played: the versions of the tournament *)
(* (draft, published, archived), the matches of the stage, the close of a  *)
(* match report with its advancement and the repetition of the grand final *)
(* (GF1, GF2), and the clone of a published version.                       *)
(*                                                                         *)
(* Every handler is one transaction that holds the version row or the row  *)
(* of its match, so an action is a whole handler; a handler that raises    *)
(* rolls back and is no action.  What a close validates about rosters,     *)
(* events and minutes is left to the report: here any outcome the bracket  *)
(* may accept can be filed.                                                *)
(***************************************************************************)
EXTENDS Integers, FiniteSets

CONSTANTS Versions,     \* the versions the tournament may get
          FirstVersion, \* the version whose bracket has been generated
          Matches,      \* the matches of the stage
          Feeds,        \* advancement_links: [source, outcome, target, side]
          Direct,       \* Direct[m][side]: a team placed by the draw, or NoTeam
          GF1, GF2,     \* the grand final and its repetition, or NoMatch
          Teams, NoTeam, NoMatch

Sides == {"home", "away"}
Other(side) == IF side = "home" THEN "away" ELSE "home"

ASSUME BracketAssumption ==
    /\ FirstVersion \in Versions
    /\ NoTeam \notin Teams
    /\ NoMatch \notin Matches
    /\ GF1 \in Matches \cup {NoMatch} /\ GF2 \in Matches \cup {NoMatch}
    /\ GF1 # NoMatch => GF2 \in Matches \ {GF1}
    /\ Direct \in [Matches -> [Sides -> Teams \cup {NoTeam}]]
    /\ Feeds \subseteq [source : Matches, outcome : {"winner", "loser"},
                        target : Matches, side : Sides]
    /\ \A l \in Feeds : /\ Direct[l.target][l.side] = NoTeam
                        /\ l.source # l.target
                        /\ GF2 \notin {l.source, l.target}
    /\ \A k, l \in Feeds : k.target = l.target /\ k.side = l.side => k = l

VARIABLES version,   \* tournament_versions.status, "none" before the clone
          status,    \* status[v][m]: matches.status
          slot,      \* slot[v][m][side]: home_team_id, away_team_id
          winner,    \* winner_team_id of a closed match, NoTeam otherwise
          operated   \* <<v, m>>: match m of version v has segments, hence operational
                     \* data that a draft cannot be cleared of

vars == <<version, status, slot, winner, operated>>

VersionStatuses == {"none", "draft", "published", "archived"}
Closed == {"finished", "administrative_resolution"}
MatchStatuses == {"scheduled", "cancelled"} \cup Closed

TypeOK ==
    /\ version \in [Versions -> VersionStatuses]
    /\ status \in [Versions -> [Matches -> MatchStatuses]]
    /\ slot \in [Versions -> [Matches -> [Sides -> Teams \cup {NoTeam}]]]
    /\ winner \in [Versions -> [Matches -> Teams \cup {NoTeam}]]
    /\ operated \subseteq Versions \X Matches

\* Mutant: the matches are created with the status of their version.
DrawnStatus_OfVersion == [m \in Matches |-> "draft"]

\* _persist_bracket_schedule: GF2 is created cancelled and without teams.
DrawnStatus == [m \in Matches |-> IF m = GF2 THEN "cancelled" ELSE "scheduled"]
Unplayed(value) == [m \in Matches |-> value]

Init ==
    /\ version = [v \in Versions |-> IF v = FirstVersion THEN "draft" ELSE "none"]
    /\ status = [v \in Versions |-> DrawnStatus]
    /\ slot = [v \in Versions |-> Direct]
    /\ winner = [v \in Versions |-> Unplayed(NoTeam)]
    /\ operated = {}

-------------------------------------------------------------------------------
(* Versions.                                                               *)

\* Mutant: the version published so far stays published.
Publish_KeepsOld(v) ==
    /\ version[v] = "draft"
    /\ version' = [version EXCEPT ![v] = "published"]
    /\ UNCHANGED <<status, slot, winner, operated>>

\* publish_version archives the version published so far.
Publish(v) ==
    /\ version[v] = "draft"
    /\ version' = [u \in Versions |-> IF u = v THEN "published"
                                      ELSE IF version[u] = "published" THEN "archived"
                                      ELSE version[u]]
    /\ UNCHANGED <<status, slot, winner, operated>>

\* _create_draft_version_record copies the matches of the published version with
\* the teams they have now; every copy is scheduled and without a result.
Clone(v, u) ==
    /\ version[v] = "published"
    /\ version[u] = "none"
    /\ \A x \in Versions : version[x] # "draft"
    /\ version' = [version EXCEPT ![u] = "draft"]
    /\ status' = [status EXCEPT ![u] = Unplayed("scheduled")]
    /\ slot' = [slot EXCEPT ![u] = slot[v]]
    /\ winner' = [winner EXCEPT ![u] = Unplayed(NoTeam)]
    /\ UNCHANGED operated

\* Generating the bracket again deletes the matches of a draft that nobody has
\* operated and writes the drawn ones.
Regenerate(v) ==
    /\ version[v] = "draft"
    /\ \A m \in Matches : status[v][m] \in {"scheduled", "cancelled"}
    /\ \A m \in Matches : <<v, m>> \notin operated
    /\ status' = [status EXCEPT ![v] = DrawnStatus]
    /\ slot' = [slot EXCEPT ![v] = Direct]
    /\ UNCHANGED <<version, winner, operated>>

-------------------------------------------------------------------------------
(* The operation of a match: the first segment leaves operational data, in *)
(* a draft too, because no handler asks whether the version is published.  *)

CreateSegment(v, m) ==
    /\ version[v] # "none"
    /\ status[v][m] \notin Closed \cup {"cancelled"}
    /\ operated' = operated \cup {<<v, m>>}
    /\ UNCHANGED <<version, status, slot, winner>>

-------------------------------------------------------------------------------
(* The close of a report.                                                  *)

FeedsFrom(m) == {l \in Feeds : l.source = m}
TeamsOf(v, m) == {slot[v][m][s] : s \in Sides}
LoserOf(v, m, w) == IF w = slot[v][m]["home"] THEN slot[v][m]["away"] ELSE slot[v][m]["home"]

Leaving(v, l, w) == IF l.outcome = "winner" THEN w ELSE LoserOf(v, l.source, w)

\* advance_from_match fails unless the destination is scheduled and its side free.
CanAdvance(v, m, w) ==
    FeedsFrom(m) # {} =>
        /\ w # NoTeam
        /\ \A l \in FeedsFrom(m) : status[v][l.target] = "scheduled" /\ slot[v][l.target][l.side] = NoTeam

\* Mutant: the winner goes on through every link.
Advanced_WinnerOnly(v, m, w) ==
    [t \in Matches |-> [s \in Sides |->
        IF \E l \in FeedsFrom(m) : l.target = t /\ l.side = s THEN w ELSE slot[v][t][s]]]

\* Mutant: the close does not write the slots of the destinations.
Advanced_Skipped(v, m, w) == slot[v]

Advanced(v, m, w) ==
    [t \in Matches |-> [s \in Sides |->
        IF \E l \in FeedsFrom(m) : l.target = t /\ l.side = s
        THEN Leaving(v, CHOOSE l \in FeedsFrom(m) : l.target = t /\ l.side = s, w)
        ELSE slot[v][t][s]]]

\* Mutant: the repetition is played when the winners' finalist wins GF1.
Repeats_HomeWins(v, m, w) == m = GF1 /\ w = slot[v][m]["home"]

\* activate_double_elimination_reset: only when the visitor wins the grand final.
Repeats(v, m, w) == m = GF1 /\ w = slot[v][m]["away"]

CanRepeat(v, m, w) ==
    Repeats(v, m, w) => /\ GF2 # NoMatch
                        /\ status[v][GF2] = "cancelled"
                        /\ slot[v][GF2] = [s \in Sides |-> NoTeam]

\* Mutant: the report of a closed match is accepted again.
Operable_Reopened(v, m) ==
    /\ status[v][m] # "cancelled"
    /\ version[v] = "published"
    /\ NoTeam \notin TeamsOf(v, m)

\* Mutant: the report of a match is accepted whatever became of its version.
Operable_AnyVersion(v, m) ==
    /\ status[v][m] \notin Closed \cup {"cancelled"}
    /\ version[v] # "none"
    /\ NoTeam \notin TeamsOf(v, m)

\* Steps 3 and 4 of the order of validation.
Operable(v, m) ==
    /\ status[v][m] \notin Closed \cup {"cancelled"}
    /\ version[v] = "published"
    /\ NoTeam \notin TeamsOf(v, m)

\* What the branches of execute have in common: result, advancement, repetition.
File(v, m, w, final) ==
    /\ m \in {GF1, GF2} => w # NoTeam
    /\ CanAdvance(v, m, w)
    /\ CanRepeat(v, m, w)
    /\ status' = [status EXCEPT ![v] =
                    [t \in Matches |-> IF t = m THEN final
                                       ELSE IF Repeats(v, m, w) /\ t = GF2 THEN "scheduled"
                                       ELSE @[t]]]
    /\ winner' = [winner EXCEPT ![v][m] = w]
    /\ slot' = [slot EXCEPT ![v] =
                    [t \in Matches |-> IF Repeats(v, m, w) /\ t = GF2 THEN slot[v][m]
                                       ELSE Advanced(v, m, w)[t]]]
    /\ UNCHANGED <<version, operated>>

\* A played match, whose score may leave no winner, needs a segment.
ClosePlayed(v, m) ==
    /\ Operable(v, m)
    /\ <<v, m>> \in operated
    /\ \E w \in TeamsOf(v, m) \cup {NoTeam} : File(v, m, w, "finished")

CloseAdministrative(v, m) ==
    /\ Operable(v, m)
    /\ <<v, m>> \in operated
    /\ \E w \in TeamsOf(v, m) : File(v, m, w, "administrative_resolution")

\* _execute_walkover needs no segment.
CloseWalkover(v, m) ==
    /\ Operable(v, m)
    /\ \E w \in TeamsOf(v, m) : File(v, m, w, "finished")

Next ==
    \/ \E v \in Versions : Publish(v) \/ Regenerate(v)
    \/ \E v, u \in Versions : Clone(v, u)
    \/ \E v \in Versions, m \in Matches :
          \/ CreateSegment(v, m)
          \/ ClosePlayed(v, m) \/ CloseAdministrative(v, m) \/ CloseWalkover(v, m)

Spec == Init /\ [][Next]_vars
-------------------------------------------------------------------------------
(* Safety.                                                                 *)

IsClosed(v, m) == status[v][m] \in Closed

\* What a close promised is in the bracket: in every version, clones included,
\* each slot fed by a closed match holds the team that match sent there.
ClosedFeedsTarget ==
    \A v \in Versions, l \in Feeds :
        IsClosed(v, l.source) => slot[v][l.target][l.side] = Leaving(v, l, winner[v][l.source])

\* In the version that was drawn, a slot fed by an open match is empty: nobody is
\* in a match before having earned it, in whatever order the reports arrive.
NobodyArrivesEarly ==
    \A l \in Feeds :
        ~IsClosed(FirstVersion, l.source) => slot[FirstVersion][l.target][l.side] = NoTeam

\* docs/contrato-reglas.md, 1 and 2: GF2 stays cancelled and without teams until
\* GF1 is closed, and is played only if the visitor won GF1.
ResetOnlyIfNeeded ==
    GF1 # NoMatch => \A v \in Versions :
        status[v][GF2] # "cancelled"
            <=> IsClosed(v, GF1) /\ winner[v][GF1] = slot[v][GF1]["away"]

\* At most one version is published, and a match is closed only in a version that
\* has been published.
OnePublishedVersion ==
    /\ \A u, v \in Versions : version[u] = "published" /\ version[v] = "published" => u = v
    /\ \A v \in Versions, m \in Matches :
          IsClosed(v, m) => version[v] \in {"published", "archived"}

\* A confirmed result never changes, teams included, and nothing that happens in
\* one version reaches the results of another (migration 016 and 03_hardening).
ResultsAreFinal ==
    [][\A v \in Versions, m \in Matches :
          IsClosed(v, m) => /\ status'[v][m] = status[v][m]
                            /\ winner'[v][m] = winner[v][m]
                            /\ slot'[v][m] = slot[v][m]]_vars

\* The results of an archived version are out of reach of every handler.
ArchivedIsFrozen ==
    [][\A v \in Versions : version[v] = "archived" =>
          /\ version'[v] = "archived"
          /\ status'[v] = status[v] /\ slot'[v] = slot[v] /\ winner'[v] = winner[v]]_vars
===============================================================================
