----------------------------- MODULE MatchReport -----------------------------
(***************************************************************************)
(* What the close of a match accepts as the events of one of its teams:    *)
(* replay_report_state goes through them in the order (minute, added       *)
(* minute, index) and keeps who is on the field, the intervals each player *)
(* has been on it and what the substitutions have used up.  One event that *)
(* breaks a rule refuses the whole report, so a behaviour is a report that *)
(* is accepted, event by event.                                            *)
(*                                                                         *)
(* Left out: which error is told first, the minutes the sheet declares for *)
(* a player and the substitutions of old reports, which name no pair.      *)
(***************************************************************************)
EXTENDS Integers, FiniteSets, Sequences, SequencesExt, FiniteSetsExt

CONSTANTS
  Squad,         \* players of the team, in the sheet of the match or not
  Starter,       \* the sheet: those who begin
  Bench,
  Time,          \* bound: <<minute, added minute>> of the events
  SegmentsAt,    \* segments an event of that time may name
  MaxSubs,       \* max_per_team
  MaxWindows,    \* max_windows
  Reentry,       \* allow_reentry
  MaxReport      \* bound: events of the report

Roster == Starter \cup Bench
Segment == UNION {SegmentsAt[t] : t \in Time}

ASSUME MatchReportAssumption ==
  /\ Roster \subseteq Squad /\ Starter \cap Bench = {} /\ Starter # {}
  /\ IsFiniteSet(Squad) /\ IsFiniteSet(Segment)
  /\ Time \subseteq Nat \X Nat /\ SegmentsAt \in [Time -> SUBSET (Nat \ {0})]
  /\ MaxSubs \in Nat /\ MaxWindows \in Nat /\ Reentry \in BOOLEAN
  /\ MaxReport \in Nat

VARIABLES
  report,    \* the events accepted so far
  spells,    \* intervals on the field of each player: [start, end)
  onField,
  ejected,
  usage      \* substitutions, and the windows they took

reportVars == <<report, spells, onField, ejected, usage>>

StillOn == -1      \* end of an interval that is open

-----------------------------------------------------------------------------
(* The engine of the substitutions.                                        *)

Effective(t) == t[1] + t[2]

NotBefore(t, u) == t[1] > u[1] \/ (t[1] = u[1] /\ t[2] >= u[2])
IsNext(t) == report # <<>> => NotBefore(t, Last(report).time)

(* Mutant: a player is still on the field in the minute he leaves.         *)
Covers_Closed(s, minute) == minute >= s.start /\ (s.end = StillOn \/ minute <= s.end)

Covers(s, minute) == minute >= s.start /\ (s.end = StillOn \/ minute < s.end)

OnFieldAt(p, minute) == \E i \in DOMAIN spells[p] : Covers(spells[p][i], minute)

IsOpen(p) == spells[p] # <<>> /\ Last(spells[p]).end = StillOn

(* An interval never ends before it starts.                                *)
Closed(p, minute) ==
  IF IsOpen(p)
  THEN [spells[p] EXCEPT ![Len(spells[p])].end =
          Max({minute, spells[p][Len(spells[p])].start})]
  ELSE spells[p]

Window(t, segment) == <<segment, t>>

(* A window that is already open is not counted again.                     *)
WithinLimits(t, segment) ==
  /\ usage.subs < MaxSubs
  /\ Cardinality(usage.windows \ {Window(t, segment)}) < MaxWindows

(* Mutant: somebody who has been sent off is only off the field.           *)
MayChange_Ejected(out, in) ==
  /\ {out, in} \subseteq Roster /\ out # in
  /\ out \in onField /\ in \notin onField
  /\ Reentry \/ spells[in] = <<>>

MayChange(out, in) ==
  /\ {out, in} \subseteq Roster /\ out # in
  /\ {out, in} \cap ejected = {}
  /\ out \in onField /\ in \notin onField
  /\ Reentry \/ spells[in] = <<>>

Record(e) == /\ Len(report) < MaxReport /\ IsNext(e.time)
             /\ report' = Append(report, e)

Substitute(t, segment, out, in) ==
  /\ Record([type |-> "substitution", time |-> t, segment |-> segment,
             player |-> out, other |-> in])
  /\ WithinLimits(t, segment)
  /\ MayChange(out, in)
  /\ spells' = [spells EXCEPT
       ![out] = Closed(out, Effective(t)),
       ![in] = Append(@, [start |-> Effective(t), end |-> StillOn])]
  /\ onField' = (onField \ {out}) \cup {in}
  /\ usage' = [subs |-> usage.subs + 1,
               windows |-> usage.windows \cup {Window(t, segment)}]
  /\ UNCHANGED ejected

(* The player of any other event, and who assists, must be in the sheet    *)
(* and within their intervals.                                             *)
Takes(p, t) == p \in Roster /\ OnFieldAt(p, Effective(t))

(* A goal may have an assist, of the same team; other = player means none. *)
Goal(t, segment, p, assist) ==
  /\ Record([type |-> "goal", time |-> t, segment |-> segment,
             player |-> p, other |-> assist])
  /\ Takes(p, t) /\ Takes(assist, t)
  /\ UNCHANGED <<spells, onField, ejected, usage>>

Alone(t, segment, p, type) ==
  [type |-> type, time |-> t, segment |-> segment, player |-> p, other |-> p]

YellowCard(t, segment, p) ==
  /\ Record(Alone(t, segment, p, "yellow"))
  /\ Takes(p, t)
  /\ UNCHANGED <<spells, onField, ejected, usage>>

Bookings(p) == Cardinality({i \in DOMAIN report :
                             report[i].type = "yellow" /\ report[i].player = p})

(* A red card for two yellow ones comes after exactly two.                 *)
RedCard(t, segment, p, type) ==
  /\ Record(Alone(t, segment, p, type))
  /\ Takes(p, t)
  /\ type = "double_yellow_red" => Bookings(p) = 2
  /\ spells' = [spells EXCEPT ![p] = Closed(p, Effective(t))]
  /\ onField' = onField \ {p}
  /\ ejected' = ejected \cup {p}
  /\ UNCHANGED usage

ReportInit ==
  /\ report = <<>>
  /\ spells = [p \in Squad |->
                 IF p \in Starter THEN <<[start |-> 0, end |-> StillOn]>> ELSE <<>>]
  /\ onField = Starter /\ ejected = {}
  /\ usage = [subs |-> 0, windows |-> {}]

ReportNext ==
  \E t \in Time : \E segment \in SegmentsAt[t], p \in Squad :
    \/ \E q \in Squad : Substitute(t, segment, p, q) \/ Goal(t, segment, p, q)
    \/ YellowCard(t, segment, p)
    \/ \E type \in {"direct_red_card", "double_yellow_red"} :
         RedCard(t, segment, p, type)

ReportSpec == ReportInit /\ [][ReportNext]_reportVars

(* An event that does not come before another in the order of the report   *)
(* does not take effect before it either.  It is not so of every report:   *)
(* 45+2 comes before 46.                                                   *)
TimesAgree == \A t, u \in Time : NotBefore(t, u) => Effective(u) <= Effective(t)

-----------------------------------------------------------------------------
(* The balance of each segment, rewritten from the events that were        *)
(* persisted.                                                              *)

Changes(n) == {i \in DOMAIN report :
                 report[i].type = "substitution" /\ report[i].segment = n}

(* team_usage of the events of a segment.                                  *)
WindowsOf(n) == {Window(report[i].time, n) : i \in Changes(n)}

UsedUpTo(n) ==
  LET segs == {m \in Segment : m <= n}
  IN  [subs |-> Cardinality(UNION {Changes(m) : m \in segs}),
       windows |-> UNION {WindowsOf(m) : m \in segs}]

Remaining(limit, used) == Max({limit - used, 0})

SegmentBalance(n) ==
  [subs |-> Remaining(MaxSubs, UsedUpTo(n).subs),
   windows |-> Remaining(MaxWindows, Cardinality(UsedUpTo(n).windows))]

-----------------------------------------------------------------------------
ReportTypeOK ==
  /\ \A i \in DOMAIN report :
       report[i].time \in Time /\ {report[i].player, report[i].other} \subseteq Roster
  /\ onField \subseteq Roster /\ ejected \subseteq Roster
  /\ \A p \in Squad : \A i \in DOMAIN spells[p] :
       spells[p][i].end = StillOn \/ spells[p][i].start <= spells[p][i].end

(* Whatever is changed and whoever is sent off, the two ways the engine    *)
(* knows who is playing agree, nobody sent off plays on, and the team has  *)
(* as many players as it began with, less one for each red card.           *)
FieldAddsUp ==
  /\ onField = {p \in Squad : IsOpen(p)}
  /\ onField \cap ejected = {}
  /\ Cardinality(onField) = Cardinality(Starter) - Cardinality(ejected)

(* The balance of the last segment, computed again from what was           *)
(* persisted, is what the replay left over, and no segment shows a         *)
(* balance that had to be raised to nothing.                               *)
BalancesAddUp ==
  /\ \A n \in Segment : UsedUpTo(n).subs <= MaxSubs
                        /\ Cardinality(UsedUpTo(n).windows) <= MaxWindows
  /\ LET last == SegmentBalance(Max(Segment))
     IN  /\ last.subs = MaxSubs - usage.subs
         /\ last.windows = MaxWindows - Cardinality(usage.windows)

(* The two together, after every event of a report that is accepted.       *)
ReportAddsUp == FieldAddsUp /\ BalancesAddUp

(* An event is of somebody the events before it have left on the field:    *)
(* the state is that of the events before it in canonical order (spec 007, *)
(* RF-012).                                                                *)
PlayedByThoseOnField ==
  [][\A i \in DOMAIN report' \ DOMAIN report :
       {report'[i].player, report'[i].other} \ onField # {} =>
         report'[i].type = "substitution"]_reportVars
=============================================================================
