----------------------------- MODULE MatchProofs -----------------------------
(***************************************************************************)
(* The operation of a match and the replay of its report, for any number   *)
(* of segments, players and events.                                        *)
(*                                                                         *)
(* The operation.  The inductive invariant adds to what the runs check     *)
(* that an open match has no events, that a segment is interrupted once,   *)
(* at the minute it ends, and that the formation a request is about to     *)
(* publish is still the complete one it has read: the row of the match is  *)
(* held meanwhile.                                                         *)
(*                                                                         *)
(* The replay.  Its invariant relates the intervals to who is on the       *)
(* field, and the usage to the substitutions of the report.  That the      *)
(* field adds up also needs every interval to be of the past, and that is  *)
(* so only where the order of the report is that of its effects            *)
(* (TimesAgree).                                                           *)
(***************************************************************************)
EXTENDS MatchOperation, MatchReport, FiniteSetTheorems, SequenceTheorems,
        WellFoundedInduction, TLAPS

SegmentRow == [start : Minute, end : Minute \cup {NoMinute},
               status : {"active", "interrupted", "completed"}]

WriterTypes ==
  /\ writer.kind \in {"none", "save", "publish"}
  /\ writer.kind = "save" => writer.lineup \in Lineup /\ writer.withFormation \in BOOLEAN
  /\ writer.kind = "publish" =>
       writer.segment \in 1..MaxSegment /\ writer.team \in Team /\ writer.public \in BOOLEAN

OperationTypes ==
  /\ version \in {"draft", "published", "archived"}
  /\ rules \in Rules
  /\ isActive \subseteq Registration /\ matchRoster \subseteq Registration
  /\ status \in {"scheduled", "finished", "administrative_resolution"}
  /\ segments \in Seq(SegmentRow) /\ Len(segments) <= MaxSegment
  /\ interruptions \subseteq (1..MaxSegment) \X Minute
  /\ events \subseteq (1..MaxSegment) \X Minute
  /\ snapshots \in [1..MaxSegment -> Lineup]
  /\ formations \in [1..MaxSegment -> [Team -> {"none", "private", "public"}]]
  /\ WriterTypes

(* The two halves of Timeline.                                             *)
SegmentsInOrder(segs, open) ==
  \A n \in 1..Len(segs) :
    /\ segs[n].status = "active" <=> segs[n].end = NoMinute
    /\ segs[n].status = "active" => n = Len(segs) /\ open
    /\ segs[n].end # NoMinute => segs[n].start <= segs[n].end
    /\ n > 1 => segs[n - 1].end <= segs[n].start

EventsInOrder ==
  /\ Open => events = {}
  /\ \A e \in events :
       /\ e[1] \in 1..Len(segments)
       /\ segments[e[1]].start <= e[2] /\ e[2] <= segments[e[1]].end

InterruptedOnce ==
  \A i \in interruptions :
    /\ i[1] \in 1..Len(segments)
    /\ segments[i[1]].status = "interrupted" /\ segments[i[1]].end = i[2]

PublishedIsComplete ==
  writer.kind = "publish" /\ writer.public =>
    Cardinality(Starters(snapshots[writer.segment], writer.team)) = Slots

OperationInv ==
  /\ OperationTypes
  /\ SegmentsInOrder(segments, Open) /\ EventsInOrder /\ InterruptedOnce
  /\ PublicLineupComplete /\ PublishedIsComplete

-----------------------------------------------------------------------------
(* Lemmas about the operators.                                             *)

\* A finite set of numbers that is not empty has a greatest element, and Max is it.
LEMMA MaxIsGreatest ==
  ASSUME NEW S \in SUBSET Nat, IsFiniteSet(S), S # {}
  PROVE  Max(S) \in S /\ \A x \in S : x <= Max(S)
<1> DEFINE Above(x) == {y \in S : y > x}
           R == StrictSubsetOrdering(S)
           T == {Above(x) : x \in S}
<1>1. IsWellFoundedOn(R, SUBSET S)
  BY FS_StrictSubsetOrderingWellFounded, FS_FiniteSubsetsOfFinite
<1>2. T \subseteq SUBSET S /\ T # {}
  OBVIOUS
<1>3. \E A \in T : \A B \in T : <<B, A>> \notin R
  <2> HIDE DEF R, T
  <2> QED BY <1>1, <1>2, WFMin
<1>4. PICK g \in S : \A y \in S : <<Above(y), Above(g)>> \notin R
  BY <1>3
<1>5. \A x \in S : x \in Nat
  OBVIOUS
<1>6. ASSUME NEW x \in S, x > g PROVE FALSE
  <2>1. x \in Above(g) /\ x \notin Above(x)
    BY <1>5, <1>6
  <2>2. Above(x) \subseteq Above(g)
    <3> SUFFICES ASSUME NEW y \in S, y > x
                 PROVE  y > g
      OBVIOUS
    <3> QED BY <1>5, <1>6
  <2>3. <<Above(x), Above(g)>> \in R
    BY <2>1, <2>2 DEF StrictSubsetOrdering
  <2> QED BY <1>4, <2>3
<1>7. \A y \in S : g >= y
  BY <1>5, <1>6
<1>8. Max(S) \in S /\ \A y \in S : Max(S) >= y
  <2> DEFINE G(x) == \A y \in S : x >= y
  <2>1. \E x \in S : G(x)
    BY <1>7
  <2>2. Max(S) = CHOOSE x \in S : G(x)
    BY DEF Max
  <2> HIDE DEF G
  <2>3. Max(S) \in S /\ G(Max(S))
    BY <2>1, <2>2
  <2> QED BY <2>3 DEF G
<1> QED BY <1>5, <1>8

\* A rewritten sequence of segments keeps their starts; only active ones get an end.
LEMMA ClosedAtSegments ==
  ASSUME NEW segs \in Seq(SegmentRow), NEW end,
         \A n \in 1..Len(segs) : segs[n].status = "active" => end \in Minute
  PROVE  /\ ClosedAt(segs, end) \in Seq(SegmentRow)
         /\ Len(ClosedAt(segs, end)) = Len(segs)
         /\ \A n \in 1..Len(segs) :
              /\ ClosedAt(segs, end)[n].start = segs[n].start
              /\ segs[n].status # "active" => ClosedAt(segs, end)[n] = segs[n]
              /\ segs[n].status = "active" =>
                   ClosedAt(segs, end)[n].status = "completed"
                   /\ ClosedAt(segs, end)[n].end = end
<1> DEFINE done(row) == [row EXCEPT !.status = "completed", !.end = end]
           c == ClosedAt(segs, end)
<1>1. \A n \in 1..Len(segs) : segs[n] \in SegmentRow
  OBVIOUS
<1>2. ASSUME NEW row \in SegmentRow
      PROVE  /\ end \in Minute => done(row) \in SegmentRow
             /\ done(row).start = row.start
             /\ done(row).status = "completed" /\ done(row).end = end
  BY DEF SegmentRow
<1>0. DOMAIN segs = 1..Len(segs)
  OBVIOUS
<1>3. /\ DOMAIN c = 1..Len(segs)
      /\ \A n \in 1..Len(segs) :
           c[n] = IF segs[n].status = "active" THEN done(segs[n]) ELSE segs[n]
  BY <1>0 DEF ClosedAt
<1>4. Len(segs) \in Nat /\ c = [n \in 1..Len(segs) |-> c[n]]
  BY <1>3 DEF ClosedAt
<1> HIDE DEF done, c
<1>5. \A n \in 1..Len(segs) : c[n] \in SegmentRow
  BY <1>1, <1>2, <1>3
<1>6. c \in Seq(SegmentRow) /\ Len(c) = Len(segs)
  BY <1>3, <1>4, <1>5
<1>7. \A n \in 1..Len(segs) :
        /\ c[n].start = segs[n].start
        /\ segs[n].status # "active" => c[n] = segs[n]
        /\ segs[n].status = "active" => c[n].status = "completed" /\ c[n].end = end
  BY <1>1, <1>2, <1>3
<1> QED BY <1>6, <1>7 DEF c

\* Play ends at one of the minutes it is computed from, after all of them.
LEMMA EndOfPlayIsLast ==
  ASSUME NEW n, segments[n].start \in Minute, NEW E \in Report, Extra \in Nat
  PROVE  /\ EndOfPlay(n, E) \in Minute
         /\ segments[n].start <= EndOfPlay(n, E)
         /\ \A e \in E : e[2] <= EndOfPlay(n, E)
<1> DEFINE S == {segments[n].start} \cup {e[2] : e \in E}
<1>1. \A e \in E : e[2] \in Minute
  BY DEF Report
<1>2. S \in SUBSET Nat /\ S # {} /\ S \subseteq Minute
  BY <1>1 DEF Minute
<1>3. IsFiniteSet(S)
  <2>1. \A x \in S : x <= Extra
    BY <1>2 DEF Minute
  <2> HIDE DEF S
  <2> QED BY <1>2, <2>1, FS_BoundedSetOfNaturals
<1>4. Max(S) \in S /\ \A x \in S : x <= Max(S)
  <2> HIDE DEF S
  <2> QED BY <1>2, <1>3, MaxIsGreatest
<1>5. segments[n].start \in S /\ \A e \in E : e[2] \in S
  OBVIOUS
<1>6. EndOfPlay(n, E) = Max(S)
  BY DEF EndOfPlay
<1> QED BY <1>2, <1>4, <1>5, <1>6

-----------------------------------------------------------------------------
(* The segments.                                                           *)

LEMMA SegmentFields ==
  ASSUME OperationTypes
  PROVE  /\ Len(segments) \in Nat /\ DOMAIN segments = 1..Len(segments)
         /\ \A n \in 1..Len(segments) :
              /\ segments[n] \in SegmentRow
              /\ segments[n].start \in 0..Extra
              /\ segments[n].end \in (0..Extra) \cup {NoMinute}
              /\ segments[n].status \in {"active", "interrupted", "completed"}
<1>1. segments \in Seq(SegmentRow)
  BY DEF OperationTypes
<1>2. \A n \in 1..Len(segments) : segments[n] \in SegmentRow
  BY <1>1
<1> QED BY <1>1, <1>2 DEF SegmentRow, Minute

\* What a handler that changes only the segments and the interruptions must show.
LEMMA SegmentsMove ==
  ASSUME OperationInv,
         UNCHANGED <<tournamentVars, lineupVars, status, events, writer>>,
         Open,
         segments' \in Seq(SegmentRow), Len(segments') <= MaxSegment,
         SegmentsInOrder(segments', TRUE),
         interruptions' \subseteq (1..MaxSegment) \X Minute,
         InterruptedOnce'
  PROVE  OperationInv'
<1>1. OperationTypes'
  BY DEF OperationInv, OperationTypes, WriterTypes, tournamentVars, lineupVars
<1>2. SegmentsInOrder(segments, Open)'
  BY DEF SegmentsInOrder, Open
<1>3. EventsInOrder' /\ PublicLineupComplete' /\ PublishedIsComplete'
  BY DEF OperationInv, EventsInOrder, PublicLineupComplete, PublishedIsComplete, Starters,
         Open, lineupVars
<1> QED BY <1>1, <1>2, <1>3 DEF OperationInv

LEMMA CreateSegmentKeeps ==
  ASSUME OperationInv, NEW r \in Foreseen, NEW start \in Minute, CreateSegment(r, start),
         Extra \in Nat
  PROVE  OperationInv'
<1> DEFINE old == ClosedAt(segments, start)
           new == [start |-> start, end |-> NoMinute, status |-> "active"]
           L == Len(segments)
<1>1. segments \in Seq(SegmentRow) /\ L \in Nat /\ L < MaxSegment
      /\ DOMAIN segments = 1..L /\ Open
  BY DEF OperationInv, OperationTypes, CreateSegment
<1>2. /\ old \in Seq(SegmentRow) /\ Len(old) = L
      /\ \A n \in 1..L :
           /\ old[n].start = segments[n].start
           /\ segments[n].status # "active" => old[n] = segments[n]
           /\ segments[n].status = "active" =>
                old[n].status = "completed" /\ old[n].end = start
  BY <1>1, ClosedAtSegments
<1>3. new \in SegmentRow
  BY DEF SegmentRow, NoMinute
<1>4. segments' = Append(old, new)
  BY DEF CreateSegment
<1> HIDE DEF old
<1>5. /\ segments' \in Seq(SegmentRow) /\ Len(segments') = L + 1
      /\ \A n \in 1..L : segments'[n] = old[n]
      /\ segments'[L + 1] = new
  BY <1>1, <1>2, <1>3, <1>4
<1>6. \A n \in 1..L : /\ segments[n].start \in 0..Extra
                      /\ segments[n].end \in (0..Extra) \cup {NoMinute}
                      /\ segments[n].status \in {"active", "interrupted", "completed"}
  BY SegmentFields DEF OperationInv
<1>7. SegmentsInOrder(segments, TRUE) /\ start \in 0..Extra
  BY <1>1 DEF OperationInv, SegmentsInOrder, Minute
<1>8. L > 0 => IF segments[L].status = "active" THEN segments[L].start <= start
                                                ELSE segments[L].end <= start
  BY <1>1 DEF CreateSegment, MayStart
<1>9. SegmentsInOrder(segments', TRUE)
  <2> SUFFICES ASSUME NEW n \in 1..(L + 1)
               PROVE  /\ segments'[n].status = "active" <=> segments'[n].end = NoMinute
                      /\ segments'[n].status = "active" => n = L + 1
                      /\ segments'[n].end # NoMinute =>
                           segments'[n].start <= segments'[n].end
                      /\ n > 1 => segments'[n - 1].end <= segments'[n].start
    BY <1>5 DEF SegmentsInOrder
  <2>1. CASE n = L + 1
    <3>1. /\ segments'[n].start = start /\ segments'[n].end = NoMinute
          /\ segments'[n].status = "active"
      BY <1>5, <2>1
    <3>2. L > 0 => old[L].end <= start
      BY <1>1, <1>2, <1>7, <1>8, <1>6
    <3>3. n > 1 => segments'[n - 1].end <= start
      BY <1>1, <1>5, <2>1, <3>2
    <3> QED BY <2>1, <3>1, <3>3
  <2>2. CASE n \in 1..L
    <3>1. segments'[n] = old[n] /\ n # L + 1
      BY <1>1, <1>5, <2>2
    <3>2. /\ old[n].status # "active" /\ old[n].end # NoMinute
          /\ old[n].start <= old[n].end
      <4>1. CASE segments[n].status = "active"
        <5>1. n = L
          BY <1>7, <2>2, <4>1 DEF SegmentsInOrder
        <5>2. segments[n].start <= start
          BY <1>8, <2>2, <4>1, <5>1
        <5> QED BY <1>2, <1>7, <2>2, <4>1, <5>2 DEF NoMinute
      <4>2. CASE segments[n].status # "active"
        BY <1>1, <1>2, <1>6, <1>7, <2>2, <4>2 DEF SegmentsInOrder
      <4> QED BY <4>1, <4>2
    <3>3. ASSUME n > 1 PROVE segments'[n - 1].end <= segments'[n].start
      <4>1. n - 1 \in 1..L /\ n - 1 # L
        BY <1>1, <2>2, <3>3
      <4>2. segments[n - 1].status # "active"
        BY <1>7, <4>1 DEF SegmentsInOrder
      <4>3. segments'[n - 1] = segments[n - 1] /\ segments'[n].start = segments[n].start
        BY <1>2, <1>5, <2>2, <4>1, <4>2
      <4> QED BY <1>7, <2>2, <3>3, <4>3 DEF SegmentsInOrder
    <3> QED BY <3>1, <3>2, <3>3
  <2> QED BY <1>1, <2>1, <2>2
<1>10. InterruptedOnce'
  <2>1. interruptions' = interruptions
    BY DEF CreateSegment
  <2> QED BY <1>1, <1>2, <1>5, <2>1 DEF OperationInv, InterruptedOnce
<1>11. Len(segments') <= MaxSegment
  BY <1>1, <1>5, MatchOperationAssumption
<1> QED
  BY <1>1, <1>5, <1>9, <1>10, <1>11, SegmentsMove
     DEF CreateSegment, OperationInv, OperationTypes

LEMMA InterruptKeeps ==
  ASSUME OperationInv, NEW r \in Foreseen, NEW n \in DOMAIN segments, NEW minute \in Minute,
         Interrupt(r, n, minute), Extra \in Nat
  PROVE  OperationInv'
<1> DEFINE L == Len(segments)
           row == [segments[n] EXCEPT !.status = "interrupted", !.end = minute]
<1>1. segments \in Seq(SegmentRow) /\ L \in Nat /\ DOMAIN segments = 1..L /\ Open
  BY DEF OperationInv, OperationTypes, Interrupt
<1>2. segments[n] \in SegmentRow /\ segments[n].status = "active"
      /\ minute >= segments[n].start
  BY <1>1 DEF Interrupt, Active
<1>3. row \in SegmentRow /\ row.start = segments[n].start
      /\ row.status = "interrupted" /\ row.end = minute
  BY <1>2 DEF SegmentRow
<1>4. segments' = [segments EXCEPT ![n] = row]
  BY DEF Interrupt
<1> HIDE DEF row
<1>5. /\ segments' \in Seq(SegmentRow) /\ Len(segments') = L
      /\ segments'[n] = row
      /\ \A k \in (1..L) \ {n} : segments'[k] = segments[k]
  BY <1>1, <1>3, <1>4
<1>6. \A k \in 1..L : /\ segments[k].start \in 0..Extra
                      /\ segments[k].end \in (0..Extra) \cup {NoMinute}
  BY SegmentFields DEF OperationInv
<1>7. SegmentsInOrder(segments, TRUE) /\ minute \in 0..Extra /\ n = L /\ n \in 1..L
  BY <1>1, <1>2 DEF OperationInv, Minute, SegmentsInOrder
<1>8. SegmentsInOrder(segments', TRUE)
  <2> SUFFICES ASSUME NEW k \in 1..L
               PROVE  /\ segments'[k].status = "active" <=> segments'[k].end = NoMinute
                      /\ segments'[k].status = "active" => k = L
                      /\ segments'[k].end # NoMinute =>
                           segments'[k].start <= segments'[k].end
                      /\ k > 1 => segments'[k - 1].end <= segments'[k].start
    BY <1>5 DEF SegmentsInOrder
  <2>1. ASSUME k > 1 PROVE segments'[k - 1].end <= segments'[k].start
    <3>1. k - 1 \in (1..L) \ {n}
      BY <1>1, <1>7, <2>1
    <3>2. segments'[k - 1] = segments[k - 1] /\ segments'[k].start = segments[k].start
      BY <1>3, <1>5, <3>1
    <3> QED BY <1>7, <2>1, <3>2 DEF SegmentsInOrder
  <2>2. CASE k = n
    BY <1>2, <1>3, <1>5, <1>6, <1>7, <2>1, <2>2 DEF NoMinute
  <2>3. CASE k # n
    <3>1. segments'[k] = segments[k]
      BY <1>5, <2>3
    <3> QED BY <1>7, <2>1, <3>1 DEF SegmentsInOrder
  <2> QED BY <2>2, <2>3
<1>9. interruptions' = interruptions \cup {<<n, minute>>}
  BY DEF Interrupt
<1>10. InterruptedOnce'
  <2> SUFFICES ASSUME NEW i \in interruptions'
               PROVE  /\ i[1] \in 1..L
                      /\ segments'[i[1]].status = "interrupted"
                      /\ segments'[i[1]].end = i[2]
    BY <1>5 DEF InterruptedOnce
  <2>1. CASE i = <<n, minute>>
    BY <1>3, <1>5, <1>7, <2>1
  <2>2. CASE i \in interruptions
    <3>1. /\ i[1] \in 1..L /\ segments[i[1]].end = i[2]
          /\ segments[i[1]].status = "interrupted"
      BY <2>2 DEF OperationInv, InterruptedOnce
    <3> QED BY <1>2, <1>5, <3>1
  <2> QED BY <1>9, <2>1, <2>2
<1>11. interruptions' \subseteq (1..MaxSegment) \X Minute /\ Len(segments') <= MaxSegment
  <2>1. n \in 1..MaxSegment
    BY <1>1, <1>7, MatchOperationAssumption DEF OperationInv, OperationTypes
  <2> QED BY <1>5, <1>9, <2>1 DEF OperationInv, OperationTypes
<1> QED
  BY <1>1, <1>5, <1>8, <1>10, <1>11, SegmentsMove DEF Interrupt

-----------------------------------------------------------------------------
(* The lineups: what a request has read still holds when it writes, since  *)
(* nobody else writes while it holds the row of the match.                 *)

LEMMA LineupIsRegistered == \A l \in Lineup : DOMAIN l \subseteq Registration
BY DEF Lineup

\* What a handler that leaves the play of the match alone must show.
LEMMA LineupsMove ==
  ASSUME OperationInv, UNCHANGED playVars,
         OperationTypes', PublicLineupComplete', PublishedIsComplete'
  PROVE  OperationInv'
BY DEF OperationInv, playVars, SegmentsInOrder, EventsInOrder, InterruptedOnce, Open

LEMMA SaveReadKeeps ==
  ASSUME OperationInv, NEW l \in Lineup, NEW w \in BOOLEAN, SaveRead(l, w)
  PROVE  OperationInv'
<1>1. writer'.kind = "save" /\ writer'.lineup = l /\ writer'.withFormation = w
  BY DEF SaveRead
<1>2. UNCHANGED <<tournamentVars, playVars, lineupVars>>
  BY DEF SaveRead
<1>3. OperationTypes'
  BY <1>1, <1>2
     DEF OperationInv, OperationTypes, WriterTypes, tournamentVars, playVars, lineupVars
<1>4. PublicLineupComplete' /\ PublishedIsComplete'
  BY <1>1, <1>2
     DEF OperationInv, PublicLineupComplete, PublishedIsComplete, Starters, lineupVars
<1> QED BY <1>2, <1>3, <1>4, LineupsMove

LEMMA SaveWriteKeeps ==
  ASSUME OperationInv, SaveWrite
  PROVE  OperationInv'
<1>1. writer.kind = "save" /\ writer.lineup \in Lineup /\ writer.withFormation \in BOOLEAN
  BY DEF SaveWrite, OperationInv, OperationTypes, WriterTypes
<1>2. PICK n \in Active :
        /\ snapshots' = [snapshots EXCEPT ![n] = writer.lineup]
        /\ formations' = [formations EXCEPT ![n] = Rewritten(@, writer.withFormation)]
  BY DEF SaveWrite
<1>3. n \in 1..MaxSegment
  BY MatchOperationAssumption DEF OperationInv, OperationTypes, Active
<1>4. /\ matchRoster' = DOMAIN writer.lineup /\ writer'.kind = "none"
      /\ UNCHANGED <<tournamentVars, playVars>>
  BY DEF SaveWrite, NoWriter
<1>5. \A t \in Team : Rewritten(formations[n], writer.withFormation)[t]
                        \in {"none", "private"}
  BY DEF Rewritten
<1>6. Rewritten(formations[n], writer.withFormation)
        \in [Team -> {"none", "private", "public"}]
  BY DEF Rewritten
<1>7. OperationTypes'
  BY <1>1, <1>2, <1>3, <1>4, <1>6, LineupIsRegistered
     DEF OperationInv, OperationTypes, WriterTypes, tournamentVars, playVars
<1>8. PublicLineupComplete'
  <2> SUFFICES ASSUME NEW k \in 1..MaxSegment, NEW t \in Team, formations'[k][t] = "public"
               PROVE  Cardinality(Starters(snapshots'[k], t)) = Slots
    BY <1>7 DEF OperationTypes, PublicLineupComplete, Starters
  <2>1. k # n
    BY <1>2, <1>3, <1>5 DEF OperationInv, OperationTypes
  <2>2. snapshots'[k] = snapshots[k] /\ formations'[k] = formations[k]
    BY <1>2, <1>3, <2>1 DEF OperationInv, OperationTypes
  <2> QED BY <2>2 DEF OperationInv, OperationTypes, PublicLineupComplete
<1>9. PublishedIsComplete'
  BY <1>4 DEF PublishedIsComplete
<1> QED BY <1>4, <1>7, <1>8, <1>9, LineupsMove

LEMMA PublishReadKeeps ==
  ASSUME OperationInv, NEW n \in DOMAIN segments, NEW t \in Team, NEW b \in BOOLEAN,
         PublishRead(n, t, b)
  PROVE  OperationInv'
<1>1. /\ writer'.kind = "publish" /\ writer'.segment = n /\ writer'.team = t
      /\ writer'.public = b
  BY DEF PublishRead
<1>2. UNCHANGED <<tournamentVars, playVars, lineupVars>>
  BY DEF PublishRead
<1>3. n \in 1..MaxSegment
  BY MatchOperationAssumption DEF OperationInv, OperationTypes
<1>4. OperationTypes'
  BY <1>1, <1>2, <1>3
     DEF OperationInv, OperationTypes, WriterTypes, tournamentVars, playVars, lineupVars
<1>5. PublicLineupComplete' /\ PublishedIsComplete'
  BY <1>1, <1>2
     DEF OperationInv, PublicLineupComplete, PublishedIsComplete, Starters, PublishRead,
         lineupVars
<1> QED BY <1>2, <1>4, <1>5, LineupsMove

LEMMA PublishWriteKeeps ==
  ASSUME OperationInv, PublishWrite
  PROVE  OperationInv'
<1> DEFINE s == writer.segment
           v == IF writer.public THEN "public" ELSE "private"
<1>1. /\ s \in 1..MaxSegment /\ writer.team \in Team
      /\ formations \in [1..MaxSegment -> [Team -> {"none", "private", "public"}]]
  BY DEF PublishWrite, OperationInv, OperationTypes, WriterTypes
<1>2. /\ formations' = [formations EXCEPT ![s][writer.team] = v]
      /\ v \in {"private", "public"}
      /\ UNCHANGED <<tournamentVars, playVars, snapshots, matchRoster>>
      /\ writer'.kind = "none"
  BY DEF PublishWrite, NoWriter
<1>3. OperationTypes'
  BY <1>1, <1>2 DEF OperationInv, OperationTypes, WriterTypes, tournamentVars, playVars
<1>4. PublicLineupComplete'
  <2> SUFFICES ASSUME NEW k \in 1..MaxSegment, NEW t \in Team, formations'[k][t] = "public"
               PROVE  Cardinality(Starters(snapshots[k], t)) = Slots
    BY <1>2, <1>3 DEF OperationTypes, PublicLineupComplete, Starters
  <2>1. CASE k = s /\ t = writer.team
    BY <1>1, <1>2, <2>1 DEF PublishWrite, OperationInv, PublishedIsComplete
  <2>2. CASE ~(k = s /\ t = writer.team)
    BY <1>1, <1>2, <2>2 DEF OperationInv, PublicLineupComplete
  <2> QED BY <2>1, <2>2
<1>5. PublishedIsComplete'
  BY <1>2 DEF PublishedIsComplete
<1> QED BY <1>2, <1>3, <1>4, <1>5, LineupsMove

LEMMA LineupFailsKeeps ==
  ASSUME OperationInv, LineupFails
  PROVE  OperationInv'
<1>1. UNCHANGED <<tournamentVars, playVars, lineupVars>> /\ writer'.kind = "none"
  BY DEF LineupFails, NoWriter
<1>2. OperationTypes'
  BY <1>1 DEF OperationInv, OperationTypes, WriterTypes, tournamentVars, playVars, lineupVars
<1>3. PublicLineupComplete' /\ PublishedIsComplete'
  BY <1>1 DEF OperationInv, PublicLineupComplete, PublishedIsComplete, Starters, lineupVars
<1> QED BY <1>1, <1>2, <1>3, LineupsMove

LEMMA AroundMatchKeeps ==
  ASSUME OperationInv, UNCHANGED <<playVars, lineupVars, writer>>,
         version' \in {"draft", "published", "archived"}, rules' \in Rules,
         isActive' \subseteq Registration
  PROVE  OperationInv'
<1>1. OperationTypes'
  BY DEF OperationInv, OperationTypes, WriterTypes, playVars, lineupVars
<1>2. PublicLineupComplete' /\ PublishedIsComplete'
  BY DEF OperationInv, PublicLineupComplete, PublishedIsComplete, Starters, lineupVars
<1> QED BY <1>1, <1>2, LineupsMove

-----------------------------------------------------------------------------
(* The close.                                                              *)

\* The last act of a match: every segment is closed, and no event is outside its own.
LEMMA ClosingKeeps ==
  ASSUME OperationInv, Extra \in Nat, ~Open',
         status' \in {"scheduled", "finished", "administrative_resolution"},
         UNCHANGED <<tournamentVars, lineupVars, interruptions, writer>>,
         NEW end, segments' = ClosedAt(segments, end),
         \A n \in 1..Len(segments) :
           segments[n].status = "active" => end \in Minute /\ segments[n].start <= end,
         events' \subseteq (1..MaxSegment) \X Minute,
         \A e \in events' :
           /\ e[1] \in 1..Len(segments)
           /\ segments[e[1]].start <= e[2]
           /\ IF segments[e[1]].status = "active" THEN e[2] <= end
                                                  ELSE e[2] <= segments[e[1]].end
  PROVE  OperationInv'
<1> DEFINE L == Len(segments)
<1>1. segments \in Seq(SegmentRow) /\ L \in Nat /\ DOMAIN segments = 1..L
  BY DEF OperationInv, OperationTypes
<1>2. /\ segments' \in Seq(SegmentRow) /\ Len(segments') = L
      /\ \A n \in 1..L :
           /\ segments'[n].start = segments[n].start
           /\ segments[n].status # "active" => segments'[n] = segments[n]
           /\ segments[n].status = "active" =>
                segments'[n].status = "completed" /\ segments'[n].end = end
  BY <1>1, ClosedAtSegments
<1>3. \A n \in 1..L : /\ segments[n].start \in 0..Extra
                      /\ segments[n].end \in (0..Extra) \cup {NoMinute}
  BY SegmentFields DEF OperationInv
<1>4. SegmentsInOrder(segments, Open)'
  <2> SUFFICES ASSUME NEW n \in 1..L
               PROVE  /\ segments'[n].status # "active" /\ segments'[n].end # NoMinute
                      /\ segments'[n].start <= segments'[n].end
                      /\ n > 1 => segments'[n - 1].end <= segments'[n].start
    BY <1>2 DEF SegmentsInOrder
  <2>1. /\ segments'[n].status # "active" /\ segments'[n].end # NoMinute
        /\ segments'[n].start <= segments'[n].end
    <3>1. CASE segments[n].status = "active"
      BY <1>2, <3>1 DEF NoMinute, Minute
    <3>2. CASE segments[n].status # "active"
      BY <1>2, <3>2 DEF OperationInv, SegmentsInOrder
    <3> QED BY <3>1, <3>2
  <2>2. ASSUME n > 1 PROVE segments'[n - 1].end <= segments'[n].start
    <3>1. n - 1 \in 1..L /\ n - 1 # L
      BY <1>1, <2>2
    <3>2. segments[n - 1].status # "active"
      BY <3>1 DEF OperationInv, SegmentsInOrder
    <3>3. segments'[n - 1] = segments[n - 1] /\ segments'[n].start = segments[n].start
      BY <1>2, <3>1, <3>2
    <3> QED BY <2>2, <3>3 DEF OperationInv, SegmentsInOrder
  <2> QED BY <2>1, <2>2
<1>5. OperationTypes'
  BY <1>2 DEF OperationInv, OperationTypes, WriterTypes, tournamentVars, lineupVars
<1>6. EventsInOrder'
  BY <1>2 DEF EventsInOrder
<1>7. InterruptedOnce'
  BY <1>1, <1>2 DEF OperationInv, InterruptedOnce
<1>8. PublicLineupComplete' /\ PublishedIsComplete'
  BY DEF OperationInv, PublicLineupComplete, PublishedIsComplete, Starters, lineupVars
<1> QED BY <1>4, <1>5, <1>6, <1>7, <1>8 DEF OperationInv

LEMMA CloseKeeps ==
  ASSUME OperationInv, Extra \in Nat, NEW r \in Resolution, NEW E \in Report, Close(r, E)
  PROVE  OperationInv'
<1> DEFINE L == Len(segments)
           end == EndOfPlay(L, E)
<1>1. segments \in Seq(SegmentRow) /\ L \in Nat /\ DOMAIN segments = 1..L /\ Open
  BY DEF OperationInv, OperationTypes, Close
<1>2. \A n \in 1..L : /\ segments[n] \in SegmentRow
                      /\ segments[n].status = "active" => n = L
                      /\ segments[n].status = "active" <=> segments[n].end = NoMinute
  BY SegmentFields DEF OperationInv, SegmentsInOrder
<1>3. L \in 1..L /\ segments[L].status = "active" /\ segments[L].start \in Minute
  BY <1>1, <1>2 DEF Close, Active, SegmentRow
<1>4. end \in Minute /\ segments[L].start <= end /\ \A e \in E : e[2] <= end
  BY <1>3, EndOfPlayIsLast
<1>5. /\ status' \in {"finished", "administrative_resolution"} /\ events' = E
      /\ segments' = ClosedAt(segments, end)
      /\ UNCHANGED <<tournamentVars, lineupVars, interruptions, writer>>
  BY DEF Close
<1>6. events' \subseteq (1..MaxSegment) \X Minute
  BY <1>5 DEF Report
<1>7. ASSUME NEW e \in events'
      PROVE  /\ e[1] \in 1..L
             /\ segments[e[1]].start <= e[2]
             /\ IF segments[e[1]].status = "active" THEN e[2] <= end
                                                    ELSE e[2] <= segments[e[1]].end
  BY <1>1, <1>2, <1>4, <1>5 DEF Close, InItsSegment
<1>8. ~Open'
  BY <1>5 DEF Open
<1> HIDE DEF end
<1> QED BY <1>1, <1>2, <1>4, <1>5, <1>6, <1>7, <1>8, ClosingKeeps

LEMMA WalkoverKeeps ==
  ASSUME OperationInv, Extra \in Nat, DeclareWalkover
  PROVE  OperationInv'
<1> DEFINE end == segments[Len(segments)].start
<1>1. segments \in Seq(SegmentRow) /\ Open
  BY DEF OperationInv, OperationTypes, DeclareWalkover
<1>2. events = {}
  BY <1>1 DEF OperationInv, EventsInOrder
<1>3. /\ status' = "finished" /\ events' = {} /\ segments' = ClosedAt(segments, end)
      /\ UNCHANGED <<tournamentVars, lineupVars, interruptions, writer>>
  BY <1>2 DEF DeclareWalkover
<1>4. \A n \in 1..Len(segments) :
        segments[n].status = "active" => end \in Minute /\ segments[n].start <= end
  <2> SUFFICES ASSUME NEW n \in 1..Len(segments), segments[n].status = "active"
               PROVE  end \in Minute /\ segments[n].start <= end
    OBVIOUS
  <2>1. n = Len(segments) /\ segments[n] \in SegmentRow
    BY <1>1 DEF OperationInv, SegmentsInOrder
  <2>2. segments[n].start \in Minute
    BY <2>1 DEF SegmentRow
  <2> QED BY <2>1, <2>2 DEF Minute
<1>5. ~Open' /\ events' \subseteq (1..MaxSegment) \X Minute
  BY <1>3 DEF Open
<1> HIDE DEF end
<1> QED BY <1>3, <1>4, <1>5, ClosingKeeps

-----------------------------------------------------------------------------
(* The theorems.                                                           *)

LEMMA OperationInit == MatchInit => OperationInv
<1> SUFFICES ASSUME MatchInit PROVE OperationInv
  OBVIOUS
<1>1. NoLineup \in Lineup
  <2>1. NoLineup \in [{} -> Role]
    BY DEF NoLineup
  <2> QED BY <2>1 DEF Lineup
<1>2. writer.kind = "none"
  BY DEF MatchInit, NoWriter
<1>3. segments \in Seq(SegmentRow) /\ Len(segments) = 0 /\ Len(segments) <= MaxSegment
  BY MatchOperationAssumption DEF MatchInit
<1>4. OperationTypes
  BY <1>1, <1>2, <1>3 DEF MatchInit, OperationTypes, WriterTypes, Rules
<1>5. SegmentsInOrder(segments, Open) /\ EventsInOrder /\ InterruptedOnce
  BY <1>3 DEF MatchInit, SegmentsInOrder, EventsInOrder, InterruptedOnce
<1>6. PublicLineupComplete /\ PublishedIsComplete
  BY <1>2 DEF MatchInit, PublicLineupComplete, PublishedIsComplete
<1> QED BY <1>4, <1>5, <1>6 DEF OperationInv

LEMMA OperationStep == OperationInv /\ [MatchNext]_matchVars => OperationInv'
<1> SUFFICES ASSUME OperationInv, [MatchNext]_matchVars
             PROVE  OperationInv'
  OBVIOUS
<1>0. Extra \in Nat
  BY MatchOperationAssumption
<1>1. ASSUME NEW r \in Foreseen, NEW m \in Minute, CreateSegment(r, m)
      PROVE  OperationInv'
  BY <1>0, <1>1, CreateSegmentKeeps
<1>2. ASSUME NEW r \in Foreseen, NEW n \in DOMAIN segments, NEW m \in Minute,
             Interrupt(r, n, m)
      PROVE  OperationInv'
  BY <1>0, <1>2, InterruptKeeps
<1>3. ASSUME NEW l \in Lineup, NEW w \in BOOLEAN, SaveRead(l, w)
      PROVE  OperationInv'
  BY <1>3, SaveReadKeeps
<1>4. CASE SaveWrite
  BY <1>4, SaveWriteKeeps
<1>5. ASSUME NEW n \in DOMAIN segments, NEW t \in Team, NEW b \in BOOLEAN,
             PublishRead(n, t, b)
      PROVE  OperationInv'
  BY <1>5, PublishReadKeeps
<1>6. CASE PublishWrite
  BY <1>6, PublishWriteKeeps
<1>7. CASE LineupFails
  BY <1>7, LineupFailsKeeps
<1>8. ASSUME NEW r \in Resolution, NEW E \in Report, Close(r, E)
      PROVE  OperationInv'
  BY <1>0, <1>8, CloseKeeps
<1>9. CASE DeclareWalkover
  BY <1>0, <1>9, WalkoverKeeps
<1>10. CASE \/ \E new \in Rules : UpdateRules(new)
            \/ PublishVersion
            \/ ArchiveVersion
            \/ \E p \in Changing : ChangeRegistration(p)
            \/ UNCHANGED matchVars
  <2>1. /\ UNCHANGED <<playVars, lineupVars, writer>>
        /\ version' \in {"draft", "published", "archived"} /\ rules' \in Rules
        /\ isActive' \subseteq Registration
    BY <1>10, MatchOperationAssumption
       DEF OperationInv, OperationTypes, UpdateRules, PublishVersion, ArchiveVersion,
           MoveVersion, ChangeRegistration, matchVars, tournamentVars
  <2> QED BY <2>1, AroundMatchKeeps
<1> QED
  BY <1>1, <1>2, <1>3, <1>4, <1>5, <1>6, <1>7, <1>8, <1>9, <1>10 DEF MatchNext

LEMMA OperationInductive == MatchSpec => []OperationInv
BY OperationInit, OperationStep, PTL DEF MatchSpec

\* The version, the match, its segments, lineups and requests keep their types.
THEOREM MatchTypes == MatchSpec => []MatchTypeOK
<1>1. OperationInv => MatchTypeOK
  BY SegmentFields
     DEF OperationInv, OperationTypes, WriterTypes, MatchTypeOK, SegmentRow
<1> QED BY <1>1, OperationInductive, PTL

\* However the requests of the operation follow each other, the segments are a timeline
\* with its events inside them, and a formation the public sees is complete.
THEOREM OperationIsInOrder == MatchSpec => []OperationInOrder
<1>1. OperationInv => Timeline
  BY SegmentFields
     DEF OperationInv, SegmentsInOrder, EventsInOrder, Timeline
<1>2. OperationInv => OperationInOrder
  BY <1>1 DEF OperationInv, OperationInOrder
<1> QED BY <1>2, OperationInductive, PTL

-----------------------------------------------------------------------------
(* No request strands an open match.                                       *)

\* If a resolution the rules enable fits the segments, then so does one that lasts as
\* long as the stage may.
LEMMA StageMaximumFits ==
  ASSUME OperationInv, NEW r \in Resolution, Enabled(r), Fits(r)
  PROVE  \E q \in Resolution :
           /\ Enabled(q) /\ Fits(q) /\ MaximumFor(q) = StageMaximum
<1>1. Regular \in Nat /\ Extra \in Nat /\ Regular < Extra
  BY MatchOperationAssumption
<1>2. CASE rules.extra
  <2>1. Fits("extra_time")
    BY <1>1, <1>2, SegmentFields DEF OperationInv, Fits, MaximumFor, NoMinute
  <2> QED BY <1>2, <2>1 DEF Resolution, Enabled, MaximumFor, StageMaximum
<1>3. CASE ~rules.extra
  BY <1>3 DEF MaximumFor, StageMaximum
<1> QED BY <1>2, <1>3

LEMMA AcceptedIsInTheStage ==
  ASSUME NEW r \in Foreseen, NEW minute \in Minute, Accepted(r, minute)
  PROVE  minute <= StageMaximum
BY MatchOperationAssumption
   DEF Accepted, MaximumOfRequest, MaximumFor, StageMaximum, Enabled, Foreseen, Resolution,
       Minute

LEMMA CreateSegmentStrandsNobody ==
  ASSUME OperationInv, OperationInv', ~Stranded,
         NEW r \in Foreseen, NEW start \in Minute, CreateSegment(r, start)
  PROVE  ~Stranded'
<1> DEFINE L == Len(segments)
           old == ClosedAt(segments, start)
           new == [start |-> start, end |-> NoMinute, status |-> "active"]
<1>1. PICK q \in Resolution : Enabled(q) /\ Fits(q) /\ MaximumFor(q) = StageMaximum
  BY StageMaximumFits DEF Stranded, CreateSegment
<1>2. start <= StageMaximum
  BY AcceptedIsInTheStage DEF CreateSegment
<1>3. segments \in Seq(SegmentRow) /\ L \in Nat
  BY DEF OperationInv, OperationTypes
<1>4. /\ old \in Seq(SegmentRow) /\ Len(old) = L
      /\ \A n \in 1..L :
           /\ old[n].start = segments[n].start
           /\ segments[n].status # "active" => old[n] = segments[n]
           /\ segments[n].status = "active" =>
                old[n].status = "completed" /\ old[n].end = start
  BY <1>3, ClosedAtSegments
<1>5. new \in SegmentRow
  BY DEF SegmentRow, NoMinute
<1>6. segments' = Append(old, new) /\ rules' = rules
  BY DEF CreateSegment, tournamentVars
<1> HIDE DEF old
<1>7. /\ DOMAIN segments' = 1..(L + 1)
      /\ \A n \in 1..L : segments'[n] = old[n]
      /\ segments'[L + 1] = new /\ Len(segments') = L + 1
  BY <1>3, <1>4, <1>5, <1>6
<1>8. Enabled(q)'
  BY <1>1, <1>6 DEF Enabled
<1>9. Fits(q)'
  <2>1. MaximumFor(q)' = StageMaximum /\ StageMaximum \in Nat
    BY <1>1, <1>6, MatchOperationAssumption DEF MaximumFor, StageMaximum
  <2> SUFFICES ASSUME NEW n \in 1..(L + 1)
               PROVE  segments'[n].start <= StageMaximum /\ segments'[n].end <= StageMaximum
    BY <1>7, <2>1 DEF Fits
  <2>2. CASE n = L + 1
    BY <1>2, <1>7, <2>1, <2>2 DEF NoMinute
  <2>3. CASE n \in 1..L
    <3>1. segments[n].start <= StageMaximum /\ segments[n].end <= StageMaximum
      BY <1>1, <2>3, SegmentFields DEF Fits, OperationInv
    <3> QED BY <1>2, <1>4, <1>7, <2>3, <3>1
  <2> QED BY <1>3, <2>2, <2>3
<1>10. Active' # {}
  BY <1>3, <1>7 DEF Active
<1> QED BY <1>8, <1>9, <1>10 DEF Stranded

LEMMA InterruptStrandsNobody ==
  ASSUME OperationInv, OperationInv', ~Stranded,
         NEW r \in Foreseen, NEW n \in DOMAIN segments, NEW minute \in Minute,
         Interrupt(r, n, minute)
  PROVE  ~Stranded'
<1> DEFINE L == Len(segments)
<1>1. PICK q \in Resolution : Enabled(q) /\ Fits(q) /\ MaximumFor(q) = StageMaximum
  BY StageMaximumFits DEF Stranded, Interrupt
<1>2. minute <= StageMaximum
  BY AcceptedIsInTheStage DEF Interrupt
<1>3. /\ segments \in Seq(SegmentRow) /\ L \in Nat /\ DOMAIN segments = 1..L
      /\ segments[n] \in SegmentRow /\ segments[n].status = "active" /\ n = L
  BY SegmentFields
     DEF OperationInv, OperationTypes, Interrupt, Active, SegmentsInOrder
<1>4. /\ segments' = [segments EXCEPT ![n].status = "interrupted", ![n].end = minute]
      /\ interruptions' = interruptions \cup {<<n, minute>>} /\ rules' = rules
  BY DEF Interrupt, tournamentVars
<1>5. /\ DOMAIN segments' = 1..L /\ Len(segments') = L
      /\ \A k \in 1..L : k # n => segments'[k] = segments[k]
      /\ segments'[n].start = segments[n].start
      /\ segments'[n].end = minute /\ segments'[n].status = "interrupted"
  BY <1>3, <1>4 DEF SegmentRow
<1>6. Enabled(q)'
  BY <1>1, <1>4 DEF Enabled
<1>7. Fits(q)'
  <2>1. MaximumFor(q)' = StageMaximum
    BY <1>1, <1>4 DEF MaximumFor
  <2> SUFFICES ASSUME NEW k \in 1..L
               PROVE  segments'[k].start <= StageMaximum /\ segments'[k].end <= StageMaximum
    BY <1>5, <2>1 DEF Fits
  <2>2. segments[k].start <= StageMaximum /\ segments[k].end <= StageMaximum
    BY <1>1, <1>3 DEF Fits
  <2> QED BY <1>2, <1>5, <2>2
<1>8. ProposedStart' = minute
  <2>1. ASSUME NEW i \in interruptions', i[1] = n PROVE i[2] = minute
    BY <1>5, <2>1 DEF OperationInv, InterruptedOnce
  <2>2. <<n, minute>> \in interruptions'
    BY <1>4
  <2>3. {i[2] : i \in {j \in interruptions' : j[1] = n}} = {minute}
    BY <2>1, <2>2
  <2>4. minute \in Nat /\ IsFiniteSet({minute})
    <3>1. minute \in Nat
      BY MatchOperationAssumption DEF Minute
    <3> QED BY <3>1, FS_Singleton
  <2>5. Max({minute}) = minute
    BY <2>4, MaxIsGreatest
  <2>6. segments' # <<>>
    BY <1>3, <1>5, EmptySeq
  <2> QED BY <1>3, <1>5, <2>3, <2>5, <2>6 DEF ProposedStart
<1>9. StageMaximum' = StageMaximum
  BY <1>4 DEF StageMaximum
<1>10. MayStart(ProposedStart)'
  <2>1. minute <= minute
    BY MatchOperationAssumption DEF Minute
  <2> QED BY <1>3, <1>5, <1>8, <2>1 DEF MayStart
<1> QED BY <1>2, <1>6, <1>7, <1>8, <1>9, <1>10 DEF Stranded

\* Whatever minutes and resolutions requests name, none leaves an open match without a
\* way to a report: what an interruption offers next is always accepted.
THEOREM NobodyStranded == MatchSpec => NeverStranded
<1>1. OperationInv /\ OperationInv' /\ [MatchNext]_matchVars
        => [Stranded' => Stranded \/ rules' # rules]_matchVars
  <2> SUFFICES ASSUME OperationInv, OperationInv', MatchNext, ~Stranded, rules' = rules
               PROVE  ~Stranded'
    OBVIOUS
  <2>1. ASSUME NEW r \in Foreseen, NEW m \in Minute, CreateSegment(r, m)
        PROVE  ~Stranded'
    BY <2>1, CreateSegmentStrandsNobody
  <2>2. ASSUME NEW r \in Foreseen, NEW n \in DOMAIN segments, NEW m \in Minute,
               Interrupt(r, n, m)
        PROVE  ~Stranded'
    BY <2>2, InterruptStrandsNobody
  <2>3. CASE \/ \E r \in Resolution, E \in Report : Close(r, E)
             \/ DeclareWalkover
    BY <2>3 DEF Close, DeclareWalkover, Stranded, Open
  <2>4. CASE \/ \E l \in Lineup, w \in BOOLEAN : SaveRead(l, w)
             \/ SaveWrite
             \/ \E n \in DOMAIN segments, t \in Team, b \in BOOLEAN : PublishRead(n, t, b)
             \/ PublishWrite
             \/ LineupFails
             \/ \E new \in Rules : UpdateRules(new)
             \/ PublishVersion
             \/ ArchiveVersion
             \/ \E p \in Changing : ChangeRegistration(p)
    <3>1. UNCHANGED <<status, segments, interruptions>>
      BY <2>4 DEF SaveRead, SaveWrite, PublishRead, PublishWrite, LineupFails, UpdateRules,
                  PublishVersion, ArchiveVersion, MoveVersion, ChangeRegistration, playVars
    <3> QED BY <3>1 DEF Stranded, Open, Enabled, Fits, MaximumFor, Active, ProposedStart,
                        StageMaximum, MayStart
  <2> QED BY <2>1, <2>2, <2>3, <2>4 DEF MatchNext
<1> QED BY <1>1, OperationInductive, PTL DEF MatchSpec, NeverStranded

-----------------------------------------------------------------------------
(* The replay of a report.                                                 *)

Spell == [start : Nat, end : Nat \cup {StillOn}]

EventRow == [type : {"substitution", "goal", "yellow", "direct_red_card",
                     "double_yellow_red"},
             time : Time, segment : Segment, player : Roster, other : Roster]

Substitutions == {i \in DOMAIN report : report[i].type = "substitution"}
Windows == {Window(report[i].time, report[i].segment) : i \in Substitutions}

ReplayTypes ==
  /\ report \in Seq(EventRow)
  /\ spells \in [Squad -> Seq(Spell)]
  /\ onField \subseteq Roster /\ ejected \subseteq Roster
  /\ usage \in [subs : Nat, windows : SUBSET (Segment \X Time)]

(* Only the last interval of a player may be open.                         *)
SpellsInOrder ==
  \A p \in Squad : \A i \in 1..Len(spells[p]) :
    /\ spells[p][i].end = StillOn => i = Len(spells[p])
    /\ spells[p][i].end # StillOn => spells[p][i].start <= spells[p][i].end

FieldIsOpen ==
  /\ \A p \in Squad : p \in onField <=> IsOpen(p)
  /\ onField \cap ejected = {}

UsageIsOfReport ==
  /\ usage.subs = Cardinality(Substitutions) /\ usage.subs <= MaxSubs
  /\ usage.windows = Windows
  /\ IsFiniteSet(Windows) /\ Cardinality(Windows) <= MaxWindows

ReplayInv == ReplayTypes /\ SpellsInOrder /\ FieldIsOpen /\ UsageIsOfReport

(* Where the order of the report is that of the effects, every interval is *)
(* of the past, and the field loses one player with each red card.         *)
Clock == IF report = <<>> THEN 0 ELSE Effective(Last(report).time)

InThePast ==
  \A p \in Squad : \A i \in 1..Len(spells[p]) :
    spells[p][i].start <= Clock /\ spells[p][i].end <= Clock

TimelyInv ==
  /\ InThePast
  /\ Cardinality(onField) = Cardinality(Starter) - Cardinality(ejected)

LEMMA EventsOfReport ==
  ASSUME ReplayTypes
  PROVE  /\ Len(report) \in Nat /\ DOMAIN report = 1..Len(report)
         /\ \A i \in 1..Len(report) : report[i] \in EventRow
         /\ \A p \in Squad : /\ Len(spells[p]) \in Nat
                             /\ DOMAIN spells[p] = 1..Len(spells[p])
                             /\ \A i \in 1..Len(spells[p]) : spells[p][i] \in Spell
<1>1. report \in Seq(EventRow) /\ \A p \in Squad : spells[p] \in Seq(Spell)
  BY DEF ReplayTypes
<1> QED BY <1>1

LEMMA EffectiveInNat == ASSUME NEW t \in Time PROVE Effective(t) \in Nat
<1>1. t \in Nat \X Nat
  BY MatchReportAssumption
<1> QED BY <1>1 DEF Effective

LEMMA ClockInNat == ASSUME ReplayTypes PROVE Clock \in Nat
<1>1. report # <<>> => Last(report) \in EventRow
  BY EventsOfReport, EmptySeq DEF Last, ReplayTypes
<1> QED BY <1>1, EffectiveInNat DEF Clock, EventRow

\* Closing the intervals of a player touches the open one only, and closes it.
LEMMA ClosedSpells ==
  ASSUME ReplayTypes, SpellsInOrder, NEW p \in Squad, NEW minute \in Nat
  PROVE  /\ Closed(p, minute) \in Seq(Spell)
         /\ Len(Closed(p, minute)) = Len(spells[p])
         /\ \A i \in 1..Len(spells[p]) :
              LET s == Closed(p, minute)[i] IN
              /\ s.start = spells[p][i].start
              /\ s.end # StillOn /\ s.start <= s.end
              /\ spells[p][i].end # StillOn => s = spells[p][i]
              /\ s.end \in {minute, spells[p][i].start, spells[p][i].end}
<1> DEFINE l == spells[p]
           last == l[Len(l)]
           m == Max({minute, last.start})
<1>1. l \in Seq(Spell) /\ Len(l) \in Nat /\ \A i \in 1..Len(l) : l[i] \in Spell
  BY EventsOfReport DEF ReplayTypes
<1>2. CASE IsOpen(p)
  <2>1. l # <<>> /\ last.end = StillOn /\ Len(l) \in 1..Len(l) /\ last \in Spell
    BY <1>1, <1>2, EmptySeq DEF IsOpen, Last
  <2>2. last.start \in Nat
    BY <2>1 DEF Spell
  <2>3. m \in {minute, last.start} /\ minute <= m /\ last.start <= m
    <3>1. IsFiniteSet({minute, last.start})
      <4>1. IsFiniteSet({minute}) /\ {minute, last.start} = {minute} \cup {last.start}
        BY FS_Singleton
      <4>2. IsFiniteSet({minute} \cup {last.start})
        BY <4>1, FS_AddElement
      <4> QED BY <4>1, <4>2
    <3> QED BY <2>2, <3>1, MaxIsGreatest
  <2> DEFINE row == [last EXCEPT !.end = m]
  <2>4. row \in Spell /\ row.start = last.start /\ row.end = m
    BY <2>1, <2>2, <2>3 DEF Spell
  <2>5. Closed(p, minute) = [l EXCEPT ![Len(l)] = row]
    BY <1>2 DEF Closed
  <2> HIDE DEF row, m
  <2>6. /\ Closed(p, minute) \in Seq(Spell) /\ Len(Closed(p, minute)) = Len(l)
        /\ Closed(p, minute)[Len(l)] = row
        /\ \A i \in 1..Len(l) : i # Len(l) => Closed(p, minute)[i] = l[i]
    BY <1>1, <2>1, <2>4, <2>5
  <2>7. ASSUME NEW i \in 1..Len(l), i # Len(l)
        PROVE  l[i].end # StillOn /\ l[i].start <= l[i].end
    BY <2>7 DEF SpellsInOrder
  <2>8. m # StillOn
    BY <2>2, <2>3 DEF StillOn
  <2> QED BY <2>1, <2>2, <2>3, <2>4, <2>6, <2>7, <2>8
<1>3. CASE ~IsOpen(p)
  <2>1. Closed(p, minute) = l
    BY <1>3 DEF Closed
  <2>2. ASSUME NEW i \in 1..Len(l)
        PROVE  l[i].end # StillOn /\ l[i].start <= l[i].end
    BY <1>1, <1>3, <2>2, EmptySeq DEF SpellsInOrder, IsOpen, Last
  <2> QED BY <1>1, <2>1, <2>2
<1> QED BY <1>2, <1>3

-----------------------------------------------------------------------------
\* Recording an event leaves the substitutions as they are, or adds its own.
LEMMA RecordAppends ==
  ASSUME ReplayTypes, NEW e \in EventRow, Record(e)
  PROVE  /\ report' \in Seq(EventRow) /\ Len(report') = Len(report) + 1
         /\ report'[Len(report) + 1] = e
         /\ \A i \in 1..Len(report) : report'[i] = report[i]
         /\ Clock' = Effective(e.time)
         /\ TimesAgree => Clock <= Clock'
<1>1. report \in Seq(EventRow) /\ report' = Append(report, e)
  BY DEF ReplayTypes, Record
<1>2. /\ report' \in Seq(EventRow) /\ Len(report') = Len(report) + 1
      /\ report'[Len(report) + 1] = e
      /\ \A i \in 1..Len(report) : report'[i] = report[i]
      /\ Len(report) \in Nat
  BY <1>1
<1>3. Clock' = Effective(e.time)
  <2>1. report' # <<>>
    BY <1>2, EmptySeq
  <2> QED BY <1>2, <2>1 DEF Clock, Last
<1>4. e.time \in Time
  BY DEF EventRow
<1>5. ASSUME TimesAgree PROVE Clock <= Clock'
  <2>1. CASE report = <<>>
    BY <1>3, <1>4, <2>1, EffectiveInNat DEF Clock
  <2>2. CASE report # <<>>
    <3>1. Last(report) \in EventRow
      BY <1>1, <1>2, <2>2, EmptySeq DEF Last
    <3>2. NotBefore(e.time, Last(report).time) /\ Last(report).time \in Time
      BY <2>2, <3>1 DEF Record, IsNext, EventRow
    <3> QED BY <1>3, <1>4, <1>5, <2>2, <3>2 DEF TimesAgree, Clock
  <2> QED BY <2>1, <2>2
<1> QED BY <1>2, <1>3, <1>5

LEMMA NothingSubstituted ==
  ASSUME ReplayTypes, NEW e \in EventRow, Record(e), e.type # "substitution"
  PROVE  Substitutions' = Substitutions /\ Windows' = Windows
<1>1. /\ report \in Seq(EventRow) /\ Len(report) \in Nat /\ DOMAIN report = 1..Len(report)
      /\ report' \in Seq(EventRow) /\ Len(report') = Len(report) + 1
      /\ report'[Len(report) + 1] = e
      /\ \A i \in 1..Len(report) : report'[i] = report[i]
  BY EventsOfReport, RecordAppends DEF ReplayTypes
<1>2. DOMAIN report' = 1..(Len(report) + 1)
  BY <1>1
<1>3. Substitutions' = Substitutions
  BY <1>1, <1>2 DEF Substitutions
<1>4. \A i \in Substitutions : report'[i] = report[i]
  BY <1>1 DEF Substitutions
<1> QED BY <1>3, <1>4 DEF Windows

LEMMA OneMoreSubstitution ==
  ASSUME ReplayTypes, NEW e \in EventRow, Record(e), e.type = "substitution"
  PROVE  /\ Substitutions' = Substitutions \cup {Len(report) + 1}
         /\ Len(report) + 1 \notin Substitutions
         /\ Windows' = Windows \cup {Window(e.time, e.segment)}
<1>1. /\ report \in Seq(EventRow) /\ Len(report) \in Nat /\ DOMAIN report = 1..Len(report)
      /\ report' \in Seq(EventRow) /\ Len(report') = Len(report) + 1
      /\ report'[Len(report) + 1] = e
      /\ \A i \in 1..Len(report) : report'[i] = report[i]
  BY EventsOfReport, RecordAppends DEF ReplayTypes
<1>2. DOMAIN report' = 1..(Len(report) + 1)
  BY <1>1
<1>3. Substitutions' = Substitutions \cup {Len(report) + 1}
  BY <1>1, <1>2 DEF Substitutions
<1>4. Len(report) + 1 \notin Substitutions
  BY <1>1 DEF Substitutions
<1>5. \A i \in Substitutions : report'[i] = report[i]
  BY <1>1 DEF Substitutions
<1>6. Windows' = Windows \cup {Window(e.time, e.segment)}
  BY <1>1, <1>3, <1>5 DEF Windows
<1> QED BY <1>3, <1>4, <1>6

-----------------------------------------------------------------------------
(* The events.                                                             *)

LEMMA FieldIsFinite ==
  ASSUME ReplayTypes
  PROVE  /\ IsFiniteSet(Substitutions)
         /\ IsFiniteSet(onField) /\ IsFiniteSet(ejected) /\ IsFiniteSet(Starter)
<1>1. Substitutions \in SUBSET (1..Len(report)) /\ Len(report) \in Nat
  BY EventsOfReport DEF Substitutions
<1>2. IsFiniteSet(1..Len(report))
  BY <1>1, FS_Interval
<1>3. IsFiniteSet(Substitutions)
  BY <1>1, <1>2, FS_Subset
<1>4. onField \subseteq Squad /\ ejected \subseteq Squad /\ Starter \subseteq Squad
  BY MatchReportAssumption DEF ReplayTypes, Roster
<1> QED BY <1>3, <1>4, MatchReportAssumption, FS_Subset

LEMMA SubstituteKeeps ==
  ASSUME ReplayInv, NEW t \in Time, NEW segment \in SegmentsAt[t],
         NEW out \in Squad, NEW in \in Squad, Substitute(t, segment, out, in)
  PROVE  /\ ReplayInv'
         /\ TimesAgree /\ TimelyInv => TimelyInv'
<1> DEFINE e == [type |-> "substitution", time |-> t, segment |-> segment,
                 player |-> out, other |-> in]
           on == [start |-> Effective(t), end |-> StillOn]
<1>1. /\ {out, in} \subseteq Roster /\ out # in /\ {out, in} \cap ejected = {}
      /\ out \in onField /\ in \notin onField
  BY DEF Substitute, MayChange
<1>2. e \in EventRow /\ e.type = "substitution" /\ e.time = t /\ e.segment = segment
  BY <1>1 DEF EventRow, Segment
<1>3. Record(e)
  BY DEF Substitute
<1>4. /\ spells' = [spells EXCEPT ![out] = Closed(out, Effective(t)),
                                  ![in] = Append(@, on)]
      /\ onField' = (onField \ {out}) \cup {in} /\ ejected' = ejected
      /\ usage' = [subs |-> usage.subs + 1,
                   windows |-> usage.windows \cup {Window(t, segment)}]
      /\ WithinLimits(t, segment)
  BY DEF Substitute
<1>5. Effective(t) \in Nat /\ on \in Spell
  BY EffectiveInNat DEF Spell
<1> HIDE DEF e
<1>6. /\ spells[in] \in Seq(Spell) /\ Append(spells[in], on) \in Seq(Spell)
      /\ Len(Append(spells[in], on)) = Len(spells[in]) + 1
      /\ Append(spells[in], on)[Len(spells[in]) + 1] = on
      /\ \A i \in 1..Len(spells[in]) : Append(spells[in], on)[i] = spells[in][i]
      /\ Len(spells[in]) \in Nat
  BY <1>5 DEF ReplayInv, ReplayTypes
<1>7. /\ Closed(out, Effective(t)) \in Seq(Spell)
      /\ Len(Closed(out, Effective(t))) = Len(spells[out])
      /\ \A i \in 1..Len(spells[out]) :
           LET s == Closed(out, Effective(t))[i] IN
           /\ s.start = spells[out][i].start
           /\ s.end # StillOn /\ s.start <= s.end
           /\ s.end \in {Effective(t), spells[out][i].start, spells[out][i].end}
  BY <1>5, ClosedSpells DEF ReplayInv
<1>8. /\ spells'[out] = Closed(out, Effective(t))
      /\ spells'[in] = Append(spells[in], on)
      /\ \A p \in Squad \ {out, in} : spells'[p] = spells[p]
      /\ spells' \in [Squad -> Seq(Spell)]
  BY <1>1, <1>4, <1>6, <1>7 DEF ReplayInv, ReplayTypes
<1>9. report' \in Seq(EventRow) /\ Clock' = Effective(t) /\ (TimesAgree => Clock <= Clock')
  BY <1>2, <1>3, RecordAppends DEF ReplayInv
<1>10. ReplayTypes'
  <2>1. Window(t, segment) \in Segment \X Time
    BY DEF Window, Segment
  <2>2. usage' \in [subs : Nat, windows : SUBSET (Segment \X Time)]
    BY <1>4, <2>1 DEF ReplayInv, ReplayTypes
  <2> QED BY <1>1, <1>4, <1>8, <1>9, <2>2 DEF ReplayInv, ReplayTypes
<1>11. ~IsOpen(in) /\ \A i \in 1..Len(spells[in]) : spells[in][i].end # StillOn
  BY <1>1, <1>6, EmptySeq DEF ReplayInv, FieldIsOpen, IsOpen, Last, SpellsInOrder
<1>12. SpellsInOrder'
  <2> SUFFICES ASSUME NEW p \in Squad, NEW i \in 1..Len(spells'[p])
               PROVE  /\ spells'[p][i].end = StillOn => i = Len(spells'[p])
                      /\ spells'[p][i].end # StillOn =>
                           spells'[p][i].start <= spells'[p][i].end
    BY DEF SpellsInOrder
  <2>1. CASE p = out
    BY <1>7, <1>8, <2>1
  <2>2. CASE p = in
    <3>1. CASE i = Len(spells[in]) + 1
      BY <1>6, <1>8, <2>2, <3>1
    <3>2. CASE i \in 1..Len(spells[in])
      BY <1>6, <1>8, <1>11, <2>2, <3>2 DEF ReplayInv, SpellsInOrder
    <3> QED BY <1>6, <1>8, <2>2, <3>1, <3>2
  <2>3. CASE p \notin {out, in}
    BY <1>8, <2>3 DEF ReplayInv, SpellsInOrder
  <2> QED BY <2>1, <2>2, <2>3
<1>13. FieldIsOpen'
  <2>1. ASSUME NEW p \in Squad PROVE (p \in onField <=> IsOpen(p))'
    <3>1. CASE p = out
      <4>1. out \notin onField'
        BY <1>1, <1>4
      <4>2. ~IsOpen(out)'
        <5>1. spells'[out] # <<>> => Len(spells[out]) \in 1..Len(spells[out])
          BY <1>7, <1>8, EmptySeq
        <5> QED BY <1>7, <1>8, <5>1 DEF IsOpen, Last
      <4> QED BY <3>1, <4>1, <4>2
    <3>2. CASE p = in
      <4>1. spells'[in] # <<>> /\ Last(spells'[in]) = on
        <5> HIDE DEF on
        <5>1. /\ spells'[in] \in Seq(Spell) /\ Len(spells'[in]) = Len(spells[in]) + 1
              /\ Len(spells'[in]) # 0 /\ spells'[in][Len(spells[in]) + 1] = on
          BY <1>6, <1>8
        <5>2. spells'[in] # <<>>
          BY <5>1, EmptySeq
        <5> QED BY <5>1, <5>2 DEF Last
      <4> QED BY <1>4, <3>2, <4>1 DEF IsOpen
    <3>3. CASE p \notin {out, in}
      BY <1>4, <1>8, <3>3 DEF ReplayInv, FieldIsOpen, IsOpen
    <3> QED BY <3>1, <3>2, <3>3
  <2>2. (onField \cap ejected = {})'
    BY <1>1, <1>4 DEF ReplayInv, FieldIsOpen
  <2> QED BY <2>1, <2>2 DEF FieldIsOpen
<1>14. /\ Substitutions' = Substitutions \cup {Len(report) + 1}
       /\ Len(report) + 1 \notin Substitutions
       /\ Windows' = Windows \cup {Window(t, segment)}
  BY <1>2, <1>3, OneMoreSubstitution DEF ReplayInv
<1>15. UsageIsOfReport'
  <2>1. Cardinality(Substitutions') = Cardinality(Substitutions) + 1
    BY <1>14, FieldIsFinite, FS_AddElement DEF ReplayInv
  <2>2. usage'.subs = usage.subs + 1 /\ usage.subs \in Nat /\ usage.subs < MaxSubs
    BY <1>4 DEF WithinLimits, ReplayInv, ReplayTypes
  <2>3. usage'.windows = Windows'
    BY <1>4, <1>14 DEF ReplayInv, UsageIsOfReport
  <2>4. IsFiniteSet(Windows') /\ Cardinality(Windows') <= MaxWindows
    <3> DEFINE w == Window(t, segment)
    <3>1. IsFiniteSet(Windows \ {w}) /\ w \notin Windows \ {w}
      BY FS_RemoveElement, FS_Subset DEF ReplayInv, UsageIsOfReport
    <3>2. Cardinality((Windows \ {w}) \cup {w}) = Cardinality(Windows \ {w}) + 1
      BY <3>1, FS_AddElement
    <3>3. Windows' = (Windows \ {w}) \cup {w}
      BY <1>14
    <3>4. Cardinality(Windows \ {w}) < MaxWindows /\ MaxWindows \in Nat
      BY <1>4, MatchReportAssumption DEF WithinLimits, ReplayInv, UsageIsOfReport
    <3>5. Cardinality(Windows \ {w}) \in Nat
      BY <3>1, FS_CardinalityType
    <3> QED BY <3>1, <3>2, <3>3, <3>4, <3>5, FS_AddElement
  <2> QED BY <2>1, <2>2, <2>3, <2>4, MatchReportAssumption
      DEF ReplayInv, UsageIsOfReport
<1>16. ASSUME TimesAgree, TimelyInv PROVE TimelyInv'
  <2>1. Clock' = Effective(t) /\ Clock <= Clock'
    BY <1>9, <1>16
  <2>2. InThePast'
    <3> SUFFICES ASSUME NEW p \in Squad, NEW i \in 1..Len(spells'[p])
                 PROVE  spells'[p][i].start <= Clock' /\ spells'[p][i].end <= Clock'
      BY DEF InThePast
    <3>0. Clock \in Nat /\ Clock' \in Nat
      BY <1>5, <2>1, ClockInNat DEF ReplayInv
    <3>1. \A q \in Squad : \A j \in 1..Len(spells[q]) :
            /\ spells[q][j].start <= Clock' /\ spells[q][j].end <= Clock'
      <4> SUFFICES ASSUME NEW q \in Squad, NEW j \in 1..Len(spells[q])
                   PROVE  spells[q][j].start <= Clock' /\ spells[q][j].end <= Clock'
        OBVIOUS
      <4>1. spells[q][j].start \in Nat /\ spells[q][j].end \in Nat \cup {-1}
        BY EventsOfReport DEF Spell, StillOn, ReplayInv
      <4>2. spells[q][j].start <= Clock /\ spells[q][j].end <= Clock
        BY <1>16 DEF TimelyInv, InThePast
      <4> QED BY <2>1, <3>0, <4>1, <4>2
    <3>2. CASE p = out
      <4>1. i \in 1..Len(spells[out])
        BY <1>7, <1>8, <3>2
      <4>2. PICK s : s = Closed(out, Effective(t))[i]
        OBVIOUS
      <4>3. spells'[p][i] = s
        BY <1>8, <3>2, <4>2
      <4>4. s.start = spells[out][i].start
            /\ s.end \in {Effective(t), spells[out][i].start, spells[out][i].end}
        BY <1>7, <4>1, <4>2
      <4>5. spells[out][i].start <= Clock' /\ spells[out][i].end <= Clock'
        BY <3>1, <4>1
      <4> QED BY <2>1, <3>0, <4>3, <4>4, <4>5
    <3>3. CASE p = in
      <4>1. CASE i = Len(spells[in]) + 1
        BY <1>5, <1>6, <1>8, <2>1, <3>0, <3>3, <4>1 DEF StillOn
      <4>2. CASE i \in 1..Len(spells[in])
        BY <1>6, <1>8, <3>1, <3>3, <4>2
      <4> QED BY <1>6, <1>8, <3>3, <4>1, <4>2
    <3>4. CASE p \notin {out, in}
      BY <1>8, <3>1, <3>4
    <3> QED BY <3>2, <3>3, <3>4
  <2>3. Cardinality(onField') = Cardinality(onField)
    <3>1. IsFiniteSet(onField)
      BY FieldIsFinite DEF ReplayInv
    <3>2. /\ IsFiniteSet(onField \ {out})
          /\ Cardinality(onField \ {out}) = Cardinality(onField) - 1
      BY <1>1, <3>1, FS_RemoveElement
    <3>3. Cardinality(onField') = Cardinality(onField \ {out}) + 1
      BY <1>1, <1>4, <3>2, FS_AddElement
    <3>4. Cardinality(onField) \in Nat
      BY <3>1, FS_CardinalityType
    <3> QED BY <3>2, <3>3, <3>4
  <2> QED BY <1>4, <1>16, <2>2, <2>3 DEF TimelyInv
<1> QED BY <1>10, <1>12, <1>13, <1>15, <1>16 DEF ReplayInv

\* An event that changes nothing on the field is one more line of the report.
LEMMA PlainEventKeeps ==
  ASSUME ReplayInv, NEW e \in EventRow, Record(e), e.type # "substitution",
         UNCHANGED <<spells, onField, ejected, usage>>
  PROVE  /\ ReplayInv'
         /\ TimesAgree /\ TimelyInv => TimelyInv'
<1>1. report' \in Seq(EventRow) /\ Clock' \in Nat /\ (TimesAgree => Clock <= Clock')
  <2>1. e.time \in Time
    BY DEF EventRow
  <2> QED BY <2>1, RecordAppends, EffectiveInNat DEF ReplayInv
<1>2. Substitutions' = Substitutions /\ Windows' = Windows
  BY NothingSubstituted DEF ReplayInv
<1>3. ReplayInv'
  BY <1>1, <1>2
     DEF ReplayInv, ReplayTypes, SpellsInOrder, FieldIsOpen, IsOpen, UsageIsOfReport
<1>4. ASSUME TimesAgree, TimelyInv PROVE TimelyInv'
  <2>1. InThePast'
    <3> SUFFICES ASSUME NEW p \in Squad, NEW i \in 1..Len(spells[p])
                 PROVE  spells[p][i].start <= Clock' /\ spells[p][i].end <= Clock'
      BY DEF InThePast
    <3>1. spells[p][i].start \in Nat /\ spells[p][i].end \in Nat \cup {-1}
      BY EventsOfReport DEF Spell, StillOn, ReplayInv
    <3>2. spells[p][i].start <= Clock /\ spells[p][i].end <= Clock
      BY <1>4 DEF TimelyInv, InThePast
    <3>3. Clock \in Nat
      BY ClockInNat DEF ReplayInv
    <3> QED BY <1>1, <1>4, <3>1, <3>2, <3>3
  <2> QED BY <1>4, <2>1 DEF TimelyInv
<1> QED BY <1>3, <1>4

\* Who takes part in an event is on the field, if the intervals are of the past.
LEMMA TakesIsOnField ==
  ASSUME ReplayInv, InThePast, NEW t \in Time, IsNext(t), TimesAgree,
         NEW p \in Squad, Takes(p, t)
  PROVE  p \in onField
<1>1. PICK i \in 1..Len(spells[p]) : Covers(spells[p][i], Effective(t))
  BY EventsOfReport DEF ReplayInv, Takes, OnFieldAt
<1>2. Clock <= Effective(t) /\ Clock \in Nat /\ Effective(t) \in Nat
  <2>1. report # <<>> => Last(report) \in EventRow
    BY EventsOfReport, EmptySeq DEF Last, ReplayInv, ReplayTypes
  <2> QED BY <2>1, EffectiveInNat DEF IsNext, TimesAgree, Clock, EventRow
<1>3. spells[p][i].end = StillOn
  <2>1. spells[p][i] \in Spell
    BY EventsOfReport DEF ReplayInv
  <2>2. spells[p][i].end <= Clock
    BY DEF InThePast
  <2> QED BY <1>1, <1>2, <2>1, <2>2 DEF Covers, Spell
<1>4. i = Len(spells[p]) /\ spells[p] # <<>>
  BY <1>1, <1>3, EmptySeq DEF ReplayInv, SpellsInOrder
<1> QED BY <1>3, <1>4 DEF ReplayInv, FieldIsOpen, IsOpen, Last

LEMMA RedCardKeeps ==
  ASSUME ReplayInv, NEW t \in Time, NEW segment \in SegmentsAt[t], NEW p \in Squad,
         NEW type \in {"direct_red_card", "double_yellow_red"},
         RedCard(t, segment, p, type)
  PROVE  /\ ReplayInv'
         /\ TimesAgree /\ TimelyInv => TimelyInv'
<1> DEFINE e == Alone(t, segment, p, type)
           l == Closed(p, Effective(t))
<1>1. /\ Record(e) /\ Takes(p, t)
      /\ spells' = [spells EXCEPT ![p] = l]
      /\ onField' = onField \ {p} /\ ejected' = ejected \cup {p} /\ usage' = usage
  BY DEF RedCard
<1>2. p \in Roster
  BY <1>1 DEF Takes
<1>3. e \in EventRow /\ e.type # "substitution" /\ e.time = t
  BY <1>2 DEF EventRow, Segment, Alone
<1> HIDE DEF e
<1>4. Effective(t) \in Nat
  BY EffectiveInNat
<1>5. /\ l \in Seq(Spell) /\ Len(l) = Len(spells[p])
      /\ \A i \in 1..Len(spells[p]) :
           /\ l[i].start = spells[p][i].start
           /\ l[i].end # StillOn /\ l[i].start <= l[i].end
           /\ l[i].end \in {Effective(t), spells[p][i].start, spells[p][i].end}
  BY <1>4, ClosedSpells DEF ReplayInv
<1> HIDE DEF l
<1>6. /\ spells'[p] = l /\ \A q \in Squad : q # p => spells'[q] = spells[q]
      /\ spells' \in [Squad -> Seq(Spell)]
  BY <1>1, <1>5 DEF ReplayInv, ReplayTypes
<1>7. report' \in Seq(EventRow) /\ Clock' = Effective(t) /\ (TimesAgree => Clock <= Clock')
  BY <1>1, <1>3, RecordAppends DEF ReplayInv
<1>8. Substitutions' = Substitutions /\ Windows' = Windows
  BY <1>1, <1>3, NothingSubstituted DEF ReplayInv
<1>9. ReplayTypes' /\ UsageIsOfReport'
  BY <1>1, <1>2, <1>6, <1>7, <1>8 DEF ReplayInv, ReplayTypes, UsageIsOfReport
<1>10. SpellsInOrder'
  <2> SUFFICES ASSUME NEW q \in Squad, NEW i \in 1..Len(spells'[q])
               PROVE  /\ spells'[q][i].end = StillOn => i = Len(spells'[q])
                      /\ spells'[q][i].end # StillOn =>
                           spells'[q][i].start <= spells'[q][i].end
    BY DEF SpellsInOrder
  <2>1. CASE q = p
    BY <1>5, <1>6, <2>1
  <2>2. CASE q # p
    BY <1>6, <2>2 DEF ReplayInv, SpellsInOrder
  <2> QED BY <2>1, <2>2
<1>11. FieldIsOpen'
  <2>1. ~IsOpen(p)'
    <3>1. spells'[p] # <<>> => Len(spells[p]) \in 1..Len(spells[p])
      BY <1>5, <1>6, EmptySeq
    <3> QED BY <1>5, <1>6, <3>1 DEF IsOpen, Last
  <2>2. \A q \in Squad : q # p => (IsOpen(q)' <=> IsOpen(q))
    BY <1>6 DEF IsOpen
  <2>3. (\A q \in Squad : q \in onField <=> IsOpen(q))'
    BY <1>1, <2>1, <2>2 DEF ReplayInv, FieldIsOpen
  <2> QED BY <1>1, <2>3 DEF ReplayInv, FieldIsOpen
<1>12. ASSUME TimesAgree, TimelyInv PROVE TimelyInv'
  <2>1. InThePast'
    <3> SUFFICES ASSUME NEW q \in Squad, NEW i \in 1..Len(spells'[q])
                 PROVE  spells'[q][i].start <= Clock' /\ spells'[q][i].end <= Clock'
      BY DEF InThePast
    <3>1. Clock \in Nat
      BY ClockInNat DEF ReplayInv
    <3>2. i \in 1..Len(spells[q])
      BY <1>5, <1>6
    <3>3. spells[q][i].start \in Nat /\ spells[q][i].end \in Nat \cup {-1}
      BY <3>2, EventsOfReport DEF Spell, StillOn, ReplayInv
    <3>4. spells[q][i].start <= Clock /\ spells[q][i].end <= Clock
      BY <1>12, <3>2 DEF TimelyInv, InThePast
    <3>5. spells[q][i].start <= Clock' /\ spells[q][i].end <= Clock'
      BY <1>4, <1>7, <1>12, <3>1, <3>3, <3>4
    <3>6. CASE q = p
      BY <1>4, <1>5, <1>6, <1>7, <3>2, <3>5, <3>6
    <3>7. CASE q # p
      BY <1>6, <3>5, <3>7
    <3> QED BY <3>6, <3>7
  <2>2. p \in onField
    BY <1>1, <1>3, <1>12, TakesIsOnField DEF Record, TimelyInv
  <2>3. p \notin ejected
    BY <2>2 DEF ReplayInv, FieldIsOpen
  <2>4. IsFiniteSet(onField) /\ IsFiniteSet(ejected) /\ IsFiniteSet(Starter)
    BY FieldIsFinite DEF ReplayInv
  <2>5. Cardinality(onField') = Cardinality(onField) - 1
    BY <1>1, <2>2, <2>4, FS_RemoveElement
  <2>6. Cardinality(ejected') = Cardinality(ejected) + 1
    BY <1>1, <2>3, <2>4, FS_AddElement
  <2>7. {Cardinality(onField), Cardinality(ejected), Cardinality(Starter)} \subseteq Nat
    BY <2>4, FS_CardinalityType
  <2> QED BY <1>12, <2>1, <2>5, <2>6, <2>7 DEF TimelyInv
<1> QED BY <1>9, <1>10, <1>11, <1>12 DEF ReplayInv

-----------------------------------------------------------------------------
(* The theorems.                                                           *)

LEMMA ReplayInit == ReportInit => ReplayInv /\ TimelyInv
<1> SUFFICES ASSUME ReportInit PROVE ReplayInv /\ TimelyInv
  OBVIOUS
<1> DEFINE first == [start |-> 0, end |-> StillOn]
           one == <<first>>
<1>1. /\ first \in Spell /\ first.start = 0 /\ first.end = StillOn
      /\ one \in Seq(Spell) /\ Len(one) = 1 /\ one[1] = first /\ one # <<>>
      /\ <<>> \in Seq(Spell) /\ Len(<<>>) = 0
  BY EmptySeq DEF Spell
<1>2. \A p \in Squad : spells[p] = IF p \in Starter THEN one ELSE <<>>
  BY DEF ReportInit
<1>3. spells \in [Squad -> Seq(Spell)]
  BY <1>1 DEF ReportInit
<1> HIDE DEF first, one
<1>4. report = <<>> /\ report \in Seq(EventRow) /\ DOMAIN report = {}
  BY EmptySeq DEF ReportInit
<1>5. Substitutions = {} /\ Windows = {}
  BY <1>4 DEF Substitutions, Windows
<1>6. ReplayTypes
  BY <1>3, <1>4 DEF ReportInit, ReplayTypes, Roster
<1>7. ASSUME NEW p \in Squad, NEW i \in 1..Len(spells[p])
      PROVE  p \in Starter /\ i = 1 /\ Len(spells[p]) = 1 /\ spells[p][i] = first
  <2>1. CASE p \in Starter
    <3>1. spells[p] = one /\ Len(spells[p]) = 1
      BY <1>1, <1>2, <2>1
    <3>2. i = 1
      BY <1>7, <3>1
    <3> QED BY <1>1, <2>1, <3>1, <3>2
  <2>2. CASE p \notin Starter
    <3>1. Len(spells[p]) = 0
      BY <1>1, <1>2, <2>2
    <3> QED BY <1>7, <3>1
  <2> QED BY <2>1, <2>2
<1>8. SpellsInOrder
  BY <1>1, <1>7 DEF SpellsInOrder
<1>9. FieldIsOpen
  BY <1>1, <1>2, MatchReportAssumption DEF FieldIsOpen, IsOpen, Last, ReportInit
<1>10. UsageIsOfReport
  BY <1>5, FS_EmptySet, MatchReportAssumption DEF UsageIsOfReport, ReportInit
<1>11. InThePast
  BY <1>1, <1>4, <1>7 DEF InThePast, Clock, StillOn
<1>12. Cardinality(onField) = Cardinality(Starter) - Cardinality(ejected)
  BY <1>6, FieldIsFinite, FS_EmptySet, FS_CardinalityType DEF ReportInit
<1> QED BY <1>6, <1>8, <1>9, <1>10, <1>11, <1>12 DEF ReplayInv, TimelyInv

LEMMA ReplayStep ==
  ASSUME ReplayInv, [ReportNext]_reportVars
  PROVE  /\ ReplayInv'
         /\ TimesAgree /\ TimelyInv => TimelyInv'
<1>1. ASSUME NEW t \in Time, NEW segment \in SegmentsAt[t], NEW p \in Squad,
             NEW q \in Squad, Substitute(t, segment, p, q)
      PROVE  ReplayInv' /\ (TimesAgree /\ TimelyInv => TimelyInv')
  BY <1>1, SubstituteKeeps
<1>2. ASSUME NEW t \in Time, NEW segment \in SegmentsAt[t], NEW p \in Squad,
             NEW q \in Squad, Goal(t, segment, p, q)
      PROVE  ReplayInv' /\ (TimesAgree /\ TimelyInv => TimelyInv')
  <2> DEFINE e == [type |-> "goal", time |-> t, segment |-> segment,
                   player |-> p, other |-> q]
  <2>1. e \in EventRow /\ e.type # "substitution"
    BY <1>2 DEF EventRow, Segment, Goal, Takes
  <2>2. Record(e) /\ UNCHANGED <<spells, onField, ejected, usage>>
    BY <1>2 DEF Goal
  <2> HIDE DEF e
  <2> QED BY <2>1, <2>2, PlainEventKeeps
<1>3. ASSUME NEW t \in Time, NEW segment \in SegmentsAt[t], NEW p \in Squad,
             YellowCard(t, segment, p)
      PROVE  ReplayInv' /\ (TimesAgree /\ TimelyInv => TimelyInv')
  <2> DEFINE e == Alone(t, segment, p, "yellow")
  <2>1. e \in EventRow /\ e.type # "substitution"
    BY <1>3 DEF EventRow, Segment, YellowCard, Takes, Alone
  <2>2. Record(e) /\ UNCHANGED <<spells, onField, ejected, usage>>
    BY <1>3 DEF YellowCard
  <2> HIDE DEF e
  <2> QED BY <2>1, <2>2, PlainEventKeeps
<1>4. ASSUME NEW t \in Time, NEW segment \in SegmentsAt[t], NEW p \in Squad,
             NEW type \in {"direct_red_card", "double_yellow_red"},
             RedCard(t, segment, p, type)
      PROVE  ReplayInv' /\ (TimesAgree /\ TimelyInv => TimelyInv')
  BY <1>4, RedCardKeeps
<1>5. CASE UNCHANGED reportVars
  BY <1>5 DEF reportVars, ReplayInv, ReplayTypes, SpellsInOrder, FieldIsOpen, IsOpen,
              UsageIsOfReport, Substitutions, Windows, TimelyInv, InThePast, Clock
<1> QED BY <1>1, <1>2, <1>3, <1>4, <1>5 DEF ReportNext

LEMMA ReplayInductive == ReportSpec => []ReplayInv
<1>1. ReplayInv /\ [ReportNext]_reportVars => ReplayInv'
  BY ReplayStep
<1> QED BY <1>1, ReplayInit, PTL DEF ReportSpec

LEMMA TimelyInductive == TimesAgree /\ ReportSpec => [](ReplayInv /\ TimelyInv)
<1>1. TimesAgree /\ ReplayInv /\ TimelyInv /\ [ReportNext]_reportVars
        => ReplayInv' /\ TimelyInv'
  BY ReplayStep
<1>2. TimesAgree => []TimesAgree
  OBVIOUS
<1> QED BY <1>1, <1>2, ReplayInit, PTL DEF ReportSpec

\* Events, intervals and players of a replay keep their types.
THEOREM ReportTypes == ReportSpec => []ReportTypeOK
<1>1. ReplayInv => ReportTypeOK
  <2> SUFFICES ASSUME ReplayInv PROVE ReportTypeOK
    OBVIOUS
  <2>1. \A i \in DOMAIN report :
          report[i].time \in Time /\ {report[i].player, report[i].other} \subseteq Roster
    BY EventsOfReport DEF ReplayInv, EventRow
  <2> QED BY <2>1, EventsOfReport DEF ReplayInv, ReplayTypes, ReportTypeOK, SpellsInOrder
<1> QED BY <1>1, ReplayInductive, PTL

\* The balance of a segment counts some of the substitutions of the replay, and that of
\* the last segment counts all of them.
LEMMA BalancesOfReplay == ReplayInv => BalancesAddUp
<1> SUFFICES ASSUME ReplayInv PROVE BalancesAddUp
  OBVIOUS
<1> DEFINE Upto(n) == {m \in Segment : m <= n}
           Subs(n) == UNION {Changes(m) : m \in Upto(n)}
           Wins(n) == UNION {WindowsOf(m) : m \in Upto(n)}
<1>1. ASSUME NEW i \in Substitutions
      PROVE  report[i].segment \in Segment /\ i \in Changes(report[i].segment)
  BY EventsOfReport DEF ReplayInv, Substitutions, Changes, EventRow
<1>2. ASSUME NEW n
      PROVE  Subs(n) \subseteq Substitutions /\ Wins(n) \subseteq Windows
  BY DEF Changes, Substitutions, WindowsOf, Windows
<1>3. IsFiniteSet(Substitutions) /\ IsFiniteSet(Windows)
  BY FieldIsFinite DEF ReplayInv, UsageIsOfReport
<1>4. {Cardinality(Substitutions), Cardinality(Windows), MaxSubs, MaxWindows} \subseteq Nat
  BY <1>3, FS_CardinalityType, MatchReportAssumption
<1>5. \A n : UsedUpTo(n) = [subs |-> Cardinality(Subs(n)), windows |-> Wins(n)]
  BY DEF UsedUpTo
<1>6. ASSUME NEW n \in Segment
      PROVE  UsedUpTo(n).subs <= MaxSubs /\ Cardinality(UsedUpTo(n).windows) <= MaxWindows
  <2>1. /\ Cardinality(Subs(n)) <= Cardinality(Substitutions)
        /\ Cardinality(Wins(n)) <= Cardinality(Windows)
        /\ Cardinality(Subs(n)) \in Nat /\ Cardinality(Wins(n)) \in Nat
    <3> HIDE DEF Subs, Wins
    <3> QED BY <1>2, <1>3, FS_Subset, FS_CardinalityType
  <2>2. UsedUpTo(n).subs = Cardinality(Subs(n)) /\ UsedUpTo(n).windows = Wins(n)
    BY <1>5
  <2> HIDE DEF Subs, Wins
  <2> QED BY <1>4, <2>1, <2>2 DEF ReplayInv, UsageIsOfReport
<1>7. \A m \in Segment : m <= Max(Segment)
  <2>1. Segment \in SUBSET Nat /\ IsFiniteSet(Segment)
    BY MatchReportAssumption DEF Segment
  <2> QED BY <2>1, MaxIsGreatest
<1>8. Subs(Max(Segment)) = Substitutions
  BY <1>1, <1>2, <1>7
<1>9. Wins(Max(Segment)) = Windows
  <2>1. ASSUME NEW w \in Windows PROVE w \in Wins(Max(Segment))
    <3>1. PICK i \in Substitutions : w = Window(report[i].time, report[i].segment)
      BY DEF Windows
    <3>2. w \in WindowsOf(report[i].segment)
      BY <1>1, <3>1 DEF WindowsOf
    <3> QED BY <1>1, <1>7, <3>2
  <2> QED BY <1>2, <2>1
<1>10. ASSUME NEW limit \in Nat, NEW used \in Nat, used <= limit
       PROVE  Remaining(limit, used) = limit - used
  <2>1. {limit - used, 0} \in SUBSET Nat /\ IsFiniteSet({limit - used, 0})
    <3>1. IsFiniteSet({limit - used}) /\ {limit - used, 0} = {limit - used} \cup {0}
      BY FS_Singleton
    <3> QED BY <1>10, <3>1, FS_AddElement
  <2>2. /\ Max({limit - used, 0}) \in {limit - used, 0}
        /\ \A x \in {limit - used, 0} : x <= Max({limit - used, 0})
    BY <2>1, MaxIsGreatest
  <2> QED BY <1>10, <2>2 DEF Remaining
<1>11. LET last == SegmentBalance(Max(Segment))
       IN  /\ last.subs = MaxSubs - usage.subs
           /\ last.windows = MaxWindows - Cardinality(usage.windows)
  <2>1. /\ usage.subs = Cardinality(Substitutions) /\ usage.windows = Windows
        /\ Cardinality(Substitutions) <= MaxSubs /\ Cardinality(Windows) <= MaxWindows
    BY DEF ReplayInv, UsageIsOfReport
  <2> HIDE DEF Subs, Wins
  <2> QED BY <1>4, <1>5, <1>8, <1>9, <1>10, <2>1 DEF SegmentBalance
<1> QED BY <1>6, <1>11 DEF BalancesAddUp

\* Where the order of the events is that of their effects, the field and the balances of
\* the report add up after every event, for any squad, limits and segments.
THEOREM ReportIsRight == TimesAgree /\ ReportSpec => []ReportAddsUp
<1>1. ReplayInv /\ TimelyInv => FieldAddsUp
  <2> SUFFICES ASSUME ReplayInv, TimelyInv PROVE FieldAddsUp
    OBVIOUS
  <2>1. onField \subseteq Squad
    BY MatchReportAssumption DEF ReplayInv, ReplayTypes, Roster
  <2> QED BY <2>1 DEF ReplayInv, FieldIsOpen, TimelyInv, FieldAddsUp
<1> QED BY <1>1, BalancesOfReplay, TimelyInductive, PTL DEF ReportAddsUp

\* Under the same condition whoever takes part in an event is on the field.
THEOREM OnlyThoseOnField == TimesAgree /\ ReportSpec => PlayedByThoseOnField
<1> DEFINE Played == \A i \in DOMAIN report' \ DOMAIN report :
                       {report'[i].player, report'[i].other} \ onField # {} =>
                         report'[i].type = "substitution"
<1>1. ASSUME TimesAgree, ReplayInv, TimelyInv, ReportNext PROVE Played
  <2>1. ASSUME NEW t \in Time, NEW segment \in SegmentsAt[t], NEW p \in Squad,
               NEW q \in Squad, NEW e \in EventRow, Record(e), e.time = t,
               e.player = p, e.other = q,
               e.type # "substitution" => Takes(p, t) /\ Takes(q, t)
        PROVE  Played
    <3>0. report' \in Seq(EventRow) /\ Len(report') = Len(report) + 1
          /\ report'[Len(report) + 1] = e
      BY <1>1, <2>1, RecordAppends DEF ReplayInv
    <3>1. /\ Len(report) \in Nat /\ DOMAIN report = 1..Len(report)
          /\ DOMAIN report' = 1..(Len(report) + 1) /\ report'[Len(report) + 1] = e
      BY <1>1, <3>0, EventsOfReport DEF ReplayInv
    <3>2. e.type # "substitution" => p \in onField /\ q \in onField
      BY <1>1, <2>1, TakesIsOnField DEF Record, TimelyInv
    <3> QED BY <2>1, <3>1, <3>2
  <2>2. ASSUME NEW t \in Time, NEW segment \in SegmentsAt[t], NEW p \in Squad,
               NEW q \in Squad, Substitute(t, segment, p, q)
        PROVE  Played
    <3> DEFINE e == [type |-> "substitution", time |-> t, segment |-> segment,
                     player |-> p, other |-> q]
    <3>1. /\ e \in EventRow /\ e.time = t /\ e.player = p /\ e.other = q
          /\ e.type = "substitution" /\ Record(e)
      BY <2>2 DEF EventRow, Segment, Substitute, MayChange
    <3> HIDE DEF e
    <3> QED BY <2>1, <3>1
  <2>3. ASSUME NEW t \in Time, NEW segment \in SegmentsAt[t], NEW p \in Squad,
               NEW q \in Squad, Goal(t, segment, p, q)
        PROVE  Played
    <3> DEFINE e == [type |-> "goal", time |-> t, segment |-> segment,
                     player |-> p, other |-> q]
    <3>1. /\ e \in EventRow /\ e.time = t /\ e.player = p /\ e.other = q
          /\ Takes(p, t) /\ Takes(q, t) /\ Record(e)
      BY <2>3 DEF EventRow, Segment, Goal, Takes
    <3> HIDE DEF e
    <3> QED BY <2>1, <3>1
  <2>4. ASSUME NEW t \in Time, NEW segment \in SegmentsAt[t], NEW p \in Squad,
               NEW type \in {"yellow", "direct_red_card", "double_yellow_red"},
               Record(Alone(t, segment, p, type)), Takes(p, t)
        PROVE  Played
    <3> DEFINE e == Alone(t, segment, p, type)
    <3>1. e \in EventRow /\ e.time = t /\ e.player = p /\ e.other = p /\ Record(e)
      BY <2>4 DEF EventRow, Segment, Takes, Alone
    <3> HIDE DEF e
    <3> QED BY <2>1, <2>4, <3>1
  <2> QED BY <1>1, <2>2, <2>3, <2>4 DEF ReportNext, YellowCard, RedCard
<1>2. TimesAgree => []TimesAgree
  OBVIOUS
<1>3. TimesAgree /\ ReplayInv /\ TimelyInv /\ [ReportNext]_reportVars => [Played]_reportVars
  BY <1>1
<1> HIDE DEF Played
<1>4. TimesAgree /\ ReportSpec => [][Played]_reportVars
  BY <1>2, <1>3, TimelyInductive, PTL DEF ReportSpec
<1> QED BY <1>4 DEF Played, PlayedByThoseOnField

=============================================================================
