------------------------------ MODULE Standings ------------------------------
(***************************************************************************)
(* The table of a stage, as StandingsService.recalculate computes it again *)
(* from everything that has been played whenever a match is closed.        *)
(*                                                                         *)
(* A stage S is a record: the group of each of its teams, its matches, the *)
(* points of a result, the criteria of ranking_pipeline in their order,    *)
(* total_rounds_expected and the place of each team in the random draw.    *)
(* Teams are numbers in the order of their identifiers.                    *)
(***************************************************************************)
EXTENDS Integers, FiniteSets, Sequences, SequencesExt, FiniteSetsExt

NoTeam == 0

TeamsOf(S) == DOMAIN S.group

\* Matches without a confirmed result, or of a group their teams are not in, are
\* passed over.
Counted(S) ==
    {m \in S.matches : /\ m.confirmed
                       /\ {m.home, m.away} \subseteq {t \in TeamsOf(S) : S.group[t] = m.group}}

Of(ms, t) == {m \in ms : t \in {m.home, m.away}}

\* A draw may have a winner, on penalties or by a decision.
WinnerOf(m) ==
    CASE m.homeScore > m.awayScore -> m.home
      [] m.homeScore < m.awayScore -> m.away
      [] OTHER -> m.winner

PointsOf(S, m, t) ==
    CASE WinnerOf(m) = t -> S.win
      [] WinnerOf(m) = NoTeam -> S.draw
      [] OTHER -> S.loss

Scored(m, t) == IF m.home = t THEN m.homeScore ELSE m.awayScore
Conceded(m, t) == IF m.home = t THEN m.awayScore ELSE m.homeScore

Points(S, ms, t) == MapThenSumSet(LAMBDA m : PointsOf(S, m, t), Of(ms, t))
GoalsFor(ms, t) == MapThenSumSet(LAMBDA m : Scored(m, t), Of(ms, t))
GoalsAgainst(ms, t) == MapThenSumSet(LAMBDA m : Conceded(m, t), Of(ms, t))
GoalDifference(ms, t) == GoalsFor(ms, t) - GoalsAgainst(ms, t)

\* The cards of every confirmed match of the stage take points away.
FairPlay(S, t) ==
    -MapThenSumSet(LAMBDA m : IF m.home = t THEN m.homeCards ELSE m.awayCards,
                   Of({m \in S.matches : m.confirmed}, t))

\* A row of the table.
Row(S, t) ==
    LET ms == Of(Counted(S), t)
    IN [played |-> Cardinality(ms),
        won    |-> Cardinality({m \in ms : WinnerOf(m) = t}),
        drawn  |-> Cardinality({m \in ms : WinnerOf(m) = NoTeam}),
        lost   |-> Cardinality({m \in ms : WinnerOf(m) \notin {t, NoTeam}}),
        points |-> Points(S, ms, t),
        goals_for |-> GoalsFor(ms, t), goals_against |-> GoalsAgainst(ms, t),
        goal_difference |-> GoalDifference(ms, t),
        fair_play_points |-> FairPlay(S, t)]

RankingValue(S, t, criterion) ==
    CASE criterion = "goals_against" -> -Row(S, t).goals_against
      [] criterion = "random_draw" -> S.hash[t]
      [] OTHER -> Row(S, t)[criterion]

-------------------------------------------------------------------------------
(* The mini-table of the teams of a bucket.                                *)

Direct(S, T) == {m \in Counted(S) : {m.home, m.away} \subseteq T}

Expected(S, T) == ((Cardinality(T) * (Cardinality(T) - 1)) \div 2) * S.rounds

\* Mutant: the number of direct matches is compared, not those of each pair.
IsComplete_Total(S, T) ==
    Cardinality(Direct(S, T)) = Expected(S, T)

\* None when a direct match is pending, or was played too often.
IsComplete(S, T) ==
    /\ Cardinality(Direct(S, T)) = Expected(S, T)
    /\ \A pair \in {{t, u} : t, u \in T} :
         Cardinality(pair) = 2 =>
           Cardinality({m \in Direct(S, T) : {m.home, m.away} = pair}) = S.rounds

KeyFor(S, T, t, criterion) ==
    IF criterion = "head_to_head"
    THEN LET ms == Direct(S, T)
         IN <<Points(S, ms, t), GoalDifference(ms, t), GoalsFor(ms, t)>>
    ELSE <<RankingValue(S, t, criterion)>>

Exceeds(k, l) == \E i \in DOMAIN k : k[i] > l[i] /\ \A j \in 1 .. i - 1 : k[j] = l[j]

\* A bucket is a sequence of teams; those with the same key stay together, in
\* the order they had.
SplitBucket(S, bucket, criterion) ==
    LET T == ToSet(bucket)
        keys == SetToSortSeq({KeyFor(S, T, t, criterion) : t \in T}, Exceeds)
    IN IF \/ Len(bucket) < 2
          \/ criterion = "head_to_head" /\ ~IsComplete(S, T)
       THEN <<bucket>>
       ELSE [i \in DOMAIN keys |->
               SelectSeq(bucket, LAMBDA t : KeyFor(S, T, t, criterion) = keys[i])]

Ranking(S, g) ==
    LET Split(buckets, criterion) ==
            FlattenSeq([i \in DOMAIN buckets |-> SplitBucket(S, buckets[i], criterion)])
        buckets[k \in 0 .. Len(S.pipeline)] ==
            IF k = 0 THEN <<SetToSortSeq({t \in TeamsOf(S) : S.group[t] = g}, <)>>
            ELSE Split(buckets[k - 1], S.pipeline[k])
    IN FlattenSeq(buckets[Len(S.pipeline)])

-------------------------------------------------------------------------------
(* What a table promises.                                                  *)

\* Nothing is won or scored that nobody has lost or conceded, and a match is
\* worth a victory and a defeat or two draws, to its two teams together.
AddsUp(S) ==
    LET Sum(field) == MapThenSumSet(LAMBDA t : Row(S, t)[field], TeamsOf(S))
        drawn == {m \in Counted(S) : m.homeScore = m.awayScore /\ m.winner = NoTeam}
    IN /\ Sum("won") = Sum("lost") /\ Sum("drawn") = 2 * Cardinality(drawn)
       /\ Sum("played") = 2 * Cardinality(Counted(S))
       /\ Sum("goal_difference") = 0
       /\ Sum("points") = 2 * S.draw * Cardinality(drawn)
                          + (S.win + S.loss) * Cardinality(Counted(S) \ drawn)

\* Two teams are told apart by the first criterion that separates them among all
\* the teams they are still level with, and the mini-table separates nobody as
\* long as two of these have not met as often as expected.
Met(S, t, u) == Cardinality(Of(Of(Counted(S), t), u))

Separates(S, T, criterion) ==
    criterion = "head_to_head" =>
        \A t \in T : \A u \in T \ {t} : Met(S, t, u) = S.rounds

IsOrdered(S, g) ==
    LET all == {t \in TeamsOf(S) : S.group[t] = g}
        level[k \in 0 .. Len(S.pipeline), t \in all] ==
            IF k = 0 THEN all
            ELSE LET T == level[k - 1, t]
                     c == S.pipeline[k]
                 IN {u \in T : Separates(S, T, c) => KeyFor(S, T, u, c) = KeyFor(S, T, t, c)}
        ahead(t, u) ==
            \E k \in DOMAIN S.pipeline :
                LET T == level[k - 1, t]
                    c == S.pipeline[k]
                IN /\ u \in T /\ Separates(S, T, c)
                   /\ Exceeds(KeyFor(S, T, t, c), KeyFor(S, T, u, c))
        level_at_the_end(t, u) == u \in level[Len(S.pipeline), t]
        ranking == Ranking(S, g)
    IN /\ ToSet(ranking) = all /\ Len(ranking) = Cardinality(all)
       /\ \A i, j \in DOMAIN ranking :
            i < j => \/ ahead(ranking[i], ranking[j])
                     \/ level_at_the_end(ranking[i], ranking[j]) /\ ranking[i] < ranking[j]
===============================================================================
