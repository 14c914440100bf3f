------------------------------ MODULE BracketDraw ------------------------------
(***************************************************************************)
(* The brackets that tournaments/scheduling.py generates.  A team is named *)
(* by its place after the shuffle, a match by its lane, its round and its  *)
(* number in the round (the bracket code without its spelling).  The       *)
(* advancement links are read off the entrants of the matches, as the      *)
(* generator does while it appends them.                                   *)
(***************************************************************************)
EXTENDS Integers, FiniteSets, Sequences

Sides == {"home", "away"}
GrandFinal == <<"final", 0, 1>>
ResetFinal == <<"final", 0, 2>>

\* BracketEntrant: a team, or whoever leaves another match; None is a bye.
Entry(i) == [kind |-> "team", team |-> i]
From(m, outcome) == [kind |-> "from", match |-> m, outcome |-> outcome]
Bye == [kind |-> "bye"]

Power[k \in Nat] == IF k = 0 THEN 1 ELSE 2 * Power[k - 1]

\* bit_length of the next power of two, less one
RoundsFor(n) == CHOOSE k \in 0 .. n : /\ Power[k] >= n
                                   /\ \A j \in 0 .. k - 1 : Power[j] < n

\* A bracket is a set of matches with the entrants of their two sides.
Match(m, home, away) == [match |-> m, home |-> home, away |-> away]

Links(bracket) ==
    UNION {{[source  |-> x[s].match, target |-> x.match, side |-> s, outcome |-> x[s].outcome] :
              s \in {t \in Sides : x[t].kind = "from"}} : x \in bracket}

-------------------------------------------------------------------------------
(* build_single_elimination_bracket                                        *)

Main(round, number) == <<"main", round, number>>

\* An empty side gives the round to the other entrant, who may be empty too.
Through(home, away) == IF home = Bye THEN away ELSE home

IsPlayed(entries, k) == entries[2 * k - 1] # Bye /\ entries[2 * k] # Bye

NumberOf(entries, k) == Cardinality({j \in 1 .. k : IsPlayed(entries, j)})

FirstEntries(n) == [i \in 1 .. Power[RoundsFor(n)] |-> IF i <= n THEN Entry(i) ELSE Bye]

RoundMatches(entries, r) ==
    {Match(Main(r, NumberOf(entries, k)), entries[2 * k - 1], entries[2 * k]) :
        k \in {j \in 1 .. Len(entries) \div 2 : IsPlayed(entries, j)}}

NextEntries(entries, r) ==
    [k \in 1 .. Len(entries) \div 2 |->
        IF IsPlayed(entries, k) THEN From(Main(r, NumberOf(entries, k)), "winner")
        ELSE Through(entries[2 * k - 1], entries[2 * k])]

SingleElimination(n) ==
    LET drawn[r \in 0 .. RoundsFor(n)] ==
            IF r = 0 THEN [entries |-> FirstEntries(n), matches |-> {}]
            ELSE LET before == drawn[r - 1] IN
                 [entries |-> NextEntries(before.entries, r),
                  matches |-> before.matches \cup RoundMatches(before.entries, r)]
    IN drawn[RoundsFor(n)].matches

-------------------------------------------------------------------------------
(* build_double_elimination_bracket, n a power of two not below four.  The *)
(* losers' lane alternates minor rounds, among its own, and major rounds,  *)
(* where the losers of the next round of the winners' lane come down.      *)

Upper(round, number) == <<"winners", round, number>>
Lower(round, number) == <<"losers", round, number>>

MinorRound(n, k) == RoundsFor(n) + 2 * k - 1
MajorRound(n, k) == RoundsFor(n) + 2 * k

\* One match per pair of entrants of the round before, in either lane.
UpperPlaces(n) == {p \in (1 .. RoundsFor(n)) \X (1 .. n) : p[2] <= Power[RoundsFor(n) - p[1]]}
LowerPlaces(n) ==
    {p \in (1 .. RoundsFor(n) - 1) \X (1 .. n) : p[2] <= Power[RoundsFor(n) - 1 - p[1]]}

UpperMatch(r, i) ==
    IF r = 1 THEN Match(Upper(r, i), Entry(2 * i - 1), Entry(2 * i))
    ELSE Match(Upper(r, i), From(Upper(r - 1, 2 * i - 1), "winner"),
                            From(Upper(r - 1, 2 * i), "winner"))

MinorMatch(n, k, i) ==
    LET feeder(j) == IF k = 1 THEN From(Upper(1, j), "loser")
                              ELSE From(Lower(MajorRound(n, k - 1), j), "winner")
    IN Match(Lower(MinorRound(n, k), i), feeder(2 * i - 1), feeder(2 * i))

\* Mutant: the losers of the same round of the winners' lane come down again.
MajorMatch_SameRound(n, k, i) ==
    Match(Lower(MajorRound(n, k), i), From(Lower(MinorRound(n, k), i), "winner"),
                                      From(Upper(k, i), "loser"))

MajorMatch(n, k, i) ==
    Match(Lower(MajorRound(n, k), i), From(Lower(MinorRound(n, k), i), "winner"),
                                      From(Upper(k + 1, i), "loser"))

GrandFinalMatch(n) ==
    Match(GrandFinal, From(Upper(RoundsFor(n), 1), "winner"),
                      From(Lower(MajorRound(n, RoundsFor(n) - 1), 1), "winner"))

DoubleElimination(n) ==
    {UpperMatch(p[1], p[2]) : p \in UpperPlaces(n)}
        \cup {MinorMatch(n, p[1], p[2]) : p \in LowerPlaces(n)}
        \cup {MajorMatch(n, p[1], p[2]) : p \in LowerPlaces(n)}
        \cup {GrandFinalMatch(n)}

Drawn(format, n) == IF format = "single" THEN SingleElimination(n) ELSE DoubleElimination(n)

-------------------------------------------------------------------------------
(* What makes a set of matches a bracket.                                  *)

MatchIds(bracket) == {x.match : x \in bracket}

\* The match nobody leaves: FINAL, or GF1 (whose repetition takes no link).
LastMatch(format, n) == IF format = "single" THEN Main(RoundsFor(n), 1) ELSE GrandFinal
Losses(format) == IF format = "single" THEN 1 ELSE 2

\* Every team enters the bracket through exactly one slot, and whoever else comes to
\* a slot leaves a match: none is a bye, whatever the number of teams.
EveryTeamEntersOnce(n, bracket) ==
    LET slots == bracket \X Sides
    IN /\ \A i \in 1 .. n : \E p \in slots : {q \in slots : q[1][q[2]] = Entry(i)} = {p}
       /\ \A x \in bracket, s \in Sides :
            \/ \E i \in 1 .. n : x[s] = Entry(i)
            \/ \E m \in MatchIds(bracket), outcome \in {"winner", "loser"} : x[s] = From(m, outcome)

\* The winner of every match but the last, like the loser of every match of the
\* winners' lane, goes on to exactly one slot; nobody else goes on.
EveryoneGoesOnOnce(format, n, bracket) ==
    LET leaving(m, outcome) == {l \in Links(bracket) : l.source = m /\ l.outcome = outcome}
        goesOn(m, outcome) == \E l \in Links(bracket) : leaving(m, outcome) = {l}
    IN /\ LastMatch(format, n) \in MatchIds(bracket)
       /\ \A m \in MatchIds(bracket) :
            /\ IF m = LastMatch(format, n) THEN leaving(m, "winner") = {} ELSE goesOn(m, "winner")
            /\ IF m[1] = "winners" THEN goesOn(m, "loser") ELSE leaving(m, "loser") = {}

\* A team comes to a match with the defeats its lane stands for.
DefeatsAt(m, side) == IF m[1] = "losers" \/ (m = GrandFinal /\ side = "away") THEN 1 ELSE 0

LanesCountDefeats(format, n, bracket) ==
    /\ \A m \in MatchIds(bracket) :
         IF format = "single" THEN m[1] = "main"
         ELSE m[1] \in {"winners", "losers"} \/ m = LastMatch(format, n)
    /\ \A x \in bracket, s \in Sides : x[s].kind = "team" => DefeatsAt(x.match, s) = 0
    /\ \A l \in Links(bracket), s \in Sides :
         DefeatsAt(l.target, l.side) = DefeatsAt(l.source, s) + (IF l.outcome = "loser" THEN 1 ELSE 0)

\* No two matches have the same code.
CodesAreUnique(bracket) == \A x \in bracket : \A y \in bracket : x.match = y.match => x = y

\* As many matches as defeats it takes to leave one champion; the repetition of the
\* grand final comes on top.
RightNumberOfMatches(format, n, bracket) ==
    IsFiniteSet(bracket) /\ Cardinality(bracket) = Losses(format) * (n - 1)

\* The round the code writes into matchday is later than the rounds of the matches
\* that feed the match: the calendar can be played in order.
Matchday(n, m) == IF m = GrandFinal THEN 3 * RoundsFor(n) - 1 ELSE m[2]
FeedersArePlayedBefore(n, bracket) ==
    /\ \A m \in MatchIds(bracket) : Matchday(n, m) \in Nat \ {0}
    /\ \A l \in Links(bracket) : Matchday(n, l.source) < Matchday(n, l.target)

IsABracket(format, n, bracket) ==
    /\ EveryTeamEntersOnce(n, bracket)
    /\ EveryoneGoesOnOnce(format, n, bracket)
    /\ LanesCountDefeats(format, n, bracket)
    /\ CodesAreUnique(bracket)
    /\ RightNumberOfMatches(format, n, bracket)
    /\ FeedersArePlayedBefore(n, bracket)
===============================================================================
