------------------------------- MODULE Calendar -------------------------------
(***************************************************************************)
(* The calendars of leagues and groups that tournaments/scheduling.py      *)
(* builds.  A team is named by its place after the shuffle, so the seed    *)
(* only shows in the order in which the groups take the teams of a chunk.  *)
(* The date of a match follows from its round and its number.              *)
(***************************************************************************)
EXTENDS Integers, FiniteSets, Sequences, SequencesExt

Bye == 0

Padded(s) == IF Len(s) % 2 = 1 THEN Append(s, Bye) ELSE s

\* Mutant: the first team moves with the others.
Rotate_First(s) == <<Last(s)>> \o SubSeq(s, 1, Len(s) - 1)

\* The first team keeps its place and the others turn around it.
Rotate(s) == <<s[1], Last(s)>> \o SubSeq(s, 2, Len(s) - 1)

Rotation(s, r) ==
    LET turned[k \in 1 .. r] == IF k = 1 THEN Padded(s) ELSE Rotate(turned[k - 1])
    IN turned[r]

RoundCount(s) == Len(Padded(s)) - 1

\* The matches of a round: the ends of the rotation play each other, then the
\* next ones, without the pair of the bye; every other pair is turned around.
RoundOf(s, r) ==
    LET rotation == Rotation(s, r)
        left(i)  == rotation[i + 1]
        right(i) == rotation[Len(rotation) - i]
        real     == {i \in 0 .. Len(rotation) \div 2 - 1 : Bye \notin {left(i), right(i)}}
        turned(i) == (r + i) % 2 = 1
    IN {[round  |-> r,
         number |-> Cardinality({j \in real : j <= i}),
         home   |-> IF turned(i) THEN right(i) ELSE left(i),
         away   |-> IF turned(i) THEN left(i) ELSE right(i)] : i \in real}

\* The second leg repeats the first one on the other side.
Returned(m, rounds) == [m EXCEPT !.round = @ + rounds, !.home = m.away, !.away = m.home]

RoundRobin(s, legs) ==
    LET first == UNION {RoundOf(s, r) : r \in 1 .. RoundCount(s)}
    IN IF legs = 1 THEN first
       ELSE first \cup {Returned(m, RoundCount(s)) : m \in first}

ByeCount(s, legs) == IF Len(s) % 2 = 1 THEN RoundCount(s) * legs ELSE 0

-------------------------------------------------------------------------------
(* distribute_groups: teams 1 .. n, of which the first are the heads if    *)
(* there are any.  Each chunk of the others is dealt out in an order of    *)
(* its own.                                                                *)

Chunks(n, groups, heads) ==
    LET others == IF heads THEN n - groups ELSE n
    IN 1 .. (others + groups - 1) \div groups

Orders(groups) == {o \in [1 .. groups -> 1 .. groups] : \A i, j \in 1 .. groups : o[i] = o[j] => i = j}

\* The heads go first. Of each chunk a group takes the team at its place in the
\* order of the chunk; the last chunk may end before that place.
MembersOf(g, n, groups, heads, order) ==
    LET led     == IF heads THEN groups ELSE 0
        turn(c) == led + (c - 1) * groups + CHOOSE k \in 1 .. groups : order[c][k] = g
        served  == {c \in Chunks(n, groups, heads) : turn(c) <= n}
    IN (IF heads THEN <<g>> ELSE <<>>) \o [i \in 1 .. Cardinality(served) |-> turn(i)]

\* A draw is refused when it leaves a team alone in its group.
EnoughTeams(n, groups, heads, order) ==
    \A g \in 1 .. groups : Len(MembersOf(g, n, groups, heads, order)) >= 2

-------------------------------------------------------------------------------
(* What a calendar promises to its teams.                                  *)

Playing(ms, t) == {m \in ms : t \in {m.home, m.away}}

\* Every two teams meet once in each leg, and in two legs once at home each;
\* in a round nobody plays twice and at most one team rests.
IsFair(teams, legs, ms) ==
    /\ \A t \in teams : \A u \in teams \ {t} :
         /\ Cardinality(Playing(ms, t) \cap Playing(ms, u)) = legs
         /\ legs = 2 => Cardinality({m \in Playing(ms, t) : m.home = t /\ m.away = u}) = 1
    /\ \A r \in {m.round : m \in ms} :
         LET round == {m \in ms : m.round = r}
         IN /\ Cardinality(UNION {{m.home, m.away} : m \in round}) = 2 * Cardinality(round)
            /\ Cardinality(round) = Cardinality(teams) \div 2
            /\ {m.number : m \in round} = 1 .. Cardinality(round)
    /\ UNION {{m.home, m.away} : m \in ms} = teams

\* The byes the draw announces are those of the calendar, the same for all.
ByesAreEven(teams, legs, ms) ==
    LET rests(t) == Cardinality({m.round : m \in ms}) - Cardinality(Playing(ms, t))
        odd == Cardinality(teams) % 2 = 1
    IN /\ \A t \in teams : rests(t) = IF odd THEN legs ELSE 0
       /\ ByeCount([i \in 1 .. Cardinality(teams) |-> i], legs)
            = IF odd THEN legs * Cardinality(teams) ELSE 0

\* Every team is in one group, and the groups differ by one team at most.
AreEven(teams, groups) ==
    /\ UNION {ToSet(groups[g]) : g \in DOMAIN groups} = teams
    /\ \A g \in DOMAIN groups, h \in DOMAIN groups :
         /\ Len(groups[g]) - Len(groups[h]) <= 1
         /\ g # h => ToSet(groups[g]) \cap ToSet(groups[h]) = {}
===============================================================================
