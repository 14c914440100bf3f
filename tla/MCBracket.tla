------------------------------ MODULE MCBracket ------------------------------
(***************************************************************************)
(* Instances of Bracket on the brackets that BracketDraw generates.        *)
(***************************************************************************)
EXTENDS Bracket

CONSTANTS Format,     \* "single" or "double"
          Size        \* how many teams

Draw == INSTANCE BracketDraw

Drawn == Draw!Drawn(Format, Size)

MCNoTeam == 0
MCNoMatch == <<"none", 0, 0>>
MCTeams == 1 .. Size
MCGF1 == IF Format = "single" THEN MCNoMatch ELSE Draw!GrandFinal
MCGF2 == IF Format = "single" THEN MCNoMatch ELSE Draw!ResetFinal
MCMatches == {x.match : x \in Drawn} \cup ({MCGF2} \ {MCNoMatch})
MCFeeds == Draw!Links(Drawn)
Placed(x, s) == IF x[s].kind = "team" THEN x[s].team ELSE MCNoTeam
MCDirect == [m \in MCMatches |-> [s \in Draw!Sides |->
                IF m = MCGF2 THEN MCNoTeam ELSE Placed(CHOOSE x \in Drawn : x.match = m, s)]]

\* The bracket that is played is the one that was drawn, of as many teams as the
\* builders of scheduling.py accept: two or more, and a power of two not below four
\* for a double elimination.
ASSUME DrawnAssumption ==
    /\ Format \in {"single", "double"} /\ Size \in Nat \ {0, 1}
    /\ Format = "double" => \E k \in 2 .. Size : Size = Draw!Power[k]
    /\ Teams = MCTeams /\ NoTeam = MCNoTeam /\ NoMatch = MCNoMatch
    /\ Matches = MCMatches /\ Feeds = MCFeeds /\ Direct = MCDirect
    /\ GF1 = MCGF1 /\ GF2 = MCGF2

-------------------------------------------------------------------------------
(* What the bracket means for its teams, in the version that was drawn.    *)

Lives == IF Format = "single" THEN 1 ELSE 2
V == FirstVersion

Lost(t) == Cardinality({m \in Matches : IsClosed(V, m) /\ t \in TeamsOf(V, m) /\ winner[V][m] # t})
InOpenMatch(t) == {m \in Matches : status[V][m] = "scheduled" /\ t \in TeamsOf(V, m)}
Alive == {t \in Teams : Lost(t) < Lives}
Over == \A m \in Matches : status[V][m] # "scheduled"

\* A team is in exactly one open match for as long as it may still win, in none
\* once it has lost all its lives.
AliveIffPlaying ==
    \A t \in Teams :
        Cardinality(InOpenMatch(t)) = IF t \in Alive /\ ~Over THEN 1 ELSE 0

\* At the end exactly one team is left; only a last match of a single elimination
\* that was drawn, which is no grand final, leaves none.
OneChampion ==
    Over => Cardinality(Alive) =
              IF Format = "single" /\ \E m \in Matches : winner[V][m] = NoTeam THEN 0 ELSE 1

\* The three together: nobody plays too early, too late or for nothing.
EndsWithOneChampion == NobodyArrivesEarly /\ AliveIffPlaying /\ OneChampion

\* No order of reports wedges the bracket: while it is not over there is a match
\* with both its teams, and closing it in favour of either is accepted.
NeverStuck ==
    ~Over => \E m \in Matches :
        /\ status[V][m] = "scheduled" /\ NoTeam \notin TeamsOf(V, m)
        /\ \A w \in TeamsOf(V, m) : CanAdvance(V, m, w) /\ CanRepeat(V, m, w)
==============================================================================
