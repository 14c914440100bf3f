------------------------------- MODULE MCDraws -------------------------------
(***************************************************************************)
(* What a stage is drawn with and ranked by, for TLC: the draw of a Swiss  *)
(* stage beside other requests (SwissDraw), that of a league or of groups  *)
(* (League), and every bracket, calendar and table up to a bound, each a   *)
(* case of its own that does not move.                                     *)
(***************************************************************************)
EXTENDS SwissDraw, League, TLC

CONSTANTS MaxSingle,   \* bound on the teams of a single elimination
          MaxPower,    \* double eliminations of 4 .. 2 ^ MaxPower teams
          MaxLeague,   \* bound on the teams of a league
          MaxGrouped   \* bound on the teams that are dealt out to groups

ASSUME BoundsAssumption ==
    MaxSingle \in Nat /\ MaxPower \in Nat /\ MaxLeague \in Nat /\ MaxGrouped \in Nat

Brackets == INSTANCE BracketDraw
Leagues == INSTANCE Calendar
Tables == INSTANCE Standings

VARIABLE case

\* Teams and requests of SwissDraw are interchangeable.
Symmetry == Permutations(Team) \cup Permutations(Request)

BracketCases ==
    [kind : {"single"}, teams : 2 .. MaxSingle]
        \cup [kind : {"double"}, teams : {Brackets!Power[k] : k \in 2 .. MaxPower}]

LeagueCases == [kind : {"league"}, teams : 2 .. MaxLeague, legs : {1, 2}]

\* Two or three groups, whatever the order in which they take each chunk.
Dealings ==
    UNION {[kind : {"groups"}, teams : {n}, groups : {g}, heads : {h},
            order : [Leagues!Chunks(n, g, h) -> Leagues!Orders(g)]] :
             n \in 4 .. MaxGrouped, g \in {2, 3}, h \in BOOLEAN}
GroupCases ==
    {c \in Dealings :
        c.groups <= c.teams /\ Leagues!EnoughTeams(c.teams, c.groups, c.heads, c.order)}

-------------------------------------------------------------------------------
(* Leagues of three teams.  A pair that meets at home of its first team    *)
(* may give each result, and at home of its second team some of them.      *)

Result(home, away, goals, conceded, winner, confirmed) ==
    {[home |-> home, away |-> away, homeScore |-> goals, awayScore |-> conceded,
      winner |-> winner, confirmed |-> confirmed, group |-> "single", homeCards |-> goals,
      awayCards |-> 0]}

ReturnResults(t, u) ==
    {{}, Result(t, u, 1, 0, t, TRUE), Result(t, u, 0, 0, Tables!NoTeam, TRUE)}
Results(t, u) ==
    ReturnResults(t, u) \cup {Result(t, u, 0, 2, u, TRUE), Result(t, u, 1, 1, t, TRUE)}

Pipelines ==
    {<<"points", "head_to_head", "goal_difference", "goals_for", "fair_play_points">>,
     <<"points", "goal_difference", "head_to_head", "goals_against", "random_draw">>}

TableCases ==
    {[kind |-> "table", group |-> [t \in 1 .. 3 |-> "single"],
      matches |-> UNION {x, y, z, p, q, r},
      win |-> 3, draw |-> 1, loss |-> 0, pipeline |-> pipeline, rounds |-> rounds,
      hash |-> <<2, 3, 1>>] :
        x \in Results(1, 2), y \in Results(1, 3), z \in Results(2, 3),
        p \in ReturnResults(2, 1), q \in ReturnResults(3, 1), r \in ReturnResults(3, 2),
        pipeline \in Pipelines, rounds \in {1, 2}}

-------------------------------------------------------------------------------
drawsVars == <<vars, leagueVars, case>>

DrawsInit ==
    /\ Init /\ LeagueInit
    /\ case \in {[kind |-> "swiss"], [kind |-> "stage"]} \cup BracketCases \cup LeagueCases \cup GroupCases
                  \cup TableCases
    /\ case.kind # "stage" => stageType = "round_robin"

DrawsNext ==
    \/ case.kind = "swiss" /\ Next /\ UNCHANGED <<leagueVars, case>>
    \/ case.kind = "stage" /\ LeagueNext /\ UNCHANGED <<vars, case>>

DrawsSpec == DrawsInit /\ [][DrawsNext]_drawsVars

\* The type invariants of the two stages; a Swiss pair is of two teams.
DrawsTypeOK == TypeOK /\ LeagueTypeOK

\* However many teams there are, what is generated is a bracket: everybody enters
\* once, everybody who is not out goes on once, and in rounds that can be played.
DrawIsABracket ==
    case.kind \in {"single", "double"} =>
        Brackets!IsABracket(case.kind, case.teams, Brackets!Drawn(case.kind, case.teams))

\* A calendar is fair to its teams, and the teams of a stage of groups are dealt
\* out evenly, the heads to groups of their own.
CalendarIsFair ==
    CASE case.kind = "league" ->
           LET drawn == Leagues!RoundRobin([t \in 1 .. case.teams |-> t], case.legs)
           IN /\ Leagues!IsFair(1 .. case.teams, case.legs, drawn)
              /\ Leagues!ByesAreEven(1 .. case.teams, case.legs, drawn)
      [] case.kind = "groups" ->
           LET members(g) == Leagues!MembersOf(g, case.teams, case.groups, case.heads, case.order)
           IN /\ Leagues!AreEven(1 .. case.teams, [g \in 1 .. case.groups |-> members(g)])
              /\ \A g \in 1 .. case.groups :
                   Leagues!IsFair(Leagues!ToSet(members(g)), 2, Leagues!RoundRobin(members(g), 2))
              /\ case.heads => \A g \in 1 .. case.groups : g \in Leagues!ToSet(members(g))
      [] OTHER -> TRUE

\* The table adds up, and no criterion is applied out of turn, to the wrong teams
\* or to a mini-table that is not complete.
TableIsRight ==
    case.kind = "table" => Tables!AddsUp(case) /\ Tables!IsOrdered(case, "single")
===============================================================================
