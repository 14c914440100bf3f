----------------------------- MODULE SwissDraw -----------------------------
(***************************************************************************)
(* The draw of the rounds of a Swiss stage and what runs beside it.        *)
(*                                                                         *)
(* draw_stage_schedule reads the stage in one transaction that takes no    *)
(* lock, computes the pairings outside of any transaction, and writes them *)
(* in a second transaction that locks stage, version and matches and       *)
(* checks again part of what it had read.  Between the two, other requests *)
(* assign and remove teams, add matches by hand, publish the version, play *)
(* matches or draw the same stage.                                         *)
(*                                                                         *)
(* The calculation depends on nothing but what the first transaction read, *)
(* so it is part of Read, with any of the results the search may return:   *)
(* the order of preference (standings, seed, home and away targets) is     *)
(* abstracted.  An identifier is a number; the ones of a round are         *)
(* interchangeable.                                                        *)
(***************************************************************************)
EXTENDS Integers, FiniteSets

CONSTANTS
  Team,       \* teams registered in the tournament
  Request,    \* draws that may be under way at the same time
  Rounds,     \* payload.swiss_rounds, the same in every request
  MaxId,      \* bound: identifiers of matches
  MaxByHand   \* bound: matches added by hand that the stage has at a time

ASSUME SwissAssumption ==
  /\ IsFiniteSet(Team)
  /\ Rounds \in Nat \ {0}
  /\ MaxId \in Nat
  /\ MaxByHand \in Nat

VARIABLES
  version,    \* status of the tournament version
  teams,      \* stage_teams of the stage
  matches,    \* matches of the stage
  nextId,     \* identifiers given so far are below this one
  draw        \* what each draw under way has read and computed

vars == <<version, teams, matches, nextId, draw>>

(* Round 0 stands for a match added by hand: it has no bracket_code SW%.   *)
Match == [id : 0..MaxId, round : 0..Rounds,
          status : {"cancelled", "scheduled", "finished"}, teams : SUBSET Team]

Idle == [round |-> 0, replace |-> FALSE, teams |-> {}, existing |-> {},
         previous |-> {}, places |-> {}, pairs |-> {}]

Ids(ms) == {m.id : m \in ms}

(* The rows WHERE bracket_code LIKE 'SW%' AND matchday ... selects.        *)
Before(r) == {m \in matches : m.round \in 1..(r - 1)}
InRound(r) == {m \in matches : m.round = r}

(* A meeting has two teams and is not cancelled.                           *)
Meetings == {m \in matches : m.status # "cancelled" /\ Cardinality(m.teams) = 2}

PriorPairs == {m.teams : m \in Meetings}

-----------------------------------------------------------------------------
(* The calculation.                                                        *)

Pairs(T) == {p \in SUBSET T : Cardinality(p) = 2}

(* Mutant: every registered team is drawn, assigned to the stage or not.   *)
PairingsOf_Registered(T, prior) ==
  {P \in SUBSET (Pairs(Team) \ prior) :
     /\ \A p, q \in P : p # q => p \cap q = {}
     /\ Cardinality(P) = Cardinality(T) \div 2}

(* build_swiss_pairings: every team is paired, or all but one when their   *)
(* number is odd, never with a rival it has met.  With no such pairing the *)
(* search fails and the request ends.                                      *)
PairingsOf(T, prior) ==
  {P \in SUBSET (Pairs(T) \ prior) :
     /\ \A p, q \in P : p # q => p \cap q = {}
     /\ Cardinality(P) = Cardinality(T) \div 2}

-----------------------------------------------------------------------------
(* First transaction: read and calculate.                                  *)

Played(ms) == \A m \in ms : m.status = "finished"

(* Mutant: the status of the version is not looked at.                     *)
Drawable_Always(r) == r \in 1..Rounds

Drawable(r) == version = "draft" \/ (version = "published" /\ r > 1)

(* Rounds after the first one fill the placeholders the first one left:    *)
(* _load_swiss_draw_data asks for as many as there are pairs.              *)
PlacesMatch(r, T) ==
  Cardinality({m \in InRound(r) : m.status = "cancelled"}) = Cardinality(T) \div 2

Read(q, r, replace) ==
  /\ draw[q] = Idle
  /\ Drawable(r)
  /\ Cardinality(teams) >= 2
  /\ \/ /\ r = 1
        /\ matches # {} => replace
     \/ /\ r > 1
        /\ ~replace
        /\ \E m \in matches : m.round = Rounds
        /\ Before(r) # {}
        /\ Played(Before(r))
        /\ PlacesMatch(r, teams)
  /\ \E P \in PairingsOf(teams, IF replace THEN {} ELSE PriorPairs) :
       draw' = [draw EXCEPT ![q] =
         [round    |-> r,
          replace  |-> replace,
          teams    |-> teams,
          existing |-> Ids(matches),
          previous |-> Ids(Before(r)),
          places   |-> IF r = 1 THEN {}
                       ELSE Ids({m \in InRound(r) : m.status = "cancelled"}),
          pairs    |-> P]]
  /\ UNCHANGED <<version, teams, matches, nextId>>

(* The request ends without writing: no pairing exists, the budget or the  *)
(* time is exhausted, the permission was revoked, the state has changed or *)
(* the process died.                                                       *)
Abandon(q) ==
  /\ draw[q] # Idle
  /\ draw' = [draw EXCEPT ![q] = Idle]
  /\ UNCHANGED <<version, teams, matches, nextId>>

-----------------------------------------------------------------------------
(* Second transaction: lock, check again and write.                        *)

(* Mutant: the second transaction trusts what the first one read.          *)
Unchanged_Trusted(d) == d # Idle

(* _revalidate_swiss_draw_state.                                           *)
Unchanged(d) ==
  IF d.round = 1
  THEN Ids(matches) = d.existing
  ELSE /\ Ids(Before(d.round)) = d.previous
       /\ Played(Before(d.round))
       /\ Ids(InRound(d.round)) = d.places
       /\ \A m \in InRound(d.round) : m.status = "cancelled"

(* validate_match_stage_teams, a trigger of the database.                  *)
TriggerAccepts(T) == version = "draft" => T \subseteq teams

(* The UPDATE of the places of the round, one pair for each place; zip     *)
(* stops at the shorter of the two.                                        *)
Zips(places, pairs) ==
  {Z \in SUBSET (places \X pairs) :
     /\ \A x, y \in Z : x # y => x[1] # y[1] /\ x[2] # y[2]
     /\ \/ {x[1] : x \in Z} = places
        \/ {x[2] : x \in Z} = pairs}

Refill(m, Z) ==
  {[id |-> m.id, round |-> m.round, status |-> "scheduled", teams |-> z[2]] :
     z \in {y \in Z : y[1] = m.id}}

Filled(ms, Z) ==
  {m \in ms : Refill(m, Z) = {}} \cup UNION {Refill(m, Z) : m \in ms}

(* The placeholders of every round, which the draw of round 1 inserts.     *)
Placeholders(n) ==
  {[id |-> nextId + (r - 1) * n + k, round |-> r, status |-> "cancelled", teams |-> {}] :
     r \in 1..Rounds, k \in 0..(n - 1)}

Write(q) ==
  LET d == draw[q]
      n == Cardinality(d.pairs)
      kept == IF d.replace THEN {} ELSE matches
      new == Placeholders(n)
  IN  /\ d # Idle
      /\ Drawable(d.round)
      /\ Unchanged(d)
      /\ d.replace => \A m \in matches : m.status \in {"scheduled", "cancelled"}
      /\ TriggerAccepts(UNION d.pairs)
      /\ \/ /\ d.round = 1
            /\ nextId + Rounds * n <= MaxId + 1
            /\ \E Z \in Zips(Ids({m \in new : m.round = 1}), d.pairs) :
                 matches' = Filled(kept \cup new, Z)
            /\ nextId' = nextId + Rounds * n
         \/ /\ d.round > 1
            /\ \E Z \in Zips(d.places, d.pairs) : matches' = Filled(matches, Z)
            /\ UNCHANGED nextId
      /\ draw' = [draw EXCEPT ![q] = Idle]
      /\ UNCHANGED <<version, teams>>

-----------------------------------------------------------------------------
(* The other requests.  Each is one transaction under the locks of the     *)
(* stage and the version, or under the lock of the version alone.          *)

(* assign_stage_teams: a batch; the teams already assigned are left alone. *)
Assign(batch) ==
  /\ version = "draft"
  /\ batch \ teams # {}
  /\ teams' = teams \cup batch
  /\ UNCHANGED <<version, matches, nextId, draw>>

(* remove_stage_team: no match of the stage may have the team.             *)
HasMatch(t) == \E m \in matches : t \in m.teams

Remove(t) ==
  /\ version = "draft"
  /\ t \in teams
  /\ ~HasMatch(t)
  /\ teams' = teams \ {t}
  /\ UNCHANGED <<version, matches, nextId, draw>>

(* create_match: two teams of the stage that have not met, or a match with *)
(* a side, or both, still to be known.                                     *)
CreateMatch(sides) ==
  /\ version = "draft"
  /\ sides \subseteq teams
  /\ Cardinality(sides) <= 2
  /\ sides \notin PriorPairs
  /\ nextId <= MaxId
  /\ Cardinality(InRound(0)) < MaxByHand
  /\ matches' = matches \cup
       {[id |-> nextId, round |-> 0, status |-> "scheduled", teams |-> sides]}
  /\ nextId' = nextId + 1
  /\ UNCHANGED <<version, teams, draw>>

(* publish_version.                                                        *)
Publish ==
  /\ version = "draft"
  /\ Cardinality(teams) >= 2
  /\ matches # {}
  /\ version' = "published"
  /\ UNCHANGED <<teams, matches, nextId, draw>>

(* publish_version of another version of the tournament.                   *)
Archive ==
  /\ version = "published"
  /\ version' = "archived"
  /\ UNCHANGED <<teams, matches, nextId, draw>>

(* close_match_report and the walkover: the match gets its result.         *)
Play(m) ==
  /\ version = "published"
  /\ m.status = "scheduled"
  /\ Cardinality(m.teams) = 2
  /\ matches' = (matches \ {m}) \cup {[m EXCEPT !.status = "finished"]}
  /\ UNCHANGED <<version, teams, nextId, draw>>

-----------------------------------------------------------------------------
Init ==
  /\ version = "draft"
  /\ teams = {}
  /\ matches = {}
  /\ nextId = 0
  /\ draw = [q \in Request |-> Idle]

Next ==
  \/ \E q \in Request, r \in 1..Rounds, replace \in BOOLEAN : Read(q, r, replace)
  \/ \E q \in Request : Write(q) \/ Abandon(q)
  \/ \E batch \in SUBSET Team : Assign(batch)
  \/ \E t \in Team : Remove(t)
  \/ \E sides \in SUBSET teams : CreateMatch(sides)
  \/ Publish
  \/ Archive
  \/ \E m \in matches : Play(m)

Spec == Init /\ [][Next]_vars

-----------------------------------------------------------------------------
(* Properties.                                                             *)

(* Types.  A match keeps one row: its identifier names it alone.           *)
TypeOK ==
  /\ version \in {"draft", "published", "archived"}
  /\ teams \subseteq Team
  /\ matches \subseteq Match
  /\ \A a, b \in matches : a.id = b.id => a = b
  /\ nextId \in 0..(MaxId + 1)
  /\ \A m \in matches : m.id < nextId
  /\ \A q \in Request :
       /\ draw[q].round \in 0..Rounds
       /\ draw[q].pairs \subseteq Pairs(draw[q].teams)

(* No pair of teams meets twice in the stage, whether the match was drawn  *)
(* or added by hand and whatever ran while the pairings were computed: the *)
(* rule the search keeps (prior_pairs) holds of what is written.           *)
NoRematch ==
  \A a, b \in Meetings : a # b => a.teams # b.teams

(* A team plays at most one match of a round.                              *)
OnceARound ==
  \A a, b \in matches :
    a # b /\ a.round = b.round /\ a.round > 0 => a.teams \cap b.teams = {}

(* A round is drawn when every match of the rounds before it is finished,  *)
(* and stays so: the pairings of a round rest on results that are there.   *)
RoundsInOrder ==
  \A m \in matches, n \in matches :
    m.status # "cancelled" /\ n.round \in 1..(m.round - 1) => n.status = "finished"

(* After the first round, a round that is drawn leaves at most one team of *)
(* the stage without a match: no team drops out because the placeholders   *)
(* are fewer than the pairs.                                               *)
LaterRoundsComplete ==
  \A r \in 2..Rounds :
    (\E m \in InRound(r) : m.status # "cancelled")
      => Cardinality(teams \ UNION {m.teams : m \in InRound(r)}) <= 1

(* Every team of a match is a team of the stage, although stage_teams      *)
(* changes between the two transactions of a draw.                         *)
TeamsOfTheStage ==
  \A m \in matches : m.teams \subseteq teams

(* The five together, of everything that has been drawn so far.            *)
PairingsHold ==
  NoRematch /\ OnceARound /\ RoundsInOrder /\ LaterRoundsComplete /\ TeamsOfTheStage

(* Once published, the schedule only grows: a match that has its teams     *)
(* keeps them and is never deleted, so a draw that was calculated before   *)
(* the publication cannot replace what was published.                      *)
PublishedStays ==
  [][version # "draft" =>
       \A m \in matches : m.teams # {} =>
         \E n \in matches' : n.id = m.id /\ n.teams = m.teams]_vars
=============================================================================
