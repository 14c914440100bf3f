---------------------------- MODULE Suspensions ----------------------------
(***************************************************************************)
(* The suspensions of players across the tournaments of one organization.  *)
(*                                                                         *)
(* Closing a match refuses a squad with a suspended player, reads the      *)
(* disciplinary history, lets the players who are not in the squad serve   *)
(* one match of their suspensions, marks the suspensions that have been    *)
(* served in full and inserts those that the cards of the match bring.     *)
(*                                                                         *)
(* A close is one transaction (READ COMMITTED): each of its statements     *)
(* sees what has been committed before it, and its own writes.  It holds   *)
(* the version of its tournament to the end, so two closes of one          *)
(* tournament never overlap; closes of two tournaments do, and the players *)
(* and their suspensions belong to the organization.  The advisory lock of *)
(* each player names the tournament and adds nothing to the version's.     *)
(*                                                                         *)
(* A closed match keeps its squad and its cards for ever.  Only the        *)
(* players that are followed are modelled: the others are never booked and *)
(* complete the squads.  Registrations do not change.                      *)
(***************************************************************************)
EXTENDS Integers, FiniteSets, Sequences, SequencesExt

CONSTANTS
  Player,          \* players that are followed, of one organization
  Match,           \* matches of published versions
  Tournament,
  TournamentOf,    \* tournament of a match
  StageOf,         \* stage of a match
  Registered,      \* active registrations of the two teams of a match
  CardSeqs,        \* cards a player may get in a match, in canonical order
  MaxCards,        \* bound: cards a player may get in a match
  YellowLimit,     \* yellow_card_limit
  YellowMatches,   \* yellow_card_suspension_matches
  RedMatches,      \* direct_red_suspension_matches
  ClearOnStage     \* tournaments with clear_yellows_on_stage_change

Card == {"yellow", "direct_red_card", "double_yellow_red"}

(* Who has been sent off is given no other red card.                       *)
ASSUME SuspensionsAssumption ==
  /\ IsFiniteSet(Player) /\ IsFiniteSet(Match)
  /\ TournamentOf \in [Match -> Tournament]
  /\ DOMAIN StageOf = Match
  /\ Registered \in [Match -> SUBSET Player]
  /\ CardSeqs \subseteq Seq(Card) /\ <<>> \in CardSeqs /\ MaxCards \in Nat
  /\ \A c \in CardSeqs :
       /\ Len(c) <= MaxCards
       /\ \A i, j \in DOMAIN c : "yellow" \notin {c[i], c[j]} => i = j
  /\ {YellowLimit, YellowMatches, RedMatches} \subseteq Nat \ {0}
  /\ ClearOnStage \subseteq Tournament

VARIABLES
  closed,       \* matches closed, in the order in which they committed
  walkovers,    \* those that were closed without being played
  squad,        \* match_rosters of a match, fixed while it is being closed
  cards,        \* its card events: what each player of the squad got
  sanctions,    \* player_suspensions, by the event they come from
  served,       \* those with status 'served'; the others are 'active'
  serves,       \* player_suspension_serves: <<suspension, match>>
  pc,           \* next statement of the close of a match
  write         \* what that close has written and not committed

vars == <<closed, walkovers, squad, cards, sanctions, served, serves, pc, write>>

(* An event is <<player, match, index>>; a card brings one suspension at   *)
(* most, and its event is the key of it.                                   *)
Event == {<<p, m, i>> : p \in Player, m \in Match, i \in 1..MaxCards}

CardOf(s) == cards[s[2]][s[1]][s[3]]
Duration(s) == IF CardOf(s) = "yellow" THEN YellowMatches ELSE RedMatches

Nothing == [new |-> {}, serves |-> {}, served |-> {}]
NoCards == [p \in Player |-> <<>>]

Played == ToSet(closed) \ walkovers

-----------------------------------------------------------------------------
(* evaluate_suspensions: what the cards of a match bring.                  *)

InScope(m) == {k \in Played : /\ TournamentOf[k] = TournamentOf[m]
                              /\ TournamentOf[m] \in ClearOnStage =>
                                   StageOf[k] = StageOf[m]}

CardEvents(m) == {e \in Event : /\ e[2] = m
                                /\ e[3] \in DOMAIN cards[m][e[1]]}

Yellows(p, ms) == {e \in UNION {CardEvents(m) : m \in ms} :
                     e[1] = p /\ CardOf(e) = "yellow"}

(* The yellow card e is one more multiple of the limit.                    *)
Crosses(e) ==
  LET before == Yellows(e[1], InScope(e[2]))
      here   == {f \in Yellows(e[1], {e[2]}) : f[3] <= e[3]}
  IN  (Cardinality(before) + Cardinality(here)) % YellowLimit = 0

SentOffForYellows(p, m) == "double_yellow_red" \in ToSet(cards[m][p])

Derived(m) ==
  {e \in CardEvents(m) :
     CardOf(e) = "yellow" => Crosses(e) /\ ~SentOffForYellows(e[1], m)}

-----------------------------------------------------------------------------
(* The statements of a close.                                              *)

(* Mutant: the version is not held while a match is being closed.          *)
VersionFree_Always(m) == m \in Match

VersionFree(m) ==
  \A k \in Match : pc[k] # "idle" => TournamentOf[k] # TournamentOf[m]

Opens(m) == /\ m \notin ToSet(closed)
            /\ pc[m] = "idle"
            /\ VersionFree(m)

(* The report arrives: S is the squad the lineups left, c the cards.       *)
Begin(m) ==
  /\ Opens(m)
  /\ \E S \in SUBSET Registered[m] :
       \E c \in [S -> CardSeqs] :
         /\ squad' = [squad EXCEPT ![m] = S]
         /\ cards' = [cards EXCEPT ![m] =
              [p \in Player |-> IF p \in S THEN c[p] ELSE <<>>]]
  /\ pc' = [pc EXCEPT ![m] = "validate"]
  /\ UNCHANGED <<closed, walkovers, sanctions, served, serves, write>>

RolledBack(m) ==
  /\ pc' = [pc EXCEPT ![m] = "idle"]
  /\ squad' = [squad EXCEPT ![m] = {}]
  /\ cards' = [cards EXCEPT ![m] = NoCards]
  /\ write' = [write EXCEPT ![m] = Nothing]
  /\ UNCHANGED <<closed, walkovers, sanctions, served, serves>>

ServesOf(s, written) == {x \in written : x[1] = s}

(* Mutant: a player may play as soon as he has served once.                *)
Pending_Once(s) ==
  s \in sanctions \ served /\ ServesOf(s, serves) = {}

(* The suspension s is active and has matches left.                        *)
Pending(s) ==
  /\ s \in sanctions \ served
  /\ Cardinality(ServesOf(s, serves)) < Duration(s)

Validate(m) ==
  /\ pc[m] = "validate"
  /\ IF \E s \in sanctions : s[1] \in squad[m] /\ Pending(s)
     THEN RolledBack(m)
     ELSE /\ pc' = [pc EXCEPT ![m] = "serve"]
          /\ UNCHANGED <<closed, walkovers, squad, cards, sanctions, served,
                         serves, write>>

(* Every player of the two teams who is not in the squad serves a match of *)
(* each of his active suspensions.                                         *)
Serve(m) ==
  /\ pc[m] = "serve"
  /\ write' = [write EXCEPT ![m] =
       [new    |-> Derived(m),
        serves |-> {s \in sanctions \ served :
                      s[1] \in Registered[m] \ squad[m]} \X {m},
        served |-> {}]]
  /\ pc' = [pc EXCEPT ![m] = "mark"]
  /\ UNCHANGED <<closed, walkovers, squad, cards, sanctions, served, serves>>

Complete(s, m) ==
  Cardinality(ServesOf(s, serves \cup write[m].serves)) >= Duration(s)

(* The update of every complete suspension of the organization waits for   *)
(* the rows another close has updated; once that one commits they are no   *)
(* longer active and are left alone.                                       *)
Mark(m) ==
  /\ pc[m] = "mark"
  /\ LET rows == {s \in sanctions \ served : Complete(s, m)}
     IN  /\ \A k \in Match \ {m} : rows \cap write[k].served = {}
         /\ write' = [write EXCEPT ![m].served = rows]
  /\ pc' = [pc EXCEPT ![m] = "commit"]
  /\ UNCHANGED <<closed, walkovers, squad, cards, sanctions, served, serves>>

Commit(m) ==
  /\ pc[m] = "commit"
  /\ closed' = Append(closed, m)
  /\ sanctions' = sanctions \cup write[m].new
  /\ serves' = serves \cup write[m].serves
  /\ served' = served \cup write[m].served
  /\ pc' = [pc EXCEPT ![m] = "idle"]
  /\ write' = [write EXCEPT ![m] = Nothing]
  /\ UNCHANGED <<walkovers, squad, cards>>

(* Any failure rolls the transaction back: a validation that is not        *)
(* modelled, the database or the process.                                  *)
Abort(m) == pc[m] # "idle" /\ RolledBack(m)

(* Mutant: a walkover leaves the match open.                               *)
Walkover_Open(m) ==
  /\ Opens(m)
  /\ walkovers' = walkovers \cup {m}
  /\ UNCHANGED <<closed, squad, cards, sanctions, served, serves, pc, write>>

(* A walkover is one step: it reads and writes nothing of the suspensions. *)
Walkover(m) ==
  /\ Opens(m)
  /\ closed' = Append(closed, m)
  /\ walkovers' = walkovers \cup {m}
  /\ UNCHANGED <<squad, cards, sanctions, served, serves, pc, write>>

Init ==
  /\ closed = <<>> /\ walkovers = {}
  /\ squad = [m \in Match |-> {}]
  /\ cards = [m \in Match |-> NoCards]
  /\ sanctions = {} /\ served = {} /\ serves = {}
  /\ pc = [m \in Match |-> "idle"]
  /\ write = [m \in Match |-> Nothing]

Next == \E m \in Match :
          \/ Begin(m) \/ Validate(m) \/ Serve(m) \/ Mark(m) \/ Commit(m)
          \/ Abort(m) \/ Walkover(m)

Spec == Init /\ [][Next]_vars

-----------------------------------------------------------------------------
TypeOK ==
  /\ closed \in Seq(Match) /\ walkovers \subseteq ToSet(closed)
  /\ squad \in [Match -> SUBSET Player]
  /\ cards \in [Match -> [Player -> CardSeqs]]
  /\ sanctions \subseteq Event
  /\ served \subseteq sanctions
  /\ serves \subseteq sanctions \X Match
  /\ pc \in [Match -> {"idle", "validate", "serve", "mark", "commit"}]
  /\ write \in [Match -> [new : SUBSET Event, serves : SUBSET (Event \X Match),
                          served : SUBSET Event]]

(* Nobody plays while suspended: when a match is closed with a squad, none *)
(* of its players has a suspension pending that comes from the same        *)
(* tournament, although the squad was validated some statements earlier.   *)
(* A suspension that another tournament brings in the meantime is as if it *)
(* came after the match.                                                   *)
NoSuspendedPlays ==
  [][\A m \in Match, s \in sanctions :
       /\ m \notin ToSet(closed) /\ m \in Played'
       /\ s[1] \in squad[m] /\ TournamentOf[s[2]] = TournamentOf[m]
       /\ s \notin served
       => Cardinality({x \in serves : x[1] = s}) >= Duration(s)]_vars

(* Whatever closes overlap, no multiple of the limit is missed or counted  *)
(* twice: the suspensions for accumulation of a player are as many as the  *)
(* multiples his yellow cards have passed, and a dismissal for two yellow  *)
(* cards is one suspension, of the dismissal, and nothing else.            *)
ThresholdsHonoured ==
  \A p \in Player, m \in Played :
    LET own(ms) == {s \in sanctions : s[1] = p /\ s[2] \in ms}
    IN  IF \E k \in InScope(m) : SentOffForYellows(p, k)
        THEN SentOffForYellows(p, m) =>
               {CardOf(s) : s \in own({m})} = {"double_yellow_red"}
        ELSE Cardinality({s \in own(InScope(m)) : CardOf(s) = "yellow"})
               = Cardinality(Yellows(p, InScope(m))) \div YellowLimit

(* A suspension marked as served has kept its player out of as many played *)
(* matches, closed after the one it comes from, as it lasts.               *)
NeverCutShort ==
  \A s \in served :
    LET after(m) == \E i, j \in DOMAIN closed :
                      i < j /\ closed[i] = s[2] /\ closed[j] = m
    IN  Duration(s) <= Cardinality({m \in Played :
          after(m) /\ s[1] \in Registered[m] \ squad[m]})

(* Both: no suspension is missing, and none ends too early.                *)
SuspensionsInOrder == ThresholdsHonoured /\ NeverCutShort

(* No player serves more matches than his suspension lasts.                *)
ServedExactly ==
  \A s \in sanctions : Cardinality({x \in serves : x[1] = s}) <= Duration(s)
=============================================================================
