---------------------------- MODULE MatchDayProofs ----------------------------
(***************************************************************************)
(* What happens around a match: suspensions for any number of players,     *)
(* matches, tournaments and cards; the registration of players and the     *)
(* objects of their photos and of the crests, for any number of requests,  *)
(* documents, dorsals, imports and uploads; and what the modules of a      *)
(* match day promise together.                                             *)
(*                                                                         *)
(* What carries the suspensions is what a close still knows between two of *)
(* its statements while other tournaments commit: that its squad is clear  *)
(* (SquadIsClear), that what it is about to insert is still what the cards *)
(* of its scope derive (WritesAreDerived), and that no other close of its  *)
(* tournament is under way (OneClose).                                     *)
(*                                                                         *)
(* The suspensions for accumulation are counted by MultiplesReached: going *)
(* through the yellow cards of a match one by one, as many of them reach a *)
(* multiple of the limit as there are multiples between the totals before  *)
(* and after it.                                                           *)
(*                                                                         *)
(* Rosters.  That no document and no dorsal is active twice rests on what  *)
(* the unique indexes and the waiting do together: over the tables and all *)
(* the transactions that have not ended, a document has one player         *)
(* (PlayersOnce) and no two rows collide (NoneCollide).                    *)
(*                                                                         *)
(* Media.  What the rows say of the objects rests on who may still refer   *)
(* to a key: a key is written once, by the request that uploaded it        *)
(* (WrittenOnce), it is never both a photo and a crest (KindOfKeys), and   *)
(* the old key a request is about to delete is nobody's (DropsAreLoose).   *)
(***************************************************************************)
EXTENDS MCMatchDay, MatchProofs

-----------------------------------------------------------------------------
(* Counting multiples.                                                     *)

\* A nonempty set of numbers has a least element.
LEMMA LeastExists ==
  ASSUME NEW S \in SUBSET Nat, S # {}
  PROVE  \E n \in S : \A m \in S : n <= m
<1> DEFINE R == OpToRel(<, Nat)
<1>1. IsWellFoundedOn(R, Nat)
  BY NatLessThanWellFounded
<1>2. \A m, n \in Nat : m < n => <<m, n>> \in R
  BY DEF OpToRel
<1> HIDE DEF R
<1>3. PICK n \in S : \A m \in S : <<m, n>> \notin R
  BY <1>1, WFMin
<1>4. ASSUME NEW m \in S PROVE n <= m
  <2>1. m \in Nat /\ n \in Nat /\ ~(m < n)
    BY <1>2, <1>3
  <2> QED BY <2>1
<1> QED BY <1>4

LEMMA MoreMultiples ==
  ASSUME NEW L \in Nat \ {0}, NEW p \in Nat, NEW q \in Nat, p < q
  PROVE  L * p + L <= L * q
<1> DEFINE d == q - p - 1
<1>1. d \in Nat /\ q = p + 1 + d
  OBVIOUS
<1> HIDE DEF d
<1>2. L * q = L * p + L + L * d
  BY <1>1
<1>3. L * d \in Nat /\ L * p \in Nat
  BY <1>1
<1> QED BY <1>2, <1>3

LEMMA QuotientIs ==
  ASSUME NEW L \in Nat \ {0}, NEW x \in Nat, NEW q \in Nat, NEW r \in 0..(L - 1),
         x = L * q + r
  PROVE  x \div L = q /\ x % L = r
<1> DEFINE c == x \div L
           d == x % L
<1>1. c \in Nat /\ d \in 0..(L - 1) /\ x = L * c + d
  OBVIOUS
<1> HIDE DEF c, d
<1>2. L * c \in Nat /\ L * q \in Nat
  BY <1>1
<1>3. ~(c < q) /\ ~(q < c)
  BY <1>1, <1>2, MoreMultiples
<1>4. c = q
  BY <1>1, <1>3
<1>5. d = r
  BY <1>1, <1>2, <1>4
<1> QED BY <1>4, <1>5 DEF c, d

\* One more card crosses a multiple of the limit or does not.
LEMMA OneMore ==
  ASSUME NEW x \in Nat, NEW L \in Nat \ {0}
  PROVE  (x + 1) \div L = x \div L + IF (x + 1) % L = 0 THEN 1 ELSE 0
<1> DEFINE q == x \div L
           r == x % L
<1>1. q \in Nat /\ r \in 0..(L - 1) /\ x = L * q + r
  OBVIOUS
<1>2. CASE r = L - 1
  <2>1. x + 1 = L * (q + 1) + 0 /\ q + 1 \in Nat /\ 0 \in 0..(L - 1)
    BY <1>1, <1>2
  <2>2. (x + 1) \div L = q + 1 /\ (x + 1) % L = 0
    <3> HIDE DEF q
    <3> QED BY <2>1, QuotientIs
  <2> QED BY <2>2
<1>3. CASE r # L - 1
  <2>1. x + 1 = L * q + (r + 1) /\ r + 1 \in 0..(L - 1) /\ r + 1 # 0
    BY <1>1, <1>3
  <2>2. (x + 1) \div L = q /\ (x + 1) % L = r + 1
    <3> HIDE DEF q, r
    <3> QED BY <1>1, <2>1, QuotientIs
  <2> QED BY <1>1, <2>1, <2>2
<1> QED BY <1>1, <1>2, <1>3

\* Counting the elements of Y in the order of their third part, as many of them reach a
\* multiple of L as there are multiples of L between B and B + |Y|.
LEMMA MultiplesReached ==
  ASSUME NEW L \in Nat \ {0}, NEW B \in Nat, NEW n \in Nat, NEW Y, IsFiniteSet(Y),
         \A e \in Y : e[3] \in 1..n,
         \A e, f \in Y : e[3] = f[3] => e = f
  PROVE  B \div L
           + Cardinality({e \in Y : (B + Cardinality({f \in Y : f[3] <= e[3]})) % L = 0})
           = (B + Cardinality(Y)) \div L
<1> DEFINE Upto(k) == {f \in Y : f[3] <= k}
           Reached == {e \in Y : (B + Cardinality(Upto(e[3]))) % L = 0}
           ReachedUpto(k) == {e \in Reached : e[3] <= k}
           P(k) == B \div L + Cardinality(ReachedUpto(k))
                     = (B + Cardinality(Upto(k))) \div L
           Wrong == {k \in 0..n : ~P(k)}
<1>1. ASSUME NEW k
      PROVE  /\ IsFiniteSet(Upto(k)) /\ Cardinality(Upto(k)) \in Nat
             /\ IsFiniteSet(ReachedUpto(k)) /\ Cardinality(ReachedUpto(k)) \in Nat
  <2>1. Upto(k) \in SUBSET Y /\ ReachedUpto(k) \in SUBSET Y
    OBVIOUS
  <2> HIDE DEF Upto, ReachedUpto
  <2> QED BY <2>1, FS_Subset, FS_CardinalityType
<1>2. P(0)
  <2>1. Upto(0) = {} /\ ReachedUpto(0) = {}
    OBVIOUS
  <2>2. Cardinality(Upto(0)) = 0 /\ Cardinality(ReachedUpto(0)) = 0
    <3> HIDE DEF Upto, ReachedUpto
    <3> QED BY <2>1, FS_EmptySet
  <2> HIDE DEF Upto, ReachedUpto
  <2> QED BY <2>2
<1>3. ASSUME NEW k \in 0..n, k + 1 \in 0..n, P(k) PROVE P(k + 1)
  <2>0. PICK u \in Nat, v \in Nat :
          u = Cardinality(Upto(k)) /\ v = Cardinality(ReachedUpto(k))
    <3> HIDE DEF Upto, ReachedUpto
    <3> QED BY <1>1
  <2>1. CASE \E e \in Y : e[3] = k + 1
    <3>1. PICK e \in Y : e[3] = k + 1
      BY <2>1
    <3>2. \A f \in Y : f[3] \in Nat /\ (f[3] <= k + 1 <=> f[3] <= k \/ f = e)
      BY <1>3, <3>1
    <3>3. Upto(k + 1) = Upto(k) \cup {e} /\ e \notin Upto(k)
      BY <1>3, <3>1, <3>2
    <3>4. Cardinality(Upto(k + 1)) = u + 1
      <4> HIDE DEF Upto, ReachedUpto
      <4> QED BY <1>1, <2>0, <3>3, FS_AddElement
    <3>5. e \in Reached <=> (B + (u + 1)) % L = 0
      BY <3>1, <3>4
    <3>6. Cardinality(ReachedUpto(k + 1)) = v + IF e \in Reached THEN 1 ELSE 0
      <4>1. CASE e \in Reached
        <5>1. ReachedUpto(k + 1) = ReachedUpto(k) \cup {e} /\ e \notin ReachedUpto(k)
          BY <3>2, <3>3, <4>1
        <5> HIDE DEF Upto, ReachedUpto, Reached
        <5> QED BY <1>1, <2>0, <4>1, <5>1, FS_AddElement
      <4>2. CASE e \notin Reached
        <5>1. ReachedUpto(k + 1) = ReachedUpto(k)
          BY <3>2, <4>2
        <5> HIDE DEF Upto, ReachedUpto, Reached
        <5> QED BY <2>0, <4>2, <5>1
      <4> QED BY <4>1, <4>2
    <3>7. B + u \in Nat /\ B + (u + 1) = (B + u) + 1
      OBVIOUS
    <3>8. B \div L + v = (B + u) \div L
      BY <1>3, <2>0
    <3>9. (B + (u + 1)) \div L
            = (B + u) \div L + IF (B + (u + 1)) % L = 0 THEN 1 ELSE 0
      BY <3>7, OneMore
    <3>10. B \div L \in Int /\ (B + u) \div L \in Int
      BY <3>7
    <3> HIDE DEF Upto, ReachedUpto, Reached
    <3> QED BY <3>4, <3>5, <3>6, <3>8, <3>9, <3>10
  <2>2. CASE ~\E e \in Y : e[3] = k + 1
    <3>1. \A f \in Y : f[3] <= k + 1 <=> f[3] <= k
      BY <1>3, <2>2
    <3>2. Upto(k + 1) = Upto(k) /\ ReachedUpto(k + 1) = ReachedUpto(k)
      BY <3>1
    <3> QED BY <1>3, <3>2
  <2> QED BY <2>1, <2>2
<1>4. P(n)
  <2>1. CASE Wrong # {}
    <3> HIDE DEF P
    <3>0. Wrong \in SUBSET Nat
      OBVIOUS
    <3>1. PICK k \in Wrong : \A j \in Wrong : k <= j
      <4> HIDE DEF Wrong
      <4> QED BY <2>1, <3>0, LeastExists
    <3>2. k # 0 /\ k - 1 \in 0..n /\ k - 1 \notin Wrong
      BY <1>2, <3>1
    <3>3. P(k - 1) /\ (k - 1) + 1 = k
      BY <3>1, <3>2
    <3>4. P((k - 1) + 1)
      BY <1>3, <3>1, <3>2, <3>3
    <3> QED BY <3>1, <3>3, <3>4
  <2>2. CASE Wrong = {}
    <3> HIDE DEF P
    <3> QED BY <2>2
  <2> QED BY <2>1, <2>2
<1>5. Upto(n) = Y /\ ReachedUpto(n) = Reached
  OBVIOUS
<1> QED BY <1>4, <1>5
-----------------------------------------------------------------------------
(* The inductive invariant.                                                *)

Closing == {"serve", "mark", "commit"}

(* The version lets one match of a tournament be closed at a time.         *)
OneClose ==
  \A m \in Match :
    /\ pc[m] # "idle" => m \notin ToSet(closed)
    /\ \A k \in Match : k # m /\ pc[m] # "idle" /\ pc[k] # "idle" =>
                          TournamentOf[k] # TournamentOf[m]

(* What the validation has found stays so to the commit.                   *)
SquadIsClear ==
  \A m \in Match : pc[m] \in Closing =>
    \A s \in sanctions :
      s[1] \in squad[m] /\ TournamentOf[s[2]] = TournamentOf[m] /\ s \notin served =>
        Cardinality(ServesOf(s, serves)) >= Duration(s)

(* What is about to be committed is what the state derives, still.         *)
WritesAreDerived ==
  \A m \in Match :
    /\ pc[m] \in {"mark", "commit"} =>
         /\ write[m].new = Derived(m)
         /\ \A x \in write[m].serves :
              /\ x[1] \in sanctions /\ x[2] = m /\ x[1][1] \in Registered[m] \ squad[m]
    /\ pc[m] = "commit" =>
         \A s \in write[m].served : s \in sanctions /\ Complete(s, m)

SanctionsOfPlayed == \A s \in sanctions : s[2] \in Played

ServesOfPlayed ==
  \A x \in serves :
    /\ x[2] \in Played /\ x[1][1] \in Registered[x[2]] \ squad[x[2]]
    /\ \E i, j \in DOMAIN closed : i < j /\ closed[i] = x[1][2] /\ closed[j] = x[2]

ServedInFull == \A s \in served : Cardinality(ServesOf(s, serves)) >= Duration(s)

SuspensionsInv ==
  /\ TypeOK
  /\ OneClose /\ SquadIsClear /\ WritesAreDerived
  /\ SanctionsOfPlayed /\ ServesOfPlayed /\ ServedInFull
  /\ ThresholdsHonoured

-----------------------------------------------------------------------------
(* Lemmas about events, cards and serves.                                  *)

LEMMA EventParts ==
  \A e \in Event : /\ e[1] \in Player /\ e[2] \in Match /\ e[3] \in 1..MaxCards
                   /\ e = <<e[1], e[2], e[3]>>
BY DEF Event

LEMMA EventsAreFinite == IsFiniteSet(Event)
<1> DEFINE I == 1..MaxCards
           T == (Player \X Match) \X I
           f == [e \in Event |-> <<<<e[1], e[2]>>, e[3]>>]
<1>1. IsFiniteSet(I)
  BY FS_Interval, SuspensionsAssumption
<1>2. IsFiniteSet(Player \X Match)
  BY FS_Product, SuspensionsAssumption
<1>3. IsFiniteSet(T)
  <2> HIDE DEF I
  <2> QED BY <1>1, <1>2, FS_Product
<1>4. f \in [Event -> T]
  BY EventParts
<1>5. \A e, g \in Event : f[e] = f[g] => e = g
  BY EventParts
<1>6. f \in Injection(Event, T)
  <2> HIDE DEF f, T
  <2> QED BY <1>4, <1>5 DEF Injection, IsInjective
<1> QED BY <1>3, <1>6, FS_Injection

LEMMA ServesAreFinite ==
  ASSUME NEW S \in SUBSET (Event \X Match), NEW s
  PROVE  /\ IsFiniteSet(ServesOf(s, S)) /\ Cardinality(ServesOf(s, S)) \in Nat
<1>1. IsFiniteSet(Event \X Match)
  BY EventsAreFinite, FS_Product, SuspensionsAssumption
<1>2. ServesOf(s, S) \in SUBSET (Event \X Match)
  BY DEF ServesOf
<1> QED BY <1>1, <1>2, FS_Subset, FS_CardinalityType

LEMMA MoreServes ==
  ASSUME NEW T \in SUBSET (Event \X Match), NEW S \in SUBSET T, NEW s
  PROVE  Cardinality(ServesOf(s, S)) <= Cardinality(ServesOf(s, T))
<1>1. IsFiniteSet(ServesOf(s, T)) /\ ServesOf(s, S) \in SUBSET ServesOf(s, T)
  BY ServesAreFinite DEF ServesOf
<1> QED BY <1>1, FS_Subset

LEMMA DurationInNat == \A s : Duration(s) \in Nat
BY SuspensionsAssumption DEF Duration

LEMMA TypedServes ==
  ASSUME TypeOK
  PROVE  /\ served \subseteq Event /\ serves \subseteq Event \X Match
         /\ \A m \in Match : write[m].serves \subseteq Event \X Match
BY DEF TypeOK

LEMMA ClosedAppended ==
  ASSUME TypeOK, NEW m \in Match, m \notin ToSet(closed), closed' = Append(closed, m)
  PROVE  /\ closed' \in Seq(Match) /\ ToSet(closed') = ToSet(closed) \cup {m}
         /\ Len(closed) \in Nat /\ DOMAIN closed = 1..Len(closed)
         /\ DOMAIN closed' = 1..(Len(closed) + 1)
         /\ closed'[Len(closed) + 1] = m
         /\ \A i \in 1..Len(closed) : closed'[i] = closed[i]
<1>1. closed \in Seq(Match)
  BY DEF TypeOK
<1>2. /\ closed' \in Seq(Match) /\ Len(closed') = Len(closed) + 1
      /\ Len(closed) \in Nat /\ DOMAIN closed = 1..Len(closed)
      /\ closed'[Len(closed) + 1] = m
      /\ \A i \in 1..Len(closed) : closed'[i] = closed[i]
  BY <1>1
<1>3. DOMAIN closed' = 1..(Len(closed) + 1)
  BY <1>2
<1>4. ToSet(closed') = ToSet(closed) \cup {m}
  BY <1>2, <1>3 DEF ToSet
<1> QED BY <1>2, <1>3, <1>4

\* The cards of a match that does not change are the same events.
LEMMA SameCards ==
  ASSUME NEW k, cards'[k] = cards[k]
  PROVE  /\ CardEvents(k)' = CardEvents(k)
         /\ \A p : SentOffForYellows(p, k)' <=> SentOffForYellows(p, k)
         /\ \A e : e[2] = k => CardOf(e)' = CardOf(e) /\ Duration(e)' = Duration(e)
BY DEF CardEvents, SentOffForYellows, CardOf, Duration

LEMMA YellowsAre ==
  \A p, ms : Yellows(p, ms) =
    {e \in Event : /\ e[1] = p /\ e[2] \in ms /\ e[3] \in DOMAIN cards[e[2]][e[1]]
                   /\ CardOf(e) = "yellow"}
BY DEF Yellows, CardEvents

LEMMA SameYellows ==
  ASSUME NEW ms, \A k \in ms : cards'[k] = cards[k]
  PROVE  \A p : Yellows(p, ms)' = Yellows(p, ms)
<1>1. \A e \in Event : e[2] \in ms => CardOf(e)' = CardOf(e)
  BY DEF CardOf
<1> QED BY <1>1, YellowsAre DEF Yellows, CardEvents

\* What a match derives depends on its own cards and on those of its scope.
LEMMA SameDerived ==
  ASSUME NEW m, cards'[m] = cards[m], InScope(m)' = InScope(m),
         \A k \in InScope(m) : cards'[k] = cards[k]
  PROVE  Derived(m)' = Derived(m)
<1>1. \A p : Yellows(p, InScope(m))' = Yellows(p, InScope(m))
  <2>1. \A p : Yellows(p, InScope(m))' = {e \in Event :
           /\ e[1] = p /\ e[2] \in InScope(m) /\ e[3] \in DOMAIN cards'[e[2]][e[1]]
           /\ CardOf(e)' = "yellow"}
    BY DEF Yellows, CardEvents
  <2>2. \A e \in Event : e[2] \in InScope(m) =>
          cards'[e[2]] = cards[e[2]] /\ CardOf(e)' = CardOf(e)
    BY DEF CardOf
  <2>3. ASSUME NEW p
        PROVE  {e \in Event :
                  /\ e[1] = p /\ e[2] \in InScope(m) /\ e[3] \in DOMAIN cards'[e[2]][e[1]]
                  /\ CardOf(e)' = "yellow"}
                = {e \in Event :
                     /\ e[1] = p /\ e[2] \in InScope(m) /\ e[3] \in DOMAIN cards[e[2]][e[1]]
                     /\ CardOf(e) = "yellow"}
    BY <2>2
  <2> QED BY <2>1, <2>3, YellowsAre
<1>2. \A p : Yellows(p, {m})' = Yellows(p, {m})
  BY SameYellows
<1>3. \A e \in CardEvents(m) : Crosses(e)' <=> Crosses(e)
  BY <1>1, <1>2 DEF Crosses, CardEvents
<1> QED BY <1>3, SameCards DEF Derived, CardEvents

-----------------------------------------------------------------------------
(* The suspensions the thresholds ask for.                                 *)

SanctionsIn(p, ms) == {s \in sanctions : s[1] = p /\ s[2] \in ms}
Accumulated(p, ms) == {s \in sanctions : s[1] = p /\ s[2] \in ms /\ CardOf(s) = "yellow"}
SomebodySentOff(p, ms) == \E k \in ms : SentOffForYellows(p, k)

ThresholdOf(p, m) ==
  IF SomebodySentOff(p, InScope(m))
  THEN SentOffForYellows(p, m) =>
         {CardOf(s) : s \in SanctionsIn(p, {m})} = {"double_yellow_red"}
  ELSE Cardinality(Accumulated(p, InScope(m)))
         = Cardinality(Yellows(p, InScope(m))) \div YellowLimit

LEMMA ThresholdsOfAll ==
  ThresholdsHonoured <=> \A p \in Player, m \in Played : ThresholdOf(p, m)
<1>1. ASSUME NEW p, NEW ms
      PROVE  {s \in {x \in sanctions : x[1] = p /\ x[2] \in ms} : CardOf(s) = "yellow"}
               = Accumulated(p, ms)
  BY DEF Accumulated
<1> QED BY <1>1 DEF ThresholdsHonoured, ThresholdOf, SanctionsIn, SomebodySentOff

LEMMA ThresholdsOfAllNext ==
  ThresholdsHonoured' <=> (\A p \in Player, m \in Played : ThresholdOf(p, m))'
BY ThresholdsOfAll, PTL

LEMMA SameThresholds ==
  ASSUME ThresholdsHonoured, SanctionsOfPlayed, sanctions' = sanctions, Played' = Played,
         \A k \in Played : cards'[k] = cards[k]
  PROVE  ThresholdsHonoured'
<1>0. ThresholdsHonoured' <=> (\A p \in Player, m \in Played : ThresholdOf(p, m))'
  BY ThresholdsOfAllNext
<1> SUFFICES ASSUME NEW p \in Player, NEW m \in Played
             PROVE  ThresholdOf(p, m)'
  BY <1>0
<1>1. InScope(m)' = InScope(m) /\ InScope(m) \subseteq Played
  BY DEF InScope
<1>2. \A k \in Played : SentOffForYellows(p, k)' <=> SentOffForYellows(p, k)
  BY DEF SentOffForYellows
<1>3. SomebodySentOff(p, InScope(m))' <=> SomebodySentOff(p, InScope(m))
  BY <1>1, <1>2 DEF SomebodySentOff
<1>4. \A s \in sanctions : CardOf(s)' = CardOf(s)
  BY DEF CardOf, SanctionsOfPlayed
<1>5. SanctionsIn(p, {m})' = SanctionsIn(p, {m})
  BY DEF SanctionsIn
<1>6. {CardOf(s)' : s \in SanctionsIn(p, {m})} = {CardOf(s) : s \in SanctionsIn(p, {m})}
  BY <1>4 DEF SanctionsIn
<1>7. Accumulated(p, InScope(m))' = Accumulated(p, InScope(m))
  BY <1>1, <1>4 DEF Accumulated
<1>8. Yellows(p, InScope(m))' = Yellows(p, InScope(m))
  BY <1>1, YellowsAre DEF CardOf, Yellows, CardEvents
<1> QED BY <1>2, <1>3, <1>5, <1>6, <1>7, <1>8, ThresholdsOfAll DEF ThresholdOf

-----------------------------------------------------------------------------
(* The statements of a close.                                              *)

LEMMA PlayedTypes ==
  ASSUME TypeOK
  PROVE  Played \subseteq Match /\ ToSet(closed) \subseteq Match
BY DEF TypeOK, Played, ToSet

\* A match that is open is taken or let go: nothing that is committed changes.
LEMMA OpenMatchMoves ==
  ASSUME SuspensionsInv, NEW m \in Match, m \notin ToSet(closed),
         pc'[m] \in {"idle", "validate"},
         \A k \in Match \ {m} : /\ pc'[k] = pc[k] /\ squad'[k] = squad[k]
                                /\ cards'[k] = cards[k] /\ write'[k] = write[k],
         UNCHANGED <<closed, walkovers, sanctions, served, serves>>,
         TypeOK', OneClose'
  PROVE  SuspensionsInv'
<1>1. Played' = Played /\ m \notin Played /\ Played \subseteq Match
  BY PlayedTypes DEF Played, SuspensionsInv
<1>2. \A k \in Played : cards'[k] = cards[k] /\ squad'[k] = squad[k]
  BY <1>1
<1>3. \A s \in sanctions : s[2] \in Played /\ Duration(s)' = Duration(s)
  BY <1>2, SameCards DEF SuspensionsInv, SanctionsOfPlayed
<1>4. SquadIsClear'
  BY <1>3 DEF SuspensionsInv, SquadIsClear, Closing, ServesOf
<1>5. ASSUME NEW k \in Match, pc'[k] \in {"mark", "commit"}
      PROVE  k # m /\ Derived(k)' = Derived(k)
  <2>1. k # m /\ cards'[k] = cards[k]
    BY <1>5
  <2>2. InScope(k)' = InScope(k) /\ InScope(k) \subseteq Played
    BY <1>1 DEF InScope
  <2> QED BY <1>2, <2>1, <2>2, SameDerived
<1>6. WritesAreDerived'
  <2> SUFFICES ASSUME NEW k \in Match
               PROVE  /\ pc'[k] \in {"mark", "commit"} =>
                           /\ write'[k].new = Derived(k)'
                           /\ \A x \in write'[k].serves :
                                /\ x[1] \in sanctions' /\ x[2] = k
                                /\ x[1][1] \in Registered[k] \ squad'[k]
                      /\ pc'[k] = "commit" =>
                           \A s \in write'[k].served : s \in sanctions' /\ Complete(s, k)'
    BY DEF WritesAreDerived
  <2> QED BY <1>3, <1>5 DEF SuspensionsInv, WritesAreDerived, Complete, ServesOf
<1>7. SanctionsOfPlayed' /\ ServedInFull'
  <2>1. SanctionsOfPlayed'
    BY <1>1 DEF SuspensionsInv, SanctionsOfPlayed
  <2>2. \A s \in served : s \in sanctions /\ Cardinality(ServesOf(s, serves)) >= Duration(s)
    BY DEF SuspensionsInv, TypeOK, ServedInFull
  <2>3. ServedInFull'
    BY <1>3, <2>2 DEF ServedInFull, ServesOf
  <2> QED BY <2>1, <2>3
<1>8. ServesOfPlayed'
  <2>1. \A x \in serves :
          /\ x[2] \in Played /\ x[1][1] \in Registered[x[2]] \ squad'[x[2]]
          /\ \E i, j \in DOMAIN closed : i < j /\ closed[i] = x[1][2] /\ closed[j] = x[2]
    BY <1>2 DEF SuspensionsInv, ServesOfPlayed
  <2> QED BY <1>1, <2>1 DEF ServesOfPlayed
<1>9. ThresholdsHonoured'
  BY <1>1, <1>2, SameThresholds DEF SuspensionsInv
<1> QED BY <1>4, <1>6, <1>7, <1>8, <1>9 DEF SuspensionsInv

LEMMA NothingTypes ==
  Nothing \in [new : SUBSET Event, serves : SUBSET (Event \X Match), served : SUBSET Event]
BY DEF Nothing

LEMMA NoCardsTypes == NoCards \in [Player -> CardSeqs]
BY SuspensionsAssumption DEF NoCards

LEMMA BeginKeeps ==
  ASSUME SuspensionsInv, NEW m \in Match, Begin(m)
  PROVE  SuspensionsInv'
<1>1. PICK S \in SUBSET Registered[m] : \E c \in [S -> CardSeqs] :
        /\ squad' = [squad EXCEPT ![m] = S]
        /\ cards' = [cards EXCEPT ![m] = [p \in Player |-> IF p \in S THEN c[p] ELSE <<>>]]
  BY DEF Begin
<1>0. PICK c \in [S -> CardSeqs] :
        cards' = [cards EXCEPT ![m] = [p \in Player |-> IF p \in S THEN c[p] ELSE <<>>]]
  BY <1>1
<1>2. [p \in Player |-> IF p \in S THEN c[p] ELSE <<>>] \in [Player -> CardSeqs]
  BY SuspensionsAssumption
<1>3. /\ m \notin ToSet(closed) /\ pc[m] = "idle" /\ VersionFree(m)
      /\ pc' = [pc EXCEPT ![m] = "validate"]
      /\ UNCHANGED <<closed, walkovers, sanctions, served, serves, write>>
  BY DEF Begin, Opens
<1>4. S \in SUBSET Player
  BY SuspensionsAssumption
<1>5. TypeOK'
  BY <1>0, <1>1, <1>2, <1>3, <1>4 DEF SuspensionsInv, TypeOK
<1>6. OneClose'
  BY <1>3 DEF SuspensionsInv, TypeOK, OneClose, VersionFree
<1>7. /\ pc'[m] = "validate"
      /\ \A k \in Match \ {m} : /\ pc'[k] = pc[k] /\ squad'[k] = squad[k]
                                /\ cards'[k] = cards[k] /\ write'[k] = write[k]
  BY <1>0, <1>1, <1>3 DEF SuspensionsInv, TypeOK
<1> QED BY <1>3, <1>5, <1>6, <1>7, OpenMatchMoves

LEMMA RolledBackKeeps ==
  ASSUME SuspensionsInv, NEW m \in Match, pc[m] # "idle", RolledBack(m)
  PROVE  SuspensionsInv'
<1>1. /\ pc' = [pc EXCEPT ![m] = "idle"]
      /\ squad' = [squad EXCEPT ![m] = {}]
      /\ cards' = [cards EXCEPT ![m] = NoCards]
      /\ write' = [write EXCEPT ![m] = Nothing]
      /\ UNCHANGED <<closed, walkovers, sanctions, served, serves>>
  BY DEF RolledBack
<1>2. TypeOK'
  BY <1>1, NothingTypes, NoCardsTypes DEF SuspensionsInv, TypeOK
<1>3. m \notin ToSet(closed) /\ OneClose'
  BY <1>1 DEF SuspensionsInv, TypeOK, OneClose
<1>4. /\ pc'[m] = "idle"
      /\ \A k \in Match \ {m} : /\ pc'[k] = pc[k] /\ squad'[k] = squad[k]
                                /\ cards'[k] = cards[k] /\ write'[k] = write[k]
  BY <1>1 DEF SuspensionsInv, TypeOK
<1> QED BY <1>1, <1>2, <1>3, <1>4, OpenMatchMoves

\* A statement of a close that is not the last changes what the close will write.
LEMMA CloseAdvances ==
  ASSUME SuspensionsInv, NEW m \in Match, pc[m] # "idle",
         NEW to \in Closing, pc' = [pc EXCEPT ![m] = to],
         NEW w, write' = [write EXCEPT ![m] = w],
         w \in [new : SUBSET Event, serves : SUBSET (Event \X Match), served : SUBSET Event],
         UNCHANGED <<closed, walkovers, squad, cards, sanctions, served, serves>>,
         \A s \in sanctions :
           s[1] \in squad[m] /\ TournamentOf[s[2]] = TournamentOf[m] /\ s \notin served =>
             Cardinality(ServesOf(s, serves)) >= Duration(s),
         to \in {"mark", "commit"} =>
           /\ w.new = Derived(m)
           /\ \A x \in w.serves :
                x[1] \in sanctions /\ x[2] = m /\ x[1][1] \in Registered[m] \ squad[m],
         to = "commit" =>
           \A s \in w.served :
             /\ s \in sanctions
             /\ Cardinality(ServesOf(s, serves \cup w.serves)) >= Duration(s)
  PROVE  SuspensionsInv'
<1>1. TypeOK'
  BY DEF SuspensionsInv, TypeOK, Closing
<1>2. \A k \in Match \ {m} : pc'[k] = pc[k] /\ write'[k] = write[k]
  BY DEF SuspensionsInv, TypeOK
<1>3. pc'[m] = to /\ write'[m] = w
  BY DEF SuspensionsInv, TypeOK
<1>4. OneClose'
  BY <1>2 DEF SuspensionsInv, OneClose
<1>5. \A s : Duration(s)' = Duration(s)
  BY DEF Duration, CardOf
<1>6. SquadIsClear'
  BY <1>2, <1>5 DEF SuspensionsInv, SquadIsClear, ServesOf
<1>7. \A k : Derived(k)' = Derived(k)
  <2>1. \A k : CardEvents(k)' = CardEvents(k)
    BY DEF CardEvents
  <2>2. \A e : Crosses(e)' = Crosses(e)
    <3>1. \A k : InScope(k)' = InScope(k)
      BY DEF InScope, Played
    <3>2. \A p, ms : Yellows(p, ms)' = Yellows(p, ms)
      BY <2>1 DEF Yellows, CardOf
    <3> QED BY <3>1, <3>2 DEF Crosses
  <2>3. \A p, k : SentOffForYellows(p, k)' = SentOffForYellows(p, k)
    BY DEF SentOffForYellows
  <2> QED BY <2>1, <2>2, <2>3 DEF Derived, CardOf
<1>8. WritesAreDerived'
  <2> SUFFICES ASSUME NEW k \in Match
               PROVE  /\ pc'[k] \in {"mark", "commit"} =>
                           /\ write'[k].new = Derived(k)'
                           /\ \A x \in write'[k].serves :
                                /\ x[1] \in sanctions' /\ x[2] = k
                                /\ x[1][1] \in Registered[k] \ squad'[k]
                      /\ pc'[k] = "commit" =>
                           \A s \in write'[k].served : s \in sanctions' /\ Complete(s, k)'
    BY DEF WritesAreDerived
  <2>1. CASE k = m
    BY <1>3, <1>5, <1>7, <2>1 DEF Complete, ServesOf
  <2>2. CASE k # m
    BY <1>2, <1>5, <1>7, <2>2 DEF SuspensionsInv, WritesAreDerived, Complete, ServesOf
  <2> QED BY <2>1, <2>2
<1>9. SanctionsOfPlayed' /\ ServesOfPlayed' /\ ServedInFull'
  BY <1>5 DEF SuspensionsInv, SanctionsOfPlayed, ServesOfPlayed, ServedInFull, ServesOf, Played
<1>10. ThresholdsHonoured'
  BY SameThresholds DEF SuspensionsInv, Played
<1> QED BY <1>1, <1>4, <1>6, <1>8, <1>9, <1>10 DEF SuspensionsInv

LEMMA ValidateKeeps ==
  ASSUME SuspensionsInv, NEW m \in Match, Validate(m)
  PROVE  SuspensionsInv'
<1>1. CASE \E s \in sanctions : s[1] \in squad[m] /\ Pending(s)
  BY <1>1, RolledBackKeeps DEF Validate
<1>2. CASE ~\E s \in sanctions : s[1] \in squad[m] /\ Pending(s)
  <2>1. ASSUME NEW s \in sanctions, s[1] \in squad[m], s \notin served
        PROVE  Cardinality(ServesOf(s, serves)) >= Duration(s)
    <3>1. Cardinality(ServesOf(s, serves)) \in Nat /\ Duration(s) \in Nat
      BY TypedServes, ServesAreFinite, DurationInNat DEF SuspensionsInv
    <3> QED BY <1>2, <2>1, <3>1 DEF Pending
  <2>2. write[m] \in [new : SUBSET Event, serves : SUBSET (Event \X Match),
                      served : SUBSET Event] /\ write' = [write EXCEPT ![m] = write[m]]
    BY <1>2 DEF SuspensionsInv, TypeOK, Validate
  <2>3. pc[m] # "idle" /\ pc' = [pc EXCEPT ![m] = "serve"]
        /\ UNCHANGED <<closed, walkovers, squad, cards, sanctions, served, serves>>
    BY <1>2 DEF Validate
  <2> QED BY <2>1, <2>2, <2>3, CloseAdvances DEF Closing
<1> QED BY <1>1, <1>2

LEMMA ServeKeeps ==
  ASSUME SuspensionsInv, NEW m \in Match, Serve(m)
  PROVE  SuspensionsInv'
<1> DEFINE w == [new    |-> Derived(m),
                 serves |-> {s \in sanctions \ served :
                               s[1] \in Registered[m] \ squad[m]} \X {m},
                 served |-> {}]
<1>1. /\ pc[m] = "serve" /\ pc' = [pc EXCEPT ![m] = "mark"]
      /\ write' = [write EXCEPT ![m] = w]
      /\ UNCHANGED <<closed, walkovers, squad, cards, sanctions, served, serves>>
  BY DEF Serve
<1>2. sanctions \subseteq Event /\ Derived(m) \subseteq Event
  BY DEF SuspensionsInv, TypeOK, Derived, CardEvents
<1>3. w \in [new : SUBSET Event, serves : SUBSET (Event \X Match), served : SUBSET Event]
  BY <1>2
<1>4. /\ w.new = Derived(m)
      /\ \A x \in w.serves :
           x[1] \in sanctions /\ x[2] = m /\ x[1][1] \in Registered[m] \ squad[m]
  OBVIOUS
<1>5. \A s \in sanctions :
        s[1] \in squad[m] /\ TournamentOf[s[2]] = TournamentOf[m] /\ s \notin served =>
          Cardinality(ServesOf(s, serves)) >= Duration(s)
  BY <1>1 DEF SuspensionsInv, SquadIsClear, Closing
<1> HIDE DEF w
<1> QED BY <1>1, <1>3, <1>4, <1>5, CloseAdvances DEF Closing

LEMMA MarkKeeps ==
  ASSUME SuspensionsInv, NEW m \in Match, Mark(m)
  PROVE  SuspensionsInv'
<1> DEFINE rows == {s \in sanctions \ served : Complete(s, m)}
           w == [write[m] EXCEPT !.served = rows]
<1>1. /\ pc[m] = "mark" /\ pc' = [pc EXCEPT ![m] = "commit"]
      /\ UNCHANGED <<closed, walkovers, squad, cards, sanctions, served, serves>>
  BY DEF Mark
<1>2. write' = [write EXCEPT ![m] = w]
  BY DEF Mark
<1>3. /\ write[m] \in [new : SUBSET Event, serves : SUBSET (Event \X Match),
                       served : SUBSET Event]
      /\ rows \subseteq Event
  BY DEF SuspensionsInv, TypeOK
<1>4. /\ w \in [new : SUBSET Event, serves : SUBSET (Event \X Match), served : SUBSET Event]
      /\ w.new = write[m].new /\ w.serves = write[m].serves /\ w.served = rows
  BY <1>3
<1>5. \A s \in rows :
        /\ s \in sanctions
        /\ Cardinality(ServesOf(s, serves \cup w.serves)) >= Duration(s)
  BY <1>4 DEF Complete
<1>6. /\ w.new = Derived(m)
      /\ \A x \in w.serves :
           x[1] \in sanctions /\ x[2] = m /\ x[1][1] \in Registered[m] \ squad[m]
  BY <1>1, <1>4 DEF SuspensionsInv, WritesAreDerived
<1>7. \A s \in sanctions :
        s[1] \in squad[m] /\ TournamentOf[s[2]] = TournamentOf[m] /\ s \notin served =>
          Cardinality(ServesOf(s, serves)) >= Duration(s)
  BY <1>1 DEF SuspensionsInv, SquadIsClear, Closing
<1> HIDE DEF w, rows
<1> QED BY <1>1, <1>2, <1>4, <1>5, <1>6, <1>7, CloseAdvances DEF Closing

LEMMA WalkoverKeepsAll ==
  ASSUME SuspensionsInv, NEW m \in Match, Walkover(m)
  PROVE  SuspensionsInv'
<1>1. /\ m \notin ToSet(closed) /\ pc[m] = "idle" /\ closed' = Append(closed, m)
      /\ walkovers' = walkovers \cup {m}
      /\ UNCHANGED <<squad, cards, sanctions, served, serves, pc, write>>
  BY DEF Walkover, Opens
<1>2. /\ closed' \in Seq(Match) /\ ToSet(closed') = ToSet(closed) \cup {m}
      /\ DOMAIN closed \subseteq DOMAIN closed'
      /\ \A i \in DOMAIN closed : closed'[i] = closed[i]
  BY <1>1, ClosedAppended DEF SuspensionsInv
<1>3. Played' = Played /\ TypeOK'
  BY <1>1, <1>2 DEF SuspensionsInv, TypeOK, Played
<1>4. OneClose'
  BY <1>1, <1>2 DEF SuspensionsInv, OneClose
<1>5. \A s : Duration(s)' = Duration(s)
  BY <1>1 DEF Duration, CardOf
<1>6. SquadIsClear'
  BY <1>1, <1>5 DEF SuspensionsInv, SquadIsClear, ServesOf
<1>7. \A k : Derived(k)' = Derived(k)
  BY <1>1, <1>3
     DEF Derived, CardEvents, CardOf, Crosses, Yellows, InScope, SentOffForYellows
<1>8. WritesAreDerived'
  <2> SUFFICES ASSUME NEW k \in Match
               PROVE  /\ pc'[k] \in {"mark", "commit"} =>
                           /\ write'[k].new = Derived(k)'
                           /\ \A x \in write'[k].serves :
                                /\ x[1] \in sanctions' /\ x[2] = k
                                /\ x[1][1] \in Registered[k] \ squad'[k]
                      /\ pc'[k] = "commit" =>
                           \A s \in write'[k].served : s \in sanctions' /\ Complete(s, k)'
    BY DEF WritesAreDerived
  <2>1. /\ pc[k] \in {"mark", "commit"} =>
             /\ write[k].new = Derived(k)
             /\ \A x \in write[k].serves :
                  /\ x[1] \in sanctions /\ x[2] = k /\ x[1][1] \in Registered[k] \ squad[k]
        /\ pc[k] = "commit" =>
             \A s \in write[k].served : s \in sanctions /\ Complete(s, k)
    BY DEF SuspensionsInv, WritesAreDerived
  <2>2. \A s : Complete(s, k)' <=> Complete(s, k)
    BY <1>1, <1>5 DEF Complete, ServesOf
  <2> QED BY <1>1, <1>7, <2>1, <2>2
<1>9. SanctionsOfPlayed' /\ ServedInFull'
  BY <1>1, <1>3, <1>5 DEF SuspensionsInv, SanctionsOfPlayed, ServedInFull, ServesOf
<1>10. ServesOfPlayed'
  BY <1>1, <1>2, <1>3 DEF SuspensionsInv, ServesOfPlayed
<1>11. ThresholdsHonoured'
  BY <1>1, <1>3, SameThresholds DEF SuspensionsInv
<1> QED BY <1>3, <1>4, <1>6, <1>8, <1>9, <1>10, <1>11 DEF SuspensionsInv


-----------------------------------------------------------------------------
(* The commit of a close.                                                  *)

\* The scopes of matches that count together are one.
LEMMA ScopesAdvance ==
  ASSUME TypeOK, NEW m \in Match, m \notin Played, Played' = Played \cup {m}
  PROVE  /\ InScope(m) \subseteq Played
         /\ \A j \in InScope(m) : InScope(j) = InScope(m)
         /\ \A j \in InScope(m) \cup {m} : InScope(j)' = InScope(m) \cup {m}
         /\ \A j \in Played \ InScope(m) : InScope(j)' = InScope(j) /\ m \notin InScope(j)
<1>1. \A j, k \in Match :
        k \in InScope(j) <=> /\ k \in Played /\ TournamentOf[k] = TournamentOf[j]
                             /\ TournamentOf[j] \in ClearOnStage => StageOf[k] = StageOf[j]
  BY DEF InScope
<1>2. \A j, k \in Match :
        k \in InScope(j)' <=> /\ k \in Played \cup {m} /\ TournamentOf[k] = TournamentOf[j]
                              /\ TournamentOf[j] \in ClearOnStage => StageOf[k] = StageOf[j]
  BY DEF InScope
<1>3. \A j : InScope(j) \subseteq Match /\ InScope(j)' \subseteq Match
  BY PlayedTypes DEF InScope
<1>4. Played \subseteq Match /\ InScope(m) \subseteq Played
  BY PlayedTypes DEF InScope
<1>5. ASSUME NEW j \in InScope(m) PROVE InScope(j) = InScope(m)
  BY <1>1, <1>3, <1>4
<1>6. ASSUME NEW j \in InScope(m) \cup {m} PROVE InScope(j)' = InScope(m) \cup {m}
  BY <1>1, <1>2, <1>3, <1>4
<1>7. ASSUME NEW j \in Played \ InScope(m)
      PROVE  InScope(j)' = InScope(j) /\ m \notin InScope(j)
  BY <1>1, <1>2, <1>3, <1>4
<1> QED BY <1>4, <1>5, <1>6, <1>7

\* Who is sent off for two yellow cards gets the suspension of that and no other.
LEMMA SentOffDerives ==
  ASSUME TypeOK, NEW m \in Match, NEW p \in Player, SentOffForYellows(p, m)
  PROVE  {CardOf(s) : s \in {e \in Derived(m) : e[1] = p}} = {"double_yellow_red"}
<1> DEFINE c == cards[m][p]
           own == {e \in Derived(m) : e[1] = p}
<1>1. c \in CardSeqs /\ c \in Seq(Card) /\ Len(c) \in Nat /\ Len(c) <= MaxCards
      /\ DOMAIN c = 1..Len(c) /\ MaxCards \in Nat
  BY SuspensionsAssumption DEF TypeOK
<1>2. \A i, j \in DOMAIN c : c[i] # "yellow" /\ c[j] # "yellow" => i = j
  BY <1>1, SuspensionsAssumption
<1>3. PICK i \in DOMAIN c : c[i] = "double_yellow_red"
  BY DEF SentOffForYellows, ToSet
<1>4. <<p, m, i>> \in own /\ CardOf(<<p, m, i>>) = "double_yellow_red"
  BY <1>1, <1>3 DEF Derived, CardEvents, Event, CardOf
<1>5. ASSUME NEW e \in own PROVE CardOf(e) = "double_yellow_red"
  <2>1. e[1] = p /\ e[2] = m /\ e[3] \in DOMAIN c /\ CardOf(e) = c[e[3]]
    BY DEF Derived, CardEvents, CardOf
  <2>2. CardOf(e) # "yellow"
    BY <2>1 DEF Derived
  <2> QED BY <1>2, <1>3, <2>1, <2>2
<1> HIDE DEF own
<1>6. {CardOf(s) : s \in own} = {"double_yellow_red"}
  BY <1>4, <1>5
<1> QED BY <1>6 DEF own

\* The cards of a match bring as many suspensions for accumulation as the multiples that
\* the yellow cards pass in it.
LEMMA AccumulatedAdvance ==
  ASSUME TypeOK, NEW m \in Match, NEW p \in Player, ~SentOffForYellows(p, m),
         NEW K \in SUBSET Match, m \notin K, K = InScope(m)
  PROVE  /\ Cardinality(Yellows(p, K)) \in Nat /\ IsFiniteSet(Yellows(p, K))
         /\ Cardinality(Yellows(p, K)) \div YellowLimit
              + Cardinality({e \in Derived(m) : e[1] = p /\ CardOf(e) = "yellow"})
              = Cardinality(Yellows(p, K \cup {m})) \div YellowLimit
<1> DEFINE Y == Yellows(p, {m})
           B == Cardinality(Yellows(p, K))
           C == {e \in Y : (B + Cardinality({f \in Y : f[3] <= e[3]})) % YellowLimit = 0}
<1>1. \A ms : Yellows(p, ms) \in SUBSET Event
  BY YellowsAre
<1>2. \A ms : IsFiniteSet(Yellows(p, ms)) /\ Cardinality(Yellows(p, ms)) \in Nat
  BY <1>1, EventsAreFinite, FS_Subset, FS_CardinalityType
<1>3. /\ Yellows(p, K \cup {m}) = Yellows(p, K) \cup Y
      /\ Yellows(p, K) \cap Y = {}
  BY YellowsAre
<1>4. Cardinality(Yellows(p, K \cup {m})) = B + Cardinality(Y)
  <2>1. Cardinality(Yellows(p, K) \cup Y)
          = Cardinality(Yellows(p, K)) + Cardinality(Y)
              - Cardinality(Yellows(p, K) \cap Y)
    BY <1>2, FS_Union
  <2>2. Cardinality(Yellows(p, K) \cap Y) = 0
    BY <1>3, FS_EmptySet
  <2>3. B \in Nat /\ Cardinality(Y) \in Nat
    BY <1>2
  <2>4. Cardinality(Yellows(p, K) \cup Y) = B + Cardinality(Y) - 0
    BY <2>1, <2>2
  <2> HIDE DEF B, Y
  <2>5. B + Cardinality(Y) - 0 = B + Cardinality(Y)
    BY <2>3
  <2> QED BY <1>3, <2>4, <2>5
<1>5. /\ \A e \in Y : e[3] \in 1..MaxCards
      /\ \A e, f \in Y : e[3] = f[3] => e = f
  BY EventParts, YellowsAre
<1>6. B \div YellowLimit + Cardinality(C) = (B + Cardinality(Y)) \div YellowLimit
  <2> HIDE DEF Y
  <2>1. IsFiniteSet(Y) /\ B \in Nat /\ MaxCards \in Nat /\ YellowLimit \in Nat \ {0}
    BY <1>2, SuspensionsAssumption DEF Y
  <2> HIDE DEF B
  <2> QED BY <1>5, <2>1, MultiplesReached
<1>7. {e \in Derived(m) : e[1] = p /\ CardOf(e) = "yellow"} = C
  <2>1. \A e \in Event : e \in Y <=>
          e[1] = p /\ e[2] = m /\ e[3] \in DOMAIN cards[m][p] /\ CardOf(e) = "yellow"
    BY YellowsAre
  <2>2. \A e \in Y : Crosses(e) <=>
          (B + Cardinality({f \in Y : f[3] <= e[3]})) % YellowLimit = 0
    BY <2>1, YellowsAre DEF Crosses
  <2>3. \A e : e \in Derived(m) /\ e[1] = p /\ CardOf(e) = "yellow" <=>
          e \in Y /\ Crosses(e)
    BY <1>1, <2>1 DEF Derived, CardEvents
  <2> HIDE DEF Y, B
  <2> QED BY <2>2, <2>3
<1> HIDE DEF C
<1> QED BY <1>2, <1>4, <1>6, <1>7

LEMMA ThresholdsAdvance ==
  ASSUME SuspensionsInv, NEW m \in Match, m \notin Played, Played' = Played \cup {m},
         cards' = cards, sanctions' = sanctions \cup Derived(m)
  PROVE  ThresholdsHonoured'
<1>k. PICK K : K = InScope(m)
  OBVIOUS
<1>0. ThresholdsHonoured' <=> (\A p \in Player, j \in Played : ThresholdOf(p, j))'
  BY ThresholdsOfAllNext
<1> SUFFICES ASSUME NEW p \in Player, NEW j \in Played \cup {m}
             PROVE  ThresholdOf(p, j)'
  BY <1>0
<1>1. /\ K \subseteq Played
      /\ \A k \in K : InScope(k) = K
      /\ \A k \in K \cup {m} : InScope(k)' = K \cup {m}
      /\ \A k \in Played \ K : InScope(k)' = InScope(k) /\ m \notin InScope(k)
  BY <1>k, ScopesAdvance DEF SuspensionsInv
<1>2. /\ \A q, k : SentOffForYellows(q, k)' <=> SentOffForYellows(q, k)
      /\ \A e : CardOf(e)' = CardOf(e)
      /\ \A q, ms : Yellows(q, ms)' = Yellows(q, ms)
  BY DEF SentOffForYellows, CardOf, Yellows, CardEvents
<1>3. /\ \A e \in Derived(m) : e[2] = m
      /\ \A s \in sanctions : s[2] # m
  BY DEF Derived, CardEvents, SuspensionsInv, SanctionsOfPlayed
<1>4. \A k \in Played : ThresholdOf(p, k)
  BY ThresholdsOfAll DEF SuspensionsInv
<1>5. \A k \in Played : SanctionsIn(p, {k})' = SanctionsIn(p, {k})
  BY <1>3 DEF SanctionsIn
<1>6. \A ms : m \notin ms => Accumulated(p, ms)' = Accumulated(p, ms)
  BY <1>2, <1>3 DEF Accumulated
<1>7. ASSUME NEW k \in Played
      PROVE  {CardOf(s)' : s \in SanctionsIn(p, {k})'} = {CardOf(s) : s \in SanctionsIn(p, {k})}
  BY <1>2, <1>5
<1>8. CASE j \in Played \ K
  <2>1. SomebodySentOff(p, InScope(j))' <=> SomebodySentOff(p, InScope(j))
    BY <1>1, <1>2, <1>8 DEF SomebodySentOff
  <2>2. Accumulated(p, InScope(j))' = Accumulated(p, InScope(j))
    BY <1>1, <1>6, <1>8 DEF Accumulated
  <2>3. Yellows(p, InScope(j))' = Yellows(p, InScope(j))
    BY <1>1, <1>2, <1>8 DEF Yellows
  <2> QED BY <1>2, <1>4, <1>7, <1>8, <2>1, <2>2, <2>3 DEF ThresholdOf
<1>9. CASE j \in K \cup {m}
  <2>1. InScope(j)' = K \cup {m}
    BY <1>1, <1>9
  <2>2. CASE SomebodySentOff(p, K \cup {m})
    <3>1. SomebodySentOff(p, InScope(j))'
      BY <1>2, <2>1, <2>2 DEF SomebodySentOff
    <3>2. ASSUME SentOffForYellows(p, j)
          PROVE  {CardOf(s)' : s \in SanctionsIn(p, {j})'} = {"double_yellow_red"}
      <4>1. CASE j = m
        <5>1. SanctionsIn(p, {m})' = {e \in Derived(m) : e[1] = p}
          BY <1>3 DEF SanctionsIn
        <5>2. {CardOf(s) : s \in {e \in Derived(m) : e[1] = p}} = {"double_yellow_red"}
          BY <3>2, <4>1, SentOffDerives DEF SuspensionsInv
        <5>3. {CardOf(s)' : s \in {e \in Derived(m) : e[1] = p}}
                = {CardOf(s) : s \in {e \in Derived(m) : e[1] = p}}
          BY <1>2
        <5> QED BY <4>1, <5>1, <5>2, <5>3
      <4>2. CASE j \in K
        <5>1. SomebodySentOff(p, InScope(j)) /\ j \in Played
          BY <1>1, <3>2, <4>2 DEF SomebodySentOff
        <5> QED BY <1>4, <1>7, <3>2, <5>1 DEF ThresholdOf
      <4> QED BY <1>9, <4>1, <4>2
    <3> QED BY <1>2, <3>1, <3>2 DEF ThresholdOf
  <2>3. CASE ~SomebodySentOff(p, K \cup {m})
    <3>1. ~SomebodySentOff(p, InScope(j))'
      BY <1>2, <2>1, <2>3 DEF SomebodySentOff
    <3>2. K \in SUBSET Match /\ m \notin K /\ ~SentOffForYellows(p, m)
      BY <1>1, <2>3, PlayedTypes DEF SuspensionsInv, SomebodySentOff
    <3>3. /\ Cardinality(Yellows(p, K)) \in Nat /\ IsFiniteSet(Yellows(p, K))
          /\ Cardinality(Yellows(p, K)) \div YellowLimit
               + Cardinality({e \in Derived(m) : e[1] = p /\ CardOf(e) = "yellow"})
               = Cardinality(Yellows(p, K \cup {m})) \div YellowLimit
      BY <1>k, <3>2, AccumulatedAdvance DEF SuspensionsInv
    <3>4. Cardinality(Accumulated(p, K)) = Cardinality(Yellows(p, K)) \div YellowLimit
      <4>1. CASE K = {}
        <5>1. Accumulated(p, K) = {} /\ Yellows(p, K) = {}
          BY <4>1, YellowsAre DEF Accumulated
        <5>2. 0 \div YellowLimit = 0
          BY SuspensionsAssumption
        <5> QED BY <5>1, <5>2, FS_EmptySet
      <4>2. CASE K # {}
        <5>1. PICK k \in K : TRUE
          BY <4>2
        <5>2. ThresholdOf(p, k) /\ InScope(k) = K /\ ~SomebodySentOff(p, K)
          BY <1>1, <1>4, <2>3, <5>1 DEF SomebodySentOff
        <5> QED BY <5>2 DEF ThresholdOf
      <4> QED BY <4>1, <4>2
    <3>5. Cardinality(Accumulated(p, K \cup {m})')
            = Cardinality(Accumulated(p, K))
                + Cardinality({e \in Derived(m) : e[1] = p /\ CardOf(e) = "yellow"})
      <4> DEFINE A == Accumulated(p, K)
                 C == {e \in Derived(m) : e[1] = p /\ CardOf(e) = "yellow"}
      <4>1. Accumulated(p, K \cup {m})' = A \cup C /\ A \cap C = {}
        <5>1. Accumulated(p, K \cup {m})' =
                {s \in sanctions \cup Derived(m) :
                   s[1] = p /\ s[2] \in K \cup {m} /\ CardOf(s) = "yellow"}
          BY <1>2 DEF Accumulated
        <5>2. \A s \in sanctions : s[2] \in K \cup {m} <=> s[2] \in K
          BY <1>3
        <5>3. \A s \in Derived(m) : s[2] \in K \cup {m} /\ s[2] \notin K
          BY <1>3, <3>2
        <5> QED BY <5>1, <5>2, <5>3 DEF Accumulated
      <4>2. A \in SUBSET Event /\ C \in SUBSET Event
        BY DEF SuspensionsInv, TypeOK, Accumulated, Derived, CardEvents
      <4> HIDE DEF A, C
      <4>3. IsFiniteSet(A) /\ IsFiniteSet(C) /\ Cardinality(A) \in Nat /\ Cardinality(C) \in Nat
        BY <4>2, EventsAreFinite, FS_Subset, FS_CardinalityType
      <4>4. Cardinality(A \cup C) = Cardinality(A) + Cardinality(C) - Cardinality(A \cap C)
        BY <4>3, FS_Union
      <4>5. Cardinality(A \cap C) = 0
        BY <4>1, FS_EmptySet
      <4>6. Cardinality(A \cup C) = Cardinality(A) + Cardinality(C)
        BY <4>3, <4>4, <4>5
      <4> QED BY <4>1, <4>6 DEF A, C
    <3>6. Accumulated(p, InScope(j))' = Accumulated(p, K \cup {m})'
      BY <1>1, <1>2, <2>1 DEF Accumulated
    <3>7. Yellows(p, InScope(j))' = Yellows(p, K \cup {m})
      BY <1>2, <2>1 DEF Yellows, CardEvents
    <3> QED BY <3>1, <3>3, <3>4, <3>5, <3>6, <3>7 DEF ThresholdOf
  <2> QED BY <2>2, <2>3
<1> QED BY <1>8, <1>9

LEMMA CommitKeeps ==
  ASSUME SuspensionsInv, NEW m \in Match, Commit(m)
  PROVE  SuspensionsInv'
<1>1. /\ pc[m] = "commit" /\ closed' = Append(closed, m)
      /\ sanctions' = sanctions \cup write[m].new
      /\ serves' = serves \cup write[m].serves
      /\ served' = served \cup write[m].served
      /\ pc' = [pc EXCEPT ![m] = "idle"]
      /\ write' = [write EXCEPT ![m] = Nothing]
      /\ UNCHANGED <<walkovers, squad, cards>>
  BY DEF Commit
<1>2. /\ write[m].new = Derived(m) /\ Derived(m) \subseteq Event
      /\ \A s \in Derived(m) : s[2] = m
      /\ \A x \in write[m].serves :
           x[1] \in sanctions /\ x[2] = m /\ x[1][1] \in Registered[m] \ squad[m]
      /\ write[m].serves \subseteq sanctions \X {m}
      /\ \A s \in write[m].served : s \in sanctions /\ Complete(s, m)
  <2>1. /\ write[m].new = Derived(m)
        /\ \A x \in write[m].serves :
             x[1] \in sanctions /\ x[2] = m /\ x[1][1] \in Registered[m] \ squad[m]
        /\ \A s \in write[m].served : s \in sanctions /\ Complete(s, m)
    BY <1>1 DEF SuspensionsInv, WritesAreDerived
  <2>2. Derived(m) \subseteq Event /\ \A s \in Derived(m) : s[2] = m
    BY DEF Derived, CardEvents
  <2>3. write[m].serves \subseteq Event \X Match
    BY TypedServes DEF SuspensionsInv
  <2>4. write[m].serves \subseteq sanctions \X {m}
    BY <2>1, <2>3
  <2> QED BY <2>1, <2>2, <2>4
<1>3. m \notin ToSet(closed) /\ m \notin walkovers /\ m \notin Played
  BY <1>1 DEF SuspensionsInv, OneClose, TypeOK, Played
<1>4. /\ closed' \in Seq(Match) /\ ToSet(closed') = ToSet(closed) \cup {m}
      /\ Len(closed) \in Nat /\ DOMAIN closed = 1..Len(closed)
      /\ DOMAIN closed' = 1..(Len(closed) + 1)
      /\ closed'[Len(closed) + 1] = m
      /\ \A i \in 1..Len(closed) : closed'[i] = closed[i]
  BY <1>1, <1>3, ClosedAppended DEF SuspensionsInv
<1>5. Played' = Played \cup {m}
  BY <1>1, <1>3, <1>4 DEF Played
<1>6. \A k \in Match \ {m} : pc'[k] = pc[k] /\ write'[k] = write[k]
  BY <1>1 DEF SuspensionsInv, TypeOK
<1>7. pc'[m] = "idle"
  BY <1>1 DEF SuspensionsInv, TypeOK
<1>8. \A k \in Match \ {m} : pc[k] # "idle" => TournamentOf[k] # TournamentOf[m]
  BY <1>1 DEF SuspensionsInv, OneClose
<1>9. TypeOK'
  <2>1. sanctions' \subseteq Event /\ served' \subseteq sanctions'
    BY <1>1, <1>2 DEF SuspensionsInv, TypeOK
  <2>2. serves' \subseteq sanctions' \X Match
    BY <1>1, <1>2 DEF SuspensionsInv, TypeOK
  <2>3. walkovers' \subseteq ToSet(closed')
    BY <1>1, <1>4 DEF SuspensionsInv, TypeOK
  <2>4. /\ squad' \in [Match -> SUBSET Player] /\ cards' \in [Match -> [Player -> CardSeqs]]
        /\ pc' \in [Match -> {"idle", "validate", "serve", "mark", "commit"}]
        /\ write' \in [Match -> [new : SUBSET Event, serves : SUBSET (Event \X Match),
                                 served : SUBSET Event]]
    BY <1>1, NothingTypes DEF SuspensionsInv, TypeOK
  <2> QED BY <1>4, <2>1, <2>2, <2>3, <2>4 DEF TypeOK
<1>10. OneClose'
  <2>1. \A k \in Match \ {m} : pc[k] # "idle" => k \notin ToSet(closed')
    BY <1>4 DEF SuspensionsInv, OneClose
  <2> QED BY <1>6, <1>7, <2>1 DEF SuspensionsInv, OneClose
<1>11. \A s : Duration(s)' = Duration(s) /\ Duration(s) \in Nat
  BY <1>1, DurationInNat DEF Duration, CardOf
<1>12. ASSUME NEW s
       PROVE  /\ Cardinality(ServesOf(s, serves)) \in Nat
              /\ Cardinality(ServesOf(s, serves')) \in Nat
              /\ Cardinality(ServesOf(s, serves)) <= Cardinality(ServesOf(s, serves'))
  <2>1. serves' \in SUBSET (Event \X Match) /\ serves \in SUBSET serves'
    BY <1>1, <1>9 DEF TypeOK
  <2> QED BY <2>1, ServesAreFinite, MoreServes
<1>13. SquadIsClear'
  <2> SUFFICES ASSUME NEW k \in Match, pc'[k] \in Closing, NEW s \in sanctions',
                      s[1] \in squad'[k], TournamentOf[s[2]] = TournamentOf[k],
                      s \notin served'
               PROVE  Cardinality(ServesOf(s, serves')) >= Duration(s)'
    BY DEF SquadIsClear, ServesOf
  <2>1. k # m /\ pc[k] \in Closing /\ pc[k] # "idle"
    BY <1>6, <1>7 DEF Closing
  <2>2. s \in sanctions /\ s \notin served /\ s[1] \in squad[k]
    BY <1>1, <1>2, <1>8, <2>1
  <2>3. Cardinality(ServesOf(s, serves)) >= Duration(s)
    BY <2>1, <2>2 DEF SuspensionsInv, SquadIsClear
  <2> QED BY <1>11, <1>12, <2>3
<1>14. WritesAreDerived'
  <2> SUFFICES ASSUME NEW k \in Match
               PROVE  /\ pc'[k] \in {"mark", "commit"} =>
                           /\ write'[k].new = Derived(k)'
                           /\ \A x \in write'[k].serves :
                                /\ x[1] \in sanctions' /\ x[2] = k
                                /\ x[1][1] \in Registered[k] \ squad'[k]
                      /\ pc'[k] = "commit" =>
                           \A s \in write'[k].served : s \in sanctions' /\ Complete(s, k)'
    BY DEF WritesAreDerived
  <2>1. CASE k = m
    BY <1>7, <2>1
  <2>2. CASE k # m /\ pc[k] # "idle"
    <3>1. InScope(k)' = InScope(k)
      BY <1>5, <1>8, <2>2 DEF InScope
    <3>2. Derived(k)' = Derived(k)
      BY <1>1, <3>1, SameDerived
    <3>3. /\ pc[k] \in {"mark", "commit"} =>
               /\ write[k].new = Derived(k)
               /\ \A x \in write[k].serves :
                    x[1] \in sanctions /\ x[2] = k /\ x[1][1] \in Registered[k] \ squad[k]
          /\ pc[k] = "commit" =>
               \A s \in write[k].served : s \in sanctions /\ Complete(s, k)
      BY DEF SuspensionsInv, WritesAreDerived
    <3>4. ASSUME NEW s, Complete(s, k) PROVE Complete(s, k)'
      <4> DEFINE S == serves \cup write[k].serves
                 T == serves' \cup write'[k].serves
      <4>1. T \in SUBSET (Event \X Match) /\ S \in SUBSET T
        BY <1>1, <1>6, <1>9, <2>2, TypedServes DEF TypeOK, SuspensionsInv
      <4>2. /\ Cardinality(ServesOf(s, S)) \in Nat /\ Cardinality(ServesOf(s, T)) \in Nat
            /\ Cardinality(ServesOf(s, S)) <= Cardinality(ServesOf(s, T))
        BY <4>1, ServesAreFinite, MoreServes
      <4>3. Cardinality(ServesOf(s, S)) >= Duration(s)
        BY <3>4 DEF Complete
      <4>4. Cardinality(ServesOf(s, T)) >= Duration(s)'
        BY <1>11, <4>2, <4>3
      <4> QED BY <4>4 DEF Complete, ServesOf
    <3> QED BY <1>1, <1>6, <2>2, <3>2, <3>3, <3>4
  <2>3. CASE k # m /\ pc[k] = "idle"
    BY <1>6, <2>3
  <2> QED BY <2>1, <2>2, <2>3
<1>15. SanctionsOfPlayed'
  BY <1>1, <1>2, <1>5 DEF SuspensionsInv, SanctionsOfPlayed
<1>16. ServesOfPlayed'
  <2> SUFFICES ASSUME NEW x \in serves'
               PROVE  /\ x[2] \in Played' /\ x[1][1] \in Registered[x[2]] \ squad'[x[2]]
                      /\ \E i, j \in DOMAIN closed' :
                           i < j /\ closed'[i] = x[1][2] /\ closed'[j] = x[2]
    BY DEF ServesOfPlayed
  <2>1. CASE x \in serves
    <3>1. PICK i, j \in DOMAIN closed : i < j /\ closed[i] = x[1][2] /\ closed[j] = x[2]
      BY <2>1 DEF SuspensionsInv, ServesOfPlayed
    <3>2. /\ i \in DOMAIN closed' /\ j \in DOMAIN closed'
          /\ closed'[i] = closed[i] /\ closed'[j] = closed[j]
      BY <1>4, <3>1
    <3>3. x[2] \in Played' /\ x[1][1] \in Registered[x[2]] \ squad'[x[2]]
      BY <1>1, <1>5, <2>1 DEF SuspensionsInv, ServesOfPlayed
    <3> QED BY <3>1, <3>2, <3>3
  <2>2. CASE x \in write[m].serves
    <3>1. x[1] \in sanctions /\ x[2] = m /\ x[1][1] \in Registered[m] \ squad[m]
      BY <1>2, <2>2
    <3>2. x[1][2] \in ToSet(closed)
      BY <3>1 DEF SuspensionsInv, SanctionsOfPlayed, Played
    <3>3. PICK i \in DOMAIN closed : closed[i] = x[1][2]
      BY <3>2 DEF ToSet
    <3>4. /\ i \in DOMAIN closed' /\ Len(closed) + 1 \in DOMAIN closed' /\ i < Len(closed) + 1
          /\ closed'[i] = x[1][2] /\ closed'[Len(closed) + 1] = x[2]
      BY <1>4, <3>1, <3>3
    <3> QED BY <1>1, <1>5, <3>1, <3>4
  <2> QED BY <1>1, <2>1, <2>2
<1>17. ServedInFull'
  <2> SUFFICES ASSUME NEW s \in served'
               PROVE  Cardinality(ServesOf(s, serves')) >= Duration(s)'
    BY DEF ServedInFull, ServesOf
  <2>1. CASE s \in served
    <3>1. Cardinality(ServesOf(s, serves)) >= Duration(s)
      BY <2>1 DEF SuspensionsInv, ServedInFull
    <3> QED BY <1>11, <1>12, <3>1
  <2>2. CASE s \in write[m].served
    BY <1>1, <1>2, <1>11, <2>2 DEF Complete
  <2> QED BY <1>1, <2>1, <2>2
<1>18. ThresholdsHonoured'
  BY <1>1, <1>2, <1>3, <1>5, ThresholdsAdvance
<1> QED BY <1>9, <1>10, <1>13, <1>14, <1>15, <1>16, <1>17, <1>18 DEF SuspensionsInv

LEMMA SuspensionsInit == Init => SuspensionsInv
<1> SUFFICES ASSUME Init PROVE SuspensionsInv
  OBVIOUS
<1>1. closed = <<>> /\ ToSet(closed) = {} /\ Played = {}
  BY DEF Init, ToSet, Played
<1>2. TypeOK
  BY <1>1, NothingTypes, NoCardsTypes DEF Init, TypeOK
<1>3. OneClose /\ SquadIsClear /\ WritesAreDerived
  BY DEF Init, OneClose, SquadIsClear, WritesAreDerived, Closing
<1>4. SanctionsOfPlayed /\ ServesOfPlayed /\ ServedInFull
  BY DEF Init, SanctionsOfPlayed, ServesOfPlayed, ServedInFull
<1>5. ThresholdsHonoured
  BY <1>1 DEF ThresholdsHonoured
<1> QED BY <1>2, <1>3, <1>4, <1>5 DEF SuspensionsInv

LEMMA SuspensionsStep == SuspensionsInv /\ [Next]_vars => SuspensionsInv'
<1> SUFFICES ASSUME SuspensionsInv, [Next]_vars
             PROVE  SuspensionsInv'
  OBVIOUS
<1>1. ASSUME NEW m \in Match, Begin(m)    PROVE SuspensionsInv'
  BY <1>1, BeginKeeps
<1>2. ASSUME NEW m \in Match, Validate(m) PROVE SuspensionsInv'
  BY <1>2, ValidateKeeps
<1>3. ASSUME NEW m \in Match, Serve(m)    PROVE SuspensionsInv'
  BY <1>3, ServeKeeps
<1>4. ASSUME NEW m \in Match, Mark(m)     PROVE SuspensionsInv'
  BY <1>4, MarkKeeps
<1>5. ASSUME NEW m \in Match, Commit(m)   PROVE SuspensionsInv'
  BY <1>5, CommitKeeps
<1>6. ASSUME NEW m \in Match, Abort(m)    PROVE SuspensionsInv'
  BY <1>6, RolledBackKeeps DEF Abort
<1>7. ASSUME NEW m \in Match, Walkover(m) PROVE SuspensionsInv'
  BY <1>7, WalkoverKeepsAll
<1>8. CASE UNCHANGED vars
  <2>1. /\ TypeOK' /\ OneClose' /\ Played' = Played
        /\ \A s : Duration(s)' = Duration(s)
        /\ \A k : Derived(k)' = Derived(k)
    BY <1>8 DEF vars, SuspensionsInv, TypeOK, OneClose, Played, Duration, CardOf, Derived,
                CardEvents, Crosses, Yellows, InScope, SentOffForYellows
  <2>2. SquadIsClear'
    BY <1>8, <2>1 DEF vars, SuspensionsInv, SquadIsClear, ServesOf
  <2>3. WritesAreDerived'
    BY <1>8, <2>1 DEF vars, SuspensionsInv, WritesAreDerived, Complete, ServesOf
  <2>4. SanctionsOfPlayed' /\ ServesOfPlayed' /\ ServedInFull'
    BY <1>8, <2>1
       DEF vars, SuspensionsInv, SanctionsOfPlayed, ServesOfPlayed, ServedInFull, ServesOf
  <2>5. ThresholdsHonoured'
    BY <1>8, <2>1, SameThresholds DEF vars, SuspensionsInv
  <2> QED BY <2>1, <2>2, <2>3, <2>4, <2>5 DEF SuspensionsInv
<1> QED BY <1>1, <1>2, <1>3, <1>4, <1>5, <1>6, <1>7, <1>8 DEF Next

LEMMA SuspensionsInvariant == Spec => []SuspensionsInv
<1> QED BY SuspensionsInit, SuspensionsStep, PTL DEF Spec

\* The types of the suspensions: what is served has been imposed, and serves are of
\* suspensions that exist.
THEOREM SuspensionTypes == Spec => []TypeOK
<1>1. SuspensionsInv => TypeOK
  BY DEF SuspensionsInv
<1> QED BY <1>1, SuspensionsInvariant, PTL

\* The matches served are as many played matches, after the one of the card.
LEMMA NoneCutShort ==
  ASSUME SuspensionsInv, NEW s \in served
  PROVE  LET after(m) == \E i, j \in DOMAIN closed :
                           i < j /\ closed[i] = s[2] /\ closed[j] = m
         IN  Duration(s) <= Cardinality({m \in Played :
               after(m) /\ s[1] \in Registered[m] \ squad[m]})
<1> DEFINE after(m) == \E i, j \in DOMAIN closed :
                         i < j /\ closed[i] = s[2] /\ closed[j] = m
           S == ServesOf(s, serves)
           M == {m \in Played : after(m) /\ s[1] \in Registered[m] \ squad[m]}
           f == [x \in S |-> x[2]]
<1>1. \A x \in S : x[2] \in M
  BY DEF SuspensionsInv, ServesOfPlayed, ServesOf
<1>2. \A x, y \in S : x[2] = y[2] => x = y
  BY DEF SuspensionsInv, TypeOK, ServesOf
<1>3. IsFiniteSet(M)
  <2>1. M \in SUBSET Match
    BY PlayedTypes DEF SuspensionsInv
  <2> HIDE DEF M
  <2> QED BY <2>1, FS_Subset, SuspensionsAssumption
<1>4. f \in Injection(S, M)
  <2>1. f \in [S -> M] /\ \A x, y \in S : f[x] = f[y] => x = y
    <3> HIDE DEF S, M
    <3> QED BY <1>1, <1>2
  <2> HIDE DEF f, S, M
  <2> QED BY <2>1 DEF Injection, IsInjective
<1>5. Cardinality(S) <= Cardinality(M)
  <2> HIDE DEF f, S, M
  <2> QED BY <1>3, <1>4, FS_Injection
<1>6. Cardinality(S) >= Duration(s)
  BY DEF SuspensionsInv, ServedInFull
<1>7. Cardinality(S) \in Nat /\ Cardinality(M) \in Nat /\ Duration(s) \in Nat
  <2>1. Cardinality(S) \in Nat /\ Duration(s) \in Nat
    BY TypedServes, ServesAreFinite, DurationInNat DEF SuspensionsInv
  <2> HIDE DEF S, M
  <2> QED BY <1>3, <2>1, FS_CardinalityType
<1>8. Duration(s) <= Cardinality(M)
  <2> HIDE DEF S, M
  <2> QED BY <1>5, <1>6, <1>7
<1> QED BY <1>8

\* However closes overlap, no multiple of the limit is missed or counted twice, and no
\* suspension ends before its player has been kept out of its matches.
THEOREM SuspensionsAreInOrder == Spec => []SuspensionsInOrder
<1>1. SuspensionsInv => SuspensionsInOrder
  <2>1. SuspensionsInv => NeverCutShort
    BY NoneCutShort DEF NeverCutShort
  <2> QED BY <2>1 DEF SuspensionsInv, SuspensionsInOrder
<1> QED BY <1>1, SuspensionsInvariant, PTL

\* A match is only played by the commit of its own close.
LEMMA OnlyTheClearPlay ==
  ASSUME SuspensionsInv, [Next]_vars,
         NEW m \in Match, m \notin ToSet(closed), m \in Played',
         NEW s \in sanctions, s[1] \in squad[m], TournamentOf[s[2]] = TournamentOf[m],
         s \notin served
  PROVE  Cardinality(ServesOf(s, serves)) >= Duration(s)
<1>1. \E k \in Match : Commit(k) \/ Walkover(k)
  <2>1. closed' # closed
    BY DEF Played
  <2> QED BY <2>1 DEF Next, vars, Begin, Validate, RolledBack, Serve, Mark, Abort
<1>2. PICK k \in Match : Commit(k) \/ Walkover(k)
  BY <1>1
<1>3. ToSet(closed') = ToSet(closed) \cup {k}
  <2>1. k \notin ToSet(closed) /\ closed' = Append(closed, k)
    BY <1>2 DEF SuspensionsInv, OneClose, Commit, Walkover, Opens
  <2> QED BY <2>1, ClosedAppended DEF SuspensionsInv
<1>4. k = m /\ Commit(m)
  BY <1>2, <1>3 DEF Played, Walkover
<1> QED BY <1>4 DEF SuspensionsInv, SquadIsClear, Closing, Commit

\* No match is closed with a player whose suspension, of the same tournament, is pending.
THEOREM NobodyPlaysSuspended == Spec => NoSuspendedPlays
<1>1. SuspensionsInv /\ [Next]_vars =>
        [\A m \in Match, s \in sanctions :
           /\ m \notin ToSet(closed) /\ m \in Played'
           /\ s[1] \in squad[m] /\ TournamentOf[s[2]] = TournamentOf[m]
           /\ s \notin served
           => Cardinality({x \in serves : x[1] = s}) >= Duration(s)]_vars
  BY OnlyTheClearPlay DEF ServesOf
<1> QED BY <1>1, SuspensionsInvariant, PTL DEF Spec, NoSuspendedPlays

-------------------------------------------------------------------------------
(* Rosters.                                                                *)

(* What a request is doing; RostersTypeOK leaves it out.                   *)
PlayerRow == [person : Person, by : Request]
RosterRow == [id : Request \X Nat, player : PlayerRow, dorsal : Dorsal]
Pc == {"start", "upload", "find", "insert", "enroll", "commit", "reactivate", "done"}
Ids == (Request \X Nat) \cup {<<>>}
JobType ==
  [pc : Pc, rows : Seq(Row), at : Nat, players : SUBSET PlayerRow,
   rosters : SUBSET RosterRow, id : Ids]

(* A job in order: it has rows of its own only from its first line to the  *)
(* commit, and a current line while it has lines to write.                 *)
Job ==
  {j \in JobType :
     /\ j.pc = "start" => j = Fresh
     /\ j.pc = "upload" => j.at = 1 /\ j.rows # <<>>
     /\ j.pc \in {"start", "upload", "reactivate", "done"} => j.rosters = {}
     /\ j.pc \in {"find", "insert", "enroll"} => j.at \in 1 .. Len(j.rows)}

Writes == {"find", "insert", "enroll", "commit", "reactivate"}

(* The players a request sees: the committed ones and its own.             *)
Seen(r) == players \cup job[r].players

(* A document has one player, over what is committed and what every        *)
(* request has inserted.                                                   *)
PlayersOnce ==
  \A q, r \in Request : \A p \in Seen(q), x \in Seen(r) : p.person = x.person => p = x

(* A row that is about to be written has its player, and the ones written  *)
(* keep theirs.                                                            *)
HavePlayers ==
  \A r \in Request :
    /\ job[r].pc = "enroll" => Holders(r, Current(r).person) # {}
    /\ \A x \in job[r].rosters : x.player \in Seen(r)

(* An id belongs to one row, of the request that wrote it; a request with  *)
(* committed rows is over.                                                 *)
IdsOnce ==
  /\ \A r \in Request : \A x \in job[r].rosters : x.id[1] = r /\ x.id[2] < job[r].at
  /\ \A x \in rosters : job[x.id[1]].pc = "done"
  /\ \A r \in Request : \A x, y \in job[r].rosters : x.id = y.id => x = y
  /\ \A x, y \in rosters : x.id = y.id => x = y

(* The rows the unique indexes hold for a request: the active ones and the *)
(* ones it has written itself.                                             *)
Live(r) == {x \in rosters : x.id \in active} \cup job[r].rosters

(* No two of them collide, not even of two requests under way.             *)
NoneCollide == \A q, r \in Request : \A x \in Live(q), y \in Live(r) : ~Collide(x, y)

(* While the rosters are locked, nobody writes but those who were writing. *)
NobodyNew == locked => \A r \in Request : Writing(r) => r \in early

RostersInv ==
  /\ RostersTypeOK
  /\ job \in [Request -> Job]
  /\ PlayersOnce /\ HavePlayers
  /\ IdsOnce /\ NoneCollide
  /\ NobodyNew

-------------------------------------------------------------------------------
(* One request at a time: the others keep what they are doing.             *)

LEMMA JobTakesRows ==
    ASSUME NEW j \in JobType, NEW to \in Pc, NEW rows \in Seq(Row)
    PROVE  [j EXCEPT !.pc = to, !.rows = rows] \in JobType
BY DEF JobType

LEMMA JobMovesOn ==
    ASSUME NEW j \in JobType, NEW written \in SUBSET RosterRow, NEW at \in Nat, NEW to \in Pc
    PROVE  [j EXCEPT !.rosters = written, !.at = at, !.pc = to] \in JobType
BY DEF JobType

LEMMA FreshIsAJob ==
  /\ Fresh \in Job
  /\ Fresh.at = 1 /\ Fresh.players = {} /\ Fresh.rosters = {}
BY DEF Fresh, Job, JobType, Pc, Ids

LEMMA DoneIsAJob == [Fresh EXCEPT !.pc = "done"] \in Job
BY FreshIsAJob DEF Job, JobType, Pc

LEMMA CurrentIsRow ==
    ASSUME job \in [Request -> Job], NEW r \in Request,
           job[r].pc \in {"find", "insert", "enroll"}
    PROVE  Current(r) \in Row
BY DEF Job, JobType, Current

LEMMA OverOnly ==
    ASSUME job \in [Request -> Job], NEW r \in Request, Over(r)
    PROVE  /\ job' \in [Request -> Job]
           /\ job'[r].pc = "done" /\ job'[r].players = {} /\ job'[r].rosters = {}
           /\ \A q \in Request \ {r} : job'[q] = job[q]
BY DoneIsAJob DEF Over, Fresh

LEMMA StepOnly ==
    ASSUME job \in [Request -> Job], NEW r \in Request, NEW to, Step(r, to),
           [job[r] EXCEPT !.pc = to] \in Job
    PROVE  /\ job' \in [Request -> Job]
           /\ job'[r] = [job[r] EXCEPT !.pc = to]
           /\ \A q \in Request \ {r} : job'[q] = job[q]
BY DEF Step

(* A request that only moves on writes nothing: what the others and the     *)
(* tables hold stays as it is.                                             *)
LEMMA MovingKeeps ==
    ASSUME RostersInv, NEW r \in Request, NEW j \in Job,
           job' = [job EXCEPT ![r] = j],
           j.players = job[r].players, j.rosters = job[r].rosters,
           j.at = job[r].at, job[r].pc # "done" => j.pc # "start",
           job[r].pc = "done" => j.pc = "done",
           j.pc = "enroll" => Holders(r, j.rows[j.at].person) # {},
           j.pc \in Writes => job[r].pc \in Writes \/ ~locked,
           UNCHANGED <<locked, players, rosters, active, early>>
    PROVE  RostersInv'
<1>1. /\ job' \in [Request -> Job]
      /\ job'[r] = j /\ \A q \in Request \ {r} : job'[q] = job[q]
  BY DEF RostersInv
<1>2. /\ \A q \in Request : /\ Seen(q)' = Seen(q) /\ Live(q)' = Live(q)
                            /\ job'[q].rosters = job[q].rosters /\ job'[q].at = job[q].at
                            /\ job[q].pc = "done" => job'[q].pc = "done"
  BY <1>1 DEF Seen, Live
<1>3. RostersTypeOK'
  BY DEF RostersInv, RostersTypeOK
<1>4. PlayersOnce' /\ NoneCollide'
  BY <1>2 DEF RostersInv, PlayersOnce, NoneCollide
<1>5. HavePlayers'
  BY <1>1, <1>2 DEF RostersInv, HavePlayers, Holders, Current
<1>6. IdsOnce'
  BY <1>2 DEF RostersInv, RostersTypeOK, IdsOnce
<1>7. NobodyNew'
  BY <1>1 DEF RostersInv, NobodyNew, Writing, Writes
<1> QED BY <1>1, <1>3, <1>4, <1>5, <1>6, <1>7 DEF RostersInv

(* A request that ends takes away what it had written and not committed.   *)
LEMMA OverKeeps ==
    ASSUME RostersInv, NEW r \in Request, Over(r),
           UNCHANGED <<locked, players, rosters, active, early>>
    PROVE  RostersInv'
<1>1. /\ job' \in [Request -> Job]
      /\ job'[r].pc = "done" /\ job'[r].players = {} /\ job'[r].rosters = {}
      /\ \A q \in Request \ {r} : job'[q] = job[q]
  BY OverOnly DEF RostersInv
<1>2. \A q \in Request : Seen(q)' \subseteq Seen(q) /\ Live(q)' \subseteq Live(q)
  BY <1>1 DEF Seen, Live
<1>3. RostersTypeOK'
  BY DEF RostersInv, RostersTypeOK
<1>4. PlayersOnce' /\ NoneCollide'
  BY <1>2 DEF RostersInv, PlayersOnce, NoneCollide
<1>5. HavePlayers'
  BY <1>1 DEF RostersInv, HavePlayers, Holders, Current, Seen
<1>6. IdsOnce'
  BY <1>1 DEF RostersInv, RostersTypeOK, IdsOnce
<1>7. NobodyNew'
  BY <1>1 DEF RostersInv, NobodyNew, Writing
<1> QED BY <1>1, <1>3, <1>4, <1>5, <1>6, <1>7 DEF RostersInv

LEMMA RegisterKeeps ==
    ASSUME RostersInv, NEW r \in Request, NEW row \in Row, Register(r, row)
    PROVE  RostersInv'
<1> DEFINE rows == <<row>>
           j == [Fresh EXCEPT !.pc = "find", !.rows = rows]
<1>1. job[r] = Fresh /\ job[r].pc = "start" /\ ~locked
  BY DEF Register, RostersInv, Job
<1>2. job' = [job EXCEPT ![r] = j]
  BY <1>1 DEF Register, RostersInv
<1>3. rows \in Seq(Row) /\ Len(rows) = 1
  OBVIOUS
<1>4. j \in Job
  <2> HIDE DEF rows
  <2>1. j \in JobType
    BY <1>3, FreshIsAJob, JobTakesRows DEF Job, Pc
  <2>2. j.pc = "find" /\ j.at = 1 /\ j.rows = rows
    BY FreshIsAJob DEF Job, JobType
  <2>3. 1 \in 1 .. Len(rows)
    BY <1>3
  <2> HIDE DEF j
  <2> QED BY <2>1, <2>2, <2>3 DEF Job
<1>5. /\ j.players = job[r].players /\ j.rosters = job[r].rosters
      /\ j.at = job[r].at /\ j.pc = "find"
  BY <1>1 DEF Fresh
<1> HIDE DEF j
<1> QED BY <1>1, <1>2, <1>4, <1>5, MovingKeeps DEF Register

LEMMA ImportKeeps ==
    ASSUME RostersInv, NEW r \in Request, NEW rows \in Files, Import(r, rows)
    PROVE  RostersInv'
<1> DEFINE j == [Fresh EXCEPT !.pc = "upload", !.rows = rows]
<1>1. job[r] = Fresh /\ job[r].pc = "start" /\ ~locked
  BY DEF Import, RostersInv, Job
<1>2. job' = [job EXCEPT ![r] = j]
  BY <1>1 DEF Import, RostersInv
<1>3. rows \in Seq(Row) /\ rows # <<>>
  BY RostersAssumption DEF RostersAssumption
<1>4. j \in Job
  BY <1>3, FreshIsAJob DEF Job, JobType, Pc, Ids
<1>5. /\ j.players = job[r].players /\ j.rosters = job[r].rosters
      /\ j.at = job[r].at /\ j.pc = "upload"
  BY <1>1 DEF Fresh
<1> HIDE DEF j
<1> QED BY <1>1, <1>2, <1>4, <1>5, MovingKeeps DEF Import, Writes

LEMMA UploadedKeeps ==
    ASSUME RostersInv, NEW r \in Request, Uploaded(r)
    PROVE  RostersInv'
<1> DEFINE to == IF locked THEN "done" ELSE "find"
           j == [job[r] EXCEPT !.pc = to]
<1>1. job[r] \in Job /\ job[r].pc = "upload"
  BY DEF Uploaded, RostersInv
<1>2. job' = [job EXCEPT ![r] = j]
  BY <1>1 DEF Uploaded, Step, RostersInv
<1>3. job[r].at = 1 /\ Len(job[r].rows) \in Nat /\ Len(job[r].rows) >= 1
  BY <1>1 DEF Job, JobType
<1>4. j \in Job
  BY <1>1, <1>3 DEF Job, JobType, Pc
<1>5. /\ j.players = job[r].players /\ j.rosters = job[r].rosters
      /\ j.at = job[r].at /\ j.pc = to
  BY <1>1 DEF Job, JobType
<1> HIDE DEF j
<1> QED BY <1>1, <1>2, <1>4, <1>5, MovingKeeps DEF Uploaded, Writes

LEMMA FindPlayerKeeps ==
    ASSUME RostersInv, NEW r \in Request, FindPlayer(r)
    PROVE  RostersInv'
<1> DEFINE to == IF Holders(r, Current(r).person) = {} THEN "insert" ELSE "enroll"
           j == [job[r] EXCEPT !.pc = to]
<1>1. job[r] \in Job /\ job[r].pc = "find"
  BY DEF FindPlayer, RostersInv
<1>2. job' = [job EXCEPT ![r] = j]
  BY <1>1 DEF FindPlayer, Step, RostersInv
<1>3. j \in Job
  BY <1>1 DEF Job, JobType, Pc
<1>4. /\ j.players = job[r].players /\ j.rosters = job[r].rosters
      /\ j.at = job[r].at /\ j.rows = job[r].rows /\ j.pc = to
  BY <1>1 DEF Job, JobType
<1>5. j.pc = "enroll" => Holders(r, j.rows[j.at].person) # {}
  BY <1>4 DEF Current
<1> HIDE DEF j
<1> QED BY <1>1, <1>2, <1>3, <1>4, <1>5, MovingKeeps DEF FindPlayer, Writes

LEMMA ReactivateKeeps ==
    ASSUME RostersInv, NEW r \in Request, NEW x \in rosters, Reactivate(r, x)
    PROVE  RostersInv'
<1> DEFINE j == [Fresh EXCEPT !.pc = "reactivate", !.id = x.id]
<1>1. job[r] = Fresh /\ job[r].pc = "start" /\ ~locked
  BY DEF Reactivate, RostersInv, Job
<1>2. job' = [job EXCEPT ![r] = j]
  BY <1>1 DEF Reactivate, RostersInv
<1>3. x.id \in Request \X Nat
  BY DEF RostersInv, RostersTypeOK
<1>4. j \in Job
  BY <1>3, FreshIsAJob DEF Job, JobType, Pc, Ids
<1>5. /\ j.players = job[r].players /\ j.rosters = job[r].rosters
      /\ j.at = job[r].at /\ j.pc = "reactivate"
  BY <1>1 DEF Fresh
<1> HIDE DEF j
<1> QED BY <1>1, <1>2, <1>4, <1>5, MovingKeeps DEF Reactivate

LEMMA FailKeeps ==
    ASSUME RostersInv, NEW r \in Request, Fail(r)
    PROVE  RostersInv'
BY OverKeeps DEF Fail

(* The document has no player anywhere, or it has the one that is used.    *)
LEMMA InsertPlayerKeeps ==
    ASSUME RostersInv, NEW r \in Request, InsertPlayer(r)
    PROVE  RostersInv'
<1> DEFINE person == Current(r).person
           new == IF Holders(r, person) = {}
                  THEN job[r].players \cup {[person |-> person, by |-> r]}
                  ELSE job[r].players
           j == [job[r] EXCEPT !.pc = "enroll", !.players = new]
<1>1. job[r] \in Job /\ job[r].pc = "insert"
  BY DEF InsertPlayer, RostersInv
<1>2. job' = [job EXCEPT ![r] = j]
  BY <1>1 DEF InsertPlayer, RostersInv
<1>3. person \in Person
  BY <1>1, CurrentIsRow DEF RostersInv, Row
<1>4. new \subseteq PlayerRow /\ job[r].players \subseteq new
  BY <1>1, <1>3 DEF Job, JobType, PlayerRow
<1>5. j \in Job
  <2> HIDE DEF new
  <2> QED BY <1>1, <1>4 DEF Job, JobType, Pc
<1>6. /\ j.players = new /\ j.rosters = job[r].rosters
      /\ j.at = job[r].at /\ j.rows = job[r].rows /\ j.pc = "enroll"
  <2> HIDE DEF new
  <2> QED BY <1>1 DEF Job, JobType
<1>7. /\ job' \in [Request -> Job]
      /\ job'[r] = j /\ \A q \in Request \ {r} : job'[q] = job[q]
  <2> HIDE DEF j
  <2> QED BY <1>2, <1>5 DEF RostersInv
<1>8. UNCHANGED <<locked, players, rosters, active, early>>
  BY DEF InsertPlayer
<1>9. RostersTypeOK' /\ NobodyNew'
  BY <1>1, <1>6, <1>7, <1>8 DEF RostersInv, RostersTypeOK, NobodyNew, Writing
<1>10. PlayersOnce'
  <2>1. CASE Holders(r, person) = {}
    <3> DEFINE mine == [person |-> person, by |-> r]
    <3>1. Seen(r)' = Seen(r) \cup {mine}
      BY <1>6, <1>7, <1>8, <2>1 DEF Seen
    <3>2. \A q \in Request \ {r} : Seen(q)' = Seen(q)
      BY <1>7, <1>8 DEF Seen
    <3>3. \A q \in Request : \A p \in Seen(q) : p.person # mine.person
      BY <2>1 DEF InsertPlayer, Holders, Seen
    <3> HIDE DEF mine
    <3> QED BY <3>1, <3>2, <3>3 DEF RostersInv, PlayersOnce
  <2>2. CASE Holders(r, person) # {}
    <3>1. \A q \in Request : Seen(q)' = Seen(q)
      BY <1>6, <1>7, <1>8, <2>2 DEF Seen
    <3> QED BY <3>1 DEF RostersInv, PlayersOnce
  <2> QED BY <2>1, <2>2
<1>11. HavePlayers'
  <2>1. Current(r)' = Current(r)
    BY <1>6, <1>7 DEF Current
  <2>2. Holders(r, person)' # {}
    <3>1. CASE Holders(r, person) = {}
      <4>1. [person |-> person, by |-> r] \in (players \cup job[r].players)'
        BY <1>6, <1>7, <3>1
      <4> QED BY <2>1, <4>1 DEF Holders
    <3>2. CASE Holders(r, person) # {}
      BY <1>6, <1>7, <1>8, <2>1, <3>2 DEF Holders
    <3> QED BY <3>1, <3>2
  <2>3. \A x \in job'[r].rosters : x.player \in Seen(r)'
    BY <1>4, <1>6, <1>7, <1>8 DEF RostersInv, HavePlayers, Seen
  <2>4. \A q \in Request \ {r} :
          /\ job'[q].pc = "enroll" => Holders(q, Current(q).person)' # {}
          /\ \A x \in job'[q].rosters : x.player \in Seen(q)'
    BY <1>7, <1>8 DEF RostersInv, HavePlayers, Holders, Seen, Current
  <2> HIDE DEF j, person
  <2> QED BY <2>1, <2>2, <2>3, <2>4 DEF HavePlayers, person
<1>12. /\ \A q \in Request : Live(q)' = Live(q) /\ job'[q].rosters = job[q].rosters
       /\ \A q \in Request : job'[q].at = job[q].at
       /\ \A q \in Request : job[q].pc = "done" => job'[q].pc = "done"
  BY <1>1, <1>6, <1>7, <1>8 DEF Live
<1>13. NoneCollide'
  BY <1>12 DEF RostersInv, NoneCollide
<1>14. IdsOnce'
  BY <1>8, <1>12 DEF RostersInv, RostersTypeOK, IdsOnce
<1> QED BY <1>7, <1>9, <1>10, <1>11, <1>13, <1>14 DEF RostersInv

(* The row of the current line collides with no active one, with none of   *)
(* its own request and with none of a request under way.                   *)
LEMMA EnrollKeeps ==
    ASSUME RostersInv, NEW r \in Request, Enroll(r)
    PROVE  RostersInv'
<1> DEFINE x == [id |-> <<r, job[r].at>>, player |-> PlayerOf(r, Current(r).person),
                 dorsal |-> Current(r).dorsal]
           last == job[r].at = Len(job[r].rows)
           j == [job[r] EXCEPT !.rosters = job[r].rosters \cup {x}, !.at = job[r].at + 1,
                               !.pc = IF last THEN "commit" ELSE "find"]
<1>1. job[r] \in Job /\ job[r].pc = "enroll" /\ Current(r) \in Row
  BY CurrentIsRow DEF Enroll, RostersInv
<1>2. CASE ~Admissible(r, x)
  BY <1>2, OverKeeps DEF Enroll
<1>3. CASE Admissible(r, x)
  <2>1. job' = [job EXCEPT ![r] = j] /\ ~MustWait(r, x)
    BY <1>1, <1>3 DEF Enroll, RostersInv
  <2>2. x.player \in Seen(r) /\ x.player \in PlayerRow
    <3>1. PlayerOf(r, Current(r).person) \in Holders(r, Current(r).person)
      BY <1>1 DEF RostersInv, HavePlayers, PlayerOf
    <3> QED
      BY <1>1, <3>1
      DEF Holders, Seen, Job, JobType, RostersInv, RostersTypeOK, PlayerRow
  <2>3. x \in RosterRow
    BY <1>1, <2>2 DEF RosterRow, Row, Job, JobType
  <2>4. j \in Job
    <3>1. /\ job[r].at \in Nat /\ Len(job[r].rows) \in Nat
          /\ job[r].at \in 1 .. Len(job[r].rows)
      BY <1>1 DEF Job, JobType
    <3>2. ~last => job[r].at + 1 \in 1 .. Len(job[r].rows)
      BY <3>1
    <3> DEFINE to == IF last THEN "commit" ELSE "find"
               written == job[r].rosters \cup {x}
    <3>3. written \in SUBSET RosterRow
      BY <1>1, <2>3 DEF Job, JobType
    <3>4. to \in {"commit", "find"} /\ (to = "find" => ~last)
      OBVIOUS
    <3>5. j = [job[r] EXCEPT !.rosters = written, !.at = job[r].at + 1, !.pc = to]
      OBVIOUS
    <3> HIDE DEF x, last, to, written, j
    <3>6. [job[r] EXCEPT !.rosters = written, !.at = job[r].at + 1, !.pc = to] \in JobType
      <4>1. job[r] \in JobType /\ to \in Pc /\ job[r].at + 1 \in Nat
        BY <1>1, <3>1, <3>4 DEF Job, Pc
      <4>2. written \in SUBSET RosterRow
        BY <3>3
      <4> QED BY <4>1, <4>2, JobMovesOn
    <3>7. j.pc = to /\ j.at = job[r].at + 1 /\ j.rows = job[r].rows
      BY <1>1, <3>5 DEF Job, JobType
    <3> QED BY <3>2, <3>4, <3>5, <3>6, <3>7 DEF Job
  <2>5. /\ j.players = job[r].players /\ j.rosters = job[r].rosters \cup {x}
        /\ j.at = job[r].at + 1 /\ j.pc \in {"commit", "find"}
    <3> HIDE DEF x
    <3> QED BY <1>1 DEF Job, JobType
  <2>6. /\ job' \in [Request -> Job]
        /\ job'[r] = j /\ \A q \in Request \ {r} : job'[q] = job[q]
    <3> HIDE DEF j
    <3> QED BY <2>1, <2>4 DEF RostersInv
  <2>7. UNCHANGED <<locked, players, rosters, active, early>>
    BY DEF Enroll
  <2>8. RostersTypeOK' /\ NobodyNew'
    BY <1>1, <2>5, <2>6, <2>7 DEF RostersInv, RostersTypeOK, NobodyNew, Writing
  <2>9. PlayersOnce' /\ HavePlayers'
    <3>1. \A q \in Request : Seen(q)' = Seen(q)
      BY <2>5, <2>6, <2>7 DEF Seen
    <3> HIDE DEF x, j
    <3> QED
      BY <2>2, <2>5, <2>6, <2>7, <3>1
      DEF RostersInv, PlayersOnce, HavePlayers, Holders, Current
  <2>10. IdsOnce'
    <3>1. job[r].at \in Nat /\ \A y \in job[r].rosters : y.id[2] < job[r].at
      BY <1>1 DEF RostersInv, IdsOnce, Job, JobType
    <3>2. x.id[1] = r /\ x.id[2] = job[r].at /\ \A y \in job[r].rosters : y.id # x.id
      BY <3>1
    <3>3. \A y \in job[r].rosters : y.id[2] \in Nat
      BY <1>1 DEF Job, JobType, RosterRow
    <3> HIDE DEF x, j
    <3> QED
      BY <1>1, <2>5, <2>6, <2>7, <3>1, <3>2, <3>3 DEF RostersInv, RostersTypeOK, IdsOnce
  <2>11. NoneCollide'
    <3>1. Live(r)' = Live(r) \cup {x} /\ \A q \in Request \ {r} : Live(q)' = Live(q)
      BY <2>5, <2>6, <2>7 DEF Live
    <3>2. \A q \in Request : \A y \in Live(q) : ~Collide(x, y) /\ ~Collide(y, x)
      BY <1>3, <2>1 DEF Admissible, MustWait, Live, Collide
    <3>3. ~Collide(x, x)
      BY DEF Collide
    <3> HIDE DEF x
    <3> QED BY <3>1, <3>2, <3>3 DEF RostersInv, NoneCollide
  <2> QED BY <2>6, <2>8, <2>9, <2>10, <2>11 DEF RostersInv
<1> QED BY <1>2, <1>3

(* What a request has written becomes everybody's, and it is over.         *)
LEMMA CommitRowsKeeps ==
    ASSUME RostersInv, NEW r \in Request, CommitRows(r)
    PROVE  RostersInv'
<1>1. /\ job' \in [Request -> Job]
      /\ job'[r].pc = "done" /\ job'[r].players = {} /\ job'[r].rosters = {}
      /\ \A q \in Request \ {r} : job'[q] = job[q]
  BY OverOnly DEF CommitRows, RostersInv
<1>2. /\ job[r] \in Job /\ job[r].pc = "commit"
      /\ players' = players \cup job[r].players
      /\ rosters' = rosters \cup job[r].rosters
      /\ active' = active \cup {x.id : x \in job[r].rosters}
      /\ UNCHANGED <<locked, early>>
  BY DEF CommitRows, RostersInv
<1>3. RostersTypeOK'
  <2>1. players' \subseteq PlayerRow
    BY <1>2 DEF RostersInv, RostersTypeOK, Job, JobType, PlayerRow
  <2>2. \A x \in job[r].rosters : x \in RosterRow /\ x.player \in players'
    BY <1>2 DEF RostersInv, HavePlayers, Seen, Job, JobType
  <2>3. rosters' \subseteq [id : Request \X Nat, player : players', dorsal : Dorsal]
    BY <1>2, <2>2 DEF RostersInv, RostersTypeOK, RosterRow
  <2>4. active' \subseteq {x.id : x \in rosters'}
    BY <1>2 DEF RostersInv, RostersTypeOK
  <2> QED BY <1>2, <2>1, <2>3, <2>4 DEF RostersInv, RostersTypeOK, PlayerRow
<1>4. \A q \in Request : Seen(q)' \subseteq Seen(q) \cup Seen(r)
  BY <1>1, <1>2 DEF Seen
<1>5. PlayersOnce'
  BY <1>4 DEF RostersInv, PlayersOnce
<1>6. HavePlayers'
  BY <1>1, <1>2 DEF RostersInv, HavePlayers, Seen, Holders, Current
<1>7. \A x \in rosters, y \in job[r].rosters : x.id # y.id
  BY <1>2 DEF RostersInv, IdsOnce
<1>8. IdsOnce'
  BY <1>1, <1>2, <1>7 DEF RostersInv, RostersTypeOK, IdsOnce
<1>9. NoneCollide'
  <2>1. \A x \in rosters : x.id \in active' => x.id \in active
    BY <1>2, <1>7
  <2>2. \A q \in Request : Live(q)' \subseteq Live(q) \cup Live(r)
    BY <1>1, <1>2, <2>1 DEF Live
  <2> QED BY <2>2 DEF RostersInv, NoneCollide
<1>10. NobodyNew'
  BY <1>1, <1>2 DEF RostersInv, NobodyNew, Writing
<1> QED BY <1>1, <1>3, <1>5, <1>6, <1>8, <1>9, <1>10 DEF RostersInv

LEMMA ReactivateWriteKeeps ==
    ASSUME RostersInv, NEW r \in Request, ReactivateWrite(r)
    PROVE  RostersInv'
<1>1. PICK x \in rosters :
        /\ job[r].pc = "reactivate" /\ x.id = job[r].id
        /\ ~MustWait(r, x)
        /\ active' = IF Admissible(r, x) THEN active \cup {x.id} ELSE active
        /\ Over(r)
        /\ UNCHANGED <<locked, players, rosters, early>>
  BY DEF ReactivateWrite
<1>2. CASE ~Admissible(r, x)
  BY <1>1, <1>2, OverKeeps
<1>3. CASE Admissible(r, x)
  <2>1. /\ job' \in [Request -> Job]
        /\ job'[r].pc = "done" /\ job'[r].players = {} /\ job'[r].rosters = {}
        /\ \A q \in Request \ {r} : job'[q] = job[q]
    BY <1>1, OverOnly DEF RostersInv
  <2>2. RostersTypeOK'
    BY <1>1, <1>3 DEF RostersInv, RostersTypeOK
  <2>3. PlayersOnce' /\ HavePlayers'
    BY <1>1, <2>1 DEF RostersInv, PlayersOnce, HavePlayers, Seen, Holders, Current
  <2>4. IdsOnce'
    BY <1>1, <2>1 DEF RostersInv, RostersTypeOK, IdsOnce
  <2>5. NoneCollide'
    <3>1. \A y \in rosters : y.id = x.id => y = x
      BY DEF RostersInv, IdsOnce
    <3>2. \A q \in Request : Live(q)' \subseteq Live(q) \cup {x}
      BY <1>1, <1>3, <2>1, <3>1 DEF Live
    <3>3. \A q \in Request : \A y \in Live(q) : ~Collide(x, y) /\ ~Collide(y, x)
      BY <1>1, <1>3 DEF Admissible, MustWait, Live, Collide
    <3>4. ~Collide(x, x)
      BY DEF Collide
    <3> QED BY <3>2, <3>3, <3>4 DEF RostersInv, NoneCollide
  <2>6. NobodyNew'
    BY <1>1, <2>1 DEF RostersInv, NobodyNew, Writing
  <2> QED BY <2>1, <2>2, <2>3, <2>4, <2>5, <2>6 DEF RostersInv
<1> QED BY <1>2, <1>3

LEMMA AroundKeeps ==
    ASSUME RostersInv, Lock \/ Unlock \/ \E x \in rosters : Retire(x)
    PROVE  RostersInv'
<1>1. UNCHANGED <<players, rosters, job>> /\ active' \subseteq active
  BY DEF Lock, Unlock, Retire
<1>2. RostersTypeOK'
  BY <1>1 DEF RostersInv, RostersTypeOK, Lock, Unlock, Retire
<1>3. PlayersOnce' /\ HavePlayers' /\ IdsOnce'
  BY <1>1 DEF RostersInv, PlayersOnce, HavePlayers, IdsOnce, Seen, Holders, Current
<1>4. NoneCollide'
  <2>1. \A q \in Request : Live(q)' \subseteq Live(q)
    BY <1>1 DEF Live
  <2> QED BY <2>1 DEF RostersInv, NoneCollide
<1>5. NobodyNew'
  BY DEF RostersInv, NobodyNew, Writing, Lock, Unlock, Retire
<1> QED BY <1>1, <1>2, <1>3, <1>4, <1>5 DEF RostersInv

LEMMA RostersStart == RostersInit => RostersInv
<1> SUFFICES ASSUME RostersInit PROVE RostersInv
  OBVIOUS
<1>2. job \in [Request -> Job] /\ \A r \in Request : job[r] = Fresh
  BY FreshIsAJob DEF RostersInit
<1> QED
  BY <1>2
  DEF RostersInit, RostersInv, RostersTypeOK, PlayersOnce, HavePlayers, IdsOnce,
      NoneCollide, NobodyNew, Seen, Live, Fresh

LEMMA RostersStep ==
    ASSUME RostersInv, [RostersNext]_rostersVars
    PROVE  RostersInv'
<1>1. CASE \E r \in Request : \E row \in Row : Register(r, row)
  BY <1>1, RegisterKeeps
<1>2. CASE \E r \in Request : \E rows \in Files : Import(r, rows)
  BY <1>2, ImportKeeps
<1>3. CASE \E r \in Request : Uploaded(r) \/ FindPlayer(r) \/ InsertPlayer(r) \/ Enroll(r)
  BY <1>3, UploadedKeeps, FindPlayerKeeps, InsertPlayerKeeps, EnrollKeeps
<1>4. CASE \E r \in Request : CommitRows(r) \/ Fail(r) \/ ReactivateWrite(r)
  BY <1>4, CommitRowsKeeps, FailKeeps, ReactivateWriteKeeps
<1>5. CASE \E r \in Request : \E x \in rosters : Reactivate(r, x)
  BY <1>5, ReactivateKeeps
<1>6. CASE Lock \/ Unlock \/ \E x \in rosters : Retire(x)
  BY <1>6, AroundKeeps
<1>7. CASE UNCHANGED rostersVars
  BY <1>7
  DEF rostersVars, RostersInv, RostersTypeOK, PlayersOnce, HavePlayers, IdsOnce,
      NoneCollide, NobodyNew, Seen, Live, Holders, Current, Writing
<1> QED BY <1>1, <1>2, <1>3, <1>4, <1>5, <1>6, <1>7 DEF RostersNext

LEMMA RostersInductive == RostersSpec => []RostersInv
<1>1. RostersInv /\ [RostersNext]_rostersVars => RostersInv'
  BY RostersStep
<1> QED BY <1>1, RostersStart, PTL DEF RostersSpec

\* Players, registrations and the lock keep their types: a registration is of a
\* player of the organization, and only registrations are active.
THEOREM RostersTypes == RostersSpec => []RostersTypeOK
<1>1. RostersInv => RostersTypeOK
  BY DEF RostersInv
<1> QED BY <1>1, RostersInductive, PTL

\* However registrations, imports and reactivations overlap and fail, no document
\* and no dorsal has two active registrations.
THEOREM NobodyTwice == RostersSpec => []OneRegistration
<1>1. ASSUME RostersInv PROVE OneRegistration
  <2> SUFFICES ASSUME NEW x \in rosters, NEW y \in rosters, x.id # y.id,
                      x.id \in active, y.id \in active
               PROVE  x.player.person # y.player.person /\ x.dorsal # y.dorsal
    BY DEF OneRegistration
  <2>1. PICK r \in Request : r = x.id[1]
    BY <1>1 DEF RostersInv, RostersTypeOK
  <2>2. x \in Live(r) /\ y \in Live(r)
    BY DEF Live
  <2>3. x.player # y.player /\ x.dorsal # y.dorsal
    BY <1>1, <2>2 DEF RostersInv, NoneCollide, Collide
  <2>4. x.player \in Seen(r) /\ y.player \in Seen(r)
    BY <1>1 DEF RostersInv, RostersTypeOK, Seen
  <2> QED BY <1>1, <2>3, <2>4 DEF RostersInv, PlayersOnce
<1> QED BY <1>1, RostersInductive, PTL

\* While the rosters are locked, a row becomes active only through a request that
\* was already writing when the lock came.
THEOREM LockIsHonoured == RostersSpec => LockHonoured
<1>1. ASSUME RostersInv, [RostersNext]_rostersVars
      PROVE  \A x \in rosters' :
               locked /\ x.id \in active' \ active =>
                 \E r \in early : x.id = job[r].id \/ x \in job[r].rosters
  <2> SUFFICES ASSUME NEW x \in rosters', locked, x.id \in active', x.id \notin active
               PROVE  \E r \in early : x.id = job[r].id \/ x \in job[r].rosters
    OBVIOUS
  <2>1. CASE \E r \in Request : CommitRows(r)
    <3>1. PICK r \in Request : CommitRows(r)
      BY <2>1
    <3>2. r \in early
      BY <1>1, <3>1 DEF RostersInv, NobodyNew, Writing, CommitRows
    <3>3. PICK y \in job[r].rosters : y.id = x.id
      BY <3>1 DEF CommitRows
    <3>4. x \in job[r].rosters
      BY <1>1, <3>1, <3>3 DEF RostersInv, IdsOnce, CommitRows
    <3> QED BY <3>2, <3>4
  <2>2. CASE \E r \in Request : ReactivateWrite(r)
    BY <1>1, <2>2 DEF RostersInv, NobodyNew, Writing, ReactivateWrite
  <2>3. CASE active' \subseteq active
    BY <2>3
  <2> QED
    BY <1>1, <2>1, <2>2, <2>3
    DEF RostersNext, rostersVars, Register, Import, Uploaded, FindPlayer, InsertPlayer,
        Enroll, Fail, Reactivate, Retire, Lock, Unlock
<1> QED BY <1>1, RostersInductive, PTL DEF RostersSpec, LockHonoured

-------------------------------------------------------------------------------
(* Media.                                                                  *)

Finished(r) == task[r].pc \in {"drop", "done"}

(* Until a request is over, no row and no other request knows its key.     *)
WrittenOnce ==
  \A r \in Upload :
    ~Finished(r) => photo # r /\ crest # r /\ \A q \in Upload : task[q].old # r

(* Photos and crests have been uploaded as such, the old keys too.         *)
KindOfKeys ==
  /\ photo # NoKey => task[photo].kind \in {"photo", "import"}
  /\ crest # NoKey => task[crest].kind = "crest"
  /\ \A q \in Upload :
       task[q].old # NoKey =>
         \/ task[q].kind \in {"crest", "delete"} /\ task[task[q].old].kind = "crest"
         \/ /\ task[q].kind \in {"photo", "consent"}
            /\ task[task[q].old].kind \in {"photo", "import"}

(* What a request is about to write is in the storage.                     *)
UploadedBefore ==
  \A r \in Upload :
    task[r].pc \in {"write", "update"} /\ task[r].kind \in {"photo", "crest", "import"} =>
      r \in store

(* What a request is about to delete belongs to no row, nor to itself.     *)
DropsAreLoose ==
  \A q \in Upload :
    /\ task[q].old # q
    /\ task[q].pc = "drop" => task[q].old \notin {photo, crest, NoKey}

(* Without a registration there is no consent, no photo and nobody who is  *)
(* about to change them.                                                   *)
PhotoOfTheEnrolled ==
  ~enrolled =>
    ~consent /\ photo = NoKey /\ \A q \in Upload : task[q].kind # "consent"

LateIsSpoiled == landing # {} => spoiled

(* NoCrestLeft, from the moment the crest is committed.                    *)
CrestsAccounted ==
  ~spoiled =>
    \A r \in store :
      task[r].kind = "crest" /\ Finished(r) =>
        \/ crest = r
        \/ \E q \in Upload : task[q].pc = "drop" /\ task[q].old = r

(* The parts of the invariant; the properties themselves follow from them. *)
MediaParts ==
  /\ MediaTypeOK
  /\ WrittenOnce /\ KindOfKeys
  /\ UploadedBefore /\ DropsAreLoose
  /\ PhotoOfTheEnrolled /\ LateIsSpoiled /\ NoPhotoWithoutConsent
  /\ CrestsAccounted

(* And the objects the rows name.                                          *)
MediaInv == MediaParts /\ NoBrokenReference

USE MediaAssumption DEF MediaAssumption, Key

Task ==
  [kind : {"none", "photo", "crest", "import", "delete", "consent"},
   pc : {"start", "put", "write", "update", "drop", "undo", "done"}, old : Key]

LEMMA GoesTyped ==
    ASSUME task \in [Upload -> Task], NEW r \in Upload, NEW old \in Key,
           NEW to \in {"start", "put", "write", "update", "drop", "undo", "done"},
           GoesWith(r, to, old)
    PROVE  task' \in [Upload -> Task]
<1>1. [task[r] EXCEPT !.pc = to, !.old = old] \in Task
  BY DEF Task
<1> QED BY <1>1 DEF GoesWith

LEMMA AfterCommitTyped ==
    ASSUME MediaTypeOK, NEW r \in Upload, NEW old \in Key, NEW confirmed \in BOOLEAN,
           AfterCommit(r, old, confirmed)
    PROVE  task' \in [Upload -> Task] /\ spoiled' \in BOOLEAN
<1>1. task \in [Upload -> Task]
  BY DEF MediaTypeOK, Task
<1> DEFINE to == IF confirmed /\ old # NoKey THEN "drop" ELSE "done"
<1>2. to \in {"start", "put", "write", "update", "drop", "undo", "done"}
  OBVIOUS
<1>3. GoesWith(r, to, old) /\ spoiled' \in BOOLEAN
  BY DEF AfterCommit
<1> HIDE DEF to
<1> QED BY <1>1, <1>2, <1>3, GoesTyped

LEMMA PhotoGateKeeps ==
    ASSUME MediaParts, NEW r \in Upload, PhotoGate(r)
    PROVE  MediaParts'
<1>1. MediaTypeOK'
  BY DEF MediaParts, MediaTypeOK, PhotoGate, Begins, Others
<1>2. WrittenOnce' /\ KindOfKeys'
  BY DEF MediaParts, WrittenOnce, KindOfKeys, PhotoGate, Finished, Unstarted, Begins,
         Others
<1>3. UploadedBefore' /\ DropsAreLoose'
  BY DEF MediaParts, WrittenOnce, UploadedBefore, DropsAreLoose, PhotoGate, Finished,
         Unstarted, Begins, Others
<1>4. PhotoOfTheEnrolled' /\ LateIsSpoiled' /\ NoPhotoWithoutConsent'
  BY DEF MediaParts, NoPhotoWithoutConsent, PhotoOfTheEnrolled, LateIsSpoiled,
         PhotoGate, Others
<1>5. CrestsAccounted'
  BY DEF MediaParts, CrestsAccounted, PhotoGate, Finished, Unstarted, Begins, Others
<1> QED BY <1>1, <1>2, <1>3, <1>4, <1>5 DEF MediaParts

LEMMA CrestGateKeeps ==
    ASSUME MediaParts, NEW r \in Upload, CrestGate(r)
    PROVE  MediaParts'
<1>1. MediaTypeOK'
  BY DEF MediaParts, MediaTypeOK, CrestGate, Begins, Others
<1>2. WrittenOnce' /\ KindOfKeys'
  BY DEF MediaParts, WrittenOnce, KindOfKeys, CrestGate, Finished, Unstarted, Begins,
         Others
<1>3. UploadedBefore' /\ DropsAreLoose'
  BY DEF MediaParts, UploadedBefore, DropsAreLoose, CrestGate, Begins, Others
<1>4. PhotoOfTheEnrolled' /\ LateIsSpoiled' /\ NoPhotoWithoutConsent'
  BY DEF MediaParts, NoPhotoWithoutConsent, PhotoOfTheEnrolled, LateIsSpoiled,
         CrestGate, Begins, Others
<1>5. CrestsAccounted'
  BY DEF MediaParts, CrestsAccounted, CrestGate, Finished, Unstarted, Begins, Others
<1> QED BY <1>1, <1>2, <1>3, <1>4, <1>5 DEF MediaParts

LEMMA ImportGateKeeps ==
    ASSUME MediaParts, NEW r \in Upload, ImportGate(r)
    PROVE  MediaParts'
<1>1. MediaTypeOK'
  BY DEF MediaParts, MediaTypeOK, ImportGate, Begins, Others
<1>2. WrittenOnce' /\ KindOfKeys'
  BY DEF MediaParts, WrittenOnce, KindOfKeys, ImportGate, Finished, Unstarted, Begins,
         Others
<1>3. UploadedBefore' /\ DropsAreLoose'
  BY DEF MediaParts, UploadedBefore, DropsAreLoose, ImportGate, Begins, Others
<1>4. PhotoOfTheEnrolled' /\ LateIsSpoiled' /\ NoPhotoWithoutConsent'
  BY DEF MediaParts, NoPhotoWithoutConsent, PhotoOfTheEnrolled, LateIsSpoiled,
         ImportGate, Begins, Others
<1>5. CrestsAccounted'
  BY DEF MediaParts, CrestsAccounted, ImportGate, Finished, Unstarted, Begins, Others
<1> QED BY <1>1, <1>2, <1>3, <1>4, <1>5 DEF MediaParts

LEMMA DeleteCrestGateKeeps ==
    ASSUME MediaParts, NEW r \in Upload, DeleteCrestGate(r)
    PROVE  MediaParts'
<1>1. MediaTypeOK'
  BY DEF MediaParts, MediaTypeOK, DeleteCrestGate, Others
<1>2. WrittenOnce' /\ KindOfKeys'
  BY DEF MediaParts, WrittenOnce, KindOfKeys, DeleteCrestGate, Finished, Unstarted,
         Others
<1>3. UploadedBefore' /\ DropsAreLoose'
  BY DEF MediaParts, WrittenOnce, UploadedBefore, DropsAreLoose, DeleteCrestGate,
         Finished, Unstarted, Others
<1>4. PhotoOfTheEnrolled' /\ LateIsSpoiled' /\ NoPhotoWithoutConsent'
  BY DEF MediaParts, NoPhotoWithoutConsent, PhotoOfTheEnrolled, LateIsSpoiled,
     DeleteCrestGate, Others
<1>5. CrestsAccounted'
  BY DEF MediaParts, CrestsAccounted, DeleteCrestGate, Finished, Unstarted, Others
<1> QED BY <1>1, <1>2, <1>3, <1>4, <1>5 DEF MediaParts

LEMMA PutKeeps ==
    ASSUME MediaParts, NEW r \in Upload, Put(r)
    PROVE  MediaParts'
<1>1. MediaTypeOK'
  BY DEF MediaParts, MediaTypeOK, Put, Goes, Others
<1>2. WrittenOnce' /\ KindOfKeys'
  BY DEF MediaParts, WrittenOnce, KindOfKeys, Put, Finished, Goes, Others
<1>3. UploadedBefore' /\ DropsAreLoose'
  BY DEF MediaParts, UploadedBefore, DropsAreLoose, Put, Goes, Others
<1>4. PhotoOfTheEnrolled' /\ LateIsSpoiled' /\ NoPhotoWithoutConsent'
  BY DEF MediaParts, NoPhotoWithoutConsent, PhotoOfTheEnrolled, LateIsSpoiled, Put,
         Goes, Others
<1>5. CrestsAccounted'
  BY DEF MediaParts, CrestsAccounted, Put, Finished, Goes, Others
<1> QED BY <1>1, <1>2, <1>3, <1>4, <1>5 DEF MediaParts

LEMMA PutInterruptedKeeps ==
    ASSUME MediaParts, NEW r \in Upload, PutInterrupted(r)
    PROVE  MediaParts'
<1>1. MediaTypeOK'
  BY DEF MediaParts, MediaTypeOK, PutInterrupted, Goes, Others
<1>2. WrittenOnce' /\ KindOfKeys'
  BY DEF MediaParts, WrittenOnce, KindOfKeys, PutInterrupted, Finished, Goes, Others
<1>3. UploadedBefore' /\ DropsAreLoose'
  BY DEF MediaParts, UploadedBefore, DropsAreLoose, PutInterrupted, Goes, Others
<1>4. PhotoOfTheEnrolled' /\ LateIsSpoiled' /\ NoPhotoWithoutConsent'
  BY DEF MediaParts, NoPhotoWithoutConsent, PhotoOfTheEnrolled, LateIsSpoiled,
     PutInterrupted, Goes, Others
<1>5. CrestsAccounted'
  BY DEF CrestsAccounted, PutInterrupted
<1> QED BY <1>1, <1>2, <1>3, <1>4, <1>5 DEF MediaParts

LEMMA LandKeeps ==
    ASSUME MediaParts, NEW r \in Upload, Land(r)
    PROVE  MediaParts'
<1>1. MediaTypeOK'
  BY DEF MediaParts, MediaTypeOK, Land, Others
<1>2. WrittenOnce' /\ KindOfKeys'
  BY DEF MediaParts, WrittenOnce, KindOfKeys, Land, Finished, Others
<1>3. UploadedBefore' /\ DropsAreLoose'
  BY DEF MediaParts, UploadedBefore, DropsAreLoose, Land, Others
<1>4. PhotoOfTheEnrolled' /\ LateIsSpoiled' /\ NoPhotoWithoutConsent'
  BY DEF MediaParts, NoPhotoWithoutConsent, PhotoOfTheEnrolled, LateIsSpoiled, Land,
         Others
<1>5. CrestsAccounted'
  BY DEF MediaParts, LateIsSpoiled, CrestsAccounted, Land
<1> QED BY <1>1, <1>2, <1>3, <1>4, <1>5 DEF MediaParts

LEMMA UndoKeeps ==
    ASSUME MediaParts, NEW r \in Upload, Undo(r)
    PROVE  MediaParts'
<1>1. MediaTypeOK'
  BY DEF MediaParts, MediaTypeOK, Undo, Goes, Others
<1>2. WrittenOnce' /\ KindOfKeys'
  BY DEF MediaParts, WrittenOnce, KindOfKeys, Undo, Finished, Goes, Others
<1>3. UploadedBefore' /\ DropsAreLoose'
  BY DEF MediaParts, UploadedBefore, DropsAreLoose, Undo, Goes, Others
<1>4. PhotoOfTheEnrolled' /\ LateIsSpoiled' /\ NoPhotoWithoutConsent'
  BY DEF MediaParts, NoPhotoWithoutConsent, PhotoOfTheEnrolled, LateIsSpoiled, Undo,
         Goes, Others
<1>5. CrestsAccounted'
  BY DEF MediaParts, CrestsAccounted, Undo, Finished, Goes, Others
<1> QED BY <1>1, <1>2, <1>3, <1>4, <1>5 DEF MediaParts

LEMMA WriteFailsKeeps ==
    ASSUME MediaParts, NEW r \in Upload, WriteFails(r)
    PROVE  MediaParts'
<1>1. MediaTypeOK'
  BY DEF MediaParts, MediaTypeOK, WriteFails, Goes, Others
<1>2. WrittenOnce' /\ KindOfKeys'
  BY DEF MediaParts, WrittenOnce, KindOfKeys, WriteFails, Finished, Goes, Others
<1>3. UploadedBefore' /\ DropsAreLoose'
  BY DEF MediaParts, UploadedBefore, DropsAreLoose, WriteFails, Goes, Others
<1>4. PhotoOfTheEnrolled' /\ LateIsSpoiled' /\ NoPhotoWithoutConsent'
  BY DEF MediaParts, NoPhotoWithoutConsent, PhotoOfTheEnrolled, LateIsSpoiled,
         WriteFails, Goes, Others
<1>5. CrestsAccounted'
  BY DEF CrestsAccounted, WriteFails
<1> QED BY <1>1, <1>2, <1>3, <1>4, <1>5 DEF MediaParts

LEMMA DiesKeeps ==
    ASSUME MediaParts, NEW r \in Upload, Dies(r)
    PROVE  MediaParts'
<1>1. MediaTypeOK'
  BY DEF MediaParts, MediaTypeOK, Dies, Goes, Others
<1>2. WrittenOnce' /\ KindOfKeys'
  BY DEF MediaParts, WrittenOnce, KindOfKeys, Dies, Finished, Goes, Others
<1>3. UploadedBefore' /\ DropsAreLoose'
  BY DEF MediaParts, UploadedBefore, DropsAreLoose, Dies, Goes, Others
<1>4. PhotoOfTheEnrolled' /\ LateIsSpoiled' /\ NoPhotoWithoutConsent'
  BY DEF MediaParts, NoPhotoWithoutConsent, PhotoOfTheEnrolled, LateIsSpoiled, Dies,
         Goes, Others
<1>5. CrestsAccounted'
  BY DEF CrestsAccounted, Dies
<1> QED BY <1>1, <1>2, <1>3, <1>4, <1>5 DEF MediaParts

LEMMA DropKeeps ==
    ASSUME MediaParts, NEW r \in Upload, Drop(r)
    PROVE  MediaParts'
<1>1. MediaTypeOK'
  BY DEF MediaParts, MediaTypeOK, Drop, Goes, Others
<1>2. WrittenOnce' /\ KindOfKeys'
  BY DEF MediaParts, WrittenOnce, KindOfKeys, Drop, Finished, Goes, Others
<1>3. UploadedBefore' /\ DropsAreLoose'
  BY DEF MediaParts, WrittenOnce, UploadedBefore, DropsAreLoose, Drop, Finished, Goes,
         Others
<1>4. PhotoOfTheEnrolled' /\ LateIsSpoiled' /\ NoPhotoWithoutConsent'
  BY DEF MediaParts, NoPhotoWithoutConsent, PhotoOfTheEnrolled, LateIsSpoiled, Drop,
         Goes, Others
<1>5. CrestsAccounted'
  BY DEF MediaParts, CrestsAccounted, Drop, Finished, Goes, Others
<1> QED BY <1>1, <1>2, <1>3, <1>4, <1>5 DEF MediaParts

LEMMA ReadPhotoKeeps ==
    ASSUME MediaParts, NEW r \in Upload, ReadPhoto(r)
    PROVE  MediaParts'
<1>1. MediaTypeOK'
  <2>1. task \in [Upload -> Task]
    BY DEF MediaParts, MediaTypeOK, Task
  <2>2. photo \in Key /\ task[r].old \in Key
    BY <2>1 DEF MediaParts, MediaTypeOK
  <2>3. task' \in [Upload -> Task]
    <3> DEFINE old == IF photo = NoKey THEN task[r].old ELSE photo
    <3>1. GoesWith(r, "update", old) /\ old \in Key
      BY <2>2 DEF ReadPhoto
    <3> HIDE DEF old
    <3> QED BY <2>1, <3>1, GoesTyped
  <2> QED BY <2>3 DEF MediaParts, MediaTypeOK, ReadPhoto, Others, Task
<1>2. WrittenOnce' /\ KindOfKeys'
  BY DEF MediaParts, MediaTypeOK, WrittenOnce, KindOfKeys, ReadPhoto, Finished,
         GoesWith, Others
<1>3. UploadedBefore' /\ DropsAreLoose'
  BY DEF MediaParts, MediaTypeOK, UploadedBefore, DropsAreLoose, ReadPhoto, GoesWith,
         Others
<1>4. PhotoOfTheEnrolled' /\ LateIsSpoiled' /\ NoPhotoWithoutConsent'
  BY DEF MediaParts, NoPhotoWithoutConsent, PhotoOfTheEnrolled, LateIsSpoiled,
         ReadPhoto, Others
<1>5. CrestsAccounted'
  BY DEF MediaParts, MediaTypeOK, CrestsAccounted, ReadPhoto, Finished, GoesWith, Others
<1> QED BY <1>1, <1>2, <1>3, <1>4, <1>5 DEF MediaParts

LEMMA ReadConsentKeeps ==
    ASSUME MediaParts, NEW r \in Upload, ReadConsent(r)
    PROVE  MediaParts'
<1>1. MediaTypeOK'
  BY DEF MediaParts, MediaTypeOK, ReadConsent, Others
<1>2. WrittenOnce' /\ KindOfKeys'
  BY DEF MediaParts, WrittenOnce, KindOfKeys, ReadConsent, Finished, Unstarted, Others
<1>3. UploadedBefore' /\ DropsAreLoose'
  BY DEF MediaParts, WrittenOnce, UploadedBefore, DropsAreLoose, ReadConsent, Finished,
     Unstarted, Others
<1>4. PhotoOfTheEnrolled' /\ LateIsSpoiled' /\ NoPhotoWithoutConsent'
  BY DEF MediaParts, NoPhotoWithoutConsent, PhotoOfTheEnrolled, LateIsSpoiled,
         ReadConsent, Others
<1>5. CrestsAccounted'
  BY DEF MediaParts, CrestsAccounted, ReadConsent, Finished, Unstarted, Others
<1> QED BY <1>1, <1>2, <1>3, <1>4, <1>5 DEF MediaParts

LEMMA ReplaceCrestKeeps ==
    ASSUME MediaParts, NEW r \in Upload, NEW took \in BOOLEAN, NEW confirmed \in BOOLEAN,
           confirmed => took, ReplaceCrest(r, took, confirmed)
    PROVE  MediaParts'
<1>1. MediaTypeOK'
  <2>1. crest \in Key /\ AfterCommit(r, crest, confirmed)
    BY DEF MediaParts, MediaTypeOK, ReplaceCrest, WriteCrest
  <2>2. task' \in [Upload -> Task] /\ spoiled' \in BOOLEAN
    BY <2>1, AfterCommitTyped DEF MediaParts
  <2> QED BY <2>2 DEF MediaParts, MediaTypeOK, ReplaceCrest, WriteCrest, Task
<1>2. WrittenOnce' /\ KindOfKeys'
  BY DEF MediaParts, MediaTypeOK, WrittenOnce, KindOfKeys, ReplaceCrest, Finished,
         GoesWith, WriteCrest, AfterCommit
<1>3. UploadedBefore' /\ DropsAreLoose'
  BY DEF MediaParts, MediaTypeOK, WrittenOnce, KindOfKeys, UploadedBefore,
         DropsAreLoose, ReplaceCrest, Finished, GoesWith, WriteCrest, AfterCommit
<1>4. PhotoOfTheEnrolled' /\ LateIsSpoiled' /\ NoPhotoWithoutConsent'
  BY DEF MediaParts, NoPhotoWithoutConsent, MediaTypeOK, PhotoOfTheEnrolled,
         LateIsSpoiled, ReplaceCrest, GoesWith, WriteCrest, AfterCommit
<1>5. CrestsAccounted'
  <2> SUFFICES ASSUME ~spoiled', NEW s \in store, task'[s].kind = "crest", Finished(s)'
               PROVE  crest' = s \/ \E q \in Upload : task'[q].pc = "drop" /\ task'[q].old = s
    BY DEF CrestsAccounted, ReplaceCrest, WriteCrest
  <2>1. ~spoiled /\ confirmed /\ crest' = r
    BY DEF ReplaceCrest, WriteCrest, AfterCommit
  <2>2. /\ \A q \in Upload : q # r => task'[q] = task[q]
        /\ task'[r].old = crest
        /\ crest # NoKey => task'[r].pc = "drop"
    BY <2>1 DEF MediaParts, MediaTypeOK, ReplaceCrest, WriteCrest, AfterCommit, GoesWith
  <2>3. s \in Upload /\ s # NoKey
    BY DEF MediaParts, MediaTypeOK
  <2>4. CASE s # r
    <3>1. crest = s \/ \E q \in Upload : task[q].pc = "drop" /\ task[q].old = s
      BY <2>1, <2>2, <2>3, <2>4 DEF MediaParts, CrestsAccounted, Finished
    <3>2. task[r].pc # "drop"
      BY DEF ReplaceCrest
    <3> QED BY <2>2, <2>3, <3>1, <3>2
  <2> QED BY <2>1, <2>4
<1> QED BY <1>1, <1>2, <1>3, <1>4, <1>5 DEF MediaParts

LEMMA DeleteCrestKeeps ==
    ASSUME MediaParts, NEW r \in Upload, NEW took \in BOOLEAN, NEW confirmed \in BOOLEAN,
           confirmed => took, DeleteCrest(r, took, confirmed)
    PROVE  MediaParts'
<1>1. MediaTypeOK'
  <2>1. crest \in Key /\ AfterCommit(r, crest, confirmed)
    BY DEF MediaParts, MediaTypeOK, DeleteCrest, WriteCrest
  <2>2. task' \in [Upload -> Task] /\ spoiled' \in BOOLEAN
    BY <2>1, AfterCommitTyped DEF MediaParts
  <2> QED BY <2>2 DEF MediaParts, MediaTypeOK, DeleteCrest, WriteCrest, Task
<1>2. WrittenOnce' /\ KindOfKeys'
  BY DEF MediaParts, MediaTypeOK, WrittenOnce, KindOfKeys, DeleteCrest, Finished,
         GoesWith, WriteCrest, AfterCommit
<1>3. UploadedBefore' /\ DropsAreLoose'
  BY DEF MediaParts, MediaTypeOK, KindOfKeys, UploadedBefore, DropsAreLoose,
         DeleteCrest, GoesWith, WriteCrest, AfterCommit
<1>4. PhotoOfTheEnrolled' /\ LateIsSpoiled' /\ NoPhotoWithoutConsent'
  BY DEF MediaParts, NoPhotoWithoutConsent, MediaTypeOK, PhotoOfTheEnrolled,
         LateIsSpoiled, DeleteCrest, GoesWith, WriteCrest, AfterCommit
<1>5. CrestsAccounted'
  <2> SUFFICES ASSUME ~spoiled', NEW s \in store, task'[s].kind = "crest", Finished(s)'
               PROVE  \E q \in Upload : task'[q].pc = "drop" /\ task'[q].old = s
    BY DEF CrestsAccounted, DeleteCrest, WriteCrest
  <2>1. ~spoiled /\ confirmed /\ task[r].kind = "delete" /\ task[r].pc = "write"
    BY DEF DeleteCrest, WriteCrest, AfterCommit
  <2>2. /\ \A q \in Upload : q # r => task'[q] = task[q]
        /\ task'[r].old = crest /\ task'[r].kind = "delete"
        /\ crest # NoKey => task'[r].pc = "drop"
    BY <2>1 DEF MediaParts, MediaTypeOK, DeleteCrest, WriteCrest, AfterCommit, GoesWith
  <2>3. s \in Upload /\ s # NoKey /\ s # r
    BY <2>2 DEF MediaParts, MediaTypeOK
  <2>4. crest = s \/ \E q \in Upload : task[q].pc = "drop" /\ task[q].old = s
    BY <2>1, <2>2, <2>3 DEF MediaParts, CrestsAccounted, Finished
  <2> QED BY <2>1, <2>2, <2>3, <2>4
<1> QED BY <1>1, <1>2, <1>3, <1>4, <1>5 DEF MediaParts

LEMMA ImportRowKeeps ==
    ASSUME MediaParts, NEW r \in Upload, NEW took \in BOOLEAN, NEW confirmed \in BOOLEAN,
           confirmed => took, ImportRow(r, took, confirmed)
    PROVE  MediaParts'
<1>1. MediaTypeOK'
  <2>1. NoKey \in Key /\ AfterCommit(r, NoKey, confirmed)
    BY DEF ImportRow
  <2>2. task' \in [Upload -> Task] /\ spoiled' \in BOOLEAN
    BY <2>1, AfterCommitTyped DEF MediaParts
  <2> QED BY <2>2 DEF MediaParts, MediaTypeOK, ImportRow, Task
<1>2. WrittenOnce' /\ KindOfKeys'
  BY DEF MediaParts, MediaTypeOK, WrittenOnce, KindOfKeys, ImportRow, Finished,
         GoesWith, AfterCommit
<1>3. UploadedBefore' /\ DropsAreLoose'
  BY DEF MediaParts, MediaTypeOK, WrittenOnce, UploadedBefore, DropsAreLoose, ImportRow,
     Finished, GoesWith, AfterCommit
<1>4. PhotoOfTheEnrolled' /\ LateIsSpoiled' /\ NoPhotoWithoutConsent'
  BY DEF MediaParts, NoPhotoWithoutConsent, MediaTypeOK, PhotoOfTheEnrolled,
         LateIsSpoiled, ImportRow, GoesWith, AfterCommit
<1>5. CrestsAccounted'
  BY DEF MediaParts, MediaTypeOK, CrestsAccounted, ImportRow, Finished, GoesWith,
         AfterCommit
<1> QED BY <1>1, <1>2, <1>3, <1>4, <1>5 DEF MediaParts

LEMMA UpdatePhotoKeeps ==
    ASSUME MediaParts, NEW r \in Upload, NEW took \in BOOLEAN, NEW confirmed \in BOOLEAN,
           confirmed => took, UpdatePhoto(r, took, confirmed)
    PROVE  MediaParts'
<1>1. MediaTypeOK'
  BY DEF MediaParts, MediaTypeOK, UpdatePhoto, Goes, GoesWith, AfterCommit, Allowed
<1>2. WrittenOnce' /\ KindOfKeys'
  BY DEF MediaParts, MediaTypeOK, WrittenOnce, KindOfKeys, UpdatePhoto, Finished, Goes,
         GoesWith, AfterCommit
<1>3. UploadedBefore' /\ DropsAreLoose'
  BY DEF MediaParts, MediaTypeOK, WrittenOnce, KindOfKeys, UploadedBefore,
         DropsAreLoose, UpdatePhoto, Finished, Goes, GoesWith, AfterCommit
<1>4. PhotoOfTheEnrolled' /\ LateIsSpoiled' /\ NoPhotoWithoutConsent'
  BY DEF MediaParts, NoPhotoWithoutConsent, MediaTypeOK, PhotoOfTheEnrolled,
         LateIsSpoiled, UpdatePhoto, Goes, AfterCommit, Allowed
<1>5. CrestsAccounted'
  BY DEF MediaParts, MediaTypeOK, CrestsAccounted, UpdatePhoto, Finished, Goes,
         GoesWith, AfterCommit
<1> QED BY <1>1, <1>2, <1>3, <1>4, <1>5 DEF MediaParts

LEMMA UpdateConsentKeeps ==
    ASSUME MediaParts, NEW r \in Upload, NEW took \in BOOLEAN, NEW confirmed \in BOOLEAN,
           confirmed => took, NEW agreed \in BOOLEAN, UpdateConsent(r, agreed, took, confirmed)
    PROVE  MediaParts'
<1>1. MediaTypeOK'
  <2> DEFINE old == IF agreed THEN NoKey ELSE task[r].old
  <2>1. old \in Key /\ AfterCommit(r, old, confirmed)
    BY DEF MediaParts, MediaTypeOK, UpdateConsent
  <2>2. task' \in [Upload -> Task] /\ spoiled' \in BOOLEAN
    <3> HIDE DEF old
    <3> QED BY <2>1, AfterCommitTyped DEF MediaParts
  <2>3. consent' \in BOOLEAN
    BY DEF MediaParts, MediaTypeOK, UpdateConsent
  <2> QED BY <2>2, <2>3 DEF MediaParts, MediaTypeOK, UpdateConsent, Task
<1>2. WrittenOnce' /\ KindOfKeys'
  BY DEF MediaParts, MediaTypeOK, WrittenOnce, KindOfKeys, UpdateConsent, Finished,
         GoesWith, AfterCommit
<1>3. UploadedBefore' /\ DropsAreLoose'
  BY DEF MediaParts, MediaTypeOK, KindOfKeys, UploadedBefore, DropsAreLoose,
         UpdateConsent, GoesWith, AfterCommit
<1>4. PhotoOfTheEnrolled' /\ LateIsSpoiled' /\ NoPhotoWithoutConsent'
  <2>1. enrolled' = enrolled /\ landing' = landing
    BY DEF UpdateConsent
  <2>2. enrolled
    BY DEF MediaParts, PhotoOfTheEnrolled, UpdateConsent
  <2>3. LateIsSpoiled'
    BY <2>1 DEF MediaParts, LateIsSpoiled, UpdateConsent, AfterCommit
  <2>4. NoPhotoWithoutConsent'
    BY DEF MediaParts, NoPhotoWithoutConsent, UpdateConsent
  <2> QED BY <2>1, <2>2, <2>3, <2>4 DEF PhotoOfTheEnrolled
<1>5. CrestsAccounted'
  BY DEF MediaParts, MediaTypeOK, CrestsAccounted, UpdateConsent, Finished, GoesWith,
         AfterCommit
<1> QED BY <1>1, <1>2, <1>3, <1>4, <1>5 DEF MediaParts

(* The objects of the rows: only a deletion takes one away, and only a     *)
(* commit names one.                                                       *)
LEMMA ReferencesKept ==
    ASSUME MediaParts, NoBrokenReference, MediaNext
    PROVE  NoBrokenReference'
<1>1. PICK r \in Upload :
        \/ PhotoGate(r) \/ CrestGate(r) \/ ImportGate(r) \/ DeleteCrestGate(r)
        \/ Put(r) \/ PutInterrupted(r) \/ Land(r) \/ Undo(r)
        \/ WriteFails(r) \/ Dies(r) \/ Drop(r) \/ ReadPhoto(r) \/ ReadConsent(r)
        \/ \E took, confirmed \in BOOLEAN :
             /\ confirmed => took
             /\ \/ ReplaceCrest(r, took, confirmed) \/ DeleteCrest(r, took, confirmed)
                \/ ImportRow(r, took, confirmed) \/ UpdatePhoto(r, took, confirmed)
                \/ \E agreed \in BOOLEAN : UpdateConsent(r, agreed, took, confirmed)
  BY DEF MediaNext
<1>2. CASE UNCHANGED <<photo, crest>> /\ store \subseteq store'
  BY <1>2 DEF NoBrokenReference
<1>3. CASE Undo(r)
  BY <1>3 DEF MediaParts, WrittenOnce, Finished, NoBrokenReference, Undo, Others
<1>4. CASE Drop(r)
  BY <1>4 DEF MediaParts, DropsAreLoose, NoBrokenReference, Drop, Others
<1>5. ASSUME NEW took, NEW confirmed,
             \/ ReplaceCrest(r, took, confirmed) \/ DeleteCrest(r, took, confirmed)
             \/ ImportRow(r, took, confirmed) \/ UpdatePhoto(r, took, confirmed)
             \/ \E agreed : UpdateConsent(r, agreed, took, confirmed)
      PROVE  NoBrokenReference'
  <2>1. UNCHANGED store /\ {photo, crest}' \subseteq {photo, crest, NoKey, r}
    BY <1>5
    DEF ReplaceCrest, DeleteCrest, WriteCrest, ImportRow, UpdatePhoto, UpdateConsent
  <2>2. r \in {photo, crest}' => r \in store \/ r \in {photo, crest}
    BY <1>5
    DEF MediaParts, UploadedBefore, ReplaceCrest, DeleteCrest, WriteCrest, ImportRow,
        UpdatePhoto, UpdateConsent
  <2> QED BY <2>1, <2>2 DEF NoBrokenReference
<1> QED
  BY <1>1, <1>2, <1>3, <1>4, <1>5
  DEF PhotoGate, CrestGate, ImportGate, DeleteCrestGate, Put, PutInterrupted, Land,
      WriteFails, Dies, ReadPhoto, ReadConsent, Others

LEMMA MediaStart == MediaInit => MediaInv
<1> SUFFICES ASSUME MediaInit PROVE MediaInv
  OBVIOUS
<1>1. MediaTypeOK
  BY MediaAssumption DEF MediaInit, MediaTypeOK
<1>2. WrittenOnce /\ KindOfKeys
  BY DEF MediaInit, WrittenOnce, KindOfKeys, Finished
<1>3. UploadedBefore /\ DropsAreLoose
  BY DEF MediaInit, UploadedBefore, DropsAreLoose
<1>4. PhotoOfTheEnrolled /\ LateIsSpoiled /\ NoPhotoWithoutConsent
  BY DEF MediaInit, PhotoOfTheEnrolled, LateIsSpoiled, NoPhotoWithoutConsent
<1>5. CrestsAccounted /\ NoBrokenReference
  BY DEF MediaInit, CrestsAccounted, NoBrokenReference, Finished
<1> QED BY <1>1, <1>2, <1>3, <1>4, <1>5 DEF MediaInv, MediaParts

LEMMA MediaStep ==
    ASSUME MediaInv, [MediaNext]_mediaVars
    PROVE  MediaInv'
<1>1. CASE MediaNext
  <2>1. NoBrokenReference'
    BY <1>1, ReferencesKept DEF MediaInv
  <2>2. MediaParts'
    BY <1>1, PhotoGateKeeps, CrestGateKeeps, ImportGateKeeps, DeleteCrestGateKeeps,
       PutKeeps, PutInterruptedKeeps, LandKeeps, UndoKeeps, WriteFailsKeeps, DiesKeeps,
       DropKeeps, ReadPhotoKeeps, ReadConsentKeeps, ReplaceCrestKeeps, DeleteCrestKeeps,
       ImportRowKeeps, UpdatePhotoKeeps, UpdateConsentKeeps
    DEF MediaInv, MediaNext
  <2> QED BY <2>1, <2>2 DEF MediaInv
<1>2. CASE UNCHANGED mediaVars
  BY <1>2
  DEF mediaVars, MediaInv, MediaParts, MediaTypeOK, WrittenOnce, KindOfKeys,
      UploadedBefore, DropsAreLoose, PhotoOfTheEnrolled, LateIsSpoiled,
      NoPhotoWithoutConsent, CrestsAccounted, Finished, NoBrokenReference
<1> QED BY <1>1, <1>2

LEMMA MediaInductive == MediaSpec => []MediaInv
<1>1. MediaInv /\ [MediaNext]_mediaVars => MediaInv'
  BY MediaStep
<1> QED BY <1>1, MediaStart, PTL DEF MediaSpec

\* The rows, the storage and the requests keep their types.
THEOREM MediaTypes == MediaSpec => []MediaTypeOK
<1>1. MediaInv => MediaTypeOK
  BY DEF MediaInv, MediaParts
<1> QED BY <1>1, MediaInductive, PTL

\* However uploads, deletions and withdrawals of consent overlap, fail, land late or
\* die, no row names an object that is gone, no photo is kept without consent, and
\* while nothing fails no crest is left behind.
THEOREM PicturesAreInOrder == MediaSpec => []PicturesInOrder
<1>1. MediaInv => PicturesInOrder
  BY DEF MediaInv, MediaParts, PicturesInOrder, NoCrestLeft, CrestsAccounted, Finished
<1> QED BY <1>1, MediaInductive, PTL
HIDE MediaAssumption DEF MediaAssumption, Key

-----------------------------------------------------------------------------
(* The five modules side by side.                                          *)

\* A behaviour of the composition is one of each of its parts.
LEMMA DayIsEachPart ==
  DaySpec => Spec /\ MatchSpec /\ RostersSpec /\ MediaSpec /\ ReportSpec
<1>1. DayInit => Init /\ MatchInit /\ RostersInit /\ MediaInit /\ ReportInit
  BY DEF DayInit
<1>2. [DayNext]_dayVars =>
        /\ [Next]_vars /\ [MatchNext]_matchVars /\ [RostersNext]_rostersVars
        /\ [MediaNext]_mediaVars /\ [ReportNext]_reportVars
  BY DEF DayNext, dayVars
<1> QED BY <1>1, <1>2, PTL DEF DaySpec, Spec, MatchSpec, RostersSpec, MediaSpec, ReportSpec

\* The types of all that happens around a match, in the composition that TLC checks.
THEOREM DayTypes == DaySpec => []DayTypeOK
<1>1. TypeOK /\ MatchTypeOK /\ RostersTypeOK /\ MediaTypeOK /\ ReportTypeOK => DayTypeOK
  BY DEF DayTypeOK
<1> QED BY <1>1, DayIsEachPart, SuspensionTypes, MatchTypes, RostersTypes, MediaTypes,
           ReportTypes, PTL

=============================================================================
