----------------------------- MODULE DrawsProofs ------------------------------
(***************************************************************************)
(* SwissDraw and League, and the two side by side as MCDraws has them.     *)
(*                                                                         *)
(* A Swiss stage, for any number of teams, rounds and requests: whatever   *)
(* runs while pairings are computed, no pair meets twice, no team plays    *)
(* twice in a round, the rounds come in order and are complete, and what   *)
(* is published stays.                                                     *)
(*                                                                         *)
(* A league or groups, for any number of teams, groups and requests: the   *)
(* types, that every match stays with the teams of its group, and that no  *)
(* two teams meet more than twice.  The last needs what a request may have *)
(* read to be one leg or two, for create_match compares with that and not  *)
(* with the legs of the calendar that is there when it writes.             *)
(*                                                                         *)
(* A bracket, for any number of teams: what is drawn is one, from the      *)
(* theorems of BracketDrawProofs.                                          *)
(*                                                                         *)
(* A calendar, for any number of teams in one leg or two: it is fair; and  *)
(* groups, for any number of them: they are even.                          *)
(***************************************************************************)
EXTENDS MCDraws, FiniteSetTheorems, SequenceTheorems, TLAPS

\* A function that tells its arguments apart has as many values as arguments.
LEMMA ImageIsAsLarge ==
    ASSUME NEW S, IsFiniteSet(S), NEW f, \A x, y \in S : f[x] = f[y] => x = y
    PROVE  /\ IsFiniteSet({f[x] : x \in S})
           /\ Cardinality({f[x] : x \in S}) = Cardinality(S)
<1> DEFINE U == {f[x] : x \in S}
           g == [x \in S |-> f[x]]
<1>1. g \in Surjection(S, U)
  BY DEF Surjection
<1>2. g \in Injection(S, U)
  BY DEF Injection, IsInjective
<1> HIDE DEF U, g
<1>3. IsFiniteSet(U) /\ Cardinality(U) = Cardinality(S)
  BY <1>1, <1>2, FS_Surjection
<1> QED BY <1>3 DEF U

LEMMA PairHasTwo ==
    ASSUME NEW p, IsFiniteSet(p), Cardinality(p) = 2
    PROVE  \E x \in p, y \in p : x # y /\ p = {x, y}
<1>1. PICK x : x \in p
  BY FS_EmptySet
<1>2. IsFiniteSet(p \ {x}) /\ Cardinality(p \ {x}) = 1
  BY <1>1, FS_RemoveElement
<1>3. PICK y : y \in p \ {x}
  BY <1>2, FS_EmptySet
<1>4. IsFiniteSet((p \ {x}) \ {y}) /\ Cardinality((p \ {x}) \ {y}) = 0
  BY <1>2, <1>3, FS_RemoveElement
<1>5. (p \ {x}) \ {y} = {}
  BY <1>4, FS_EmptySet
<1> QED BY <1>1, <1>3, <1>5

\* What build_swiss_pairings returns: pairs that share nobody.
AreApart(P) == \A p, q \in P : p # q => p \cap q = {}

\* n pairs that share nobody are of 2 n teams.
LEMMA PairsOfTwice ==
    ASSUME NEW T, IsFiniteSet(T), NEW P \in SUBSET Pairs(T), AreApart(P)
    PROVE  /\ IsFiniteSet(P) /\ UNION P \subseteq T
           /\ IsFiniteSet(UNION P) /\ Cardinality(UNION P) = 2 * Cardinality(P)
<1>1. IsFiniteSet(P)
  <2>1. IsFiniteSet(SUBSET T)
    BY FS_SUBSET
  <2>2. P \in SUBSET SUBSET T
    BY DEF Pairs
  <2> QED BY <2>1, <2>2, FS_Subset
<1>2. UNION P \subseteq T
  BY DEF Pairs
<1>3. ASSUME NEW p \in P
      PROVE  \E x \in p, y \in p : x # y /\ p = {x, y}
  <2>1. p \in SUBSET T /\ Cardinality(p) = 2
    BY DEF Pairs
  <2>2. IsFiniteSet(p)
    BY <2>1, FS_Subset
  <2> QED BY <2>1, <2>2, PairHasTwo
<1>4. PICK e : e = [p \in P |-> CHOOSE x : x \in p]
  OBVIOUS
<1>5. PICK g : g = [p \in P |-> CHOOSE x : x \in p /\ x # e[p]]
  OBVIOUS
<1>6. ASSUME NEW p \in P
      PROVE  e[p] \in p /\ g[p] \in p /\ e[p] # g[p] /\ p = {e[p], g[p]}
  <2>1. PICK x \in p, y \in p : x # y /\ p = {x, y}
    BY <1>3
  <2>2. e[p] = (CHOOSE z : z \in p)
    BY <1>4
  <2>3. e[p] \in p
    BY <2>1, <2>2
  <2>4. \E z : z \in p /\ z # e[p]
    BY <2>1
  <2>5. g[p] = CHOOSE z : z \in p /\ z # e[p]
    BY <1>5
  <2>6. g[p] \in p /\ g[p] # e[p]
    BY <2>4, <2>5
  <2> QED BY <2>1, <2>3, <2>6
<1>7. \A p, q \in P : p \cap q # {} => p = q
  BY DEF AreApart
<1> DEFINE A == {e[p] : p \in P}
           B == {g[p] : p \in P}
<1>8. IsFiniteSet(A) /\ Cardinality(A) = Cardinality(P)
  <2>1. \A p, q \in P : e[p] = e[q] => p = q
    BY <1>6, <1>7
  <2> QED BY <1>1, <2>1, ImageIsAsLarge
<1>9. IsFiniteSet(B) /\ Cardinality(B) = Cardinality(P)
  <2>1. \A p, q \in P : g[p] = g[q] => p = q
    BY <1>6, <1>7
  <2> QED BY <1>1, <2>1, ImageIsAsLarge
<1>10. A \cap B = {}
  <2>1. \A p, q \in P : e[p] # g[q]
    BY <1>6, <1>7
  <2> QED BY <2>1
<1>11. UNION P = A \cup B
  <2>1. \A x : x \in UNION P => x \in A \cup B
    BY <1>6
  <2>2. \A x : x \in A \cup B => x \in UNION P
    BY <1>6
  <2> QED BY <2>1, <2>2
<1>12. IsFiniteSet(A \cup B)
       /\ Cardinality(A \cup B) = Cardinality(A) + Cardinality(B) - Cardinality(A \cap B)
  <2> HIDE DEF A, B
  <2> QED BY <1>8, <1>9, FS_Union
<1>13. Cardinality({}) = 0 /\ Cardinality(P) \in Nat
  BY <1>1, FS_EmptySet, FS_CardinalityType
<1>14. Cardinality(A \cap B) = 0
  BY <1>10, <1>13
<1> HIDE DEF A, B
<1>15. IsFiniteSet(UNION P) /\ Cardinality(UNION P) = Cardinality(A \cup B)
  BY <1>11, <1>12
<1>16. Cardinality(UNION P) = 2 * Cardinality(P)
  BY <1>8, <1>9, <1>12, <1>13, <1>14, <1>15
<1> QED BY <1>1, <1>2, <1>15, <1>16

\* As many pairs as there can be leave one team at most without a rival.
LEMMA OneIsLeftOver ==
    ASSUME NEW T, IsFiniteSet(T), NEW P \in SUBSET Pairs(T), AreApart(P),
           Cardinality(P) = Cardinality(T) \div 2,
           NEW U, UNION P \subseteq U
    PROVE  Cardinality(T \ U) <= 1
<1>1. /\ IsFiniteSet(UNION P) /\ UNION P \subseteq T
      /\ Cardinality(UNION P) = 2 * (Cardinality(T) \div 2)
  BY PairsOfTwice
<1>2. Cardinality(T) \in Nat
  BY FS_CardinalityType
<1>3. IsFiniteSet(T \ UNION P)
      /\ Cardinality(T \ UNION P) = Cardinality(T) - Cardinality(T \cap UNION P)
  BY FS_Difference
<1>4. T \cap UNION P = UNION P
  BY <1>1
<1>5. Cardinality(T \ UNION P) <= 1
  <2>1. \A n \in Nat : n - 2 * (n \div 2) <= 1
    OBVIOUS
  <2>2. Cardinality(T \ UNION P) = Cardinality(T) - 2 * (Cardinality(T) \div 2)
    BY <1>1, <1>3, <1>4
  <2> QED BY <1>2, <2>1, <2>2
<1>6. T \ U \in SUBSET (T \ UNION P)
  OBVIOUS
<1>7. IsFiniteSet(T \ U) /\ Cardinality(T \ U) <= Cardinality(T \ UNION P)
  BY <1>3, <1>6, FS_Subset
<1>8. Cardinality(T \ U) \in Nat /\ Cardinality(T \ UNION P) \in Nat
  BY <1>3, <1>7, FS_CardinalityType
<1> QED BY <1>5, <1>7, <1>8
-------------------------------------------------------------------------------
(* The rows a draw writes.                                                 *)

\* A later row of blocks of n comes after the whole of an earlier one.
LEMMA BlocksApart ==
    ASSUME NEW i \in Nat, NEW j \in Nat, NEW n \in Nat, i < j
    PROVE  i * n + n <= j * n
<1>1. PICK k \in Nat : j = (i + 1) + k
  <2>1. j - (i + 1) \in Nat /\ j = (i + 1) + (j - (i + 1))
    OBVIOUS
  <2> QED BY <2>1
<1>2. j * n = (i * n + n) + k * n
  BY <1>1
<1>3. k * n \in Nat /\ i * n \in Nat
  OBVIOUS
<1> QED BY <1>2, <1>3

\* The placeholders are new rows, each of an identifier of its own.
LEMMA PlaceholderRows ==
    ASSUME TypeOK, NEW n \in Nat, nextId + Rounds * n <= MaxId + 1
    PROVE  /\ Placeholders(n) \subseteq Match
           /\ \A m \in Placeholders(n) : /\ m.id < nextId + Rounds * n
                                         /\ m.status = "cancelled" /\ m.teams = {}
                                         /\ m.round \in 1 .. Rounds
           /\ \A a, b \in Placeholders(n) : a.id = b.id => a = b
<1> DEFINE Row(r, k) ==
      [id |-> nextId + (r - 1) * n + k, round |-> r, status |-> "cancelled", teams |-> {}]
<1>0. nextId \in Nat /\ MaxId \in Nat /\ Rounds \in Nat
  BY SwissAssumption DEF TypeOK
<1>1. ASSUME NEW r \in 1 .. Rounds, NEW k \in 0 .. (n - 1)
      PROVE  /\ (r - 1) * n \in Nat
             /\ (r - 1) * n + k < Rounds * n
             /\ Rounds * n \in Nat
  <2>1. r - 1 \in Nat /\ r - 1 < Rounds
    BY <1>0
  <2>2. (r - 1) * n + n <= Rounds * n
    BY <1>0, <2>1, BlocksApart
  <2>3. (r - 1) * n \in Nat /\ Rounds * n \in Nat
    BY <1>0, <2>1
  <2> QED BY <2>2, <2>3
<1>2. ASSUME NEW r \in 1 .. Rounds, NEW k \in 0 .. (n - 1)
      PROVE  /\ nextId + (r - 1) * n + k \in 0 .. MaxId
             /\ nextId + (r - 1) * n + k < nextId + Rounds * n
  BY <1>0, <1>1
<1>3. ASSUME NEW r \in 1 .. Rounds, NEW k \in 0 .. (n - 1)
      PROVE  /\ Row(r, k) \in Match /\ Row(r, k).id < nextId + Rounds * n
             /\ Row(r, k).status = "cancelled" /\ Row(r, k).teams = {}
             /\ Row(r, k).round \in 1 .. Rounds
  <2>1. r \in 0 .. Rounds
    BY <1>0
  <2> QED BY <1>2, <2>1 DEF Match
<1>4. ASSUME NEW r \in 1 .. Rounds, NEW k \in 0 .. (n - 1),
             NEW s \in 1 .. Rounds, NEW l \in 0 .. (n - 1), Row(r, k).id = Row(s, l).id
      PROVE  Row(r, k) = Row(s, l)
  <2>1. (r - 1) * n + k = (s - 1) * n + l
    BY <1>0, <1>1, <1>4
  <2>2. ~(r < s)
    <3> SUFFICES ASSUME r < s PROVE FALSE
      OBVIOUS
    <3>1. (r - 1) * n + n <= (s - 1) * n
      BY <1>0, BlocksApart
    <3> QED BY <1>1, <2>1, <3>1
  <2>3. ~(s < r)
    <3> SUFFICES ASSUME s < r PROVE FALSE
      OBVIOUS
    <3>1. (s - 1) * n + n <= (r - 1) * n
      BY <1>0, BlocksApart
    <3> QED BY <1>1, <2>1, <3>1
  <2>4. r = s
    BY <1>0, <2>2, <2>3
  <2>5. k = l
    BY <1>1, <2>1, <2>4
  <2> QED BY <2>4, <2>5
<1> HIDE DEF Row
<1>5. ASSUME NEW m \in Placeholders(n)
      PROVE  \E r \in 1 .. Rounds, k \in 0 .. (n - 1) : m = Row(r, k)
  BY <1>5 DEF Placeholders, Row
<1> QED BY <1>3, <1>4, <1>5

\* Filling places: each row stays as it is or gets a pair of its own.
RowsAreFilled(ms, places, pairs, Z) ==
    /\ Filled(ms, Z) \subseteq Match
    /\ \A n \in Filled(ms, Z) :
         \E m \in ms : /\ n.id = m.id /\ n.round = m.round
                       /\ \/ n = m
                          \/ /\ <<m.id, n.teams>> \in Z
                             /\ n.status = "scheduled" /\ n.teams \in pairs
                             /\ m.id \in places
    /\ \A m \in ms : m.id \notin places => m \in Filled(ms, Z)
    /\ \A m \in ms, p \in pairs : <<m.id, p>> \in Z =>
         \E n \in Filled(ms, Z) : n.id = m.id /\ n.round = m.round /\ n.teams = p
    /\ \A a, b \in Filled(ms, Z) : a.id = b.id => a = b

LEMMA FillRows ==
    ASSUME NEW ms \in SUBSET Match, \A a, b \in ms : a.id = b.id => a = b,
           NEW places, NEW pairs \in SUBSET SUBSET Team, NEW Z \in Zips(places, pairs)
    PROVE  RowsAreFilled(ms, places, pairs, Z)
<1>1. /\ Z \subseteq places \X pairs
      /\ \A x, y \in Z : x[1] = y[1] \/ x[2] = y[2] => x = y
  BY DEF Zips
<1>2. ASSUME NEW m \in ms, NEW n \in Refill(m, Z)
      PROVE  /\ n \in Match /\ n.id = m.id /\ n.round = m.round
             /\ <<m.id, n.teams>> \in Z /\ n.status = "scheduled" /\ n.teams \in pairs
             /\ m.id \in places
  <2>1. PICK z \in Z :
        /\ z[1] = m.id
        /\ n = [id |-> m.id, round |-> m.round, status |-> "scheduled", teams |-> z[2]]
    BY <1>2 DEF Refill
  <2>2. z = <<m.id, z[2]>> /\ z[2] \in pairs /\ m.id \in places
    BY <1>1, <2>1
  <2>3. /\ n.id = m.id /\ n.round = m.round /\ n.status = "scheduled" /\ n.teams = z[2]
        /\ n \in Match
    BY <2>1, <2>2 DEF Match
  <2> QED BY <2>1, <2>2, <2>3
<1>3. ASSUME NEW m \in ms, NEW p \in pairs, <<m.id, p>> \in Z
      PROVE  \E n \in Refill(m, Z) : n.teams = p
  <2>1. PICK y \in Z : y = <<m.id, p>>
    BY <1>3
  <2>2. [id |-> m.id, round |-> m.round, status |-> "scheduled", teams |-> y[2]]
          \in Refill(m, Z)
    BY <2>1 DEF Refill
  <2> QED BY <2>1, <2>2
<1>4. \A m \in ms : \A a, b \in Refill(m, Z) : a = b
  <2> SUFFICES ASSUME NEW m \in ms, NEW a \in Refill(m, Z), NEW b \in Refill(m, Z)
               PROVE  a = b
    OBVIOUS
  <2>1. PICK x \in Z :
        /\ x[1] = m.id
        /\ a = [id |-> m.id, round |-> m.round, status |-> "scheduled", teams |-> x[2]]
    BY DEF Refill
  <2>2. PICK y \in Z :
        /\ y[1] = m.id
        /\ b = [id |-> m.id, round |-> m.round, status |-> "scheduled", teams |-> y[2]]
    BY DEF Refill
  <2>3. x = y
    BY <1>1, <2>1, <2>2
  <2> QED BY <2>1, <2>2, <2>3
<1>5. ASSUME NEW n \in Filled(ms, Z)
      PROVE  \E m \in ms : (n = m /\ Refill(m, Z) = {}) \/ n \in Refill(m, Z)
  BY <1>5 DEF Filled
<1>6. \A m \in ms : /\ Refill(m, Z) = {} => m \in Filled(ms, Z)
                    /\ Refill(m, Z) \subseteq Filled(ms, Z)
  BY DEF Filled
<1>7. \A m \in ms : m.id \notin places => Refill(m, Z) = {}
  BY <1>2
<1>8. Filled(ms, Z) \subseteq Match
  BY <1>2, <1>5
<1>9. ASSUME NEW n \in Filled(ms, Z)
      PROVE  \E m \in ms : /\ n.id = m.id /\ n.round = m.round
                           /\ \/ n = m
                              \/ /\ <<m.id, n.teams>> \in Z
                                 /\ n.status = "scheduled" /\ n.teams \in pairs
                                 /\ m.id \in places
  <2>1. PICK m \in ms : n = m \/ n \in Refill(m, Z)
    BY <1>5
  <2> QED BY <1>2, <2>1
<1>10. ASSUME NEW a \in Filled(ms, Z), NEW b \in Filled(ms, Z), a.id = b.id
       PROVE  a = b
  <2>1. PICK m \in ms : (a = m /\ Refill(m, Z) = {}) \/ a \in Refill(m, Z)
    BY <1>5
  <2>2. PICK k \in ms : (b = k /\ Refill(k, Z) = {}) \/ b \in Refill(k, Z)
    BY <1>5
  <2>3. a.id = m.id /\ b.id = k.id
    BY <1>2, <2>1, <2>2
  <2>4. m = k
    BY <1>10, <2>3
  <2> QED BY <1>4, <2>1, <2>2, <2>4
<1>11. ASSUME NEW m \in ms, NEW p \in pairs, <<m.id, p>> \in Z
       PROVE  \E n \in Filled(ms, Z) : n.id = m.id /\ n.round = m.round /\ n.teams = p
  <2>1. PICK n \in Refill(m, Z) : n.teams = p
    BY <1>3, <1>11
  <2> QED BY <1>2, <1>6, <2>1
<1> QED BY <1>6, <1>7, <1>8, <1>9, <1>10, <1>11 DEF RowsAreFilled

\* With as many places as pairs every pair gets a place.
LEMMA EveryPairPlaced ==
    ASSUME NEW places, NEW pairs, IsFiniteSet(places), IsFiniteSet(pairs),
           Cardinality(places) = Cardinality(pairs), NEW Z \in Zips(places, pairs),
           NEW p \in pairs
    PROVE  \E i \in places : <<i, p>> \in Z
<1> DEFINE P1 == {x[1] : x \in Z}
           P2 == {x[2] : x \in Z}
<1>1. /\ Z \subseteq places \X pairs
      /\ \A x, y \in Z : x[1] = y[1] \/ x[2] = y[2] => x = y
      /\ P1 = places \/ P2 = pairs
  BY DEF Zips
<1>2. IsFiniteSet(Z)
  <2>1. IsFiniteSet(places \X pairs)
    BY FS_Product
  <2> QED BY <1>1, <2>1, FS_Subset
<1>3. P2 = pairs
  <2> SUFFICES ASSUME P1 = places
               PROVE  P2 = pairs
    BY <1>1
  <2>1. Cardinality(P1) = Cardinality(Z)
    <3>1. PICK f : f = [x \in Z |-> x[1]]
      OBVIOUS
    <3>2. \A x, y \in Z : f[x] = f[y] => x = y
      BY <1>1, <3>1
    <3>3. P1 = {f[x] : x \in Z}
      BY <3>1
    <3> HIDE DEF P1
    <3> QED BY <1>2, <3>2, <3>3, ImageIsAsLarge
  <2>2. Cardinality(P2) = Cardinality(Z)
    <3>1. PICK f : f = [x \in Z |-> x[2]]
      OBVIOUS
    <3>2. \A x, y \in Z : f[x] = f[y] => x = y
      BY <1>1, <3>1
    <3>3. P2 = {f[x] : x \in Z}
      BY <3>1
    <3> HIDE DEF P2
    <3> QED BY <1>2, <3>2, <3>3, ImageIsAsLarge
  <2>3. P2 \in SUBSET pairs
    BY <1>1
  <2> HIDE DEF P1, P2
  <2>4. Cardinality(P2) = Cardinality(pairs)
    BY <2>1, <2>2
  <2> QED BY <2>3, <2>4, FS_Subset
<1>4. PICK x \in Z : x[2] = p
  BY <1>3
<1>5. x = <<x[1], p>> /\ x[1] \in places
  BY <1>1, <1>4
<1> QED BY <1>5
-------------------------------------------------------------------------------
(* The inductive invariant: PairingsHold, and why a draw that was computed *)
(* from an older state may still be written.                               *)

Drawing == [round : 0 .. Rounds, replace : BOOLEAN, teams : SUBSET Team,
            existing : SUBSET (0 .. MaxId), previous : SUBSET (0 .. MaxId),
            places : SUBSET (0 .. MaxId), pairs : SUBSET Pairs(Team)]

\* A match that waits for its round has no teams.
CancelledIsEmpty == \A m \in matches : m.status = "cancelled" => m.teams = {}

\* Nothing is played, and no round after the first is drawn, before the publication.
DraftIsUndrawn ==
    version = "draft" =>
        \A m \in matches : m.status # "finished" /\ (m.round > 1 => m.status = "cancelled")

\* What the calculation gives, whatever has changed since.
Calculated(d) ==
    /\ d.round \in 1 .. Rounds
    /\ d.pairs \subseteq Pairs(d.teams)
    /\ AreApart(d.pairs)
    /\ Cardinality(d.pairs) = Cardinality(d.teams) \div 2
    /\ d.round = 1 /\ ~d.replace => d.existing = {}
    /\ d.round > 1 => ~d.replace /\ Cardinality(d.places) = Cardinality(d.pairs)

\* What a later round was computed from cannot change any more: the stage is out of
\* its draft, and the rounds before it are played.
StillHolds(d) ==
    d.round > 1 =>
        /\ version # "draft"
        /\ d.teams = teams
        /\ Played(Before(d.round))
        /\ \A m \in Meetings : m.round < d.round => m.teams \notin d.pairs

DrawsHold ==
    /\ draw \in [Request -> Drawing]
    /\ \A q \in Request : draw[q] # Idle => Calculated(draw[q]) /\ StillHolds(draw[q])

SwissInv == TypeOK /\ CancelledIsEmpty /\ DraftIsUndrawn /\ DrawsHold /\ PairingsHold

\* The row n is the row m, perhaps played in between.
IsRow(n, m) ==
    /\ n.id = m.id /\ n.round = m.round /\ n.teams = m.teams
    /\ m.status = "finished" => n.status = "finished"
    /\ m.status = "cancelled" => n.status = "cancelled"

LEMMA FiniteMatches ==
    ASSUME TypeOK
    PROVE  IsFiniteSet(matches)
<1>1. PICK f : f = [m \in matches |-> m.id]
  OBVIOUS
<1>2. f \in Injection(matches, 0 .. MaxId)
  <2>1. f \in [matches -> 0 .. MaxId]
    BY <1>1 DEF TypeOK, Match
  <2>2. \A a, b \in matches : f[a] = f[b] => a = b
    BY <1>1 DEF TypeOK
  <2> QED BY <2>1, <2>2 DEF Injection, IsInjective
<1>3. IsFiniteSet(0 .. MaxId)
  BY SwissAssumption, FS_Interval
<1> QED BY <1>2, <1>3, FS_Injection

LEMMA IdleIsDrawing == Idle \in Drawing
BY SwissAssumption DEF Idle, Drawing

\* A draw under way stays good unless something of the rounds before it changes, and
\* nothing does.
LEMMA DrawsStay ==
    ASSUME DrawsHold, draw' \in [Request -> Drawing],
           \A q \in Request : draw'[q] \in {draw[q], Idle},
           \/ version = "draft"
           \/ /\ version' # "draft" /\ teams' = teams
              /\ \A q \in Request, n \in matches' :
                   n.round < draw[q].round => \E m \in matches : IsRow(n, m)
    PROVE  DrawsHold'
<1> SUFFICES ASSUME NEW q \in Request, draw'[q] # Idle
             PROVE  Calculated(draw[q])' /\ StillHolds(draw[q])'
  BY DEF DrawsHold
<1>1. draw'[q] = draw[q] /\ Calculated(draw[q]) /\ StillHolds(draw[q])
  BY DEF DrawsHold
<1>2. Calculated(draw[q])'
  BY <1>1 DEF Calculated
<1>3. ASSUME draw[q].round > 1
      PROVE  /\ version' # "draft" /\ draw[q].teams = teams'
             /\ \A n \in matches' : n.round < draw[q].round => \E m \in matches : IsRow(n, m)
  BY <1>1, <1>3 DEF StillHolds
<1>4. ASSUME draw[q].round > 1, NEW n \in matches', n.round \in 1 .. (draw[q].round - 1)
      PROVE  n.status = "finished"
  <2>1. draw[q].round \in Int
    BY <1>1 DEF Calculated
  <2>2. PICK m \in matches : IsRow(n, m)
    BY <1>3, <1>4, <2>1
  <2>3. m \in Before(draw[q].round)
    BY <1>4, <2>2 DEF IsRow, Before
  <2> QED BY <1>1, <1>4, <2>2, <2>3 DEF IsRow, StillHolds, Played
<1>5. ASSUME draw[q].round > 1, NEW n \in Meetings', n.round < draw[q].round
      PROVE  n.teams \notin draw[q].pairs
  <2>1. n \in matches' /\ n.status # "cancelled" /\ Cardinality(n.teams) = 2
    BY <1>5 DEF Meetings
  <2>2. PICK m \in matches : IsRow(n, m)
    BY <1>3, <1>5, <2>1
  <2>3. m \in Meetings /\ m.round = n.round /\ m.teams = n.teams
    BY <2>1, <2>2 DEF IsRow, Meetings
  <2> QED BY <1>1, <1>5, <2>3 DEF StillHolds
<1>6. StillHolds(draw[q])'
  BY <1>1, <1>3, <1>4, <1>5 DEF StillHolds, Played, Before
<1> QED BY <1>2, <1>6

\* The types of the draws are those of the draws that hold.
LEMMA DrawsTyped ==
    ASSUME DrawsHold', NEW q \in Request
    PROVE  draw'[q].round \in 0 .. Rounds /\ draw'[q].pairs \subseteq Pairs(draw'[q].teams)
<1>1. draw'[q] \in Drawing
  BY DEF DrawsHold
<1>2. draw'[q].pairs \subseteq Pairs(draw'[q].teams)
  <2>1. CASE draw'[q] = Idle
    BY <2>1 DEF Idle
  <2>2. CASE draw'[q] # Idle
    BY <2>2 DEF DrawsHold, Calculated
  <2> QED BY <2>1, <2>2
<1> QED BY <1>1, <1>2 DEF Drawing

\* Before the publication the draws under way are of the first round.
LEMMA DraftDraws ==
    ASSUME DrawsHold, version = "draft", NEW q \in Request, draw[q] # Idle
    PROVE  draw[q].round = 1
<1>1. Calculated(draw[q]) /\ StillHolds(draw[q])
  BY DEF DrawsHold
<1>2. draw[q].round \in 1 .. Rounds /\ ~(draw[q].round > 1)
  BY <1>1 DEF Calculated, StillHolds
<1> QED BY <1>2, SwissAssumption

\* A round after the first is complete in a draft: there is none.
LEMMA DraftRounds ==
    ASSUME DraftIsUndrawn, version = "draft"
    PROVE  LaterRoundsComplete
BY SwissAssumption DEF DraftIsUndrawn, LaterRoundsComplete, InRound
-------------------------------------------------------------------------------
(* One lemma for each action.                                              *)

LEMMA ReadKeeps ==
    ASSUME SwissInv, NEW q \in Request, NEW r \in 1 .. Rounds, NEW replace \in BOOLEAN,
           Read(q, r, replace)
    PROVE  SwissInv'
<1> USE DEF SwissInv
<1>0. r \in Nat /\ r >= 1 /\ r \in 0 .. Rounds
  BY SwissAssumption
<1>1. PICK P \in PairingsOf(teams, IF replace THEN {} ELSE PriorPairs) :
        draw' = [draw EXCEPT ![q] =
         [round    |-> r,
          replace  |-> replace,
          teams    |-> teams,
          existing |-> Ids(matches),
          previous |-> Ids(Before(r)),
          places   |-> IF r = 1 THEN {}
                       ELSE Ids({m \in InRound(r) : m.status = "cancelled"}),
          pairs    |-> P]]
  BY DEF Read
<1>2. UNCHANGED <<version, teams, matches, nextId>>
  BY DEF Read
<1>3. PICK d : d = [round    |-> r,
          replace  |-> replace,
          teams    |-> teams,
          existing |-> Ids(matches),
          previous |-> Ids(Before(r)),
          places   |-> IF r = 1 THEN {}
                       ELSE Ids({m \in InRound(r) : m.status = "cancelled"}),
          pairs    |-> P]
  OBVIOUS
<1>4. /\ P \subseteq Pairs(teams) /\ AreApart(P)
      /\ Cardinality(P) = Cardinality(teams) \div 2
      /\ ~replace => P \cap PriorPairs = {}
  BY DEF PairingsOf, AreApart
<1>5. /\ r = 1 => (matches # {} => replace)
      /\ r > 1 => /\ ~replace /\ Before(r) # {} /\ Played(Before(r))
                  /\ PlacesMatch(r, teams)
  BY <1>0 DEF Read
<1>6. Ids(matches) \subseteq 0 .. MaxId
  BY DEF TypeOK, Match, Ids
<1>7. d \in Drawing
  <2>1. /\ Ids(Before(r)) \subseteq 0 .. MaxId
        /\ Ids({m \in InRound(r) : m.status = "cancelled"}) \subseteq 0 .. MaxId
    BY <1>6 DEF Ids, Before, InRound
  <2>2. P \subseteq Pairs(Team) /\ teams \subseteq Team
    BY <1>4 DEF TypeOK, Pairs
  <2> QED BY <1>0, <1>3, <1>6, <2>1, <2>2 DEF Drawing
<1>8. Calculated(d)
  <2>1. r = 1 /\ ~replace => Ids(matches) = {}
    BY <1>5 DEF Ids
  <2>2. ASSUME r > 1
        PROVE  Cardinality(d.places) = Cardinality(P)
    <3> DEFINE S == {m \in InRound(r) : m.status = "cancelled"}
    <3>1. IsFiniteSet(S)
      BY FiniteMatches, FS_Subset DEF InRound
    <3>2. Cardinality(S) = Cardinality(teams) \div 2
      BY <1>5, <2>2 DEF PlacesMatch
    <3>3. PICK f : f = [m \in S |-> m.id]
      OBVIOUS
    <3>4. \A a, b \in S : f[a] = f[b] => a = b
      BY <3>3 DEF TypeOK, InRound
    <3>5. d.places = {f[m] : m \in S}
      <4>1. d.places = Ids(S)
        BY <1>3, <2>2
      <4>2. Ids(S) = {f[m] : m \in S}
        BY <3>3 DEF Ids
      <4> QED BY <4>1, <4>2
    <3> HIDE DEF S
    <3>6. Cardinality(d.places) = Cardinality(S)
      BY <3>1, <3>4, <3>5, ImageIsAsLarge
    <3> QED BY <1>4, <3>2, <3>6
  <2> QED BY <1>3, <1>4, <1>5, <2>1, <2>2 DEF Calculated
<1>9. StillHolds(d)
  <2> SUFFICES ASSUME r > 1
               PROVE  /\ version # "draft"
                      /\ d.teams = teams /\ Played(Before(d.round))
                      /\ \A m \in Meetings : m.teams \notin d.pairs
    BY <1>3 DEF StillHolds
  <2>1. version # "draft"
    BY <1>5 DEF DraftIsUndrawn, Played, Before
  <2>2. \A m \in Meetings : m.teams \notin P
    BY <1>4, <1>5 DEF PriorPairs
  <2> QED BY <1>3, <1>5, <2>1, <2>2
<1>10. DrawsHold'
  <2>1. draw \in [Request -> Drawing] /\ draw' = [draw EXCEPT ![q] = d]
    BY <1>1, <1>3 DEF DrawsHold
  <2>2. draw' \in [Request -> Drawing]
    BY <1>7, <2>1
  <2>3. ASSUME NEW p \in Request, draw'[p] # Idle
        PROVE  Calculated(draw[p])' /\ StillHolds(draw[p])'
    <3>1. PICK e : e = draw'[p] /\ Calculated(e) /\ StillHolds(e)
      BY <1>8, <1>9, <2>1, <2>3 DEF DrawsHold
    <3>2. Calculated(draw[p])'
      BY <3>1 DEF Calculated
    <3>3. StillHolds(draw[p])'
      BY <1>2, <3>1 DEF StillHolds, Before, Meetings
    <3> QED BY <3>2, <3>3
  <2> QED BY <2>2, <2>3 DEF DrawsHold
<1>11. TypeOK'
  <2>1. \A p \in Request : /\ draw'[p].round \in 0 .. Rounds
                           /\ draw'[p].pairs \subseteq Pairs(draw'[p].teams)
    BY <1>10, DrawsTyped
  <2> QED BY <1>2, <2>1 DEF TypeOK
<1> QED BY <1>2, <1>10, <1>11 DEF CancelledIsEmpty, DraftIsUndrawn, PairingsHold,
      NoRematch, OnceARound, RoundsInOrder, LaterRoundsComplete, TeamsOfTheStage,
      Meetings, InRound

\* The parts of the invariant that look at the draws, once the rest is known.
LEMMA AllKeep ==
    ASSUME DrawsHold', version' \in {"draft", "published", "archived"},
           teams' \subseteq Team, matches' \subseteq Match, nextId' \in 0 .. (MaxId + 1),
           \A a, b \in matches' : a.id = b.id => a = b,
           \A m \in matches' : m.id < nextId',
           CancelledIsEmpty', DraftIsUndrawn', PairingsHold'
    PROVE  SwissInv'
<1>1. TypeOK'
  BY DrawsTyped DEF TypeOK
<1> QED BY <1>1 DEF SwissInv

LEMMA AbandonKeeps ==
    ASSUME SwissInv, NEW q \in Request, Abandon(q)
    PROVE  SwissInv'
<1> USE DEF SwissInv
<1>1. draw' = [draw EXCEPT ![q] = Idle] /\ UNCHANGED <<version, teams, matches, nextId>>
  BY DEF Abandon
<1>2. DrawsHold'
  <2>1. draw \in [Request -> Drawing]
    BY DEF DrawsHold
  <2>2. /\ draw' \in [Request -> Drawing]
        /\ \A p \in Request : draw'[p] \in {draw[p], Idle}
    BY <1>1, <2>1, IdleIsDrawing
  <2>3. \A n \in matches' : \E m \in matches : IsRow(n, m)
    BY <1>1 DEF IsRow
  <2> QED BY <1>1, <2>2, <2>3, DrawsStay
<1> QED BY <1>1, <1>2, AllKeep DEF TypeOK, CancelledIsEmpty, DraftIsUndrawn, PairingsHold,
      NoRematch, OnceARound, RoundsInOrder, LaterRoundsComplete, TeamsOfTheStage,
      Meetings, InRound

LEMMA AssignKeeps ==
    ASSUME SwissInv, NEW batch \in SUBSET Team, Assign(batch)
    PROVE  SwissInv'
<1> USE DEF SwissInv
<1>1. /\ version = "draft" /\ teams' = teams \cup batch
      /\ UNCHANGED <<version, matches, nextId, draw>>
  BY DEF Assign
<1>2. DrawsHold'
  BY <1>1, DrawsStay DEF DrawsHold
<1>3. CancelledIsEmpty' /\ DraftIsUndrawn'
  BY <1>1 DEF CancelledIsEmpty, DraftIsUndrawn
<1>4. LaterRoundsComplete'
  BY <1>1, <1>3, SwissAssumption DEF DraftIsUndrawn, LaterRoundsComplete, InRound
<1>5. PairingsHold'
  BY <1>1, <1>4 DEF PairingsHold, NoRematch, OnceARound, RoundsInOrder, TeamsOfTheStage,
     Meetings
<1> QED BY <1>1, <1>2, <1>3, <1>5, AllKeep DEF TypeOK

LEMMA RemoveKeeps ==
    ASSUME SwissInv, NEW t \in Team, Remove(t)
    PROVE  SwissInv'
<1> USE DEF SwissInv
<1>1. /\ version = "draft" /\ ~HasMatch(t) /\ teams' = teams \ {t}
      /\ UNCHANGED <<version, matches, nextId, draw>>
  BY DEF Remove
<1>2. DrawsHold'
  BY <1>1, DrawsStay DEF DrawsHold
<1>3. CancelledIsEmpty' /\ DraftIsUndrawn'
  BY <1>1 DEF CancelledIsEmpty, DraftIsUndrawn
<1>4. LaterRoundsComplete'
  BY <1>1, <1>3, SwissAssumption DEF DraftIsUndrawn, LaterRoundsComplete, InRound
<1>5. TeamsOfTheStage'
  BY <1>1 DEF PairingsHold, TeamsOfTheStage, HasMatch
<1>6. PairingsHold'
  BY <1>1, <1>4, <1>5 DEF PairingsHold, NoRematch, OnceARound, RoundsInOrder, Meetings
<1> QED BY <1>1, <1>2, <1>3, <1>6, AllKeep DEF TypeOK

LEMMA CreateMatchKeeps ==
    ASSUME SwissInv, NEW sides \in SUBSET teams, CreateMatch(sides)
    PROVE  SwissInv'
<1> USE DEF SwissInv
<1>1. PICK m : m = [id |-> nextId, round |-> 0, status |-> "scheduled", teams |-> sides]
  OBVIOUS
<1>2. /\ version = "draft" /\ sides \notin PriorPairs /\ nextId <= MaxId
      /\ matches' = matches \cup {m} /\ nextId' = nextId + 1
      /\ UNCHANGED <<version, teams, draw>>
  BY <1>1 DEF CreateMatch
<1>3. nextId \in Nat /\ MaxId \in Nat /\ Rounds \in Nat
  BY SwissAssumption DEF TypeOK
<1>4. \A n \in matches : n.id \in Nat /\ n.id < nextId /\ n.round \in Nat
  BY <1>3 DEF TypeOK, Match
<1>5. m \in Match
  BY <1>1, <1>2, <1>3 DEF Match, TypeOK
<1>6. DrawsHold'
  BY <1>2, DrawsStay DEF DrawsHold
<1>7. CancelledIsEmpty' /\ DraftIsUndrawn'
  BY <1>1, <1>2 DEF CancelledIsEmpty, DraftIsUndrawn
<1>8. LaterRoundsComplete'
  BY <1>2, <1>7, SwissAssumption DEF DraftIsUndrawn, LaterRoundsComplete, InRound
<1>9. NoRematch'
  <2> SUFFICES ASSUME NEW a \in Meetings', NEW b \in Meetings', a # b
               PROVE  a.teams # b.teams
    BY DEF NoRematch
  <2>1. \A x \in Meetings' : x = m \/ x \in Meetings
    BY <1>2 DEF Meetings
  <2>2. \A x \in Meetings : x.teams # m.teams
    BY <1>1, <1>2 DEF PriorPairs
  <2> QED BY <2>1, <2>2 DEF PairingsHold, NoRematch
<1>10. OnceARound'
  BY <1>1, <1>2, <1>4 DEF PairingsHold, OnceARound
<1>11. RoundsInOrder'
  BY <1>1, <1>2, <1>4 DEF PairingsHold, RoundsInOrder
<1>12. PairingsHold'
  BY <1>1, <1>2, <1>8, <1>9, <1>10, <1>11 DEF PairingsHold, TeamsOfTheStage
<1>13. /\ \A a, b \in matches' : a.id = b.id => a = b
       /\ \A n \in matches' : n.id < nextId'
       /\ matches' \subseteq Match /\ nextId' \in 0 .. (MaxId + 1)
  BY <1>1, <1>2, <1>3, <1>4, <1>5 DEF TypeOK
<1> QED BY <1>2, <1>6, <1>7, <1>12, <1>13, AllKeep DEF TypeOK

LEMMA PublishKeeps ==
    ASSUME SwissInv, Publish \/ Archive
    PROVE  SwissInv'
<1> USE DEF SwissInv
<1>1. /\ version' \in {"published", "archived"}
      /\ UNCHANGED <<teams, matches, nextId, draw>>
  BY DEF Publish, Archive
<1>2. DrawsHold'
  <2>1. \A n \in matches' : \E m \in matches : IsRow(n, m)
    BY <1>1 DEF IsRow
  <2> QED BY <1>1, <2>1, DrawsStay DEF DrawsHold
<1> QED BY <1>1, <1>2, AllKeep DEF TypeOK, CancelledIsEmpty, DraftIsUndrawn, PairingsHold,
      NoRematch, OnceARound, RoundsInOrder, LaterRoundsComplete, TeamsOfTheStage,
      Meetings, InRound

LEMMA PlayKeeps ==
    ASSUME SwissInv, NEW m \in matches, Play(m)
    PROVE  /\ SwissInv'
           /\ \A k \in matches : \E n \in matches' : n.id = k.id /\ n.teams = k.teams
<1> USE DEF SwissInv
<1>1. PICK w : w = [m EXCEPT !.status = "finished"]
  OBVIOUS
<1>2. /\ version = "published" /\ m.status = "scheduled" /\ Cardinality(m.teams) = 2
      /\ matches' = (matches \ {m}) \cup {w}
      /\ UNCHANGED <<version, teams, nextId, draw>>
  BY <1>1 DEF Play
<1>3. /\ w \in Match /\ w.id = m.id /\ w.round = m.round /\ w.teams = m.teams
      /\ w.status = "finished"
  BY <1>1 DEF TypeOK, Match
<1>4. \A n \in matches' : n = w \/ (n \in matches /\ n # m)
  BY <1>2
<1>5. \A k \in matches : k # m => k \in matches'
  BY <1>2
<1>6. w \in matches'
  BY <1>2
<1>7. DrawsHold'
  <2>1. \A n \in matches' : \E k \in matches : IsRow(n, k)
    BY <1>2, <1>3, <1>4 DEF IsRow
  <2> QED BY <1>2, <2>1, DrawsStay DEF DrawsHold
<1>8. CancelledIsEmpty' /\ DraftIsUndrawn'
  BY <1>2, <1>3, <1>4 DEF CancelledIsEmpty, DraftIsUndrawn
<1>9. PICK old : old = [n \in matches' |-> IF n = w THEN m ELSE n]
  OBVIOUS
<1>10. \A n \in matches' : /\ old[n] \in matches /\ old[n].id = n.id
                           /\ old[n].round = n.round /\ old[n].teams = n.teams
                           /\ old[n].status = "cancelled" <=> n.status = "cancelled"
                           /\ old[n].status = "finished" => n.status = "finished"
  BY <1>2, <1>3, <1>4, <1>9
<1>11. \A a, b \in matches' : old[a] = old[b] => a = b
  BY <1>4, <1>9
<1>12. NoRematch'
  <2> SUFFICES ASSUME NEW a \in Meetings', NEW b \in Meetings', a # b
               PROVE  a.teams # b.teams
    BY DEF NoRematch
  <2>1. a \in matches' /\ b \in matches' /\ old[a] \in Meetings /\ old[b] \in Meetings
    BY <1>10 DEF Meetings
  <2> QED BY <1>10, <1>11, <2>1 DEF PairingsHold, NoRematch
<1>13. OnceARound'
  <2> SUFFICES ASSUME NEW a \in matches', NEW b \in matches', a # b, a.round = b.round,
                      a.round > 0
               PROVE  a.teams \cap b.teams = {}
    BY DEF OnceARound
  <2>1. old[a] \in matches /\ old[b] \in matches /\ old[a] # old[b]
    BY <1>10, <1>11
  <2>2. /\ old[a].round = a.round /\ old[b].round = b.round
        /\ old[a].teams = a.teams /\ old[b].teams = b.teams
    BY <1>10
  <2> QED BY <2>1, <2>2 DEF PairingsHold, OnceARound
<1>14. RoundsInOrder'
  <2> SUFFICES ASSUME NEW a \in matches', NEW b \in matches', a.status # "cancelled",
                      b.round \in 1 .. (a.round - 1)
               PROVE  b.status = "finished"
    BY DEF RoundsInOrder
  <2>1. /\ old[a] \in matches /\ old[a].status # "cancelled" /\ old[a].round = a.round
        /\ old[b] \in matches /\ old[b].round = b.round
    BY <1>10
  <2>2. old[b].status = "finished"
    BY <2>1 DEF PairingsHold, RoundsInOrder
  <2> QED BY <1>10, <2>2
<1>15. LaterRoundsComplete'
  <2> SUFFICES ASSUME NEW r \in 2 .. Rounds, NEW a \in InRound(r)', a.status # "cancelled"
               PROVE  Cardinality(teams' \ UNION {k.teams : k \in InRound(r)'}) <= 1
    BY DEF LaterRoundsComplete
  <2>1. old[a] \in InRound(r) /\ old[a].status # "cancelled"
    BY <1>10 DEF InRound
  <2>2. Cardinality(teams \ UNION {k.teams : k \in InRound(r)}) <= 1
    BY <2>1 DEF PairingsHold, LaterRoundsComplete
  <2>3. UNION {k.teams : k \in InRound(r)'} = UNION {k.teams : k \in InRound(r)}
    <3>1. \A k \in InRound(r)' : old[k] \in InRound(r) /\ old[k].teams = k.teams
      BY <1>10 DEF InRound
    <3>2. ASSUME NEW k \in InRound(r)
          PROVE  \E n \in InRound(r)' : n.teams = k.teams
      BY <1>3, <1>5, <1>6 DEF InRound
    <3> QED BY <3>1, <3>2
  <2> QED BY <1>2, <2>2, <2>3
<1>16. PairingsHold'
  BY <1>2, <1>10, <1>12, <1>13, <1>14, <1>15 DEF PairingsHold, TeamsOfTheStage
<1>17. /\ \A a, b \in matches' : a.id = b.id => a = b
       /\ \A n \in matches' : n.id < nextId'
       /\ matches' \subseteq Match
  BY <1>2, <1>3, <1>4 DEF TypeOK
<1>18. \A k \in matches : \E n \in matches' : n.id = k.id /\ n.teams = k.teams
  BY <1>3, <1>5, <1>6
<1>19. SwissInv'
  BY <1>2, <1>7, <1>8, <1>16, <1>17, AllKeep DEF TypeOK
<1> QED BY <1>18, <1>19

\* What a draw writes, given the pairs that Zips deals out: the filled rows are apart.
LEMMA FilledApart ==
    ASSUME NEW ms \in SUBSET Match, \A a, b \in ms : a.id = b.id => a = b,
           NEW places, NEW pairs \in SUBSET SUBSET Team, AreApart(pairs),
           NEW Z \in Zips(places, pairs),
           NEW a \in Filled(ms, Z), NEW b \in Filled(ms, Z), a # b,
           <<a.id, a.teams>> \in Z, <<b.id, b.teams>> \in Z
    PROVE  a.teams # b.teams /\ a.teams \cap b.teams = {}
<1>1. /\ Z \subseteq places \X pairs
      /\ \A x, y \in Z : x[1] = y[1] \/ x[2] = y[2] => x = y
  BY DEF Zips
<1>2. PICK x \in Z : x = <<a.id, a.teams>>
  OBVIOUS
<1>3. PICK y \in Z : y = <<b.id, b.teams>>
  OBVIOUS
<1>4. a.id # b.id
  BY FillRows DEF RowsAreFilled
<1>5. a.teams # b.teams
  BY <1>1, <1>2, <1>3, <1>4
<1>6. a.teams \in pairs /\ b.teams \in pairs
  BY <1>1
<1> QED BY <1>5, <1>6 DEF AreApart

\* The first round: the placeholders of every round, the first of them filled.
LEMMA WriteFirstKeeps ==
    ASSUME SwissInv, NEW q \in Request, Write(q), draw[q].round = 1
    PROVE  SwissInv' /\ version = "draft"
<1> USE DEF SwissInv
<1>1. PICK d : d = draw[q]
  OBVIOUS
<1>2. PICK n : n = Cardinality(d.pairs)
  OBVIOUS
<1>3. PICK kept : kept = IF d.replace THEN {} ELSE matches
  OBVIOUS
<1>4. PICK new : new = Placeholders(n)
  OBVIOUS
<1>5. PICK places : places = Ids({m \in new : m.round = 1})
  OBVIOUS
<1>6. /\ d # Idle /\ Drawable(1) /\ Unchanged(d) /\ TriggerAccepts(UNION d.pairs)
      /\ nextId + Rounds * n <= MaxId + 1
      /\ nextId' = nextId + Rounds * n
      /\ draw' = [draw EXCEPT ![q] = Idle]
      /\ UNCHANGED <<version, teams>>
  BY <1>1, <1>2 DEF Write
<1>7. PICK Z \in Zips(places, d.pairs) : matches' = Filled(kept \cup new, Z)
  <2>1. ~(draw[q].round > 1)
    OBVIOUS
  <2>2. \E Z \in Zips(Ids({m \in Placeholders(Cardinality(draw[q].pairs)) : m.round = 1}),
                      draw[q].pairs) :
          matches' = Filled((IF draw[q].replace THEN {} ELSE matches)
                              \cup Placeholders(Cardinality(draw[q].pairs)), Z)
    BY <2>1, Zenon DEF Write
  <2> QED BY <1>1, <1>2, <1>3, <1>4, <1>5, <2>2
<1>8. version = "draft" /\ UNION d.pairs \subseteq teams
  BY <1>6 DEF Drawable, TriggerAccepts
<1>9. Calculated(d) /\ d \in Drawing
  BY <1>1, <1>6 DEF DrawsHold
<1>10. d.pairs \in SUBSET SUBSET Team /\ AreApart(d.pairs)
  BY <1>9 DEF Calculated, Drawing, Pairs
<1>11. n \in Nat
  <2>1. IsFiniteSet(Team) /\ d.pairs \subseteq Pairs(Team)
    BY <1>9, SwissAssumption DEF Drawing
  <2> QED BY <1>2, <1>10, <2>1, PairsOfTwice, FS_CardinalityType
<1>12. kept = {}
  <2>1. CASE d.replace
    BY <1>3, <2>1
  <2>2. CASE ~d.replace
    <3>1. Ids(matches) = {}
      BY <1>1, <1>6, <1>9, <2>2 DEF Unchanged, Calculated
    <3>2. matches = {}
      BY <3>1 DEF Ids
    <3> QED BY <1>3, <3>2
  <2> QED BY <2>1, <2>2
<1>13. matches' = Filled(new, Z)
  BY <1>7, <1>12
<1>14. /\ new \in SUBSET Match /\ \A a, b \in new : a.id = b.id => a = b
       /\ \A m \in new : /\ m.id < nextId' /\ m.status = "cancelled" /\ m.teams = {}
                         /\ m.round \in 1 .. Rounds
  BY <1>4, <1>6, <1>11, PlaceholderRows
<1>15. /\ matches' \subseteq Match
       /\ \A a, b \in matches' : a.id = b.id => a = b
       /\ \A m \in matches' :
            \E k \in new : /\ m.id = k.id /\ m.round = k.round
                          /\ \/ m = k
                             \/ /\ <<k.id, m.teams>> \in Z
                                /\ m.status = "scheduled" /\ m.teams \in d.pairs
                                /\ k.id \in places
  <2>1. RowsAreFilled(new, places, d.pairs, Z)
    BY <1>7, <1>10, <1>14, FillRows
  <2> QED BY <1>13, <2>1 DEF RowsAreFilled
<1>16. ASSUME NEW m \in matches'
       PROVE  /\ m.id < nextId' /\ m.round \in 1 .. Rounds
              /\ \/ m.status = "cancelled" /\ m.teams = {}
                 \/ /\ m.status = "scheduled" /\ m.teams \in d.pairs /\ m.round = 1
                    /\ <<m.id, m.teams>> \in Z
  <2>1. PICK k \in new : /\ m.id = k.id /\ m.round = k.round
                         /\ \/ m = k
                            \/ /\ <<k.id, m.teams>> \in Z
                               /\ m.status = "scheduled" /\ m.teams \in d.pairs
                               /\ k.id \in places
    BY <1>15
  <2>2. k.id \in places => k.round = 1
    BY <1>5, <1>14 DEF Ids
  <2> QED BY <1>14, <2>1, <2>2
<1>17. \A m \in matches' : m.round \in Int
  BY <1>15, SwissAssumption DEF Match
<1>18. \A m \in matches' : m.status # "cancelled" => m.round = 1
  BY <1>16
<1>19. \A m \in matches' : m.status # "finished"
  BY <1>16
<1>20. \A m \in matches' : m.status # "cancelled" => <<m.id, m.teams>> \in Z
  BY <1>16
<1>21. \A a, b \in matches' : a # b /\ a.status # "cancelled" /\ b.status # "cancelled" =>
         a.teams # b.teams /\ a.teams \cap b.teams = {}
  <2>1. \A a, b \in Filled(new, Z) :
          a # b /\ <<a.id, a.teams>> \in Z /\ <<b.id, b.teams>> \in Z =>
            a.teams # b.teams /\ a.teams \cap b.teams = {}
    <3>1. /\ new \in SUBSET Match /\ \A a, b \in new : a.id = b.id => a = b
          /\ d.pairs \in SUBSET SUBSET Team /\ AreApart(d.pairs) /\ Z \in Zips(places, d.pairs)
      BY <1>7, <1>10, <1>14
    <3> QED BY <3>1, FilledApart
  <2> QED BY <1>13, <1>20, <2>1
<1>22. CancelledIsEmpty' /\ DraftIsUndrawn'
  <2>1. CancelledIsEmpty'
    BY <1>16, <1>10 DEF CancelledIsEmpty
  <2>2. ASSUME NEW m \in matches'
        PROVE  m.status # "finished" /\ (m.round > 1 => m.status = "cancelled")
    BY <1>18, <1>19
  <2>3. DraftIsUndrawn'
    BY <2>2 DEF DraftIsUndrawn
  <2> QED BY <2>1, <2>3
<1>23. NoRematch'
  BY <1>21 DEF NoRematch, Meetings
<1>24. OnceARound'
  BY <1>16, <1>21 DEF OnceARound
<1>25. RoundsInOrder'
  <2>1. ASSUME NEW m \in matches', NEW k \in matches', m.status # "cancelled"
        PROVE  k.round \notin 1 .. (m.round - 1)
    <3>1. m.round - 1 = 0
      BY <1>18, <2>1
    <3> QED BY <3>1
  <2> QED BY <2>1 DEF RoundsInOrder
<1>26. LaterRoundsComplete'
  <2>1. \A r \in 2 .. Rounds : r # 1
    OBVIOUS
  <2>2. \A r \in 2 .. Rounds, m \in matches' : m.round = r => m.status = "cancelled"
    BY <1>18, <2>1
  <2> QED BY <2>2 DEF LaterRoundsComplete, InRound
<1>27. TeamsOfTheStage'
  BY <1>6, <1>8, <1>16 DEF TeamsOfTheStage
<1>28. DrawsHold'
  <2>1. draw \in [Request -> Drawing]
    BY DEF DrawsHold
  <2>2. /\ draw' \in [Request -> Drawing]
        /\ \A p \in Request : draw'[p] \in {draw[p], Idle}
    BY <1>6, <2>1, IdleIsDrawing
  <2> QED BY <1>8, <2>2, DrawsStay
<1>29. nextId' \in 0 .. (MaxId + 1)
  <2>1. nextId \in Nat /\ MaxId \in Nat /\ Rounds \in Nat
    BY SwissAssumption DEF TypeOK
  <2>2. Rounds * n \in Nat
    BY <1>11, <2>1
  <2> QED BY <1>6, <2>1, <2>2
<1>30. SwissInv'
  BY <1>6, <1>15, <1>16, <1>22, <1>23, <1>24, <1>25, <1>26, <1>27, <1>28, <1>29, AllKeep
     DEF TypeOK, PairingsHold
<1> QED BY <1>8, <1>30

\* A later round fills the places that wait for it, one for each of its pairs.
LEMMA WriteLaterKeeps ==
    ASSUME SwissInv, NEW q \in Request, Write(q), draw[q].round # 1
    PROVE  /\ SwissInv'
           /\ \A m \in matches : m.teams # {} => m \in matches'
<1> USE DEF SwissInv
<1>1. PICK d : d = draw[q]
  OBVIOUS
<1>2. PICK r : r = d.round
  OBVIOUS
<1>3. /\ d # Idle /\ Drawable(r) /\ Unchanged(d)
      /\ r > 1 /\ nextId' = nextId
      /\ draw' = [draw EXCEPT ![q] = Idle]
      /\ UNCHANGED <<version, teams>>
  BY <1>1, <1>2 DEF Write
<1>4. PICK Z \in Zips(d.places, d.pairs) : matches' = Filled(matches, Z)
  BY <1>1, <1>2, <1>3 DEF Write
<1>5. Calculated(d) /\ StillHolds(d) /\ d \in Drawing
  BY <1>1, <1>3 DEF DrawsHold
<1>6. /\ d.pairs \in SUBSET SUBSET Team /\ AreApart(d.pairs)
      /\ version # "draft" /\ d.teams = teams /\ r \in 2 .. Rounds
      /\ d.pairs \subseteq Pairs(teams)
  BY <1>2, <1>3, <1>5, SwissAssumption DEF Calculated, StillHolds, Drawing, Pairs
<1>7. /\ d.places = Ids(InRound(r)) /\ Played(Before(r))
      /\ \A m \in InRound(r) : m.status = "cancelled"
  BY <1>2, <1>3 DEF Unchanged
<1>8. /\ matches \in SUBSET Match /\ \A a, b \in matches : a.id = b.id => a = b
      /\ \A m \in matches : m.round \in Int
  BY SwissAssumption DEF TypeOK, Match
<1>9. \A m \in matches : m.id \in d.places <=> m.round = r
  BY <1>7, <1>8 DEF Ids, InRound
<1>10. \A m \in matches : m.round = r => m.status = "cancelled" /\ m.teams = {}
  BY <1>7 DEF InRound, CancelledIsEmpty
<1>11. /\ matches' \subseteq Match
       /\ \A a, b \in matches' : a.id = b.id => a = b
       /\ \A m \in matches : m.round # r => m \in matches'
       /\ \A m \in matches' :
            \E k \in matches : /\ m.id = k.id /\ m.round = k.round
                              /\ \/ m = k
                                 \/ /\ <<k.id, m.teams>> \in Z
                                    /\ m.status = "scheduled" /\ m.teams \in d.pairs
                                    /\ k.id \in d.places
       /\ \A m \in matches, p \in d.pairs : <<m.id, p>> \in Z =>
            \E k \in matches' : k.round = m.round /\ k.teams = p
  <2>1. RowsAreFilled(matches, d.places, d.pairs, Z)
    BY <1>4, <1>6, <1>8, FillRows
  <2> QED BY <1>4, <1>9, <2>1 DEF RowsAreFilled
<1> DEFINE IsNew(m) == /\ m.status = "scheduled" /\ m.teams \in d.pairs /\ m.round = r
                       /\ <<m.id, m.teams>> \in Z
<1>12. ASSUME NEW m \in matches'
       PROVE  \E k \in matches : /\ m.id = k.id /\ m.round = k.round
                                 /\ m = k \/ IsNew(m)
  <2>1. PICK k \in matches : /\ m.id = k.id /\ m.round = k.round
                             /\ \/ m = k
                                \/ /\ <<k.id, m.teams>> \in Z
                                   /\ m.status = "scheduled" /\ m.teams \in d.pairs
                                   /\ k.id \in d.places
    BY <1>11
  <2> QED BY <1>9, <2>1
<1>13. \A a, b \in matches' : a # b /\ IsNew(a) /\ IsNew(b) =>
         a.teams # b.teams /\ a.teams \cap b.teams = {}
  <2>1. \A a, b \in Filled(matches, Z) :
          a # b /\ <<a.id, a.teams>> \in Z /\ <<b.id, b.teams>> \in Z =>
            a.teams # b.teams /\ a.teams \cap b.teams = {}
    BY <1>4, <1>6, <1>8, FilledApart
  <2> QED BY <1>4, <2>1
<1>14. \A m \in matches' : m \in matches \/ IsNew(m)
  BY <1>12
<1>15. \A m \in matches' : IsNew(m) => \E k \in matches : k.round = r /\ k.status = "cancelled"
  BY <1>10, <1>12
<1>16. ASSUME NEW m \in matches', IsNew(m), NEW k \in matches, k.round > r
       PROVE  k.status = "cancelled"
  <2>1. PICK p \in matches : p.round = r /\ p.status = "cancelled"
    BY <1>15, <1>16
  <2>2. p.round \in 1 .. (k.round - 1)
    BY <1>6, <1>8, <1>16, <2>1
  <2> QED BY <2>1, <2>2 DEF PairingsHold, RoundsInOrder
<1>17. NoRematch'
  <2>1. ASSUME NEW a \in Meetings', NEW b \in Meetings', IsNew(a), b \in matches
        PROVE  a.teams # b.teams
    <3>1. a \in matches' /\ b \in Meetings /\ b.round \in Int
      BY <1>8, <2>1 DEF Meetings
    <3>2. b.status # "cancelled"
      BY <3>1 DEF Meetings
    <3>3. b.round < r
      BY <1>6, <1>10, <1>16, <2>1, <3>1, <3>2
    <3> QED BY <1>2, <1>3, <1>5, <2>1, <3>1, <3>3 DEF StillHolds
  <2>2. \A a \in Meetings' : a \in matches' /\ (a \in matches => a \in Meetings)
    BY DEF Meetings
  <2> QED
    <3> SUFFICES ASSUME NEW a \in Meetings', NEW b \in Meetings', a # b
                 PROVE  a.teams # b.teams
      BY DEF NoRematch
    <3> HIDE DEF IsNew
    <3>1. CASE a \in matches /\ b \in matches
      BY <2>2, <3>1 DEF PairingsHold, NoRematch
    <3>2. CASE IsNew(a) /\ IsNew(b)
      BY <1>13, <2>2, <3>2
    <3>3. CASE IsNew(a) /\ b \in matches
      BY <2>1, <3>3
    <3>4. CASE a \in matches /\ IsNew(b)
      BY <2>1, <3>4
    <3> QED BY <1>14, <2>2, <3>1, <3>2, <3>3, <3>4
<1>18. OnceARound'
  <2> SUFFICES ASSUME NEW a \in matches', NEW b \in matches', a # b, a.round = b.round,
                      a.round > 0
               PROVE  a.teams \cap b.teams = {}
    BY DEF OnceARound
  <2>1. CASE a \in matches /\ b \in matches
    BY <2>1 DEF PairingsHold, OnceARound
  <2>2. CASE IsNew(a) /\ IsNew(b)
    BY <1>13, <2>2
  <2>3. CASE IsNew(a) /\ b \in matches
    BY <1>10, <2>3
  <2>4. CASE a \in matches /\ IsNew(b)
    BY <1>10, <2>4
  <2> QED BY <1>14, <2>1, <2>2, <2>3, <2>4
<1>19. RoundsInOrder'
  <2> SUFFICES ASSUME NEW a \in matches', NEW b \in matches', a.status # "cancelled",
                      b.round \in 1 .. (a.round - 1)
               PROVE  b.status = "finished"
    BY DEF RoundsInOrder
  <2>1. b.round \in Int /\ a.round \in Int
    BY <1>8, <1>12
  <2>2. CASE a \in matches /\ b \in matches
    BY <2>2 DEF PairingsHold, RoundsInOrder
  <2>3. CASE a \in matches /\ IsNew(b)
    BY <1>16, <2>1, <2>3
  <2>4. CASE IsNew(a)
    <3>1. ~IsNew(b)
      BY <2>1, <2>4
    <3>2. b \in Before(r)
      BY <1>14, <2>1, <2>4, <3>1 DEF Before
    <3> QED BY <1>7, <3>2 DEF Played
  <2> QED BY <1>14, <2>2, <2>3, <2>4
<1>20. LaterRoundsComplete'
  <2> SUFFICES ASSUME NEW s \in 2 .. Rounds, NEW a \in InRound(s)', a.status # "cancelled"
               PROVE  Cardinality(teams' \ UNION {k.teams : k \in InRound(s)'}) <= 1
    BY DEF LaterRoundsComplete
  <2>1. CASE s # r
    <3>1. \A k \in matches' : k.round = s => k \in matches
      BY <1>14, <2>1
    <3>2. InRound(s)' = InRound(s)
      BY <1>11, <2>1, <3>1 DEF InRound
    <3> QED BY <1>3, <3>2 DEF PairingsHold, LaterRoundsComplete
  <2>2. CASE s = r
    <3>1. IsFiniteSet(teams) /\ IsFiniteSet(d.pairs) /\ IsFiniteSet(InRound(r))
      <4>1. IsFiniteSet(teams)
        BY SwissAssumption, FS_Subset DEF TypeOK
      <4>2. IsFiniteSet(InRound(r))
        BY FiniteMatches, FS_Subset DEF InRound
      <4> QED BY <1>6, <4>1, <4>2, PairsOfTwice
    <3>2. IsFiniteSet(d.places)
      <4>1. PICK f : f = [m \in InRound(r) |-> m.id]
        OBVIOUS
      <4>2. \A x, y \in InRound(r) : f[x] = f[y] => x = y
        BY <1>8, <4>1 DEF InRound
      <4>3. d.places = {f[m] : m \in InRound(r)}
        BY <1>7, <4>1 DEF Ids
      <4> QED BY <3>1, <4>2, <4>3, ImageIsAsLarge
    <3>3. /\ Cardinality(d.places) = Cardinality(d.pairs)
          /\ Cardinality(d.pairs) = Cardinality(teams) \div 2
      BY <1>2, <1>3, <1>5, <1>6 DEF Calculated
    <3>4. ASSUME NEW p \in d.pairs
          PROVE  \E k \in InRound(r)' : k.teams = p
      <4>1. PICK i \in d.places : <<i, p>> \in Z
        BY <1>4, <3>1, <3>2, <3>3, EveryPairPlaced
      <4>2. PICK m \in matches : m.id = i /\ m.round = r
        BY <1>7 DEF Ids, InRound
      <4> QED BY <1>11, <4>1, <4>2 DEF InRound
    <3>5. UNION d.pairs \subseteq UNION {k.teams : k \in InRound(r)'}
      BY <3>4
    <3> QED BY <1>3, <1>6, <2>2, <3>1, <3>3, <3>5, OneIsLeftOver
  <2> QED BY <2>1, <2>2
<1>21. TeamsOfTheStage'
  <2>1. \A m \in matches : m.teams \subseteq teams
    BY DEF PairingsHold, TeamsOfTheStage
  <2>2. \A p \in d.pairs : p \subseteq teams
    BY <1>6 DEF Pairs
  <2> QED BY <1>3, <1>14, <2>1, <2>2 DEF TeamsOfTheStage
<1>22. CancelledIsEmpty' /\ DraftIsUndrawn'
  BY <1>3, <1>6, <1>14 DEF CancelledIsEmpty, DraftIsUndrawn
<1>23. DrawsHold'
  <2>1. draw \in [Request -> Drawing]
    BY DEF DrawsHold
  <2>2. /\ draw' \in [Request -> Drawing]
        /\ \A p \in Request : draw'[p] \in {draw[p], Idle}
    BY <1>3, <2>1, IdleIsDrawing
  <2>3. ASSUME NEW p \in Request, NEW n \in matches', n.round < draw[p].round
        PROVE  \E m \in matches : IsRow(n, m)
    <3>1. ~IsNew(n)
      <4> SUFFICES ASSUME IsNew(n) PROVE FALSE
        OBVIOUS
      <4>1. draw[p].round > r /\ draw[p].round \in Int
        BY <1>3, <1>6, <2>1, <2>3 DEF Drawing
      <4>2. draw[p] # Idle
        BY <1>6, <4>1 DEF Idle
      <4>3. Played(Before(draw[p].round))
        BY <1>6, <4>1, <4>2 DEF DrawsHold, StillHolds
      <4>4. PICK k \in matches : k.round = r /\ k.status = "cancelled"
        BY <1>15
      <4>5. k \in Before(draw[p].round)
        BY <1>6, <4>1, <4>4 DEF Before
      <4> QED BY <4>3, <4>4, <4>5 DEF Played
    <3> QED BY <1>14, <3>1 DEF IsRow
  <2> QED BY <1>3, <1>6, <2>2, <2>3, DrawsStay
<1>24. \A m \in matches' : m.id < nextId'
  BY <1>3, <1>12 DEF TypeOK
<1>25. SwissInv'
  BY <1>3, <1>11, <1>17, <1>18, <1>19, <1>20, <1>21, <1>22, <1>23, <1>24, AllKeep
     DEF TypeOK, PairingsHold
<1>26. \A m \in matches : m.teams # {} => m \in matches'
  BY <1>10, <1>11
<1> QED BY <1>25, <1>26

\* Every step of the stage keeps the invariant.
THEOREM SwissInvariant == Spec => []SwissInv
<1>1. Init => SwissInv
  <2> SUFFICES ASSUME Init PROVE SwissInv
    OBVIOUS
  <2>1. DrawsHold
    BY IdleIsDrawing DEF Init, DrawsHold
  <2>2. TypeOK
    BY SwissAssumption, <2>1 DEF Init, TypeOK, Match, Idle
  <2>3. CancelledIsEmpty /\ DraftIsUndrawn /\ PairingsHold
    BY DEF Init, CancelledIsEmpty, DraftIsUndrawn, PairingsHold, NoRematch, OnceARound,
       RoundsInOrder, LaterRoundsComplete, TeamsOfTheStage, Meetings, InRound
  <2> QED BY <2>1, <2>2, <2>3 DEF SwissInv
<1>2. SwissInv /\ [Next]_vars => SwissInv'
  <2> SUFFICES ASSUME SwissInv, [Next]_vars PROVE SwissInv'
    OBVIOUS
  <2>1. ASSUME NEW q \in Request, NEW r \in 1 .. Rounds, NEW replace \in BOOLEAN,
               Read(q, r, replace)
        PROVE  SwissInv'
    BY <2>1, ReadKeeps
  <2>2. ASSUME NEW q \in Request, Write(q)
        PROVE  SwissInv'
    BY <2>2, WriteFirstKeeps, WriteLaterKeeps
  <2>3. ASSUME NEW q \in Request, Abandon(q)
        PROVE  SwissInv'
    BY <2>3, AbandonKeeps
  <2>4. ASSUME NEW batch \in SUBSET Team, Assign(batch)
        PROVE  SwissInv'
    BY <2>4, AssignKeeps
  <2>5. ASSUME NEW t \in Team, Remove(t)
        PROVE  SwissInv'
    BY <2>5, RemoveKeeps
  <2>6. ASSUME NEW sides \in SUBSET teams, CreateMatch(sides)
        PROVE  SwissInv'
    BY <2>6, CreateMatchKeeps
  <2>7. ASSUME Publish \/ Archive
        PROVE  SwissInv'
    BY <2>7, PublishKeeps
  <2>8. ASSUME NEW m \in matches, Play(m)
        PROVE  SwissInv'
    BY <2>8, PlayKeeps
  <2>9. CASE UNCHANGED vars
    <3>1. \A d : StillHolds(d)' <=> StillHolds(d)
      BY <2>9 DEF vars, StillHolds, Before, Meetings
    <3> QED BY <2>9 DEF vars, SwissInv, TypeOK, CancelledIsEmpty, DraftIsUndrawn, DrawsHold,
         Calculated, StillHolds, Before, PairingsHold, NoRematch, OnceARound, RoundsInOrder,
         LaterRoundsComplete, TeamsOfTheStage, Meetings, InRound
  <2> QED BY <2>1, <2>2, <2>3, <2>4, <2>5, <2>6, <2>7, <2>8, <2>9 DEF Next
<1> QED BY <1>1, <1>2, PTL DEF Spec

(* However the draws, the teams, the matches by hand, the publication and  *)
(* the results interleave: no pair meets twice, no team plays twice in a   *)
(* round, the rounds are in order and complete (_revalidate_swiss_draw_    *)
(* state, validate_match_stage_teams).                                     *)
THEOREM PairingsAlwaysHold == Spec => []PairingsHold
<1>1. SwissInv => PairingsHold
  BY DEF SwissInv
<1> QED BY <1>1, SwissInvariant, PTL

(* A published schedule only grows: what was drawn keeps its teams         *)
(* (_revalidate_swiss_draw_state against a draw that was computed before). *)
THEOREM PublishedAlwaysStays == Spec => PublishedStays
<1>1. ASSUME SwissInv, [Next]_vars, version # "draft", NEW m \in matches, m.teams # {}
      PROVE  \E n \in matches' : n.id = m.id /\ n.teams = m.teams
  <2>1. CASE m \in matches'
    BY <2>1
  <2>2. CASE matches' = matches
    BY <2>2
  <2>3. ASSUME NEW q \in Request, Write(q)
        PROVE  m \in matches'
    BY <1>1, <2>3, WriteFirstKeeps, WriteLaterKeeps
  <2>4. ASSUME NEW k \in matches, Play(k)
        PROVE  \E n \in matches' : n.id = m.id /\ n.teams = m.teams
    BY <1>1, <2>4, PlayKeeps
  <2>5. ~(\E sides \in SUBSET teams : CreateMatch(sides))
    BY <1>1 DEF CreateMatch
  <2>6. CASE \/ \E q \in Request, r \in 1 .. Rounds, replace \in BOOLEAN : Read(q, r, replace)
             \/ \E q \in Request : Abandon(q)
             \/ \E batch \in SUBSET Team : Assign(batch)
             \/ \E t \in Team : Remove(t)
             \/ Publish \/ Archive \/ UNCHANGED vars
    BY <2>2, <2>6 DEF Read, Abandon, Assign, Remove, Publish, Archive, vars
  <2> QED BY <1>1, <2>1, <2>3, <2>4, <2>5, <2>6 DEF Next
<1>2. SwissInv /\ [Next]_vars =>
        [version # "draft" =>
           \A m \in matches : m.teams # {} =>
             \E n \in matches' : n.id = m.id /\ n.teams = m.teams]_vars
  BY <1>1
<1> QED BY <1>2, SwissInvariant, PTL DEF Spec, PublishedStays

------------------------------------------------------------------------------
(* League.                                                                 *)

USE DEF Absent, Outside, Ungrouped, NotRead

\* A set that a function covers is no larger than what the function is applied to.
LEMMA CoveredIsNoLarger ==
    ASSUME NEW S, IsFiniteSet(S), NEW T, NEW f, \A y \in T : \E x \in S : y = f[x]
    PROVE  IsFiniteSet(T) /\ Cardinality(T) <= Cardinality(S)
<1> DEFINE U == {f[x] : x \in S}
           g == [x \in S |-> f[x]]
<1>1. g \in Surjection(S, U)
  BY DEF Surjection
<1>2. IsFiniteSet(U) /\ Cardinality(U) <= Cardinality(S)
  BY <1>1, FS_Surjection
<1>3. T \in SUBSET U
  OBVIOUS
<1>4. IsFiniteSet(T) /\ Cardinality(T) <= Cardinality(U)
  <2> HIDE DEF U
  <2> QED BY <1>2, <1>3, FS_Subset
<1>5. Cardinality(S) \in Nat /\ Cardinality(T) \in Nat /\ Cardinality(U) \in Nat
  <2> HIDE DEF U
  <2> QED BY <1>2, <1>4, FS_CardinalityType
<1> QED
  <2> HIDE DEF U
  <2> QED BY <1>2, <1>4, <1>5

\* Two different teams are two.
LEMMA PairOfTwo ==
    ASSUME NEW t, NEW u, t # u
    PROVE  Cardinality({t, u}) = 2
<1>1. IsFiniteSet({t}) /\ Cardinality({t}) = 1
  BY FS_Singleton
<1>2. Cardinality({t} \cup {u}) = 2
  BY <1>1, FS_AddElement
<1>3. {t} \cup {u} = {t, u}
  OBVIOUS
<1> QED BY <1>2, <1>3

------------------------------------------------------------------------------
\* The teams of a stage that are grouped are grouped within the bound.
LEMMA GroupsInRange ==
    ASSUME LeagueTypeOK
    PROVE  StageGroups \subseteq 0 .. MaxGroups
BY LeagueAssumption DEF LeagueTypeOK, StageGroups, StageTeams

\* The matches of a draw are of the types of matches, and of two teams of a group.
LEMMA ScheduleType ==
    ASSUME NEW n \in {1, 2}, NEW group \in [StageTeams -> 0 .. MaxGroups]
    PROVE  /\ Schedule(group, n) \subseteq StageMatch
           /\ \A m \in Schedule(group, n) :
                \A t \in m.teams : t \in StageTeams /\ group[t] = m.group
<1> SUFFICES ASSUME NEW m \in Schedule(group, n)
             PROVE  /\ m \in StageMatch
                    /\ \A t \in m.teams : t \in StageTeams /\ group[t] = m.group
  OBVIOUS
<1>1. PICK t \in StageTeams, u \in StageTeams, leg \in 1 .. n :
        /\ group[t] = group[u]
        /\ m = [group |-> group[t], teams |-> {t, u}, leg |-> leg, byHand |-> 0,
                operated |-> FALSE]
  BY DEF Schedule
<1>2. StageTeams \subseteq Entrant
  BY DEF StageTeams
<1>3. leg \in 0 .. 2 /\ 0 \in 0 .. MaxAdded
  BY LeagueAssumption
<1> QED BY <1>1, <1>2, <1>3 DEF StageMatch

\* The types hold in every reachable state: however the teams are dealt out and
\* whatever is deleted, every row stays within stage, group and legs.
THEOREM LeagueTypes == LeagueSpec => []LeagueTypeOK
<1>1. LeagueInit => LeagueTypeOK
  BY LeagueAssumption DEF LeagueInit, LeagueTypeOK
<1>2. LeagueTypeOK /\ [LeagueNext]_leagueVars => LeagueTypeOK'
  <2> SUFFICES ASSUME LeagueTypeOK, [LeagueNext]_leagueVars
               PROVE  LeagueTypeOK'
    OBVIOUS
  <2> USE LeagueAssumption DEF LeagueTypeOK
  <2>1. ASSUME NEW batch \in SUBSET Entrant, AssignToStage(batch)
        PROVE  LeagueTypeOK'
    BY <2>1 DEF AssignToStage
  <2>2. ASSUME NEW batch \in SUBSET Entrant,
               NEW where \in {Outside, Ungrouped} \cup StageGroups, Enrol(batch, where)
        PROVE  LeagueTypeOK'
    <3>1. where \in Absent .. MaxGroups
      BY GroupsInRange
    <3> QED BY <2>2, <3>1 DEF Enrol
  <2>3. ASSUME NEW t \in Entrant, RemoveFromStage(t)
        PROVE  LeagueTypeOK'
    BY <2>3 DEF RemoveFromStage
  <2>4. ASSUME NEW replace \in BOOLEAN, NEW n \in {1, 2}, DrawLeague(replace, n)
        PROVE  LeagueTypeOK'
    <3>1. [t \in StageTeams |-> Ungrouped] \in [StageTeams -> 0 .. MaxGroups]
      OBVIOUS
    <3>2. calendar' \subseteq StageMatch
      BY <2>4, <3>1, ScheduleType DEF DrawLeague
    <3> QED BY <2>4, <3>2 DEF DrawLeague
  <2>5. ASSUME NEW replace \in BOOLEAN, NEW n \in {1, 2}, NEW k \in 2 .. MaxGroups,
               DrawGroups(replace, n, k)
        PROVE  LeagueTypeOK'
    <3>1. PICK g \in Distributions(k) :
            /\ groupOf' = [t \in Entrant |-> IF t \in StageTeams THEN g[t] ELSE groupOf[t]]
            /\ calendar' = Schedule(g, n)
      BY <2>5 DEF DrawGroups
    <3>2. g \in [StageTeams -> 1 .. k]
      BY DEF Distributions
    <3>3. g \in [StageTeams -> 0 .. MaxGroups]
      BY <3>2
    <3>4. calendar' \subseteq StageMatch
      BY <3>1, <3>3, ScheduleType
    <3>5. groupOf' \in [Entrant -> Absent .. MaxGroups]
      BY <3>1, <3>3
    <3> QED BY <2>5, <3>4, <3>5 DEF DrawGroups
  <2>6. ASSUME NEW q \in Creation, CreateRead(q)
        PROVE  LeagueTypeOK'
    BY <2>6 DEF CreateRead
  <2>7. ASSUME NEW q \in Creation, CreateFails(q)
        PROVE  LeagueTypeOK'
    BY <2>7 DEF CreateFails
  <2>8. ASSUME NEW q \in Creation, NEW group \in {Ungrouped} \cup StageGroups,
               NEW sides \in SUBSET StageTeams, CreateWrite(q, group, sides)
        PROVE  LeagueTypeOK'
    <3>1. PICK i \in 1 .. MaxAdded :
            calendar' = calendar \cup {[group |-> group, teams |-> sides, leg |-> 0,
                                        byHand |-> i, operated |-> FALSE]}
      BY <2>8 DEF CreateWrite
    <3>2. group \in 0 .. MaxGroups /\ sides \subseteq Entrant
      BY GroupsInRange DEF StageTeams
    <3>3. i \in 0 .. MaxAdded
      OBVIOUS
    <3>4. [group |-> group, teams |-> sides, leg |-> 0, byHand |-> i, operated |-> FALSE]
            \in StageMatch
      BY <3>2, <3>3 DEF StageMatch
    <3>5. calendar' \subseteq StageMatch
      BY <3>1, <3>4
    <3> QED BY <2>8, <3>5 DEF CreateWrite
  <2>9. ASSUME NEW m \in calendar, OperateMatch(m)
        PROVE  LeagueTypeOK'
    <3>1. [m EXCEPT !.operated = TRUE] \in StageMatch
      BY DEF StageMatch
    <3> QED BY <2>9, <3>1 DEF OperateMatch
  <2>10. CASE PublishStage
    BY <2>10 DEF PublishStage
  <2>11. CASE CloneStage
    <3>1. \A m \in calendar : [m EXCEPT !.operated = FALSE] \in StageMatch
      BY DEF StageMatch
    <3> QED BY <2>11, <3>1 DEF CloneStage
  <2>12. CASE UNCHANGED leagueVars
    BY <2>12 DEF leagueVars
  <2> QED
    BY <2>1, <2>2, <2>3, <2>4, <2>5, <2>6, <2>7, <2>8, <2>9, <2>10, <2>11, <2>12
       DEF LeagueNext
<1> QED BY <1>1, <1>2, PTL DEF LeagueSpec
------------------------------------------------------------------------------
\* The matches of two teams in a group of a draw are one for each leg.
LEMMA ScheduleMeetings ==
    ASSUME NEW n \in {1, 2}, NEW group, NEW pair, NEW g,
           NEW M, \A m \in M : m \in Schedule(group, n) /\ m.teams = pair /\ m.group = g
    PROVE  IsFiniteSet(M) /\ Cardinality(M) <= 2
<1> DEFINE f == [leg \in 1 .. n |-> [group |-> g, teams |-> pair, leg |-> leg, byHand |-> 0,
                                     operated |-> FALSE]]
<1>1. \A y \in M : \E leg \in 1 .. n : y = f[leg]
  BY DEF Schedule
<1>2. IsFiniteSet(1 .. n) /\ Cardinality(1 .. n) <= 2
  BY FS_Interval
<1>3. IsFiniteSet(M) /\ Cardinality(M) <= Cardinality(1 .. n)
  <2> HIDE DEF f
  <2> QED BY <1>1, <1>2, CoveredIsNoLarger
<1>4. Cardinality(M) \in Nat /\ Cardinality(1 .. n) \in Nat
  BY <1>2, <1>3, FS_CardinalityType
<1>5. Cardinality(M) <= 2
  BY <1>2, <1>3, <1>4
<1> QED BY <1>3, <1>5

\* What carries AtMostTwice: it holds of every two teams and every group, whether
\* they are in the stage at the time or not.
FewMeetings ==
    \A group \in 0 .. MaxGroups, t \in Entrant, u \in Entrant :
      t # u => /\ IsFiniteSet(MeetingsOf({t, u}, group))
               /\ Cardinality(MeetingsOf({t, u}, group)) <= 2

\* A change that gives no two teams more matches keeps FewMeetings.
LEMMA CoveredMeetings ==
    ASSUME FewMeetings,
           NEW f, \A m \in calendar' : \E x \in calendar :
                    m = f[x] /\ m.teams = x.teams /\ m.group = x.group
    PROVE  FewMeetings'
<1> SUFFICES ASSUME NEW group \in 0 .. MaxGroups, NEW t \in Entrant, NEW u \in Entrant, t # u
             PROVE  /\ IsFiniteSet(MeetingsOf({t, u}, group)')
                    /\ Cardinality(MeetingsOf({t, u}, group)') <= 2
  BY DEF FewMeetings
<1> DEFINE S == MeetingsOf({t, u}, group)
           T == MeetingsOf({t, u}, group)'
<1>1. IsFiniteSet(S) /\ Cardinality(S) <= 2
  BY DEF FewMeetings
<1>2. \A y \in T : \E x \in S : y = f[x]
  BY DEF MeetingsOf
<1>3. IsFiniteSet(T) /\ Cardinality(T) <= Cardinality(S)
  <2> HIDE DEF S, T
  <2> QED BY <1>1, <1>2, CoveredIsNoLarger
<1>4. Cardinality(S) \in Nat /\ Cardinality(T) \in Nat
  <2> HIDE DEF S, T
  <2> QED BY <1>1, <1>3, FS_CardinalityType
<1> QED
  <2> HIDE DEF S, T
  <2>1. Cardinality(T) <= 2
    BY <1>1, <1>3, <1>4
  <2> QED BY <1>3, <2>1 DEF T

\* A step that leaves the matches alone keeps FewMeetings.
LEMMA SameMeetings ==
    ASSUME FewMeetings, UNCHANGED calendar
    PROVE  FewMeetings'
BY DEF FewMeetings, MeetingsOf

------------------------------------------------------------------------------
IInv == LeagueTypeOK /\ MatchesOfTheirGroup /\ FewMeetings

LEMMA InitHolds == LeagueInit => IInv
<1> SUFFICES ASSUME LeagueInit
             PROVE  IInv
  OBVIOUS
<1>1. LeagueTypeOK
  BY LeagueAssumption DEF LeagueInit, LeagueTypeOK
<1>2. MatchesOfTheirGroup
  BY DEF LeagueInit, MatchesOfTheirGroup
<1>3. FewMeetings
  <2> SUFFICES ASSUME NEW group \in 0 .. MaxGroups, NEW t \in Entrant, NEW u \in Entrant, t # u
               PROVE  /\ IsFiniteSet(MeetingsOf({t, u}, group))
                      /\ Cardinality(MeetingsOf({t, u}, group)) <= 2
    BY DEF FewMeetings
  <2>1. MeetingsOf({t, u}, group) = {}
    BY DEF LeagueInit, MeetingsOf
  <2> QED BY <2>1, FS_EmptySet
<1> QED BY <1>1, <1>2, <1>3 DEF IInv

\* No step passes a match over to teams of another group.
LEMMA GroupsKept ==
    ASSUME LeagueTypeOK, MatchesOfTheirGroup, [LeagueNext]_leagueVars
    PROVE  MatchesOfTheirGroup'
<1> USE DEF MatchesOfTheirGroup
<1>0. \A m \in calendar : m.teams \subseteq Entrant /\ m.group \in 0 .. MaxGroups
  BY DEF LeagueTypeOK, StageMatch
<1>00. \A m \in calendar : \A t \in m.teams : groupOf[t] >= 0
  BY <1>0, LeagueAssumption
<1>1. ASSUME NEW batch \in SUBSET Entrant, AssignToStage(batch)
      PROVE  MatchesOfTheirGroup'
  BY <1>0, <1>00, <1>1 DEF AssignToStage, LeagueTypeOK
<1>2. ASSUME NEW batch \in SUBSET Entrant, NEW where, Enrol(batch, where)
      PROVE  MatchesOfTheirGroup'
  BY <1>0, <1>00, <1>2 DEF Enrol, LeagueTypeOK
<1>3. ASSUME NEW t \in Entrant, RemoveFromStage(t)
      PROVE  MatchesOfTheirGroup'
  BY <1>0, <1>3 DEF RemoveFromStage, PlaysInStage, LeagueTypeOK
<1>4. ASSUME NEW replace, NEW n \in {1, 2}, DrawLeague(replace, n)
      PROVE  MatchesOfTheirGroup'
  <2> DEFINE alone == [t \in StageTeams |-> Ungrouped]
  <2>1. alone \in [StageTeams -> 0 .. MaxGroups]
    BY LeagueAssumption
  <2>2. \A m \in Schedule(alone, n) : \A t \in m.teams : t \in StageTeams /\ alone[t] = m.group
    <3> HIDE DEF alone
    <3> QED BY <2>1, ScheduleType
  <2> QED BY <1>4, <2>2 DEF DrawLeague
<1>5. ASSUME NEW replace, NEW n \in {1, 2}, NEW k \in 2 .. MaxGroups,
             DrawGroups(replace, n, k)
      PROVE  MatchesOfTheirGroup'
  <2>1. PICK g \in Distributions(k) :
          /\ groupOf' = [t \in Entrant |-> IF t \in StageTeams THEN g[t] ELSE groupOf[t]]
          /\ calendar' = Schedule(g, n)
    BY <1>5 DEF DrawGroups
  <2>2. g \in [StageTeams -> 1 .. k]
    BY DEF Distributions
  <2>3. g \in [StageTeams -> 0 .. MaxGroups]
    BY <2>2, LeagueAssumption
  <2>4. \A m \in Schedule(g, n) : \A t \in m.teams : t \in StageTeams /\ g[t] = m.group
    BY <2>3, ScheduleType
  <2>5. StageTeams \subseteq Entrant
    BY DEF StageTeams
  <2> QED BY <2>1, <2>4, <2>5
<1>6. ASSUME NEW q \in Creation, NEW group, NEW sides, CreateWrite(q, group, sides)
      PROVE  MatchesOfTheirGroup'
  <2>1. PICK i \in 1 .. MaxAdded :
          calendar' = calendar \cup {[group |-> group, teams |-> sides, leg |-> 0,
                                      byHand |-> i, operated |-> FALSE]}
    BY <1>6 DEF CreateWrite
  <2> QED BY <1>6, <2>1 DEF CreateWrite
<1>7. ASSUME NEW m \in calendar, OperateMatch(m)
      PROVE  MatchesOfTheirGroup'
  <2>1. /\ [m EXCEPT !.operated = TRUE].teams = m.teams
        /\ [m EXCEPT !.operated = TRUE].group = m.group
    BY DEF LeagueTypeOK, StageMatch
  <2>2. \A n \in calendar' : \E x \in calendar : n.teams = x.teams /\ n.group = x.group
    BY <1>7, <2>1 DEF OperateMatch
  <2>3. groupOf' = groupOf
    BY <1>7 DEF OperateMatch
  <2> QED BY <2>2, <2>3
<1>8. CASE CloneStage
  <2>1. \A m \in calendar : /\ [m EXCEPT !.operated = FALSE].teams = m.teams
                            /\ [m EXCEPT !.operated = FALSE].group = m.group
    BY DEF LeagueTypeOK, StageMatch
  <2>2. \A n \in calendar' : \E m \in calendar : n.teams = m.teams /\ n.group = m.group
    <3>1. calendar' = {[m EXCEPT !.operated = FALSE] : m \in calendar}
      BY <1>8 DEF CloneStage
    <3>2. ASSUME NEW n \in calendar'
          PROVE  \E m \in calendar : n.teams = m.teams /\ n.group = m.group
      <4>1. PICK m \in calendar : n = [m EXCEPT !.operated = FALSE]
        BY <3>1, <3>2
      <4>2. n.teams = m.teams /\ n.group = m.group
        BY <2>1, <4>1
      <4> QED BY <4>2
    <3> QED BY <3>2
  <2>3. groupOf' = groupOf
    BY <1>8 DEF CloneStage
  <2> QED BY <2>2, <2>3
<1>9. ASSUME UNCHANGED <<groupOf, calendar>>
      PROVE  MatchesOfTheirGroup'
  BY <1>9
<1> QED
  BY <1>1, <1>2, <1>3, <1>4, <1>5, <1>6, <1>7, <1>8, <1>9
     DEF LeagueNext, leagueVars, CreateRead, CreateFails, PublishStage

\* No step gives two teams a third match in a group.
LEMMA MeetingsKept ==
    ASSUME LeagueTypeOK, LeagueTypeOK', FewMeetings, [LeagueNext]_leagueVars
    PROVE  FewMeetings'
<1>1. ASSUME NEW group, NEW n \in {1, 2}, calendar' = Schedule(group, n)
      PROVE  FewMeetings'
  <2> SUFFICES ASSUME NEW g \in 0 .. MaxGroups, NEW t \in Entrant, NEW u \in Entrant, t # u
               PROVE  /\ IsFiniteSet(MeetingsOf({t, u}, g)')
                      /\ Cardinality(MeetingsOf({t, u}, g)') <= 2
    BY DEF FewMeetings
  <2> DEFINE M == {m \in Schedule(group, n) : m.teams = {t, u} /\ m.group = g}
  <2>1. MeetingsOf({t, u}, g)' = M
    BY <1>1 DEF MeetingsOf
  <2>2. IsFiniteSet(M) /\ Cardinality(M) <= 2
    <3>1. \A m \in M : m \in Schedule(group, n) /\ m.teams = {t, u} /\ m.group = g
      OBVIOUS
    <3> HIDE DEF M
    <3> QED BY <3>1, ScheduleMeetings
  <2> QED
    <3> HIDE DEF M
    <3> QED BY <2>1, <2>2
<1>2. ASSUME NEW replace, NEW n \in {1, 2}, DrawLeague(replace, n)
      PROVE  FewMeetings'
  BY <1>1, <1>2 DEF DrawLeague
<1>3. ASSUME NEW replace, NEW n \in {1, 2}, NEW k \in 2 .. MaxGroups,
             DrawGroups(replace, n, k)
      PROVE  FewMeetings'
  BY <1>1, <1>3 DEF DrawGroups
<1>4. ASSUME NEW q \in Creation, NEW group \in {Ungrouped} \cup StageGroups,
             NEW sides \in SUBSET StageTeams, CreateWrite(q, group, sides)
      PROVE  FewMeetings'
  <2> SUFFICES ASSUME NEW g \in 0 .. MaxGroups, NEW t \in Entrant, NEW u \in Entrant, t # u
               PROVE  /\ IsFiniteSet(MeetingsOf({t, u}, g)')
                      /\ Cardinality(MeetingsOf({t, u}, g)') <= 2
    BY DEF FewMeetings
  <2> DEFINE M == MeetingsOf({t, u}, g)
  <2>1. IsFiniteSet(M) /\ Cardinality(M) <= 2 /\ Cardinality(M) \in Nat
    BY FS_CardinalityType DEF FewMeetings
  <2>2. PICK i \in 1 .. MaxAdded :
          calendar' = calendar \cup {[group |-> group, teams |-> sides, leg |-> 0,
                                      byHand |-> i, operated |-> FALSE]}
    BY <1>4 DEF CreateWrite
  <2> DEFINE added == [group |-> group, teams |-> sides, leg |-> 0, byHand |-> i,
                       operated |-> FALSE]
  <2>3. CASE sides = {t, u} /\ group = g
    <3>1. Cardinality({t, u}) = 2
      BY PairOfTwo
    <3>2. Cardinality(M) < legsRead[q]
      BY <1>4, <2>3, <3>1 DEF CreateWrite, UnderLimit
    <3>3. Cardinality(M) + 1 <= 2
      BY <2>1, <3>2 DEF LeagueTypeOK
    <3>4. MeetingsOf({t, u}, g)' = M \cup {added}
      BY <2>2, <2>3 DEF MeetingsOf
    <3>5. /\ IsFiniteSet(M \cup {added})
          /\ Cardinality(M \cup {added}) <= 2
      <4> HIDE DEF M, added
      <4> QED BY <2>1, <3>3, FS_AddElement
    <3> QED BY <3>4, <3>5
  <2>4. CASE ~(sides = {t, u} /\ group = g)
    <3>1. MeetingsOf({t, u}, g)' = M
      BY <2>2, <2>4 DEF MeetingsOf
    <3> QED BY <2>1, <3>1
  <2> QED BY <2>3, <2>4
<1>5. ASSUME NEW m \in calendar, OperateMatch(m)
      PROVE  FewMeetings'
  <2> DEFINE f == [x \in calendar |-> IF x = m THEN [m EXCEPT !.operated = TRUE] ELSE x]
  <2>1. /\ [m EXCEPT !.operated = TRUE].teams = m.teams
        /\ [m EXCEPT !.operated = TRUE].group = m.group
    BY DEF LeagueTypeOK, StageMatch
  <2>2. \A n \in calendar' : \E x \in calendar :
          n = f[x] /\ n.teams = x.teams /\ n.group = x.group
    <3> SUFFICES ASSUME NEW n \in calendar'
                 PROVE  \E x \in calendar : n = f[x] /\ n.teams = x.teams /\ n.group = x.group
      OBVIOUS
    <3>1. CASE n = [m EXCEPT !.operated = TRUE]
      <4>1. n = f[m] /\ n.teams = m.teams /\ n.group = m.group
        BY <2>1, <3>1
      <4> QED BY <4>1
    <3>2. CASE n \in calendar \ {m}
      BY <3>2
    <3> QED BY <1>5, <3>1, <3>2 DEF OperateMatch
  <2> QED
    <3> HIDE DEF f
    <3> QED BY <2>2, CoveredMeetings
<1>6. CASE CloneStage
  <2> DEFINE f == [x \in calendar |-> [x EXCEPT !.operated = FALSE]]
  <2>1. \A x \in calendar : f[x].teams = x.teams /\ f[x].group = x.group
    BY DEF LeagueTypeOK, StageMatch
  <2>2. \A n \in calendar' : \E x \in calendar : n = f[x]
    BY <1>6 DEF CloneStage
  <2> QED
    <3> HIDE DEF f
    <3>1. \A n \in calendar' : \E x \in calendar :
            n = f[x] /\ n.teams = x.teams /\ n.group = x.group
      BY <2>1, <2>2
    <3> QED BY <3>1, CoveredMeetings
<1>7. ASSUME UNCHANGED calendar
      PROVE  FewMeetings'
  BY <1>7, SameMeetings
<1>8. (\E batch \in SUBSET Entrant : \/ AssignToStage(batch)
                                     \/ \E where : Enrol(batch, where))
      \/ (\E t \in Entrant : RemoveFromStage(t))
      \/ (\E q \in Creation : CreateRead(q) \/ CreateFails(q))
      \/ PublishStage \/ UNCHANGED leagueVars
      => UNCHANGED calendar
  BY DEF AssignToStage, Enrol, RemoveFromStage, CreateRead, CreateFails, PublishStage, leagueVars
<1> QED BY <1>2, <1>3, <1>4, <1>5, <1>6, <1>7, <1>8 DEF LeagueNext

\* LeagueHolds, for every value of the constants: no match is ever passed over by the
\* table of its group, and no two teams meet more than twice, although create_match
\* may compare with the legs of a calendar that has been drawn again.
THEOREM LeagueIsSound == LeagueSpec => []LeagueHolds
<1>1. IInv /\ [LeagueNext]_leagueVars /\ LeagueTypeOK' => IInv'
  BY GroupsKept, MeetingsKept DEF IInv
<1>2. IInv => LeagueHolds
  <2> SUFFICES ASSUME IInv
               PROVE  AtMostTwice
    BY DEF IInv, LeagueHolds
  <2>1. \A group \in {Ungrouped} \cup StageGroups : group \in 0 .. MaxGroups
    BY GroupsInRange, LeagueAssumption DEF IInv
  <2>2. StageTeams \subseteq Entrant
    BY DEF StageTeams
  <2> QED BY <2>1, <2>2 DEF AtMostTwice, IInv, FewMeetings
<1> QED BY InitHolds, LeagueTypes, <1>1, <1>2, PTL DEF LeagueSpec

-------------------------------------------------------------------------------
(* BracketDrawProofs is about an instance of BracketDraw of its own, and   *)
(* every definition is the same in both.                                   *)

Proved == INSTANCE BracketDrawProofs

\* What is drawn is the same.
LEMMA SameDraw ==
    \A format, n : Proved!Drawn(format, n) = Brackets!Drawn(format, n)
<1>1. \A n : Proved!SingleElimination(n) = Brackets!SingleElimination(n)
  BY Zenon DEF Proved!SingleElimination, Proved!RoundMatches, Proved!NextEntries,
     Proved!FirstEntries, Proved!Power, Proved!RoundsFor, Proved!Cardinality,
     Proved!Main, Proved!Match, Proved!Bye, Proved!From, Proved!Entry, Proved!Through,
     Proved!IsPlayed, Proved!NumberOf, Brackets!SingleElimination,
     Brackets!RoundMatches, Brackets!NextEntries, Brackets!FirstEntries,
     Brackets!Power, Brackets!RoundsFor, Brackets!Cardinality, Brackets!Main,
     Brackets!Match, Brackets!Bye, Brackets!From, Brackets!Entry, Brackets!Through,
     Brackets!IsPlayed, Brackets!NumberOf
<1>2. \A n : Proved!DoubleElimination(n) = Brackets!DoubleElimination(n)
  BY Zenon DEF Proved!Power, Proved!RoundsFor, Proved!Match, Proved!From,
     Proved!Entry, Proved!Upper, Proved!Lower, Proved!GrandFinal, Proved!MinorRound,
     Proved!MajorRound, Proved!UpperPlaces, Proved!LowerPlaces, Proved!UpperMatch,
     Proved!MinorMatch, Proved!MajorMatch, Proved!GrandFinalMatch,
     Proved!DoubleElimination, Brackets!Power, Brackets!RoundsFor, Brackets!Match,
     Brackets!From, Brackets!Entry, Brackets!Upper, Brackets!Lower,
     Brackets!GrandFinal, Brackets!MinorRound, Brackets!MajorRound,
     Brackets!UpperPlaces, Brackets!LowerPlaces, Brackets!UpperMatch,
     Brackets!MinorMatch, Brackets!MajorMatch, Brackets!GrandFinalMatch,
     Brackets!DoubleElimination
<1> QED BY <1>1, <1>2 DEF Proved!Drawn, Brackets!Drawn

\* What makes it a bracket is the same.
LEMMA SameBracket ==
    \A format, n, bracket :
        Proved!IsABracket(format, n, bracket) <=> Brackets!IsABracket(format, n, bracket)
<1>1. \A n, bracket : Proved!EveryTeamEntersOnce(n, bracket) <=> Brackets!EveryTeamEntersOnce(n, bracket)
  BY Zenon DEF Proved!EveryTeamEntersOnce, Proved!Sides, Proved!MatchIds,
     Proved!Entry, Proved!From, Brackets!EveryTeamEntersOnce, Brackets!Sides,
     Brackets!MatchIds, Brackets!Entry, Brackets!From
<1>2. \A format, n, bracket :
        Proved!EveryoneGoesOnOnce(format, n, bracket) <=> Brackets!EveryoneGoesOnOnce(format, n, bracket)
  BY Zenon DEF Proved!EveryoneGoesOnOnce, Proved!LastMatch, Proved!Main,
     Proved!GrandFinal, Proved!Power, Proved!RoundsFor, Proved!Links, Proved!Sides,
     Proved!MatchIds, Brackets!EveryoneGoesOnOnce, Brackets!LastMatch, Brackets!Main,
     Brackets!GrandFinal, Brackets!Power, Brackets!RoundsFor, Brackets!Links,
     Brackets!Sides, Brackets!MatchIds
<1>3. \A format, n, bracket :
        Proved!LanesCountDefeats(format, n, bracket) <=> Brackets!LanesCountDefeats(format, n, bracket)
  BY Zenon DEF Proved!LanesCountDefeats, Proved!DefeatsAt, Proved!LastMatch,
     Proved!Main, Proved!GrandFinal, Proved!Power, Proved!RoundsFor, Proved!Links,
     Proved!Sides, Proved!MatchIds, Brackets!LanesCountDefeats, Brackets!DefeatsAt,
     Brackets!LastMatch, Brackets!Main, Brackets!GrandFinal, Brackets!Power,
     Brackets!RoundsFor, Brackets!Links, Brackets!Sides, Brackets!MatchIds
<1>4. \A bracket : Proved!CodesAreUnique(bracket) <=> Brackets!CodesAreUnique(bracket)
  BY Zenon DEF Proved!CodesAreUnique, Brackets!CodesAreUnique
<1>5. \A format, n, bracket :
        Proved!RightNumberOfMatches(format, n, bracket) <=> Brackets!RightNumberOfMatches(format, n, bracket)
  BY Zenon DEF Proved!RightNumberOfMatches, Proved!Losses, Proved!IsFiniteSet,
     Proved!Cardinality, Brackets!RightNumberOfMatches, Brackets!Losses,
     Brackets!IsFiniteSet, Brackets!Cardinality
<1>6. \A n, bracket :
        Proved!FeedersArePlayedBefore(n, bracket) <=> Brackets!FeedersArePlayedBefore(n, bracket)
  BY Zenon DEF Proved!FeedersArePlayedBefore, Proved!Matchday, Proved!GrandFinal,
     Proved!Power, Proved!RoundsFor, Proved!Links, Proved!Sides, Proved!MatchIds,
     Brackets!FeedersArePlayedBefore, Brackets!Matchday, Brackets!GrandFinal,
     Brackets!Power, Brackets!RoundsFor, Brackets!Links, Brackets!Sides,
     Brackets!MatchIds
<1> QED BY <1>1, <1>2, <1>3, <1>4, <1>5, <1>6 DEF Proved!IsABracket, Brackets!IsABracket

\* Whatever the number of teams, what is drawn is a bracket.
LEMMA WhatIsDrawn ==
    /\ \A n \in Nat \ {0, 1} : Brackets!IsABracket("single", n, Brackets!Drawn("single", n))
    /\ \A k \in Nat \ {0, 1} :
         Brackets!IsABracket("double", Brackets!Power[k], Brackets!Drawn("double", Brackets!Power[k]))
<1>1. Proved!Power = Brackets!Power
  BY DEF Proved!Power, Brackets!Power
<1>2. \A n \in Nat \ {0, 1} : Brackets!IsABracket("single", n, Brackets!Drawn("single", n))
  BY SameDraw, SameBracket, Proved!SingleIsABracket
<1>3. \A k \in Nat \ {0, 1} :
        Brackets!IsABracket("double", Brackets!Power[k], Brackets!Drawn("double", Brackets!Power[k]))
  BY <1>1, SameDraw, SameBracket, Proved!DoubleIsABracket
<1> QED BY <1>2, <1>3

-------------------------------------------------------------------------------
(* Calendars.  Who sit opposite in a round play each other.  The first     *)
(* team stays and the others turn, so any two sit opposite in one round of *)
(* a leg, and their places say in which (OppositeOnce).                    *)

\* The instance counts as the module does.
LEMMA SameCount == \A S : Leagues!Cardinality(S) = Cardinality(S)
BY DEF Leagues!Cardinality, Leagues!IsFiniteSet, Cardinality, IsFiniteSet

\* Where the team that is at x before the first round is in the rotation of round
\* r, of N teams: the first one stays, the others move one place each round.
PlaceOf(N, r, x) ==
    IF x = 1 THEN 1 ELSE IF x + r - 1 <= N THEN x + r - 1 ELSE x + r - N

\* Which team is there.
SeatAt(N, r, j) ==
    IF j = 1 THEN 1 ELSE IF j > r THEN j - r + 1 ELSE j - r + N

\* Each is the inverse of the other.
LEMMA PlacesAndSeats ==
    ASSUME NEW N \in Nat, N >= 2, NEW r \in 1 .. N - 1
    PROVE  /\ \A x \in 1 .. N : PlaceOf(N, r, x) \in 1 .. N /\ SeatAt(N, r, PlaceOf(N, r, x)) = x
           /\ \A j \in 1 .. N : SeatAt(N, r, j) \in 1 .. N /\ PlaceOf(N, r, SeatAt(N, r, j)) = j
BY DEF PlaceOf, SeatAt

\* Two teams are opposite each other in one of the rounds.
LEMMA OppositeOnce ==
    ASSUME NEW h \in Nat \ {0}, NEW x \in 1 .. 2 * h, NEW y \in 1 .. 2 * h, x # y
    PROVE  \E r \in 1 .. 2 * h - 1 :
              /\ PlaceOf(2 * h, r, x) + PlaceOf(2 * h, r, y) = 2 * h + 1
              /\ \A k \in 1 .. 2 * h - 1 :
                    PlaceOf(2 * h, k, x) + PlaceOf(2 * h, k, y) = 2 * h + 1 => k = r
<1>1. \E r \in 1 .. 2 * h - 1 : PlaceOf(2 * h, r, x) + PlaceOf(2 * h, r, y) = 2 * h + 1
  <2>1. CASE x = 1
    <3>1. 2 * h + 1 - y \in 1 .. 2 * h - 1
      BY <2>1
    <3>2. PlaceOf(2 * h, 2 * h + 1 - y, x) = 1 /\ PlaceOf(2 * h, 2 * h + 1 - y, y) = 2 * h
      BY <2>1 DEF PlaceOf
    <3> QED BY <3>1, <3>2
  <2>2. CASE y = 1
    <3>1. 2 * h + 1 - x \in 1 .. 2 * h - 1
      BY <2>2
    <3>2. PlaceOf(2 * h, 2 * h + 1 - x, y) = 1 /\ PlaceOf(2 * h, 2 * h + 1 - x, x) = 2 * h
      BY <2>2 DEF PlaceOf
    <3> QED BY <3>1, <3>2
  <2>3. CASE x # 1 /\ y # 1
    <3>1. PICK z \in Nat : x + y = 2 * z \/ x + y = 2 * z + 1
      <4>1. (x + y) \div 2 \in Nat
        OBVIOUS
      <4> QED BY <4>1
    <3>2. CASE x + y = 2 * z
      <4>1. 2 * h + 1 - z \in 1 .. 2 * h - 1
        BY <2>3, <3>2
      <4> DEFINE r == 2 * h + 1 - z
      <4>2. \A u \in 1 .. 2 * h : u # 1 =>
              PlaceOf(2 * h, r, u) = IF u <= z THEN u + 2 * h - z ELSE u + 1 - z
        BY <4>1 DEF PlaceOf
      <4>3. PlaceOf(2 * h, r, x) + PlaceOf(2 * h, r, y) = 2 * h + 1
        BY <2>3, <3>2, <4>2
      <4> QED BY <4>1, <4>3
    <3>3. CASE x + y = 2 * z + 1 /\ z <= h
      <4>1. h + 1 - z \in 1 .. 2 * h - 1
        BY <2>3, <3>3
      <4> DEFINE r == h + 1 - z
      <4>2. \A u \in 1 .. 2 * h : u # 1 /\ u <= h + z => PlaceOf(2 * h, r, u) = u + h - z
        BY <4>1 DEF PlaceOf
      <4>3. PlaceOf(2 * h, r, x) + PlaceOf(2 * h, r, y) = 2 * h + 1
        BY <2>3, <3>3, <4>2
      <4> QED BY <4>1, <4>3
    <3>4. CASE x + y = 2 * z + 1 /\ z > h
      <4>1. 3 * h - z \in 1 .. 2 * h - 1
        BY <2>3, <3>4
      <4> QED BY <2>3, <3>4, <4>1 DEF PlaceOf
    <3> QED BY <3>1, <3>2, <3>3, <3>4
  <2> QED BY <2>1, <2>2, <2>3
<1>2. ASSUME NEW r \in 1 .. 2 * h - 1, NEW k \in 1 .. 2 * h - 1,
             PlaceOf(2 * h, r, x) + PlaceOf(2 * h, r, y) = 2 * h + 1,
             PlaceOf(2 * h, k, x) + PlaceOf(2 * h, k, y) = 2 * h + 1
      PROVE  k = r
  BY <1>2 DEF PlaceOf
<1> QED BY <1>1, <1>2

\* The teams of a calendar: each is there once, and none is the bye.
AreInLine(s) ==
    /\ s \in Seq(Nat \ {0}) /\ Len(s) >= 2
    /\ \A i, j \in 1 .. Len(s) : s[i] = s[j] => i = j

Half(s) == (Len(s) + 1) \div 2

\* The rotation of the first round: an even number of places, with the bye in the
\* last one if there is a bye.
LEMMA PaddedIs ==
    ASSUME NEW s, AreInLine(s)
    PROVE  LET p == Leagues!Padded(s) IN
           /\ p \in Seq(Nat) /\ Len(p) = 2 * Half(s) /\ Half(s) \in Nat \ {0}
           /\ \A i \in 1 .. Len(s) : p[i] = s[i] /\ i \in 1 .. Len(p) /\ s[i] # 0
           /\ IF Len(s) % 2 = 1 THEN Len(p) = Len(s) + 1 /\ p[Len(p)] = 0 ELSE Len(p) = Len(s)
           /\ \A i, j \in 1 .. Len(p) : p[i] = p[j] => i = j
<1> DEFINE p == Leagues!Padded(s)
<1>1. s \in Seq(Nat \ {0}) /\ Len(s) \in Nat /\ Len(s) >= 2
  BY DEF AreInLine
<1>2. \A i \in 1 .. Len(s) : s[i] \in Nat \ {0}
  BY <1>1
<1>3. CASE Len(s) % 2 = 1
  <2>1. p = Append(s, 0)
    BY <1>3, <1>1 DEF Leagues!Padded, Leagues!Bye
  <2>2. p \in Seq(Nat) /\ Len(p) = Len(s) + 1 /\ p[Len(s) + 1] = 0 /\ \A i \in 1 .. Len(s) : p[i] = s[i]
    BY <1>1, <2>1
  <2>3. Len(p) = 2 * Half(s) /\ Half(s) \in Nat \ {0}
    <3>1. \A n \in Nat : n % 2 = 1 => n + 1 = 2 * ((n + 1) \div 2) /\ (n + 1) \div 2 \in Nat \ {0}
      OBVIOUS
    <3> QED BY <1>1, <1>3, <2>2, <3>1 DEF Half
  <2> HIDE DEF p
  <2>4. ASSUME NEW i \in 1 .. Len(p), NEW j \in 1 .. Len(p), p[i] = p[j] PROVE i = j
    <3>1. \A k \in 1 .. Len(p) : k = Len(s) + 1 \/ k \in 1 .. Len(s)
      BY <1>1, <2>2
    <3>2. \A k \in 1 .. Len(s) : p[k] = s[k] /\ s[k] # 0
      BY <1>2, <2>2
    <3>3. CASE i \in 1 .. Len(s) /\ j \in 1 .. Len(s)
      BY <2>4, <3>2, <3>3 DEF AreInLine
    <3> QED BY <2>2, <2>4, <3>1, <3>2, <3>3
  <2> QED BY <1>1, <1>2, <1>3, <2>2, <2>3, <2>4 DEF p
<1>4. CASE Len(s) % 2 # 1
  <2>1. p = s
    BY <1>4 DEF Leagues!Padded
  <2>2. Len(s) = 2 * Half(s) /\ Half(s) \in Nat \ {0}
    BY <1>1, <1>4 DEF Half
  <2> HIDE DEF p
  <2> QED BY <1>1, <1>2, <1>4, <2>1, <2>2 DEF AreInLine, p
<1> QED BY <1>3, <1>4

\* What a step of the rotation does to each place.
LEMMA RotateIs ==
    ASSUME NEW q \in Seq(Nat), Len(q) >= 2
    PROVE  LET t == Leagues!Rotate(q) IN
           /\ t \in Seq(Nat) /\ Len(t) = Len(q)
           /\ \A j \in 1 .. Len(q) : t[j] = IF j = 1 THEN q[1] ELSE IF j = 2 THEN q[Len(q)] ELSE q[j - 1]
<1> DEFINE u == <<q[1], q[Len(q)]>>
           v == SubSeq(q, 2, Len(q) - 1)
<1>1. Leagues!Rotate(q) = u \o v
  BY DEF Leagues!Rotate, Leagues!Last
<1>2. u \in Seq(Nat) /\ Len(u) = 2 /\ u[1] = q[1] /\ u[2] = q[Len(q)]
  OBVIOUS
<1>3. v \in Seq(Nat) /\ Len(v) = Len(q) - 2 /\ \A i \in 1 .. Len(q) - 2 : v[i] = q[i + 1]
  <2>1. \A i \in 2 .. Len(q) - 1 : q[i] \in Nat
    OBVIOUS
  <2>2. /\ v \in Seq(Nat) /\ Len(v) = IF 2 <= Len(q) - 1 THEN (Len(q) - 1) - 2 + 1 ELSE 0
        /\ \A i \in 1 .. (Len(q) - 1) - 2 + 1 : v[i] = q[2 + i - 1]
    BY <2>1, SubSeqProperties
  <2> HIDE DEF u, v
  <2>3. Len(q) \in Nat /\ (Len(q) - 1) - 2 + 1 = Len(q) - 2
    OBVIOUS
  <2>4. \A i \in 1 .. Len(q) - 2 : 2 + i - 1 = i + 1
    BY <2>3
  <2>5. Len(v) = Len(q) - 2
    <3>1. Len(v) = IF 2 <= Len(q) - 1 THEN Len(q) - 2 ELSE 0
      BY <2>2, <2>3
    <3>2. \A n, l \in Int : n >= 2 /\ l = (IF 2 <= n - 1 THEN n - 2 ELSE 0) => l = n - 2
      OBVIOUS
    <3>3. Len(v) \in Int /\ Len(q) \in Int
      <4>1. v \in Seq(Nat)
        BY <2>2
      <4>2. Len(v) \in Nat
        BY <4>1, LenProperties
      <4> QED BY <2>3, <4>2
    <3> QED BY <3>1, <3>2, <3>3
  <2> QED BY <2>2, <2>3, <2>4, <2>5
<1> HIDE DEF u, v
<1>4. /\ u \o v \in Seq(Nat) /\ Len(u \o v) = Len(q)
      /\ \A j \in 1 .. Len(q) : (u \o v)[j] = IF j <= 2 THEN u[j] ELSE v[j - 2]
  <2>1. /\ u \o v \in Seq(Nat) /\ Len(u \o v) = Len(u) + Len(v)
        /\ \A j \in 1 .. Len(u) + Len(v) : (u \o v)[j] = IF j <= Len(u) THEN u[j] ELSE v[j - Len(u)]
    BY <1>2, <1>3, ConcatProperties
  <2>2. Len(q) \in Nat /\ Len(u) + Len(v) = Len(q)
    BY <1>2, <1>3
  <2> QED BY <1>2, <2>1, <2>2
<1>5. ASSUME NEW j \in 1 .. Len(q)
      PROVE  (u \o v)[j] = IF j = 1 THEN q[1] ELSE IF j = 2 THEN q[Len(q)] ELSE q[j - 1]
  <2>1. j > 2 => j - 2 \in 1 .. Len(q) - 2 /\ (j - 2) + 1 = j - 1
    OBVIOUS
  <2>2. j > 2 => v[j - 2] = q[j - 1]
    BY <1>3, <2>1
  <2> QED BY <1>2, <1>4, <2>2
<1> QED BY <1>1, <1>4, <1>5

\* The rotation of a round, place by place.
LEMMA RotationIs ==
    ASSUME NEW s, AreInLine(s), NEW r \in 1 .. 2 * Half(s) - 1
    PROVE  Leagues!Rotation(s, r) =
             [j \in 1 .. 2 * Half(s) |-> Leagues!Padded(s)[SeatAt(2 * Half(s), r, j)]]
<1> DEFINE p == Leagues!Padded(s)
           N == 2 * Half(s)
           row(k) == [j \in 1 .. N |-> p[SeatAt(N, k, j)]]
           g == [k \in 1 .. r |-> row(k)]
           t == CHOOSE f : f = [k \in 1 .. r |-> IF k = 1 THEN p ELSE Leagues!Rotate(f[k - 1])]
<1>1. p \in Seq(Nat) /\ Len(p) = N /\ N \in Nat /\ N >= 2
  BY PaddedIs
<1>2. Leagues!Rotation(s, r) = t[r]
  BY Zenon DEF Leagues!Rotation
<1>3. r \in 1 .. N - 1
  OBVIOUS
<1> HIDE DEF p, N, t
<1>4. \A k \in 1 .. r : \A j \in 1 .. N : SeatAt(N, k, j) \in 1 .. N
  BY <1>1, <1>3 DEF SeatAt
<1>5. \A k \in 1 .. r : row(k) \in Seq(Nat) /\ Len(row(k)) = N /\ \A j \in 1 .. N : row(k)[j] = p[SeatAt(N, k, j)]
  <2> TAKE k \in 1 .. r
  <2>1. \A i \in 1 .. N : p[i] \in Nat
    BY <1>1
  <2>2. row(k) \in [1 .. N -> Nat]
    BY <1>4, <2>1
  <2> QED BY <1>1, <2>2
<1>6. row(1) = p
  <2>1. \A j \in 1 .. N : SeatAt(N, 1, j) = j
    BY <1>1 DEF SeatAt
  <2>2. p = [j \in 1 .. N |-> p[j]]
    BY <1>1
  <2> QED BY <2>1, <2>2
<1>7. ASSUME NEW k \in 1 .. r, k # 1 PROVE row(k) = Leagues!Rotate(row(k - 1))
  <2> DEFINE q == row(k - 1)
  <2>1. k - 1 \in 1 .. r
    BY <1>7, <1>3, <1>1
  <2>2. q \in Seq(Nat) /\ Len(q) = N /\ \A j \in 1 .. N : q[j] = p[SeatAt(N, k - 1, j)]
    BY <1>5, <2>1
  <2>3. row(k) \in Seq(Nat) /\ Len(row(k)) = N /\ \A j \in 1 .. N : row(k)[j] = p[SeatAt(N, k, j)]
    BY <1>5
  <2> HIDE DEF q, row
  <2> DEFINE z == Leagues!Rotate(q)
  <2>4. /\ z \in Seq(Nat) /\ Len(z) = N
        /\ \A j \in 1 .. N : z[j] = IF j = 1 THEN q[1] ELSE IF j = 2 THEN q[N] ELSE q[j - 1]
    BY <1>1, <2>2, RotateIs
  <2> HIDE DEF z
  <2>5. ASSUME NEW j \in 1 .. N PROVE row(k)[j] = z[j]
    <3>4. row(k)[j] = p[SeatAt(N, k, j)] /\ z[j] = IF j = 1 THEN q[1] ELSE IF j = 2 THEN q[N] ELSE q[j - 1]
      BY <2>3, <2>4
    <3>5. 1 \in 1 .. N /\ N \in 1 .. N
      BY <1>1
    <3>1. CASE j = 1
      <4>1. SeatAt(N, k, 1) = 1 /\ SeatAt(N, k - 1, 1) = 1
        BY DEF SeatAt
      <4> QED BY <2>2, <3>1, <3>4, <3>5, <4>1
    <3>2. CASE j = 2
      <4>1. SeatAt(N, k, 2) = SeatAt(N, k - 1, N)
        BY <1>1, <1>3, <1>7, <2>1 DEF SeatAt
      <4> QED BY <2>2, <3>2, <3>4, <3>5, <4>1
    <3>3. CASE j > 2
      <4>1. j - 1 \in 1 .. N /\ SeatAt(N, k, j) = SeatAt(N, k - 1, j - 1)
        BY <1>1, <1>3, <1>7, <2>1, <3>3 DEF SeatAt
      <4> QED BY <2>2, <3>3, <3>4, <4>1
    <3> QED BY <1>1, <3>1, <3>2, <3>3
  <2>6. row(k) = z
    BY <2>3, <2>4, <2>5
  <2> QED BY <2>6 DEF z, q
<1> HIDE DEF row
<1>8. \A k \in 1 .. r : g[k] = IF k = 1 THEN p ELSE Leagues!Rotate(g[k - 1])
  <2> TAKE k \in 1 .. r
  <2>1. k # 1 => k - 1 \in 1 .. r
    BY <1>1, <1>3
  <2> QED BY <1>6, <1>7, <2>1
<1> HIDE DEF g
<1>9. g = [k \in 1 .. r |-> IF k = 1 THEN p ELSE Leagues!Rotate(g[k - 1])]
  BY <1>8 DEF g
<1>10. t = [k \in 1 .. r |-> IF k = 1 THEN p ELSE Leagues!Rotate(t[k - 1])]
  BY <1>9, Zenon DEF t
<1> DEFINE S == {k \in Nat : k + 1 <= r => t[k + 1] = g[k + 1]}
<1>11. 0 \in S
  <2>1. 1 \in 1 .. r
    BY <1>1, <1>3
  <2> QED BY <2>1, <1>8, <1>10
<1>12. ASSUME NEW k \in S PROVE k + 1 \in S
  <2> SUFFICES ASSUME (k + 1) + 1 <= r PROVE t[(k + 1) + 1] = g[(k + 1) + 1]
    OBVIOUS
  <2>1. /\ k \in Nat /\ (k + 1) + 1 \in 1 .. r /\ (k + 1) + 1 # 1 /\ ((k + 1) + 1) - 1 = k + 1
        /\ k + 1 <= r
    BY <1>1, <1>3
  <2>2. t[k + 1] = g[k + 1]
    BY <2>1
  <2> QED BY <2>1, <2>2, <1>8, <1>10
<1> HIDE DEF S
<1>13. S = Nat
  BY <1>11, <1>12, Proved!AllNumbers DEF S
<1>14. r - 1 \in S /\ (r - 1) + 1 = r /\ r \in 1 .. r
  BY <1>1, <1>3, <1>13
<1>15. t[r] = g[r]
  BY <1>14 DEF S
<1> QED BY <1>2, <1>14, <1>15 DEF g, row, p, N

\* The pairs up to one, and the pairs of a round but one.
UpTo(S, i) == {j \in S : j <= i}

AllBut(h, z) == (0 .. h - 1) \ {z}

\* The pairs of a round are numbered from 1 on, whether one of them is left out or
\* not.
LEMMA NumbersInOrder ==
    ASSUME NEW h \in Nat, NEW z \in Int, NEW i \in AllBut(h, z)
    PROVE  Cardinality(UpTo(AllBut(h, z), i)) = IF z \in 0 .. i THEN i ELSE i + 1
<1>1. i \in 0 .. h - 1 /\ UpTo(AllBut(h, z), i) = (0 .. i) \ {z}
  BY DEF UpTo, AllBut
<1>2. IsFiniteSet(0 .. i) /\ Cardinality(0 .. i) = i + 1
  <2>1. i \in Int /\ 0 \in Int /\ ~(0 > i)
    BY <1>1
  <2> QED BY <2>1, FS_Interval
<1>3. Cardinality((0 .. i) \ {z}) = IF z \in 0 .. i THEN Cardinality(0 .. i) - 1 ELSE Cardinality(0 .. i)
  BY <1>2, FS_RemoveElement
<1>4. Cardinality(UpTo(AllBut(h, z), i)) = IF z \in 0 .. i THEN (i + 1) - 1 ELSE i + 1
  BY <1>1, <1>2, <1>3
<1>5. (i + 1) - 1 = i
  BY <1>1
<1> QED BY <1>4, <1>5

\* Which pair is left out, if any.
RestsIn(s, r) ==
    LET place == PlaceOf(2 * Half(s), r, 2 * Half(s))
    IN IF Len(s) % 2 = 0 THEN -1
       ELSE IF place <= Half(s) THEN place - 1 ELSE 2 * Half(s) - place

\* Who sits at j in round r, and which pairs are of two teams.
TeamAt(s, r, j) == Leagues!Padded(s)[SeatAt(2 * Half(s), r, j)]

RealPairs(s, r) ==
    {i \in 0 .. Half(s) - 1 : 0 \notin {TeamAt(s, r, i + 1), TeamAt(s, r, 2 * Half(s) - i)}}

\* Every pair is real but that of the bye, which there is with an odd number of teams.
LEMMA RealPairsAre ==
    ASSUME NEW s, AreInLine(s), NEW r \in 1 .. 2 * Half(s) - 1
    PROVE  /\ RestsIn(s, r) \in Int
           /\ RealPairs(s, r) = (0 .. Half(s) - 1) \ {RestsIn(s, r)}
           /\ Len(s) % 2 = 0 => RestsIn(s, r) = -1 /\ Len(s) \div 2 = Half(s)
           /\ Len(s) % 2 = 1 => RestsIn(s, r) \in 0 .. Half(s) - 1 /\ Len(s) \div 2 = Half(s) - 1
<1> DEFINE p == Leagues!Padded(s)
           h == Half(s)
           N == 2 * h
           z == RestsIn(s, r)
<1>1. /\ Len(p) = N /\ h \in Nat \ {0}
      /\ \A i \in 1 .. Len(s) : p[i] # 0
      /\ IF Len(s) % 2 = 1 THEN Len(p) = Len(s) + 1 /\ p[Len(p)] = 0 ELSE Len(p) = Len(s)
  <2>1. \A i \in 1 .. Len(s) : p[i] = s[i] /\ s[i] # 0
    BY PaddedIs
  <2> QED BY <2>1, PaddedIs
<1>2. Len(s) \in Nat /\ N \in Nat /\ N >= 2 /\ N = 2 * h /\ r \in 1 .. N - 1
  <2>1. Len(s) \in Nat
    BY LenProperties DEF AreInLine
  <2> QED BY <1>1, <2>1
<1>3. Len(s) % 2 \in {0, 1}
  BY <1>2
<1> HIDE DEF N, h, z, p
<1>4. \A j \in 1 .. N : SeatAt(N, r, j) \in 1 .. N /\ (SeatAt(N, r, j) = N <=> j = PlaceOf(N, r, N))
  <2>1. N \in 1 .. N
    BY <1>2
  <2>2. /\ \A x \in 1 .. N : PlaceOf(N, r, x) \in 1 .. N /\ SeatAt(N, r, PlaceOf(N, r, x)) = x
        /\ \A j \in 1 .. N : SeatAt(N, r, j) \in 1 .. N /\ PlaceOf(N, r, SeatAt(N, r, j)) = j
    BY <1>2, PlacesAndSeats
  <2> QED BY <2>1, <2>2
<1>5. PlaceOf(N, r, N) \in 1 .. N
  BY <1>2, PlacesAndSeats
<1> DEFINE place == PlaceOf(N, r, N)
<1>6. z = IF Len(s) % 2 = 0 THEN -1 ELSE IF place <= h THEN place - 1 ELSE N - place
  BY DEF RestsIn, z, N, h
<1>7. \A j \in 1 .. N : TeamAt(s, r, j) = p[SeatAt(N, r, j)]
  BY DEF TeamAt, p, N, h
<1>8. \A i \in 0 .. h - 1 : i + 1 \in 1 .. N /\ N - i \in 1 .. N
  BY <1>1, <1>2
<1>9. RealPairs(s, r) = {i \in 0 .. h - 1 : TeamAt(s, r, i + 1) # 0 /\ TeamAt(s, r, N - i) # 0}
  BY DEF RealPairs, N, h
<1> HIDE DEF place
<1>10. CASE Len(s) % 2 = 0
  <2>1. \A j \in 1 .. N : TeamAt(s, r, j) # 0
    <3>1. Len(s) = N
      BY <1>1, <1>10
    <3> QED BY <1>1, <1>4, <1>7, <3>1
  <2>2. z = -1 /\ RealPairs(s, r) = 0 .. h - 1
    BY <1>6, <1>8, <1>9, <1>10, <2>1
  <2>3. Len(s) \div 2 = h
    BY <1>1, <1>2, <1>10
  <2>4. 0 .. h - 1 = (0 .. h - 1) \ {-1}
    BY <1>1
  <2> QED BY <1>10, <2>2, <2>3, <2>4 DEF h, z
<1>11. CASE Len(s) % 2 = 1
  <2>1. ASSUME NEW j \in 1 .. N PROVE TeamAt(s, r, j) = 0 <=> j = place
    <3>1. N = Len(s) + 1 /\ p[N] = 0
      BY <1>1, <1>11
    <3>2. SeatAt(N, r, j) \in 1 .. N
      BY <1>4
    <3>3. SeatAt(N, r, j) # N => SeatAt(N, r, j) \in 1 .. Len(s)
      BY <1>2, <3>1, <3>2
    <3>4. SeatAt(N, r, j) # N => p[SeatAt(N, r, j)] # 0
      BY <1>1, <3>3
    <3>5. SeatAt(N, r, j) = N <=> j = place
      BY <1>4 DEF place
    <3> QED BY <1>7, <3>1, <3>4, <3>5
  <2>2. place \in 1 .. N
    BY <1>5 DEF place
  <2>3. ASSUME NEW i \in 0 .. h - 1 PROVE i + 1 = place \/ N - i = place <=> i = z
    BY <1>1, <1>2, <1>6, <1>11, <2>2
  <2>4. z \in 0 .. h - 1
    BY <1>1, <1>2, <1>6, <1>11, <2>2
  <2>5. RealPairs(s, r) = (0 .. h - 1) \ {z}
    BY <1>8, <1>9, <2>1, <2>3
  <2>6. Len(s) \div 2 = h - 1
    BY <1>1, <1>2, <1>11
  <2>7. z \in Int /\ Len(s) % 2 # 0
    BY <1>1, <1>11, <2>4
  <2> QED BY <1>11, <2>4, <2>5, <2>6, <2>7 DEF h, z
<1> QED BY <1>3, <1>10, <1>11

\* The teams in line, those of a match, and the match of the pair i.
TeamsIn(s) == {s[i] : i \in 1 .. Len(s)}

Sides(m) == {m.home, m.away}

MatchOfPair(s, r, i) ==
    [round  |-> r,
     number |-> Cardinality(UpTo(RealPairs(s, r), i)),
     home   |-> IF (r + i) % 2 = 1 THEN TeamAt(s, r, 2 * Half(s) - i) ELSE TeamAt(s, r, i + 1),
     away   |-> IF (r + i) % 2 = 1 THEN TeamAt(s, r, i + 1) ELSE TeamAt(s, r, 2 * Half(s) - i)]

\* The matches of a round, with the rotation place by place.
LEMMA RoundIs ==
    ASSUME NEW s, AreInLine(s), NEW r \in 1 .. 2 * Half(s) - 1
    PROVE  Leagues!RoundOf(s, r) = {MatchOfPair(s, r, i) : i \in RealPairs(s, r)}
<1> DEFINE q == Leagues!Rotation(s, r)
           h == Half(s)
<1>1. q = [j \in 1 .. 2 * h |-> TeamAt(s, r, j)]
  BY RotationIs DEF TeamAt
<1>2. h \in Nat \ {0}
  BY PaddedIs
<1> HIDE DEF q, h
<1>3. Len(q) = 2 * h /\ (2 * h) \div 2 = h
  BY <1>1, <1>2
<1>4. \A i \in 0 .. h - 1 : q[i + 1] = TeamAt(s, r, i + 1) /\ q[2 * h - i] = TeamAt(s, r, 2 * h - i)
  <2> TAKE i \in 0 .. h - 1
  <2>1. i + 1 \in 1 .. 2 * h /\ 2 * h - i \in 1 .. 2 * h
    BY <1>2
  <2> QED BY <1>1, <2>1
<1> DEFINE real == {i \in 0 .. h - 1 : 0 \notin {q[i + 1], q[2 * h - i]}}
<1>5. real = RealPairs(s, r)
  BY <1>4 DEF RealPairs, h
<1>6. Leagues!RoundOf(s, r) =
        {[round  |-> r,
          number |-> Cardinality({j \in real : j <= i}),
          home   |-> IF (r + i) % 2 = 1 THEN q[2 * h - i] ELSE q[i + 1],
          away   |-> IF (r + i) % 2 = 1 THEN q[i + 1] ELSE q[2 * h - i]] : i \in real}
  <2>1. Leagues!RoundOf(s, r) =
          LET real2 == {i \in 0 .. Len(q) \div 2 - 1 : 0 \notin {q[i + 1], q[Len(q) - i]}}
          IN {[round  |-> r,
               number |-> Leagues!Cardinality({j \in real2 : j <= i}),
               home   |-> IF (r + i) % 2 = 1 THEN q[Len(q) - i] ELSE q[i + 1],
               away   |-> IF (r + i) % 2 = 1 THEN q[i + 1] ELSE q[Len(q) - i]] : i \in real2}
    BY Zenon DEF Leagues!RoundOf, Leagues!Bye, q
  <2> QED BY <1>3, <2>1, SameCount
<1> HIDE DEF real
<1>7. \A i \in real : i \in 0 .. h - 1
  BY DEF real
<1>8. \A i \in real :
        MatchOfPair(s, r, i) =
          [round  |-> r,
           number |-> Cardinality({j \in real : j <= i}),
           home   |-> IF (r + i) % 2 = 1 THEN q[2 * h - i] ELSE q[i + 1],
           away   |-> IF (r + i) % 2 = 1 THEN q[i + 1] ELSE q[2 * h - i]]
  BY <1>4, <1>5, <1>7 DEF MatchOfPair, UpTo, h
<1> QED BY <1>5, <1>6, <1>8

\* Opposite seats play each other, unless one of them is the bye.
Opposite(s, r, x, y) ==
    x # y /\ PlaceOf(2 * Half(s), r, x) + PlaceOf(2 * Half(s), r, y) = 2 * Half(s) + 1

\* A round, match by match: its numbers, its teams, who plays whom and who rests.
LEMMA RoundHolds ==
    ASSUME NEW s, AreInLine(s), NEW r \in 1 .. 2 * Half(s) - 1
    PROVE  LET p == Leagues!Padded(s)
               ms == Leagues!RoundOf(s, r)
           IN
           /\ \A m \in ms :
                /\ m = [round |-> r, number |-> m.number, home |-> m.home, away |-> m.away]
                /\ m.home \in TeamsIn(s) /\ m.away \in TeamsIn(s) /\ m.home # m.away
                /\ \E x, y \in 1 .. 2 * Half(s) : Opposite(s, r, x, y) /\ Sides(m) = {p[x], p[y]}
           /\ \A x, y \in 1 .. 2 * Half(s) : Opposite(s, r, x, y) /\ p[x] # 0 /\ p[y] # 0 =>
                \E m \in ms : Sides(m) = {p[x], p[y]}
           /\ \A m, k \in ms : m.number = k.number \/ Sides(m) \cap Sides(k) # {} => m = k
           /\ {m.number : m \in ms} = 1 .. Len(s) \div 2
<1> DEFINE p == Leagues!Padded(s)
           ms == Leagues!RoundOf(s, r)
           h == Half(s)
           N == 2 * h
           z == RestsIn(s, r)
           real == RealPairs(s, r)
           at(i) == MatchOfPair(s, r, i)
           left(i) == TeamAt(s, r, i + 1)
           right(i) == TeamAt(s, r, N - i)
<1>1. ms = {at(i) : i \in real}
  BY RoundIs
<1>2. /\ Len(p) = N /\ h \in Nat \ {0} /\ N = 2 * h /\ N \in Nat /\ N >= 2 /\ r \in 1 .. N - 1
      /\ \A i \in 1 .. Len(s) : p[i] = s[i]
      /\ IF Len(s) % 2 = 1 THEN Len(p) = Len(s) + 1 /\ p[Len(p)] = 0 ELSE Len(p) = Len(s)
      /\ \A i, j \in 1 .. N : p[i] = p[j] => i = j
  <2>1. \A i \in 1 .. Len(s) : p[i] = s[i]
    BY PaddedIs
  <2>2. Len(p) = N /\ h \in Nat \ {0}
        /\ (IF Len(s) % 2 = 1 THEN Len(p) = Len(s) + 1 /\ p[Len(p)] = 0 ELSE Len(p) = Len(s))
        /\ \A i, j \in 1 .. Len(p) : p[i] = p[j] => i = j
    BY PaddedIs
  <2>3. N = 2 * h
    OBVIOUS
  <2> HIDE DEF p, h, N
  <2> QED BY <2>1, <2>2, <2>3 DEF h, N
<1>3. Len(s) \in Nat
  BY LenProperties DEF AreInLine
<1>4. /\ z \in Int /\ real = (0 .. h - 1) \ {z}
      /\ Len(s) % 2 = 0 => z = -1 /\ Len(s) \div 2 = h
      /\ Len(s) % 2 = 1 => z \in 0 .. h - 1 /\ Len(s) \div 2 = h - 1
  BY RealPairsAre
<1>5. \A i \in real : left(i) # 0 /\ right(i) # 0
  BY DEF RealPairs
<1>6. \A j \in 1 .. N : TeamAt(s, r, j) = p[SeatAt(N, r, j)]
  BY DEF TeamAt
<1>7. \A i \in real : Cardinality(UpTo(real, i)) = IF z \in 0 .. i THEN i ELSE i + 1
  <2>1. h \in Nat /\ z \in Int /\ real = AllBut(h, z)
    BY <1>2, <1>4 DEF AllBut
  <2> HIDE DEF z, real, h
  <2> QED BY <2>1, NumbersInOrder
<1>8. /\ \A i \in real : /\ at(i).number = IF z \in 0 .. i THEN i ELSE i + 1
                         /\ at(i).home = IF (r + i) % 2 = 1 THEN right(i) ELSE left(i)
                         /\ at(i).away = IF (r + i) % 2 = 1 THEN left(i) ELSE right(i)
                         /\ at(i) = [round |-> r, number |-> at(i).number, home |-> at(i).home,
                                     away |-> at(i).away]
  BY <1>7 DEF MatchOfPair
<1>9. \A i \in real : Sides(at(i)) = {left(i), right(i)}
  BY <1>8 DEF Sides
<1>11. \A x, y : Opposite(s, r, x, y) <=> x # y /\ PlaceOf(N, r, x) + PlaceOf(N, r, y) = N + 1
  BY DEF Opposite
<1>12. /\ \A x \in 1 .. N : PlaceOf(N, r, x) \in 1 .. N /\ SeatAt(N, r, PlaceOf(N, r, x)) = x
       /\ \A j \in 1 .. N : SeatAt(N, r, j) \in 1 .. N /\ PlaceOf(N, r, SeatAt(N, r, j)) = j
  <2> HIDE DEF N
  <2> QED BY <1>2, PlacesAndSeats
<1> HIDE DEF p, ms, h, N, z, real, at, left, right
<1>13. \A i \in real : i \in 0 .. h - 1 /\ i + 1 \in 1 .. N /\ N - i \in 1 .. N /\ i + 1 # N - i
  BY <1>2, <1>4
<1>14. ASSUME NEW j \in 1 .. N, NEW k \in 1 .. N, p[SeatAt(N, r, j)] = p[SeatAt(N, r, k)] PROVE j = k
  <2>1. SeatAt(N, r, j) \in 1 .. N /\ SeatAt(N, r, k) \in 1 .. N
    BY <1>12
  <2>2. SeatAt(N, r, j) = SeatAt(N, r, k)
    BY <1>2, <1>14, <2>1
  <2>3. PlaceOf(N, r, SeatAt(N, r, j)) = j /\ PlaceOf(N, r, SeatAt(N, r, k)) = k
    BY <1>12
  <2> QED BY <2>2, <2>3
<1>15. \A j \in 1 .. N : p[SeatAt(N, r, j)] # 0 => p[SeatAt(N, r, j)] \in TeamsIn(s)
  <2> TAKE j \in 1 .. N
  <2>1. SeatAt(N, r, j) \in 1 .. N
    BY <1>12
  <2>2. Len(s) % 2 \in {0, 1}
    BY <1>3
  <2>3. SeatAt(N, r, j) \in 1 .. Len(s) \/ p[SeatAt(N, r, j)] = 0
    BY <1>2, <1>3, <2>1, <2>2
  <2> QED BY <1>2, <2>3 DEF TeamsIn
<1>16. \A i \in real : left(i) = p[SeatAt(N, r, i + 1)] /\ right(i) = p[SeatAt(N, r, N - i)]
  BY <1>6, <1>13 DEF left, right
<1>17. ASSUME NEW m \in ms
       PROVE  /\ m = [round |-> r, number |-> m.number, home |-> m.home, away |-> m.away]
              /\ m.home \in TeamsIn(s) /\ m.away \in TeamsIn(s) /\ m.home # m.away
              /\ \E x, y \in 1 .. N : Opposite(s, r, x, y) /\ Sides(m) = {p[x], p[y]}
  <2>1. PICK i \in real : m = at(i)
    BY <1>1
  <2>2. left(i) # right(i)
    BY <1>13, <1>14, <1>16
  <2>3. left(i) \in TeamsIn(s) /\ right(i) \in TeamsIn(s)
    BY <1>5, <1>13, <1>15, <1>16
  <2> DEFINE x == SeatAt(N, r, i + 1)
             y == SeatAt(N, r, N - i)
  <2>4. x \in 1 .. N /\ y \in 1 .. N /\ PlaceOf(N, r, x) = i + 1 /\ PlaceOf(N, r, y) = N - i
    BY <1>12, <1>13
  <2>5. (i + 1) + (N - i) = N + 1
    BY <1>2, <1>13
  <2>6. x # y
    BY <1>13, <2>4
  <2>7. Opposite(s, r, x, y) /\ Sides(m) = {p[x], p[y]}
    <3> HIDE DEF x, y
    <3>1. Sides(m) = {left(i), right(i)}
      BY <1>9, <2>1
    <3> QED BY <1>11, <1>16, <2>4, <2>5, <2>6, <3>1 DEF x, y
  <2>8. m = [round |-> r, number |-> m.number, home |-> m.home, away |-> m.away]
    BY <1>8, <2>1
  <2>9. {m.home, m.away} = {left(i), right(i)}
    BY <1>9, <2>1 DEF Sides
  <2> QED BY <2>2, <2>3, <2>4, <2>7, <2>8, <2>9
<1>18. ASSUME NEW x \in 1 .. N, NEW y \in 1 .. N, Opposite(s, r, x, y), p[x] # 0, p[y] # 0
       PROVE  \E m \in ms : Sides(m) = {p[x], p[y]}
  <2>1. /\ PlaceOf(N, r, x) \in 1 .. N /\ PlaceOf(N, r, y) \in 1 .. N
        /\ PlaceOf(N, r, x) + PlaceOf(N, r, y) = N + 1
        /\ SeatAt(N, r, PlaceOf(N, r, x)) = x /\ SeatAt(N, r, PlaceOf(N, r, y)) = y
    BY <1>11, <1>12, <1>18
  <2> DEFINE a == PlaceOf(N, r, x)
             b == PlaceOf(N, r, y)
             i == IF a <= h THEN a - 1 ELSE b - 1
  <2> HIDE DEF a, b
  <2>6. a \in 1 .. N /\ b \in 1 .. N /\ a + b = N + 1
    BY <2>1 DEF a, b
  <2>2. i \in 0 .. h - 1 /\ ((a = i + 1 /\ b = N - i) \/ (b = i + 1 /\ a = N - i))
    <3>1. CASE a <= h
      <4>1. i = a - 1 /\ b = N - i
        BY <1>2, <2>6, <3>1
      <4> HIDE DEF i
      <4>2. h \in Nat /\ a \in Nat /\ a >= 1
        BY <1>2, <2>6
      <4>3. i \in 0 .. h - 1 /\ a = i + 1
        BY <3>1, <4>1, <4>2
      <4> QED BY <4>1, <4>3
    <3>2. CASE a > h
      <4>1. i = b - 1 /\ a = N - i
        BY <1>2, <2>6, <3>2
      <4> HIDE DEF i
      <4> QED BY <1>2, <2>6, <3>2, <4>1
    <3> QED BY <1>2, <2>6, <3>1, <3>2
  <2> HIDE DEF i
  <2>3. i + 1 \in 1 .. N /\ N - i \in 1 .. N
    BY <1>2, <2>2
  <2>4. {left(i), right(i)} = {p[x], p[y]}
    BY <1>6, <2>1, <2>2, <2>3 DEF left, right, a, b
  <2>5. i \in real
    <3>1. 0 \notin {left(i), right(i)}
      BY <1>18, <2>4
    <3> QED BY <2>2, <3>1 DEF real, RealPairs, left, right, h, N
  <2> QED BY <1>1, <1>9, <2>4, <2>5
<1>19. ASSUME NEW m \in ms, NEW k \in ms, m.number = k.number \/ Sides(m) \cap Sides(k) # {}
       PROVE  m = k
  <2>1. PICK i \in real, j \in real : m = at(i) /\ k = at(j)
    BY <1>1
  <2>2. CASE m.number = k.number
    <3>1. (IF z \in 0 .. i THEN i ELSE i + 1) = (IF z \in 0 .. j THEN j ELSE j + 1)
      BY <1>8, <2>1, <2>2
    <3>2. i \in 0 .. h - 1 /\ j \in 0 .. h - 1 /\ i # z /\ j # z /\ z \in Int
      BY <1>4, <1>13
    <3>3. i = j
      BY <1>2, <3>1, <3>2
    <3> QED BY <2>1, <3>3
  <2>3. CASE Sides(m) \cap Sides(k) # {}
    <3>1. {left(i), right(i)} \cap {left(j), right(j)} # {}
      BY <1>9, <2>1, <2>3
    <3>2. i + 1 = j + 1 \/ i + 1 = N - j \/ N - i = j + 1 \/ N - i = N - j
      BY <1>13, <1>14, <1>16, <3>1
    <3>3. i = j
      BY <1>2, <1>13, <3>2
    <3> QED BY <2>1, <3>3
  <2> QED BY <1>19, <2>2, <2>3
<1>20. {m.number : m \in ms} = 1 .. Len(s) \div 2
  <2> DEFINE v(i) == IF z \in 0 .. i THEN i ELSE i + 1
  <2>1. {m.number : m \in ms} = {v(i) : i \in real}
    <3>1. {m.number : m \in ms} = {at(i).number : i \in real}
      BY <1>1
    <3> QED BY <1>8, <3>1
  <2>2. Len(s) % 2 \in {0, 1}
    BY <1>3
  <2>3. ASSUME NEW i \in real PROVE v(i) \in 1 .. Len(s) \div 2
    <3>1. i \in 0 .. h - 1 /\ i # z
      BY <1>4
    <3> QED BY <1>2, <1>4, <2>2, <3>1
  <2>4. ASSUME NEW n \in 1 .. Len(s) \div 2 PROVE \E i \in real : v(i) = n
    <3>1. CASE n <= z
      <4>1. n - 1 \in real /\ z \notin 0 .. n - 1 /\ (n - 1) + 1 = n
        BY <1>2, <1>4, <2>2, <3>1
      <4> QED BY <4>1
    <3>2. CASE n > z /\ Len(s) % 2 = 1
      <4>1. n \in real /\ z \in 0 .. n
        BY <1>2, <1>4, <3>2
      <4> QED BY <4>1
    <3>3. CASE Len(s) % 2 = 0
      <4>1. n - 1 \in real /\ z \notin 0 .. n - 1 /\ (n - 1) + 1 = n
        BY <1>2, <1>4, <3>3
      <4> QED BY <4>1
    <3> QED BY <1>4, <2>2, <3>1, <3>2, <3>3
  <2> HIDE DEF v
  <2> QED BY <2>1, <2>3, <2>4
<1> QED BY <1>17, <1>18, <1>19, <1>20 DEF p, ms, N, h

\* What is said of the matches of a calendar, one by one and two by two.
AreMatches(T, ms) ==
    \A m \in ms :
        /\ m = [round |-> m.round, number |-> m.number, home |-> m.home, away |-> m.away]
        /\ m.home \in T /\ m.away \in T /\ m.home # m.away

AreRounds(T, ms) ==
    /\ \A m, k \in ms :
         m.round = k.round /\ (m.number = k.number \/ Sides(m) \cap Sides(k) # {}) => m = k
    /\ \A r \in {m.round : m \in ms} :
         {m.number : m \in {k \in ms : k.round = r}} = 1 .. Cardinality(T) \div 2

MeetOnce(T, ms) ==
    \A t, u \in T : t # u =>
        \E m \in ms : Sides(m) = {t, u} /\ \A k \in ms : Sides(k) = {t, u} => k = m

\* The first leg, of R rounds.
IsLeg(T, R, L) ==
    /\ IsFiniteSet(T) /\ R \in Nat
    /\ AreMatches(T, L) /\ AreRounds(T, L) /\ MeetOnce(T, L)
    /\ {m.round : m \in L} = 1 .. R

\* There are as many teams as places in line.
LEMMA TeamsAreCounted ==
    ASSUME NEW s, AreInLine(s)
    PROVE  /\ IsFiniteSet(TeamsIn(s)) /\ Cardinality(TeamsIn(s)) = Len(s)
           /\ Len(s) \in Nat
<1>1. Len(s) \in Nat /\ \A i, j \in 1 .. Len(s) : s[i] = s[j] => i = j
  BY LenProperties DEF AreInLine
<1>2. IsFiniteSet(1 .. Len(s)) /\ Cardinality(1 .. Len(s)) = Len(s)
  <2>1. /\ IsFiniteSet(1 .. Len(s))
        /\ Cardinality(1 .. Len(s)) = IF 1 > Len(s) THEN 0 ELSE Len(s) - 1 + 1
    BY <1>1, FS_Interval
  <2> QED BY <1>1, <2>1
<1> QED BY <1>1, <1>2, ImageIsAsLarge DEF TeamsIn

\* The first leg is one.
LEMMA LegHolds ==
    ASSUME NEW s, AreInLine(s)
    PROVE  /\ Leagues!RoundCount(s) = 2 * Half(s) - 1
           /\ IsLeg(TeamsIn(s), 2 * Half(s) - 1, Leagues!RoundRobin(s, 1))
<1> DEFINE p == Leagues!Padded(s)
           h == Half(s)
           R == 2 * h - 1
           T == TeamsIn(s)
           L == Leagues!RoundRobin(s, 1)
           half == Len(s) \div 2
<1>1. Len(p) = 2 * h /\ h \in Nat \ {0} /\ Leagues!RoundCount(s) = R
  BY PaddedIs DEF Leagues!RoundCount
<1>2. L = UNION {Leagues!RoundOf(s, r) : r \in 1 .. R}
  BY <1>1 DEF Leagues!RoundRobin
<1>3. Len(s) \in Nat /\ Len(s) >= 2 /\ IsFiniteSet(T) /\ Cardinality(T) = Len(s)
  BY TeamsAreCounted DEF AreInLine
<1>4. half \in Nat /\ half >= 1
  BY <1>3
<1>5. \A i \in 1 .. Len(s) : p[i] = s[i] /\ i \in 1 .. 2 * h /\ s[i] # 0
  <2>1. \A i \in 1 .. Len(s) : p[i] = s[i] /\ i \in 1 .. Len(p) /\ s[i] # 0
    BY PaddedIs
  <2> QED BY <1>1, <2>1
<1>6. \A i, j \in 1 .. 2 * h : p[i] = p[j] => i = j
  <2>1. \A i, j \in 1 .. Len(p) : p[i] = p[j] => i = j
    BY PaddedIs
  <2> QED BY <1>1, <2>1
<1>7. ASSUME NEW r \in 1 .. R
      PROVE  /\ \A m \in Leagues!RoundOf(s, r) :
                /\ m = [round |-> r, number |-> m.number, home |-> m.home, away |-> m.away]
                /\ m.home \in T /\ m.away \in T /\ m.home # m.away
                /\ \E x, y \in 1 .. 2 * h : Opposite(s, r, x, y) /\ Sides(m) = {p[x], p[y]}
             /\ \A x, y \in 1 .. 2 * h : Opposite(s, r, x, y) /\ p[x] # 0 /\ p[y] # 0 =>
                \E m \in Leagues!RoundOf(s, r) : Sides(m) = {p[x], p[y]}
             /\ \A m, k \in Leagues!RoundOf(s, r) :
                  m.number = k.number \/ Sides(m) \cap Sides(k) # {} => m = k
             /\ {m.number : m \in Leagues!RoundOf(s, r)} = 1 .. half
  BY RoundHolds
<1>8. \A r, x, y : Opposite(s, r, x, y) <=> x # y /\ PlaceOf(2 * h, r, x) + PlaceOf(2 * h, r, y) = 2 * h + 1
  BY DEF Opposite
<1> HIDE DEF p, h, R, T, L, half
<1>9. \A m \in L : m.round \in 1 .. R /\ m \in Leagues!RoundOf(s, m.round)
  <2> TAKE m \in L
  <2>1. PICK r \in 1 .. R : m \in Leagues!RoundOf(s, r)
    BY <1>2
  <2>2. m = [round |-> r, number |-> m.number, home |-> m.home, away |-> m.away]
    BY <1>7, <2>1
  <2>3. m.round = r
    BY <2>2
  <2> QED BY <2>1, <2>3
<1>10. \A r \in 1 .. R : \A m \in Leagues!RoundOf(s, r) : m \in L /\ m.round = r
  <2> TAKE r \in 1 .. R
  <2> TAKE m \in Leagues!RoundOf(s, r)
  <2>1. m = [round |-> r, number |-> m.number, home |-> m.home, away |-> m.away]
    BY <1>7
  <2>2. m.round = r
    BY <2>1
  <2> QED BY <1>2, <2>2
<1>11. \A r \in 1 .. R : {k \in L : k.round = r} = Leagues!RoundOf(s, r)
  BY <1>9, <1>10
<1>12. AreMatches(T, L)
  <2> SUFFICES ASSUME NEW m \in L
               PROVE  /\ m = [round |-> m.round, number |-> m.number, home |-> m.home, away |-> m.away]
                      /\ m.home \in T /\ m.away \in T /\ m.home # m.away
    BY DEF AreMatches
  <2>1. m.round \in 1 .. R /\ m \in Leagues!RoundOf(s, m.round)
    BY <1>9
  <2> QED BY <1>7, <2>1
<1>13. {m.round : m \in L} = 1 .. R
  <2>1. ASSUME NEW r \in 1 .. R PROVE \E m \in L : m.round = r
    <3>1. 1 \in {m.number : m \in Leagues!RoundOf(s, r)}
      BY <1>4, <1>7
    <3>2. PICK m \in Leagues!RoundOf(s, r) : TRUE
      BY <3>1
    <3> QED BY <1>10, <3>2
  <2> QED BY <1>9, <2>1
<1>14. AreRounds(T, L)
  <2>1. ASSUME NEW m \in L, NEW k \in L, m.round = k.round, m.number = k.number \/ Sides(m) \cap Sides(k) # {}
        PROVE  m = k
    <3>1. /\ m.round \in 1 .. R /\ m \in Leagues!RoundOf(s, m.round)
          /\ k \in Leagues!RoundOf(s, m.round)
      BY <1>9, <2>1
    <3> QED BY <1>7, <2>1, <3>1
  <2>2. ASSUME NEW r \in {m.round : m \in L}
        PROVE  {m.number : m \in {k \in L : k.round = r}} = 1 .. Cardinality(T) \div 2
    <3>1. r \in 1 .. R
      BY <1>13
    <3>2. {m.number : m \in {k \in L : k.round = r}} = 1 .. half
      BY <1>7, <1>11, <3>1
    <3> QED BY <1>3, <3>2 DEF half
  <2> QED BY <2>1, <2>2 DEF AreRounds
<1>15. MeetOnce(T, L)
  <2> SUFFICES ASSUME NEW t \in T, NEW u \in T, t # u
               PROVE  \E m \in L : Sides(m) = {t, u} /\ \A k \in L : Sides(k) = {t, u} => k = m
    BY DEF MeetOnce
  <2>1. PICK x \in 1 .. 2 * h, y \in 1 .. 2 * h : p[x] = t /\ p[y] = u /\ p[x] # 0 /\ p[y] # 0
    <3>1. PICK i \in 1 .. Len(s), j \in 1 .. Len(s) : t = s[i] /\ u = s[j]
      BY DEF T, TeamsIn
    <3> QED BY <1>5, <3>1
  <2>2. x # y
    BY <2>1
  <2>3. PICK r \in 1 .. R :
            /\ PlaceOf(2 * h, r, x) + PlaceOf(2 * h, r, y) = 2 * h + 1
            /\ \A k \in 1 .. R :
                  PlaceOf(2 * h, k, x) + PlaceOf(2 * h, k, y) = 2 * h + 1 => k = r
    BY <1>1, <2>2, OppositeOnce DEF R
  <2>4. PICK m \in Leagues!RoundOf(s, r) : Sides(m) = {t, u}
    <3>1. Opposite(s, r, x, y)
      BY <1>8, <2>2, <2>3
    <3>2. \E m \in Leagues!RoundOf(s, r) : Sides(m) = {p[x], p[y]}
      <4>1. \A v, w \in 1 .. 2 * h : Opposite(s, r, v, w) /\ p[v] # 0 /\ p[w] # 0 =>
              \E m \in Leagues!RoundOf(s, r) : Sides(m) = {p[v], p[w]}
        BY <1>7
      <4> QED BY <2>1, <3>1, <4>1
    <3> QED BY <2>1, <3>2
  <2>5. m \in L /\ m.round = r
    BY <1>10
  <2>6. ASSUME NEW k \in L, Sides(k) = {t, u} PROVE k = m
    <3>1. k.round \in 1 .. R /\ k \in Leagues!RoundOf(s, k.round)
      BY <1>9
    <3>2. PICK v \in 1 .. 2 * h, w \in 1 .. 2 * h :
              Opposite(s, k.round, v, w) /\ Sides(k) = {p[v], p[w]}
      BY <1>7, <3>1
    <3>3. {v, w} = {x, y}
      <4>1. p[v] \in {p[x], p[y]} /\ p[w] \in {p[x], p[y]} /\ v # w
        BY <1>8, <2>1, <2>6, <3>2
      <4> QED BY <1>6, <4>1
    <3>4. PlaceOf(2 * h, k.round, x) + PlaceOf(2 * h, k.round, y) = 2 * h + 1
      <4>1. (v = x /\ w = y) \/ (v = y /\ w = x)
        BY <2>2, <3>3
      <4>2. PlaceOf(2 * h, k.round, v) + PlaceOf(2 * h, k.round, w) = 2 * h + 1
        BY <1>8, <3>2
      <4>3. PlaceOf(2 * h, k.round, v) \in Int /\ PlaceOf(2 * h, k.round, w) \in Int
        BY <1>1, <3>1 DEF PlaceOf, R
      <4> QED BY <4>1, <4>2, <4>3
    <3>5. k.round = r
      BY <2>3, <3>1, <3>4
    <3>6. Sides(m) \cap Sides(k) # {}
      BY <2>4, <2>6
    <3> QED BY <1>7, <2>4, <3>1, <3>5, <3>6
  <2> QED BY <2>4, <2>5, <2>6
<1>16. R \in Nat
  BY <1>1 DEF R
<1> QED BY <1>1, <1>3, <1>12, <1>13, <1>14, <1>15, <1>16 DEF IsLeg, T, R, L, h

\* The second leg repeats the first one, with home and away exchanged.
LEMMA ReturnedIs ==
    ASSUME NEW T, NEW R, NEW L, IsLeg(T, R, L), NEW m \in L
    PROVE  LET b == Leagues!Returned(m, R) IN
           /\ b = [round |-> m.round + R, number |-> m.number, home |-> m.away, away |-> m.home]
           /\ m.round \in 1 .. R /\ Sides(b) = Sides(m)
           /\ b.round = m.round + R /\ b.number = m.number /\ b.home = m.away /\ b.away = m.home
<1>1. m = [round |-> m.round, number |-> m.number, home |-> m.home, away |-> m.away]
  BY DEF IsLeg, AreMatches
<1>2. Leagues!Returned(m, R) = [round |-> m.round + R, number |-> m.number, home |-> m.away, away |-> m.home]
  <2>1. PICK r, n, x, y : m = [round |-> r, number |-> n, home |-> x, away |-> y]
    BY <1>1
  <2>2. Leagues!Returned(m, R) = [m EXCEPT !.round = m.round + R, !.home = m.away, !.away = m.home]
    BY DEF Leagues!Returned
  <2>3. m.round = r /\ m.number = n /\ m.home = x /\ m.away = y
    BY <2>1
  <2> QED BY <2>1, <2>2, <2>3
<1>3. m.round \in 1 .. R
  BY DEF IsLeg
<1> QED BY <1>2, <1>3 DEF Sides

\* The second leg.
Second(R, L) == {Leagues!Returned(m, R) : m \in L}

\* The rounds of both legs.
LEMMA BothLegs ==
    ASSUME NEW T, NEW R, NEW L, IsLeg(T, R, L)
    PROVE  LET ms == L \cup Second(R, L) IN
           /\ AreMatches(T, ms) /\ AreRounds(T, ms)
           /\ {m.round : m \in ms} = 1 .. 2 * R
           /\ \A m \in L : m.round \in 1 .. R
           /\ \A m \in Second(R, L) : m.round \in R + 1 .. 2 * R
<1> DEFINE b(m) == Leagues!Returned(m, R)
           S == Second(R, L)
           ms == L \cup S
<1>1. /\ AreMatches(T, L) /\ AreRounds(T, L) /\ R \in Nat
      /\ {m.round : m \in L} = 1 .. R
  BY DEF IsLeg
<1>2. \A m \in L :
        /\ b(m) = [round |-> m.round + R, number |-> m.number, home |-> m.away, away |-> m.home]
        /\ m.round \in 1 .. R /\ Sides(b(m)) = Sides(m)
        /\ b(m).round = m.round + R /\ b(m).number = m.number
        /\ b(m).home = m.away /\ b(m).away = m.home
  BY ReturnedIs
<1>3. S = {b(m) : m \in L}
  BY DEF Second
<1> HIDE DEF b, S
<1>4. \A m \in S : m.round \in R + 1 .. 2 * R
  <2> TAKE k \in S
  <2>1. PICK m \in L : k = b(m)
    BY <1>3
  <2>2. k.round = m.round + R /\ m.round \in 1 .. R
    BY <1>2, <2>1
  <2> QED BY <1>1, <2>2
<1>5. AreMatches(T, ms)
  <2> SUFFICES ASSUME NEW k \in ms
               PROVE  /\ k = [round |-> k.round, number |-> k.number, home |-> k.home, away |-> k.away]
                      /\ k.home \in T /\ k.away \in T /\ k.home # k.away
    BY DEF AreMatches
  <2>1. CASE k \in L
    BY <1>1, <2>1 DEF AreMatches
  <2>2. CASE k \in S
    <3>1. PICK m \in L : k = b(m)
      BY <1>3, <2>2
    <3>2. m.home \in T /\ m.away \in T /\ m.home # m.away
      BY <1>1 DEF AreMatches
    <3>3. /\ k = [round |-> m.round + R, number |-> m.number, home |-> m.away, away |-> m.home]
          /\ k.round = m.round + R /\ k.number = m.number /\ k.home = m.away /\ k.away = m.home
      BY <1>2, <3>1
    <3> QED BY <3>2, <3>3
  <2> QED BY <2>1, <2>2
<1>6. {m.round : m \in ms} = 1 .. 2 * R
  <2>1. \A m \in ms : m.round \in 1 .. 2 * R
    BY <1>1, <1>2, <1>4
  <2>2. ASSUME NEW r \in 1 .. 2 * R PROVE \E m \in ms : m.round = r
    <3>1. CASE r <= R
      <4>1. r \in {m.round : m \in L}
        BY <1>1, <3>1
      <4> QED BY <4>1
    <3>2. CASE r > R
      <4>5. r - R \in 1 .. R
        BY <1>1, <3>2
      <4>1. r - R \in {m.round : m \in L}
        BY <1>1, <4>5
      <4>2. PICK m \in L : m.round = r - R
        BY <4>1
      <4>3. b(m) \in ms /\ b(m).round = m.round + R
        BY <1>2, <1>3
      <4>4. (r - R) + R = r
        BY <1>1
      <4> QED BY <4>2, <4>3, <4>4
    <3> QED BY <1>1, <3>1, <3>2
  <2> QED BY <2>1, <2>2
<1>7. AreRounds(T, ms)
  <2>1. ASSUME NEW m \in ms, NEW k \in ms, m.round = k.round,
               m.number = k.number \/ Sides(m) \cap Sides(k) # {}
        PROVE  m = k
    <3>1. CASE m \in L /\ k \in L
      BY <1>1, <2>1, <3>1 DEF AreRounds
    <3>2. CASE m \in S /\ k \in S
      <4>1. PICK x \in L, y \in L : m = b(x) /\ k = b(y)
        BY <1>3, <3>2
      <4>2. /\ m.round = x.round + R /\ k.round = y.round + R
            /\ x.round \in 1 .. R /\ y.round \in 1 .. R
            /\ m.number = x.number /\ k.number = y.number
            /\ Sides(m) = Sides(x) /\ Sides(k) = Sides(y)
        BY <1>2, <4>1
      <4>3. x.round = y.round
        <5>1. x.round + R = y.round + R
          BY <2>1, <4>2
        <5>2. x.round \in Int /\ y.round \in Int /\ R \in Int
          BY <1>1, <4>2
        <5> QED BY <5>1, <5>2
      <4>4. x = y
        BY <1>1, <2>1, <4>2, <4>3 DEF AreRounds
      <4> QED BY <4>1, <4>4
    <3>3. ~(m \in L /\ k \in S) /\ ~(m \in S /\ k \in L)
      BY <1>1, <1>2, <1>4, <2>1
    <3> QED BY <3>1, <3>2, <3>3
  <2>2. ASSUME NEW r \in {m.round : m \in ms}
        PROVE  {m.number : m \in {k \in ms : k.round = r}} = 1 .. Cardinality(T) \div 2
    <3>1. r \in 1 .. 2 * R
      BY <1>6
    <3>2. CASE r <= R
      <4>1. {k \in ms : k.round = r} = {k \in L : k.round = r}
        BY <1>1, <1>4, <3>1, <3>2
      <4>2. r \in {m.round : m \in L}
        BY <1>1, <3>1, <3>2
      <4> QED BY <1>1, <4>1, <4>2 DEF AreRounds
    <3>3. CASE r > R
      <4>1. r - R \in {m.round : m \in L} /\ r - R \in Int /\ (r - R) + R = r
        BY <1>1, <3>1, <3>3
      <4>2. {m.number : m \in {k \in L : k.round = r - R}} = 1 .. Cardinality(T) \div 2
        BY <1>1, <4>1 DEF AreRounds
      <4>3. ASSUME NEW k \in ms, k.round = r
            PROVE  \E m \in L : m.round = r - R /\ m.number = k.number
        <5>1. k \in S
          BY <1>1, <1>2, <3>1, <3>3, <4>3
        <5>2. PICK m \in L : k = b(m)
          BY <1>3, <5>1
        <5>3. r = m.round + R /\ m.round \in 1 .. R /\ k.number = m.number
          BY <1>2, <4>3, <5>2
        <5>4. m.round = r - R
          BY <1>1, <5>3
        <5> QED BY <5>3, <5>4
      <4>4. ASSUME NEW m \in L, m.round = r - R
            PROVE  \E k \in ms : k.round = r /\ k.number = m.number
        BY <1>2, <1>3, <4>1, <4>4
      <4>5. {m.number : m \in {k \in ms : k.round = r}} = {m.number : m \in {k \in L : k.round = r - R}}
        BY <4>3, <4>4
      <4> QED BY <4>2, <4>5
    <3> QED BY <1>1, <3>1, <3>2, <3>3
  <2> QED BY <2>1, <2>2 DEF AreRounds
<1> QED BY <1>2, <1>4, <1>5, <1>6, <1>7 DEF S

\* A function that is onto and tells its arguments apart.
LEMMA SameSize ==
    ASSUME NEW S, NEW U, IsFiniteSet(U), NEW f,
           \A x \in S : f[x] \in U, \A x, y \in S : f[x] = f[y] => x = y,
           \A u \in U : \E x \in S : f[x] = u
    PROVE  IsFiniteSet(S) /\ Cardinality(S) = Cardinality(U)
<1> DEFINE g == [x \in S |-> f[x]]
<1>1. g \in Injection(S, U)
  BY DEF Injection, IsInjective
<1>2. g \in Surjection(S, U)
  BY DEF Surjection
<1> HIDE DEF g
<1> QED BY <1>1, <1>2, FS_Injection

FairRound(T, round) ==
    /\ Cardinality(UNION {{m.home, m.away} : m \in round}) = 2 * Cardinality(round)
    /\ Cardinality(round) = Cardinality(T) \div 2
    /\ {m.number : m \in round} = 1 .. Cardinality(round)

\* In a round nobody plays twice and one team rests at most.
LEMMA RoundIsFair ==
    ASSUME NEW T, IsFiniteSet(T), NEW ms, AreMatches(T, ms), AreRounds(T, ms),
           NEW r \in {m.round : m \in ms}
    PROVE  FairRound(T, {m \in ms : m.round = r})
<1> DEFINE round == {m \in ms : m.round = r}
           half == Cardinality(T) \div 2
           number == [m \in round |-> m.number]
           sides == [m \in round |-> Sides(m)]
           P == {sides[m] : m \in round}
<1>1. {m.number : m \in round} = 1 .. half
  BY DEF AreRounds
<1>2. half \in Nat
  BY FS_CardinalityType
<1>3. IsFiniteSet(1 .. half) /\ Cardinality(1 .. half) = half
  <2>1. IsFiniteSet(1 .. half) /\ Cardinality(1 .. half) = IF 1 > half THEN 0 ELSE half - 1 + 1
    BY <1>2, FS_Interval
  <2> HIDE DEF half
  <2> QED BY <1>2, <2>1
<1>4. IsFiniteSet(round) /\ Cardinality(round) = half
  <2>1. \A m \in round : number[m] \in 1 .. half
    BY <1>1
  <2>2. \A m, k \in round : number[m] = number[k] => m = k
    BY DEF AreRounds
  <2>3. \A n \in 1 .. half : \E m \in round : number[m] = n
    BY <1>1
  <2> HIDE DEF round, half, number
  <2> QED BY <1>3, <2>1, <2>2, <2>3, SameSize
<1>5. \A m, k \in round : sides[m] \cap sides[k] # {} => m = k
  BY DEF AreRounds
<1>6. \A m \in round : m.home \in T /\ m.away \in T /\ m.home # m.away
  BY DEF AreMatches
<1>7. \A m \in round : sides[m] \in Pairs(T)
  <2> TAKE m \in round
  <2>1. sides[m] = {m.home, m.away}
    BY DEF Sides
  <2>2. Cardinality({m.home, m.away}) = 2
    BY <1>6, PairOfTwo
  <2> QED BY <1>6, <2>1, <2>2 DEF Pairs
<1>8. \A m \in round : sides[m] # {}
  BY DEF Sides
<1>9. IsFiniteSet(P) /\ Cardinality(P) = Cardinality(round)
  <2>1. \A m, k \in round : sides[m] = sides[k] => m = k
    BY <1>5, <1>8
  <2> HIDE DEF round, sides
  <2> QED BY <1>4, <2>1, ImageIsAsLarge
<1>10. P \in SUBSET Pairs(T) /\ AreApart(P)
  <2> HIDE DEF round, sides
  <2> QED BY <1>5, <1>7 DEF AreApart
<1>11. Cardinality(UNION P) = 2 * Cardinality(P)
  <2> HIDE DEF P
  <2> QED BY <1>10, PairsOfTwice
<1>12. P = {{m.home, m.away} : m \in round}
  BY DEF Sides
<1> QED BY <1>1, <1>4, <1>9, <1>11, <1>12 DEF FairRound

PlaysIn(ms, t) == {m \in ms : t \in Sides(m)}

\* In a leg a team plays once against each of the others.
LEMMA PlaysAll ==
    ASSUME NEW T, NEW R, NEW L, IsLeg(T, R, L), NEW t \in T
    PROVE  /\ IsFiniteSet(PlaysIn(L, t))
           /\ Cardinality(PlaysIn(L, t)) = Cardinality(T) - 1
<1> DEFINE S == PlaysIn(L, t)
           U == T \ {t}
           f == [m \in S |-> IF m.home = t THEN m.away ELSE m.home]
<1>1. IsFiniteSet(T) /\ AreMatches(T, L) /\ MeetOnce(T, L)
  BY DEF IsLeg
<1>2. IsFiniteSet(U) /\ Cardinality(U) = Cardinality(T) - 1
  BY <1>1, FS_RemoveElement
<1>3. ASSUME NEW m \in S PROVE f[m] \in U /\ Sides(m) = {t, f[m]} /\ m \in L
  <2>1. m \in L /\ (t = m.home \/ t = m.away)
    BY DEF PlaysIn, Sides
  <2>2. m.home \in T /\ m.away \in T /\ m.home # m.away
    BY <1>1, <2>1 DEF AreMatches
  <2> QED BY <2>1, <2>2 DEF Sides
<1>4. ASSUME NEW m \in S, NEW k \in S, f[m] = f[k] PROVE m = k
  <2> DEFINE u == f[m]
  <2>1. u \in U /\ Sides(m) = {t, u} /\ Sides(k) = {t, u} /\ m \in L /\ k \in L
    BY <1>3, <1>4
  <2> HIDE DEF u
  <2>2. u \in T /\ u # t
    BY <2>1
  <2>3. PICK x \in L : \A y \in L : Sides(y) = {t, u} => y = x
    BY <1>1, <2>2 DEF MeetOnce
  <2> QED BY <2>1, <2>3
<1>5. ASSUME NEW u \in U PROVE \E m \in S : f[m] = u
  <2>1. PICK m \in L : Sides(m) = {t, u}
    BY <1>1 DEF MeetOnce
  <2>2. m \in S
    BY <2>1 DEF PlaysIn
  <2>3. {t, f[m]} = {t, u} /\ f[m] # t
    BY <1>3, <2>1, <2>2
  <2> QED BY <2>2, <2>3
<1> HIDE DEF S, U, f
<1>6. IsFiniteSet(S) /\ Cardinality(S) = Cardinality(U)
  BY <1>2, <1>3, <1>4, <1>5, SameSize
<1> QED BY <1>2, <1>6 DEF S

\* In two legs it plays as often again.
LEMMA PlaysAgain ==
    ASSUME NEW T, NEW R, NEW L, IsLeg(T, R, L), NEW t \in T
    PROVE  Cardinality(PlaysIn(L \cup Second(R, L), t)) = 2 * (Cardinality(T) - 1)
<1> DEFINE S == PlaysIn(L, t)
           b == [m \in S |-> Leagues!Returned(m, R)]
           A == {b[m] : m \in S}
<1>1. IsFiniteSet(S) /\ Cardinality(S) = Cardinality(T) - 1
  BY PlaysAll
<1>2. \A m \in S : m \in L /\ t \in Sides(m)
  BY DEF PlaysIn
<1>3. ASSUME NEW m \in L
      PROVE  LET x == Leagues!Returned(m, R) IN
             m.round \in 1 .. R /\ Sides(x) = Sides(m) /\ x.round = m.round + R /\ x.number = m.number
  BY ReturnedIs
<1>4. R \in Nat /\ IsFiniteSet(T) /\ AreRounds(T, L)
  BY DEF IsLeg
<1>5. ASSUME NEW m \in S, NEW k \in S, b[m] = b[k] PROVE m = k
  <2>1. /\ m.round + R = k.round + R /\ m.number = k.number
        /\ m.round \in 1 .. R /\ k.round \in 1 .. R /\ m \in L /\ k \in L
    BY <1>2, <1>3, <1>5
  <2>2. m.round = k.round
    <3>1. m.round \in Int /\ k.round \in Int /\ R \in Int
      BY <1>4, <2>1
    <3> QED BY <2>1, <3>1
  <2> QED BY <1>4, <2>1, <2>2 DEF AreRounds
<1>6. \A m \in S : b[m] = Leagues!Returned(m, R)
  OBVIOUS
<1>7. PlaysIn(L \cup Second(R, L), t) = S \cup A
  <2>1. \A m \in Second(R, L) : t \in Sides(m) => m \in A
    <3> SUFFICES ASSUME NEW m \in Second(R, L), t \in Sides(m) PROVE m \in A
      OBVIOUS
    <3>1. PICK k \in L : m = Leagues!Returned(k, R)
      BY DEF Second
    <3>2. k \in S
      BY <1>3, <3>1 DEF PlaysIn
    <3> QED BY <3>1, <3>2
  <2>2. \A m \in A : m \in Second(R, L) /\ t \in Sides(m)
    <3> TAKE m \in A
    <3>1. PICK k \in S : m = Leagues!Returned(k, R)
      OBVIOUS
    <3> QED BY <1>2, <1>3, <3>1 DEF Second
  <2> HIDE DEF A
  <2> QED BY <2>1, <2>2 DEF PlaysIn
<1>8. S \cap A = {}
  <2> SUFFICES ASSUME NEW m \in S, NEW k \in S, m = b[k] PROVE FALSE
    OBVIOUS
  <2>1. m.round \in 1 .. R /\ m.round = k.round + R /\ k.round \in 1 .. R
    BY <1>2, <1>3, <1>6
  <2> QED BY <1>4, <2>1
<1> HIDE DEF S, b
<1>9. IsFiniteSet(A) /\ Cardinality(A) = Cardinality(S)
  BY <1>1, <1>5, ImageIsAsLarge
<1> HIDE DEF A
<1>10. Cardinality(S \cup A) = Cardinality(S) + Cardinality(A) - Cardinality(S \cap A)
  BY <1>1, <1>9, FS_Union
<1>11. Cardinality(S \cap A) = 0 /\ Cardinality(T) \in Nat
  BY <1>4, <1>8, FS_EmptySet, FS_CardinalityType
<1>12. \A n \in Int : (n - 1) + (n - 1) - 0 = 2 * (n - 1)
  OBVIOUS
<1>13. Cardinality(S \cup A) = (Cardinality(T) - 1) + (Cardinality(T) - 1) - 0
  BY <1>1, <1>9, <1>10, <1>11
<1>14. Cardinality(S \cup A) = 2 * (Cardinality(T) - 1)
  <2>1. Cardinality(T) \in Int
    BY <1>11
  <2> QED BY <1>12, <1>13, <2>1
<1> QED BY <1>7, <1>14

AtHome(ms, t, u) == {m \in PlaysIn(ms, t) : m.home = t /\ m.away = u}

\* Two teams meet once in a leg.
LEMMA MeetInLeg ==
    ASSUME NEW T, NEW R, NEW L, IsLeg(T, R, L), NEW t \in T, NEW u \in T, t # u
    PROVE  Cardinality(PlaysIn(L, t) \cap PlaysIn(L, u)) = 1
<1>1. PICK m \in L : Sides(m) = {t, u} /\ \A k \in L : Sides(k) = {t, u} => k = m
  BY DEF IsLeg, MeetOnce
<1>2. \A k : t \in Sides(k) /\ u \in Sides(k) <=> Sides(k) = {t, u}
  BY DEF Sides
<1>3. PlaysIn(L, t) \cap PlaysIn(L, u) = {m}
  BY <1>1, <1>2 DEF PlaysIn
<1> QED BY <1>3, FS_Singleton

\* In two legs they meet twice, once at home of each.
LEMMA MeetInBoth ==
    ASSUME NEW T, NEW R, NEW L, IsLeg(T, R, L), NEW t \in T, NEW u \in T, t # u
    PROVE  /\ Cardinality(PlaysIn(L \cup Second(R, L), t) \cap PlaysIn(L \cup Second(R, L), u)) = 2
           /\ Cardinality(AtHome(L \cup Second(R, L), t, u)) = 1
<1> DEFINE ms == L \cup Second(R, L)
<1>1. PICK m \in L : Sides(m) = {t, u} /\ \A k \in L : Sides(k) = {t, u} => k = m
  BY DEF IsLeg, MeetOnce
<1>2. PICK x : x = Leagues!Returned(m, R)
  OBVIOUS
<1>3. /\ Sides(x) = {t, u} /\ x \in Second(R, L) /\ x # m
      /\ x.home = m.away /\ x.away = m.home
  <2>1. /\ m.round \in 1 .. R /\ Sides(x) = Sides(m)
        /\ x.round = m.round + R /\ x.home = m.away /\ x.away = m.home
    BY <1>2, ReturnedIs
  <2>2. R \in Nat
    BY DEF IsLeg
  <2>3. x.round # m.round
    BY <2>1, <2>2
  <2> QED BY <1>1, <1>2, <2>1, <2>3 DEF Second
<1>4. \A k \in ms : Sides(k) = {t, u} => k = m \/ k = x
  <2> SUFFICES ASSUME NEW k \in Second(R, L), Sides(k) = {t, u} PROVE k = x
    BY <1>1
  <2>1. PICK y \in L : k = Leagues!Returned(y, R)
    BY DEF Second
  <2>2. Sides(y) = {t, u}
    BY <2>1, ReturnedIs
  <2> QED BY <1>1, <1>2, <2>1, <2>2
<1>5. \A k : t \in Sides(k) /\ u \in Sides(k) <=> Sides(k) = {t, u}
  BY DEF Sides
<1>7. PlaysIn(ms, t) \cap PlaysIn(ms, u) = {m, x}
  BY <1>1, <1>3, <1>4, <1>5 DEF PlaysIn
<1>8. PICK h \in {m, x} : AtHome(ms, t, u) = {h}
  <2>1. \A k : k.home = t /\ k.away = u => Sides(k) = {t, u} /\ t \in Sides(k)
    BY DEF Sides
  <2>2. (m.home = t /\ m.away = u) \/ (m.home = u /\ m.away = t)
    BY <1>1 DEF Sides
  <2>3. CASE m.home = t /\ m.away = u
    <3>1. AtHome(ms, t, u) = {m}
      BY <1>1, <1>3, <1>4, <2>1, <2>3 DEF PlaysIn, AtHome
    <3> QED BY <3>1
  <2>4. CASE m.home = u /\ m.away = t
    <3>1. AtHome(ms, t, u) = {x}
      BY <1>1, <1>3, <1>4, <2>1, <2>4 DEF PlaysIn, AtHome
    <3> QED BY <3>1
  <2> QED BY <2>2, <2>3, <2>4
<1>9. Cardinality({h}) = 1 /\ Cardinality({m, x}) = 2
  BY <1>3, FS_Singleton, PairOfTwo
<1> HIDE DEF ms
<1> QED BY <1>7, <1>8, <1>9 DEF ms

\* What a calendar promises, in the terms of this section.
LEMMA FairMeans ==
    ASSUME NEW T, NEW legs, NEW ms,
           \A t \in T, u \in T : t # u =>
              /\ Cardinality(PlaysIn(ms, t) \cap PlaysIn(ms, u)) = legs
              /\ legs = 2 => Cardinality(AtHome(ms, t, u)) = 1,
           \A r \in {m.round : m \in ms} : FairRound(T, {m \in ms : m.round = r}),
           UNION {{m.home, m.away} : m \in ms} = T
    PROVE  Leagues!IsFair(T, legs, ms)
<1>1. ASSUME NEW t \in T, NEW u \in T \ {t}
      PROVE  /\ Leagues!Cardinality(Leagues!Playing(ms, t) \cap Leagues!Playing(ms, u)) = legs
             /\ legs = 2 => Leagues!Cardinality({m \in Leagues!Playing(ms, t) : m.home = t /\ m.away = u}) = 1
  <2> DEFINE both == Leagues!Playing(ms, t) \cap Leagues!Playing(ms, u)
             home == {m \in Leagues!Playing(ms, t) : m.home = t /\ m.away = u}
  <2>1. both = PlaysIn(ms, t) \cap PlaysIn(ms, u) /\ home = AtHome(ms, t, u)
    BY DEF Leagues!Playing, PlaysIn, Sides, AtHome
  <2> HIDE DEF both, home
  <2>2. Leagues!Cardinality(both) = Cardinality(both) /\ Leagues!Cardinality(home) = Cardinality(home)
    BY SameCount
  <2>3. Cardinality(both) = legs /\ (legs = 2 => Cardinality(home) = 1)
    BY <2>1
  <2>4. Leagues!Cardinality(both) = legs /\ (legs = 2 => Leagues!Cardinality(home) = 1)
    BY <2>2, <2>3
  <2> QED BY <2>4 DEF both, home
<1>2. ASSUME NEW r \in {m.round : m \in ms}
      PROVE  LET round == {m \in ms : m.round = r}
             IN /\ Leagues!Cardinality(UNION {{m.home, m.away} : m \in round}) = 2 * Leagues!Cardinality(round)
                /\ Leagues!Cardinality(round) = Leagues!Cardinality(T) \div 2
                /\ {m.number : m \in round} = 1 .. Leagues!Cardinality(round)
  <2>1. PICK round : round = {m \in ms : m.round = r}
    OBVIOUS
  <2>2. FairRound(T, round)
    BY <2>1
  <2>3. /\ Leagues!Cardinality(UNION {{m.home, m.away} : m \in round}) = 2 * Leagues!Cardinality(round)
        /\ Leagues!Cardinality(round) = Leagues!Cardinality(T) \div 2
        /\ {m.number : m \in round} = 1 .. Leagues!Cardinality(round)
    BY <2>2, SameCount DEF FairRound
  <2> QED BY <2>1, <2>3
<1> QED BY <1>1, <1>2, Zenon DEF Leagues!IsFair

\* What the byes of a calendar promise, in the same terms.
LEMMA EvenMeans ==
    ASSUME NEW T, NEW legs, NEW ms,
           \A t \in T : Cardinality({m.round : m \in ms}) - Cardinality(PlaysIn(ms, t))
                          = IF Cardinality(T) % 2 = 1 THEN legs ELSE 0,
           Leagues!ByeCount([i \in 1 .. Cardinality(T) |-> i], legs)
             = IF Cardinality(T) % 2 = 1 THEN legs * Cardinality(T) ELSE 0
    PROVE  Leagues!ByesAreEven(T, legs, ms)
<1>1. \A t : Leagues!Playing(ms, t) = PlaysIn(ms, t)
  BY DEF Leagues!Playing, PlaysIn, Sides
<1>2. \A t \in T : Leagues!Cardinality({m.round : m \in ms}) - Leagues!Cardinality(Leagues!Playing(ms, t))
                     = IF Leagues!Cardinality(T) % 2 = 1 THEN legs ELSE 0
  BY <1>1, SameCount
<1>3. Leagues!ByeCount([i \in 1 .. Leagues!Cardinality(T) |-> i], legs)
        = IF Leagues!Cardinality(T) % 2 = 1 THEN legs * Leagues!Cardinality(T) ELSE 0
  <2>1. Leagues!Cardinality(T) = Cardinality(T)
    BY SameCount
  <2> QED BY <2>1
<1> QED BY <1>2, <1>3, Zenon DEF Leagues!ByesAreEven

\* The calendar of any number of teams, of one leg or two, is fair.
LEMMA RoundRobinIsFair ==
    ASSUME NEW s, AreInLine(s), NEW legs \in {1, 2}
    PROVE  /\ Leagues!IsFair(TeamsIn(s), legs, Leagues!RoundRobin(s, legs))
           /\ Leagues!ByesAreEven(TeamsIn(s), legs, Leagues!RoundRobin(s, legs))
<1> DEFINE T == TeamsIn(s)
           R == 2 * Half(s) - 1
           L == Leagues!RoundRobin(s, 1)
           ms == Leagues!RoundRobin(s, legs)
           n == Cardinality(T)
<1>1. IsLeg(T, R, L) /\ Leagues!RoundCount(s) = R
  BY LegHolds
<1>2. IsFiniteSet(T) /\ n = Len(s) /\ n \in Nat /\ n >= 2
  BY TeamsAreCounted DEF AreInLine
<1>3. R \in Nat /\ R = IF n % 2 = 1 THEN n ELSE n - 1
  BY <1>2 DEF Half
<1>4. ms = IF legs = 1 THEN L ELSE L \cup Second(R, L)
  BY <1>1 DEF Leagues!RoundRobin, Second
<1> HIDE DEF T, R, L, ms, n
<1>5. /\ AreMatches(T, ms) /\ AreRounds(T, ms)
      /\ {m.round : m \in ms} = 1 .. legs * R
  <2>1. CASE legs = 1
    BY <1>1, <1>3, <1>4, <2>1 DEF IsLeg
  <2>2. CASE legs = 2
    <3>1. ms = L \cup Second(R, L)
      BY <1>4, <2>2
    <3>2. /\ AreMatches(T, L \cup Second(R, L)) /\ AreRounds(T, L \cup Second(R, L))
          /\ {m.round : m \in L \cup Second(R, L)} = 1 .. 2 * R
      BY <1>1, BothLegs
    <3> QED BY <2>2, <3>1, <3>2
  <2> QED BY <2>1, <2>2
<1>6. \A t \in T : Cardinality(PlaysIn(ms, t)) = legs * (n - 1)
  <2> TAKE t \in T
  <2>1. CASE legs = 1
    <3>1. ms = L /\ legs * (n - 1) = n - 1
      BY <1>2, <1>4, <2>1
    <3>2. Cardinality(PlaysIn(L, t)) = n - 1
      BY <1>1, PlaysAll DEF n
    <3> QED BY <3>1, <3>2
  <2>2. CASE legs = 2
    <3>1. ms = L \cup Second(R, L)
      BY <1>4, <2>2
    <3>2. Cardinality(PlaysIn(L \cup Second(R, L), t)) = 2 * (n - 1)
      BY <1>1, PlaysAgain DEF n
    <3> QED BY <2>2, <3>1, <3>2
  <2> QED BY <2>1, <2>2
<1>7. ASSUME NEW t \in T, NEW u \in T, t # u
      PROVE  /\ Cardinality(PlaysIn(ms, t) \cap PlaysIn(ms, u)) = legs
             /\ legs = 2 => Cardinality(AtHome(ms, t, u)) = 1
  <2>1. CASE legs = 1
    <3>1. ms = L
      BY <1>4, <2>1
    <3>2. Cardinality(PlaysIn(L, t) \cap PlaysIn(L, u)) = 1
      BY <1>1, <1>7, MeetInLeg
    <3> QED BY <2>1, <3>1, <3>2
  <2>2. CASE legs = 2
    <3>1. ms = L \cup Second(R, L)
      BY <1>4, <2>2
    <3>2. /\ Cardinality(PlaysIn(L \cup Second(R, L), t) \cap PlaysIn(L \cup Second(R, L), u)) = 2
          /\ Cardinality(AtHome(L \cup Second(R, L), t, u)) = 1
      BY <1>1, <1>7, MeetInBoth
    <3> QED BY <2>2, <3>1, <3>2
  <2> QED BY <2>1, <2>2
<1>8. ASSUME NEW r \in {m.round : m \in ms}
      PROVE  FairRound(T, {m \in ms : m.round = r})
  <2>1. IsFiniteSet(T) /\ AreMatches(T, ms) /\ AreRounds(T, ms)
    BY <1>2, <1>5
  <2> QED BY <1>8, <2>1, RoundIsFair
<1>9. UNION {{m.home, m.away} : m \in ms} = T
  <2>1. \A m \in ms : m.home \in T /\ m.away \in T
    BY <1>5 DEF AreMatches
  <2>2. ASSUME NEW t \in T PROVE \E m \in ms : t \in {m.home, m.away}
    <3>1. Cardinality(PlaysIn(ms, t)) # 0
      BY <1>2, <1>6
    <3>2. PlaysIn(ms, t) # {}
      BY <3>1, FS_EmptySet
    <3> QED BY <3>2 DEF PlaysIn, Sides
  <2> QED BY <2>1, <2>2
<1>11. Leagues!IsFair(T, legs, ms)
  BY <1>7, <1>8, <1>9, FairMeans
<1>12. Cardinality({m.round : m \in ms}) = legs * R
  <2>1. legs * R \in Nat
    BY <1>3
  <2>2. \A k \in Nat : Cardinality(1 .. k) = k
    <3> TAKE k \in Nat
    <3>1. Cardinality(1 .. k) = IF 1 > k THEN 0 ELSE k - 1 + 1
      BY FS_Interval
    <3> QED BY <3>1
  <2>3. Cardinality(1 .. legs * R) = legs * R
    BY <2>1, <2>2
  <2> QED BY <1>5, <2>3
<1>13. Leagues!ByeCount([i \in 1 .. n |-> i], legs) = IF n % 2 = 1 THEN legs * n ELSE 0
  <2> DEFINE q == [i \in 1 .. n |-> i]
  <2>1. q \in Seq(Nat \ {0}) /\ Len(q) = n /\ \A i \in 1 .. n : q[i] = i
    <3>1. \A i \in 1 .. n : i \in Nat \ {0}
      BY <1>2
    <3>2. q \in [1 .. n -> Nat \ {0}]
      BY <3>1
    <3> QED BY <1>2, <3>2
  <2>2. AreInLine(q)
    <3> HIDE DEF q
    <3> QED BY <1>2, <2>1 DEF AreInLine
  <2>3. Leagues!RoundCount(q) = 2 * Half(q) - 1
    BY <2>2, LegHolds
  <2>4. Leagues!ByeCount(q, legs) = IF n % 2 = 1 THEN (2 * Half(q) - 1) * legs ELSE 0
    BY <2>1, <2>3 DEF Leagues!ByeCount
  <2>5. n % 2 = 1 => 2 * Half(q) - 1 = n
    BY <1>2, <2>1 DEF Half
  <2>6. n * legs = legs * n
    BY <1>2
  <2> HIDE DEF q
  <2>7. Leagues!ByeCount(q, legs) = IF n % 2 = 1 THEN legs * n ELSE 0
    BY <2>4, <2>5, <2>6
  <2> QED BY <2>7 DEF q
<1>14. legs * R - legs * (n - 1) = IF n % 2 = 1 THEN legs ELSE 0
  BY <1>2, <1>3
<1>15. Leagues!ByesAreEven(T, legs, ms)
  BY <1>6, <1>12, <1>13, <1>14, EvenMeans DEF n
<1> QED BY <1>11, <1>15 DEF T, ms

------------------------------------------------------------------------------
(* Groups.                                                                 *)

\* Numbers by blocks of G: every number is in one.
LEMMA InABlock ==
    ASSUME NEW k \in Nat, NEW G \in Nat \ {0}
    PROVE  \E q \in Nat, p \in 0 .. G - 1 : k = q * G + p
<1>1. k - (k \div G) * G \in 0 .. G - 1 /\ k \div G \in Nat
  OBVIOUS
<1> QED BY <1>1

\* No number is in two.
LEMMA OneBlock ==
    ASSUME NEW c \in Nat, NEW d \in Nat, NEW G \in Nat \ {0}, NEW x \in 1 .. G, NEW y \in 1 .. G,
           c * G + x = d * G + y
    PROVE  c = d /\ x = y
<1>1. ~(c < d) /\ ~(d < c)
  BY BlocksApart
<1> QED BY <1>1

\* How many blocks n numbers take.
LEMMA BlocksOf ==
    ASSUME NEW n \in Nat, NEW G \in Nat \ {0}
    PROVE  LET C == (n + G - 1) \div G
           IN C \in Nat /\ C * G >= n /\ (C >= 1 => (C - 1) * G < n)
OBVIOUS

\* A group has a place in every order.
LEMMA PlaceInOrder ==
    ASSUME NEW G \in Nat \ {0}, NEW o \in Leagues!Orders(G), NEW g \in 1 .. G
    PROVE  \E k \in 1 .. G : o[k] = g /\ \A j \in 1 .. G : o[j] = g => j = k
<1>1. o \in [1 .. G -> 1 .. G] /\ \A i, j \in 1 .. G : o[i] = o[j] => i = j
  BY DEF Leagues!Orders
<1>2. IsFiniteSet(1 .. G)
  BY FS_Interval
<1>3. o \in Injection(1 .. G, 1 .. G)
  BY <1>1 DEF Injection, IsInjective
<1>4. o \in Surjection(1 .. G, 1 .. G)
  BY <1>2, <1>3, FS_Injection
<1>5. PICK k \in 1 .. G : o[k] = g
  BY <1>4 DEF Surjection
<1> QED BY <1>1, <1>5

\* A dealing out that the code can make.
IsDealing(n, G, heads, order) ==
    /\ n \in Nat /\ G \in Nat \ {0} /\ G <= n /\ heads \in BOOLEAN
    /\ order \in [Leagues!Chunks(n, G, heads) -> Leagues!Orders(G)]

\* How many heads and chunks there are, the place of a group in a chunk, the team
\* it takes there, and the chunks that have one for it.
Led(G, heads) == IF heads THEN G ELSE 0
ChunkCount(n, G, heads) == (n - Led(G, heads) + G - 1) \div G
At(g, c, G, order) == CHOOSE k \in 1 .. G : order[c][k] = g
Turn(g, c, G, heads, order) == Led(G, heads) + (c - 1) * G + At(g, c, G, order)
Served(g, n, G, heads, order) ==
    {c \in 1 .. ChunkCount(n, G, heads) : Turn(g, c, G, heads, order) <= n}

\* There are as many chunks as the teams without the heads take.
LEMMA ChunksAre ==
    ASSUME NEW n, NEW G, NEW heads, NEW order, IsDealing(n, G, heads, order)
    PROVE  /\ Led(G, heads) \in 0 .. n /\ ChunkCount(n, G, heads) \in Nat
           /\ Leagues!Chunks(n, G, heads) = 1 .. ChunkCount(n, G, heads)
           /\ Led(G, heads) + ChunkCount(n, G, heads) * G >= n
           /\ ChunkCount(n, G, heads) >= 1 => Led(G, heads) + (ChunkCount(n, G, heads) - 1) * G < n
<1> DEFINE led == Led(G, heads)
           C == ChunkCount(n, G, heads)
<1>1. n \in Nat /\ G \in Nat \ {0} /\ led \in 0 .. n /\ n - led \in Nat
  BY DEF IsDealing, Led
<1>2. C = ((n - led) + G - 1) \div G
  BY DEF ChunkCount
<1>3. Leagues!Chunks(n, G, heads) = 1 .. C
  <2>1. n - led = IF heads THEN n - G ELSE n
    BY <1>1 DEF Led
  <2> HIDE DEF led
  <2> QED BY <2>1 DEF Leagues!Chunks, ChunkCount, led
<1> HIDE DEF led, C
<1>4. C \in Nat /\ C * G >= n - led /\ (C >= 1 => (C - 1) * G < n - led)
  BY <1>1, <1>2, BlocksOf
<1>5. led + C * G >= n
  <2>1. C * G \in Nat
    BY <1>1, <1>4
  <2> QED BY <1>1, <1>4, <2>1
<1>6. C >= 1 => led + (C - 1) * G < n
  <2>1. C >= 1 => (C - 1) * G \in Nat
    BY <1>1, <1>4
  <2> QED BY <1>1, <1>4, <2>1
<1> QED BY <1>1, <1>3, <1>4, <1>5, <1>6 DEF led, C

\* The place of a group in a chunk, and whose place it is.
LEMMA PlacesInChunks ==
    ASSUME NEW n, NEW G, NEW heads, NEW order, IsDealing(n, G, heads, order),
           NEW g \in 1 .. G, NEW c \in 1 .. ChunkCount(n, G, heads)
    PROVE  /\ At(g, c, G, order) \in 1 .. G /\ order[c][At(g, c, G, order)] = g
           /\ \A k \in 1 .. G : order[c][k] = g => k = At(g, c, G, order)
<1>1. order[c] \in Leagues!Orders(G) /\ G \in Nat \ {0}
  BY ChunksAre DEF IsDealing
<1>2. PICK k \in 1 .. G : order[c][k] = g /\ \A j \in 1 .. G : order[c][j] = g => j = k
  BY <1>1, PlaceInOrder
<1>3. At(g, c, G, order) \in 1 .. G /\ order[c][At(g, c, G, order)] = g
  BY <1>2 DEF At
<1> QED BY <1>2, <1>3

\* Every chunk serves every group, but for the last one.
LEMMA ServedAre ==
    ASSUME NEW n, NEW G, NEW heads, NEW order, IsDealing(n, G, heads, order), NEW g \in 1 .. G
    PROVE  LET C == ChunkCount(n, G, heads)
               K == Cardinality(Served(g, n, G, heads, order))
           IN K \in Nat /\ K <= C /\ K >= C - 1 /\ Served(g, n, G, heads, order) = 1 .. K
<1> DEFINE led == Led(G, heads)
           C == ChunkCount(n, G, heads)
           t(c) == Turn(g, c, G, heads, order)
           S == Served(g, n, G, heads, order)
<1>1. /\ n \in Nat /\ G \in Nat \ {0} /\ led \in Nat /\ C \in Nat
      /\ (C >= 1 => led + (C - 1) * G < n)
  BY ChunksAre DEF IsDealing
<1>2. \A c \in 1 .. C : \E x \in 1 .. G : t(c) = led + (c - 1) * G + x
  BY PlacesInChunks DEF Turn
<1>3. S = {c \in 1 .. C : t(c) <= n}
  BY DEF Served
<1> HIDE DEF led, C, t, S
<1>4. ASSUME NEW c \in 1 .. C, c < C PROVE c \in S
  <2>1. PICK x \in 1 .. G : t(c) = led + (c - 1) * G + x
    BY <1>2
  <2>2. c - 1 \in Nat /\ C - 1 \in Nat /\ c - 1 < C - 1
    BY <1>1, <1>4
  <2>3. (c - 1) * G + G <= (C - 1) * G
    BY <1>1, <2>2, BlocksApart
  <2>4. (c - 1) * G \in Nat /\ (C - 1) * G \in Nat
    BY <1>1, <2>2
  <2>5. t(c) <= n
    BY <1>1, <1>4, <2>1, <2>3, <2>4
  <2> QED BY <1>3, <2>5
<1>5. \E K \in Nat : K <= C /\ K >= C - 1 /\ S = 1 .. K
  <2>1. CASE C \in S \/ C = 0
    <3>1. S = 1 .. C
      BY <1>1, <1>3, <1>4, <2>1
    <3> QED BY <1>1, <3>1
  <2>2. CASE C \notin S /\ C # 0
    <3>1. S = 1 .. C - 1 /\ C - 1 \in Nat
      BY <1>1, <1>3, <1>4, <2>2
    <3> QED BY <1>1, <3>1
  <2> QED BY <2>1, <2>2
<1>6. PICK K \in Nat : K <= C /\ K >= C - 1 /\ S = 1 .. K
  BY <1>5
<1>7. Cardinality(S) = K
  <2>1. Cardinality(1 .. K) = IF 1 > K THEN 0 ELSE K - 1 + 1
    BY FS_Interval
  <2> QED BY <1>6, <2>1
<1> QED BY <1>6, <1>7 DEF C, S

\* A sequence with an element before it, or without.
WithHead(heads, g, q) == (IF heads THEN <<g>> ELSE <<>>) \o q

\* Its length and its members.
LEMMA LedBy ==
    ASSUME NEW heads \in BOOLEAN, NEW g \in Nat, NEW q \in Seq(Nat)
    PROVE  /\ WithHead(heads, g, q) \in Seq(Nat)
           /\ Len(WithHead(heads, g, q)) = Len(q) + (IF heads THEN 1 ELSE 0)
           /\ \A i \in 1 .. Len(WithHead(heads, g, q)) :
                WithHead(heads, g, q)[i] =
                  IF heads THEN (IF i = 1 THEN g ELSE q[i - 1]) ELSE q[i]
<1>1. CASE heads
  <2>1. <<g>> \in Seq(Nat) /\ Len(<<g>>) = 1 /\ <<g>>[1] = g
    OBVIOUS
  <2>2. PICK h \in Seq(Nat) : h = <<g>>
    BY <2>1
  <2>3. WithHead(heads, g, q) = h \o q
    BY <1>1, <2>2 DEF WithHead
  <2>4. Len(h) = 1 /\ h[1] = g
    BY <2>1, <2>2
  <2> HIDE <2>2
  <2>5. /\ h \o q \in Seq(Nat) /\ Len(h \o q) = 1 + Len(q)
        /\ \A i \in 1 .. 1 + Len(q) : (h \o q)[i] = IF i <= 1 THEN h[i] ELSE q[i - 1]
    <3>1. /\ h \o q \in Seq(Nat) /\ Len(h \o q) = Len(h) + Len(q)
          /\ \A i \in 1 .. Len(h) + Len(q) : (h \o q)[i] = IF i <= Len(h) THEN h[i] ELSE q[i - Len(h)]
      BY ConcatProperties
    <3> QED BY <2>4, <3>1
  <2>6. Len(q) \in Nat
    BY LenProperties
  <2>7. \A i \in 1 .. 1 + Len(q) : (h \o q)[i] = IF i = 1 THEN g ELSE q[i - 1]
    BY <2>4, <2>5, <2>6
  <2>8. 1 + Len(q) = Len(q) + 1
    BY <2>6
  <2>9. /\ WithHead(heads, g, q) \in Seq(Nat) /\ Len(WithHead(heads, g, q)) = Len(q) + 1
        /\ \A i \in 1 .. Len(q) + 1 : WithHead(heads, g, q)[i] = IF i = 1 THEN g ELSE q[i - 1]
    BY <2>3, <2>5, <2>7, <2>8
  <2> QED BY <1>1, <2>9
<1>2. CASE ~heads
  <2>1. WithHead(heads, g, q) = <<>> \o q
    BY <1>2 DEF WithHead
  <2>2. <<>> \o q = q
    BY ConcatEmptySeq
  <2>3. Len(q) \in Nat
    BY LenProperties
  <2> QED BY <1>2, <2>1, <2>2, <2>3
<1> QED BY <1>1, <1>2

\* The members of a group: its head, if groups have one, and one team of each
\* chunk that serves it.
LEMMA MembersAre ==
    ASSUME NEW n, NEW G, NEW heads, NEW order, IsDealing(n, G, heads, order), NEW g \in 1 .. G
    PROVE  LET q == Leagues!MembersOf(g, n, G, heads, order)
               K == Cardinality(Served(g, n, G, heads, order))
           IN /\ q \in Seq(Nat)
              /\ Len(q) = K + (IF heads THEN 1 ELSE 0)
              /\ \A i \in 1 .. Len(q) :
                   q[i] = IF heads THEN (IF i = 1 THEN g ELSE Turn(g, i - 1, G, heads, order))
                          ELSE Turn(g, i, G, heads, order)
<1> DEFINE K == Cardinality(Served(g, n, G, heads, order))
           u == [i \in 1 .. K |-> Turn(g, i, G, heads, order)]
           q == Leagues!MembersOf(g, n, G, heads, order)
<1>1. heads \in BOOLEAN /\ n \in Nat /\ G \in Nat \ {0} /\ g \in Nat
  BY DEF IsDealing
<1>2. K \in Nat /\ Served(g, n, G, heads, order) = 1 .. K
  BY ServedAre
<1>3. u \in Seq(Nat) /\ Len(u) = K /\ \A i \in 1 .. K : u[i] = Turn(g, i, G, heads, order)
  <2>1. ASSUME NEW i \in 1 .. K PROVE Turn(g, i, G, heads, order) \in Nat
    <3>1. i \in 1 .. ChunkCount(n, G, heads)
      BY <1>2 DEF Served
    <3>2. At(g, i, G, order) \in 1 .. G
      BY <3>1, PlacesInChunks
    <3>3. Led(G, heads) \in Nat /\ (i - 1) * G \in Nat
      BY <1>1, <1>2 DEF Led
    <3> QED BY <3>2, <3>3 DEF Turn
  <2> HIDE DEF K
  <2>2. u \in [1 .. K -> Nat]
    BY <2>1
  <2> QED BY <1>2, <2>2
<1>4. q = WithHead(heads, g, u)
  <2>1. Leagues!Chunks(n, G, heads) = 1 .. ChunkCount(n, G, heads)
    BY ChunksAre
  <2> DEFINE turn(c) == (IF heads THEN G ELSE 0) + (c - 1) * G + CHOOSE k \in 1 .. G : order[c][k] = g
             served == {c \in Leagues!Chunks(n, G, heads) : turn(c) <= n}
  <2>2. \A c : turn(c) = Turn(g, c, G, heads, order)
    BY DEF Turn, Led, At
  <2>3. q = (IF heads THEN <<g>> ELSE <<>>) \o [i \in 1 .. Leagues!Cardinality(served) |-> turn(i)]
    BY Zenon DEF Leagues!MembersOf
  <2> HIDE DEF turn, q
  <2>4. served = Served(g, n, G, heads, order)
    BY <2>1, <2>2 DEF Served
  <2> HIDE DEF served
  <2>5. Leagues!Cardinality(served) = K
    BY <2>4, SameCount
  <2>6. [i \in 1 .. Leagues!Cardinality(served) |-> turn(i)] = u
    BY <2>2, <2>5
  <2> QED BY <2>3, <2>6 DEF WithHead
<1> HIDE DEF u, q, K
<1>5. /\ q \in Seq(Nat) /\ Len(q) = K + (IF heads THEN 1 ELSE 0)
      /\ \A i \in 1 .. Len(q) : q[i] = IF heads THEN (IF i = 1 THEN g ELSE u[i - 1]) ELSE u[i]
  <2>1. /\ WithHead(heads, g, u) \in Seq(Nat)
        /\ Len(WithHead(heads, g, u)) = Len(u) + (IF heads THEN 1 ELSE 0)
        /\ \A i \in 1 .. Len(WithHead(heads, g, u)) :
             WithHead(heads, g, u)[i] = IF heads THEN (IF i = 1 THEN g ELSE u[i - 1]) ELSE u[i]
    BY <1>1, <1>3, LedBy
  <2> QED BY <1>3, <1>4, <2>1
<1>6. ASSUME NEW i \in 1 .. Len(q)
      PROVE  q[i] = IF heads THEN (IF i = 1 THEN g ELSE Turn(g, i - 1, G, heads, order))
                    ELSE Turn(g, i, G, heads, order)
  <2>1. CASE heads
    <3>1. i # 1 => i - 1 \in 1 .. K
      BY <1>2, <1>5, <2>1
    <3> QED BY <1>3, <1>5, <2>1, <3>1
  <2>2. CASE ~heads
    <3>1. i \in 1 .. K
      BY <1>2, <1>5, <2>2
    <3> QED BY <1>3, <1>5, <2>2, <3>1
  <2> QED BY <2>1, <2>2
<1> QED BY <1>5, <1>6 DEF q, K

\* Two teams or more, each once.
LEMMA InLine ==
    ASSUME NEW q \in Seq(Nat), Len(q) >= 2, \A i \in 1 .. Len(q) : q[i] \in Nat \ {0},
           \A i, j \in 1 .. Len(q) : q[i] = q[j] => i = j
    PROVE  AreInLine(q)
<1>1. q \in Seq(Nat \ {0})
  <2>1. Len(q) \in Nat /\ q = [i \in 1 .. Len(q) |-> q[i]]
    BY LenProperties
  <2>2. q \in [1 .. Len(q) -> Nat \ {0}]
    BY <2>1
  <2> QED BY <2>1, <2>2
<1> QED BY <1>1 DEF AreInLine

\* The teams of a group, and that they are teams of the stage.
LEMMA TeamsOfGroup ==
    ASSUME NEW n, NEW G, NEW heads, NEW order, IsDealing(n, G, heads, order), NEW g \in 1 .. G
    PROVE  LET q == Leagues!MembersOf(g, n, G, heads, order)
               S == Served(g, n, G, heads, order)
           IN /\ TeamsIn(q) = (IF heads THEN {g} ELSE {}) \cup {Turn(g, c, G, heads, order) : c \in S}
              /\ TeamsIn(q) \subseteq 1 .. n
              /\ Len(q) >= 2 => AreInLine(q)
              /\ \A c \in S : Turn(g, c, G, heads, order) \in Led(G, heads) + 1 .. n
<1> DEFINE q == Leagues!MembersOf(g, n, G, heads, order)
           S == Served(g, n, G, heads, order)
           K == Cardinality(S)
           t(c) == Turn(g, c, G, heads, order)
           led == Led(G, heads)
           C == ChunkCount(n, G, heads)
<1>1. /\ q \in Seq(Nat) /\ Len(q) = K + (IF heads THEN 1 ELSE 0)
      /\ \A i \in 1 .. Len(q) : q[i] = IF heads THEN (IF i = 1 THEN g ELSE t(i - 1)) ELSE t(i)
  BY MembersAre
<1>2. K \in Nat /\ S = 1 .. K
  BY ServedAre
<1>3. /\ heads \in BOOLEAN /\ n \in Nat /\ G \in Nat \ {0} /\ g \in 1 .. G /\ G <= n
      /\ led = IF heads THEN G ELSE 0
  BY DEF IsDealing, Led
<1>4. \A c \in S : c \in 1 .. C /\ t(c) <= n /\ \E x \in 1 .. G : t(c) = led + (c - 1) * G + x
  BY PlacesInChunks DEF Served, Turn
<1> HIDE DEF q, S, K, t, led, C
<1>5. \A c \in S : t(c) \in led + 1 .. n
  <2> TAKE c \in S
  <2>1. PICK x \in 1 .. G : t(c) = led + (c - 1) * G + x
    BY <1>4
  <2>2. (c - 1) * G \in Nat /\ led \in Nat
    BY <1>2, <1>3
  <2>3. x >= 1 /\ x \in Int
    BY <1>3
  <2> QED BY <1>3, <1>4, <2>1, <2>2, <2>3
<1>6. ASSUME NEW c \in S, NEW d \in S, t(c) = t(d) PROVE c = d
  <2>1. PICK x \in 1 .. G, y \in 1 .. G :
            t(c) = led + (c - 1) * G + x /\ t(d) = led + (d - 1) * G + y
    BY <1>4
  <2>2. PICK a \in Nat, b \in Nat : a = c - 1 /\ b = d - 1
    BY <1>2
  <2>3. a * G \in Nat /\ b * G \in Nat /\ led \in Nat /\ x \in Nat /\ y \in Nat
    BY <1>3
  <2>4. led + a * G + x = led + b * G + y
    BY <1>6, <2>1, <2>2
  <2>5. a * G + x = b * G + y
    BY <2>3, <2>4
  <2>6. a = b
    BY <1>3, <2>5, OneBlock
  <2> QED BY <1>2, <2>2, <2>6
<1>7. CASE heads
  <2>1. Len(q) = K + 1 /\ \A i \in 1 .. K + 1 : q[i] = IF i = 1 THEN g ELSE t(i - 1)
    BY <1>1, <1>2, <1>7
  <2>2. \A c \in S : c + 1 \in 1 .. K + 1 /\ c + 1 # 1 /\ (c + 1) - 1 = c
    BY <1>2
  <2>3. \A i \in 1 .. K + 1 : i # 1 => i - 1 \in S
    BY <1>2
  <2>4. TeamsIn(q) = {g} \cup {t(c) : c \in S}
    <3>1. \A i \in 1 .. Len(q) : q[i] \in {g} \cup {t(c) : c \in S}
      BY <2>1, <2>3
    <3>2. ASSUME NEW c \in S PROVE \E i \in 1 .. Len(q) : q[i] = t(c)
      BY <2>1, <2>2
    <3>3. 1 \in 1 .. Len(q) /\ q[1] = g
      BY <1>2, <2>1
    <3> QED BY <3>1, <3>2, <3>3 DEF TeamsIn
  <2>5. \A c \in S : t(c) # g /\ t(c) # 0
    BY <1>3, <1>5, <1>7
  <2>6. ASSUME NEW i \in 1 .. Len(q), NEW j \in 1 .. Len(q), q[i] = q[j] PROVE i = j
    <3>1. CASE i = 1 \/ j = 1
      BY <2>1, <2>3, <2>5, <2>6, <3>1
    <3>2. CASE i # 1 /\ j # 1
      <4>1. i - 1 \in S /\ j - 1 \in S /\ t(i - 1) = t(j - 1)
        BY <2>1, <2>3, <2>6, <3>2
      <4>2. i - 1 = j - 1
        BY <1>6, <4>1
      <4> QED BY <1>2, <2>1, <4>2
    <3> QED BY <3>1, <3>2
  <2>7. \A i \in 1 .. Len(q) : q[i] \in Nat \ {0}
    BY <1>1, <1>3, <2>1, <2>3, <2>5
  <2>8. Len(q) >= 2 => AreInLine(q)
    BY <1>1, <2>6, <2>7, InLine
  <2>9. TeamsIn(q) \subseteq 1 .. n
    BY <1>3, <1>5, <2>4
  <2> QED BY <1>5, <1>7, <2>4, <2>8, <2>9 DEF q, S, t, led
<1>8. CASE ~heads
  <2>1. Len(q) = K /\ \A i \in 1 .. K : q[i] = t(i)
    BY <1>1, <1>2, <1>8
  <2>2. TeamsIn(q) = {t(c) : c \in S}
    BY <1>2, <2>1 DEF TeamsIn
  <2>3. \A i, j \in 1 .. Len(q) : q[i] = q[j] => i = j
    BY <1>2, <1>6, <2>1
  <2>4. \A i \in 1 .. Len(q) : q[i] \in Nat \ {0}
    BY <1>2, <1>3, <1>5, <2>1
  <2>5. Len(q) >= 2 => AreInLine(q)
    BY <1>1, <2>3, <2>4, InLine
  <2>6. TeamsIn(q) \subseteq 1 .. n
    BY <1>3, <1>5, <2>2
  <2> QED BY <1>5, <1>8, <2>2, <2>5, <2>6 DEF q, S, t, led
<1> QED BY <1>3, <1>7, <1>8

\* The teams of a group, as a set.
LEMMA SetOfTeams ==
    ASSUME NEW q \in Seq(Nat)
    PROVE  Leagues!ToSet(q) = TeamsIn(q)
<1>1. DOMAIN q = 1 .. Len(q)
  BY LenProperties
<1> QED BY <1>1 DEF Leagues!ToSet, TeamsIn

\* Every team is dealt out to a group.
LEMMA EveryTeamServed ==
    ASSUME NEW n, NEW G, NEW heads, NEW order, IsDealing(n, G, heads, order), NEW t \in 1 .. n
    PROVE  \E g \in 1 .. G : t \in TeamsIn(Leagues!MembersOf(g, n, G, heads, order))
<1> DEFINE led == Led(G, heads)
           C == ChunkCount(n, G, heads)
<1>1. /\ heads \in BOOLEAN /\ n \in Nat /\ G \in Nat \ {0} /\ G <= n
      /\ led = IF heads THEN G ELSE 0
  BY DEF IsDealing, Led
<1>2. C \in Nat /\ led + C * G >= n /\ order \in [1 .. C -> Leagues!Orders(G)]
  BY ChunksAre DEF IsDealing
<1> HIDE DEF led, C
<1>3. CASE t <= led
  <2>1. heads /\ t \in 1 .. G
    BY <1>1, <1>3
  <2>2. PICK g \in 1 .. G : g = t
    BY <2>1
  <2>3. TeamsIn(Leagues!MembersOf(g, n, G, heads, order))
          = (IF heads THEN {g} ELSE {})
              \cup {Turn(g, c, G, heads, order) : c \in Served(g, n, G, heads, order)}
    BY TeamsOfGroup
  <2>4. g \in TeamsIn(Leagues!MembersOf(g, n, G, heads, order))
    BY <2>1, <2>3
  <2> QED BY <2>2, <2>4
<1>4. CASE t > led
  <2>1. t - led - 1 \in Nat
    BY <1>1, <1>4
  <2>2. PICK a \in Nat, p \in 0 .. G - 1 : t - led - 1 = a * G + p
    BY <1>1, <2>1, InABlock
  <2>3. a * G \in Nat /\ p + 1 \in 1 .. G /\ p \in Nat
    BY <1>1, <2>2
  <2>4. t = led + a * G + (p + 1)
    BY <1>1, <2>2, <2>3
  <2>5. a + 1 \in 1 .. C
    <3>1. SUFFICES ASSUME C <= a PROVE FALSE
      BY <1>2
    <3>2. C * G <= a * G
      <4>1. CASE C = a
        BY <1>1, <1>2, <2>3, <4>1
      <4>2. CASE C < a
        <5>1. C * G + G <= a * G
          BY <1>1, <1>2, <4>2, BlocksApart
        <5>2. C * G \in Nat
          BY <1>1, <1>2
        <5> QED BY <1>1, <2>3, <5>1, <5>2
      <4> QED BY <1>2, <3>1, <4>1, <4>2
    <3>3. C * G \in Nat
      BY <1>1, <1>2
    <3> QED BY <1>1, <1>2, <2>3, <2>4, <3>2, <3>3
  <2> DEFINE g == order[a + 1][p + 1]
  <2>6. g \in 1 .. G
    <3>1. order[a + 1] \in [1 .. G -> 1 .. G]
      BY <1>2, <2>5 DEF Leagues!Orders
    <3> QED BY <2>3, <3>1
  <2>7. At(g, a + 1, G, order) = p + 1
    BY <2>3, <2>5, <2>6, PlacesInChunks DEF C
  <2> HIDE DEF g
  <2>8. Turn(g, a + 1, G, heads, order) = t
    <3>1. (a + 1) - 1 = a
      BY <2>2
    <3> QED BY <2>4, <2>7, <3>1 DEF Turn, led
  <2>9. a + 1 \in Served(g, n, G, heads, order)
    BY <2>5, <2>8 DEF Served, C
  <2>10. t \in TeamsIn(Leagues!MembersOf(g, n, G, heads, order))
    BY <2>6, <2>8, <2>9, TeamsOfGroup
  <2> QED BY <2>6, <2>10
<1> QED BY <1>1, <1>3, <1>4

\* No team is in two groups.
LEMMA NoTeamTwice ==
    ASSUME NEW n, NEW G, NEW heads, NEW order, IsDealing(n, G, heads, order),
           NEW g \in 1 .. G, NEW h \in 1 .. G,
           NEW t \in TeamsIn(Leagues!MembersOf(g, n, G, heads, order)),
           t \in TeamsIn(Leagues!MembersOf(h, n, G, heads, order))
    PROVE  g = h
<1> DEFINE led == Led(G, heads)
<1>1. /\ heads \in BOOLEAN /\ n \in Nat /\ G \in Nat \ {0} /\ led \in Nat
      /\ led = IF heads THEN G ELSE 0
  BY DEF IsDealing, Led
<1>2. /\ (heads /\ t = g) \/ \E c \in Served(g, n, G, heads, order) : t = Turn(g, c, G, heads, order)
      /\ (heads /\ t = h) \/ \E c \in Served(h, n, G, heads, order) : t = Turn(h, c, G, heads, order)
  BY TeamsOfGroup
<1>3. \A f \in 1 .. G : \A c \in Served(f, n, G, heads, order) :
         Turn(f, c, G, heads, order) \in led + 1 .. n
  BY TeamsOfGroup
<1>4. CASE heads /\ (t = g \/ t = h)
  <2>1. t <= led
    BY <1>1, <1>4
  <2>2. \A f \in 1 .. G : \A c \in Served(f, n, G, heads, order) : t # Turn(f, c, G, heads, order)
    BY <1>1, <1>3, <2>1
  <2> QED BY <1>2, <2>2
<1>5. CASE ~(heads /\ (t = g \/ t = h))
  <2>1. PICK c \in Served(g, n, G, heads, order), d \in Served(h, n, G, heads, order) :
            t = Turn(g, c, G, heads, order) /\ t = Turn(h, d, G, heads, order)
    BY <1>2, <1>5
  <2>2. c \in 1 .. ChunkCount(n, G, heads) /\ d \in 1 .. ChunkCount(n, G, heads)
    BY DEF Served
  <2>3. /\ At(g, c, G, order) \in 1 .. G /\ order[c][At(g, c, G, order)] = g
        /\ At(h, d, G, order) \in 1 .. G /\ order[d][At(h, d, G, order)] = h
    BY <2>2, PlacesInChunks
  <2>4. PICK x \in 1 .. G, y \in 1 .. G : x = At(g, c, G, order) /\ y = At(h, d, G, order)
    BY <2>3
  <2>5. PICK a \in Nat, b \in Nat : a = c - 1 /\ b = d - 1
    BY <2>2
  <2>6. t = led + a * G + x /\ t = led + b * G + y
    BY <2>1, <2>4, <2>5 DEF Turn
  <2>7. a * G \in Nat /\ b * G \in Nat /\ x \in Nat /\ y \in Nat
    BY <1>1
  <2>8. a * G + x = b * G + y
    <3> HIDE DEF led
    <3> QED BY <1>1, <2>6, <2>7
  <2>9. a = b /\ x = y
    BY <1>1, <2>8, OneBlock
  <2>10. c = d
    BY <2>2, <2>5, <2>9
  <2> QED BY <2>3, <2>4, <2>9, <2>10
<1> QED BY <1>4, <1>5

\* The groups are even, and every head is in its own.
LEMMA GroupsAreEven ==
    ASSUME NEW n, NEW G, NEW heads, NEW order, IsDealing(n, G, heads, order)
    PROVE  /\ Leagues!AreEven(1 .. n, [g \in 1 .. G |-> Leagues!MembersOf(g, n, G, heads, order)])
           /\ heads => \A g \in 1 .. G : g \in Leagues!ToSet(Leagues!MembersOf(g, n, G, heads, order))
<1> DEFINE q(g) == Leagues!MembersOf(g, n, G, heads, order)
           groups == [g \in 1 .. G |-> q(g)]
<1>1. \A g \in 1 .. G : q(g) \in Seq(Nat) /\ Leagues!ToSet(q(g)) = TeamsIn(q(g)) /\ groups[g] = q(g)
  BY MembersAre, SetOfTeams
<1>2. \A g \in 1 .. G : TeamsIn(q(g)) \subseteq 1 .. n /\ (heads => g \in TeamsIn(q(g)))
  BY TeamsOfGroup
<1>3. \A t \in 1 .. n : \E g \in 1 .. G : t \in TeamsIn(q(g))
  BY EveryTeamServed
<1>4. \A g, h \in 1 .. G : g # h => TeamsIn(q(g)) \cap TeamsIn(q(h)) = {}
  BY NoTeamTwice
<1>5. ASSUME NEW g \in 1 .. G, NEW h \in 1 .. G PROVE Len(q(g)) - Len(q(h)) <= 1
  <2> DEFINE K == Cardinality(Served(g, n, G, heads, order))
             M == Cardinality(Served(h, n, G, heads, order))
             C == ChunkCount(n, G, heads)
  <2>1. Len(q(g)) = K + (IF heads THEN 1 ELSE 0) /\ Len(q(h)) = M + (IF heads THEN 1 ELSE 0)
    BY MembersAre
  <2>2. K \in Nat /\ K <= C /\ M \in Nat /\ M >= C - 1 /\ C \in Nat
    BY ServedAre, ChunksAre
  <2> HIDE DEF K, M, C, q
  <2>3. heads \in BOOLEAN
    BY DEF IsDealing
  <2> QED BY <2>1, <2>2, <2>3
<1>6. DOMAIN groups = 1 .. G
  OBVIOUS
<1> HIDE DEF q, groups
<1>7. UNION {Leagues!ToSet(groups[g]) : g \in 1 .. G} = 1 .. n
  BY <1>1, <1>2, <1>3
<1>8. \A g \in 1 .. G, h \in 1 .. G :
        /\ Len(groups[g]) - Len(groups[h]) <= 1
        /\ g # h => Leagues!ToSet(groups[g]) \cap Leagues!ToSet(groups[h]) = {}
  BY <1>1, <1>4, <1>5
<1>9. Leagues!AreEven(1 .. n, groups)
  BY <1>6, <1>7, <1>8 DEF Leagues!AreEven
<1> QED BY <1>1, <1>2, <1>9 DEF groups, q

\* The teams of a league are in line from the start.
LEMMA LeagueInLine ==
    ASSUME NEW n \in Nat \ {0, 1}
    PROVE  AreInLine([t \in 1 .. n |-> t]) /\ TeamsIn([t \in 1 .. n |-> t]) = 1 .. n
<1> DEFINE s == [t \in 1 .. n |-> t]
<1>1. s \in Seq(Nat \ {0}) /\ s \in Seq(Nat) /\ Len(s) = n /\ \A i \in 1 .. n : s[i] = i
  <2>1. s \in [1 .. n -> Nat \ {0}] /\ s \in [1 .. n -> Nat]
    OBVIOUS
  <2> QED BY <2>1, SeqDef, LenProperties
<1> HIDE DEF s
<1>2. TeamsIn(s) = 1 .. n
  BY <1>1 DEF TeamsIn
<1>3. AreInLine(s)
  BY <1>1 DEF AreInLine
<1> QED BY <1>2, <1>3 DEF s

\* When no team is alone in its group, each group plays a fair calendar.
LEMMA GroupsAreFair ==
    ASSUME NEW n, NEW G, NEW heads, NEW order, IsDealing(n, G, heads, order),
           Leagues!EnoughTeams(n, G, heads, order), NEW g \in 1 .. G
    PROVE  Leagues!IsFair(Leagues!ToSet(Leagues!MembersOf(g, n, G, heads, order)), 2,
                          Leagues!RoundRobin(Leagues!MembersOf(g, n, G, heads, order), 2))
<1> DEFINE q == Leagues!MembersOf(g, n, G, heads, order)
<1>1. q \in Seq(Nat)
  BY MembersAre
<1>2. Len(q) >= 2
  BY DEF Leagues!EnoughTeams
<1>3. AreInLine(q)
  BY <1>2, TeamsOfGroup
<1> HIDE DEF q
<1>4. Leagues!ToSet(q) = TeamsIn(q)
  BY <1>1, SetOfTeams
<1>5. Leagues!IsFair(TeamsIn(q), 2, Leagues!RoundRobin(q, 2))
  BY <1>3, RoundRobinIsFair
<1>6. Leagues!IsFair(Leagues!ToSet(q), 2, Leagues!RoundRobin(q, 2))
  BY <1>4, <1>5
<1> QED BY <1>6 DEF q

-------------------------------------------------------------------------------
(* The brackets and calendars of MCDraws.                                  *)

\* What a case of each kind is.
LEMMA CasesAre ==
    ASSUME DrawsInit
    PROVE  /\ case.kind \in {"single", "double"} => case \in BracketCases
           /\ case.kind = "league" => case.teams \in Nat \ {0, 1} /\ case.legs \in {1, 2}
           /\ case.kind = "groups" =>
                /\ IsDealing(case.teams, case.groups, case.heads, case.order)
                /\ Leagues!EnoughTeams(case.teams, case.groups, case.heads, case.order)
<1>1. ASSUME case \in BracketCases PROVE case.kind \in {"single", "double"}
  BY <1>1 DEF BracketCases
<1>2. ASSUME case \in LeagueCases
      PROVE  case.kind = "league" /\ case.teams \in Nat \ {0, 1} /\ case.legs \in {1, 2}
  BY <1>2, BoundsAssumption DEF LeagueCases
<1>3. ASSUME case \in GroupCases
      PROVE  /\ case.kind = "groups"
             /\ IsDealing(case.teams, case.groups, case.heads, case.order)
             /\ Leagues!EnoughTeams(case.teams, case.groups, case.heads, case.order)
  <2> DEFINE some(n, g, h) == [kind : {"groups"}, teams : {n}, groups : {g}, heads : {h},
                               order : [Leagues!Chunks(n, g, h) -> Leagues!Orders(g)]]
  <2>1. /\ case \in Dealings /\ case.groups <= case.teams
        /\ Leagues!EnoughTeams(case.teams, case.groups, case.heads, case.order)
    BY <1>3 DEF GroupCases
  <2>2. Dealings = UNION {some(n, g, h) : n \in 4 .. MaxGrouped, g \in {2, 3}, h \in BOOLEAN}
    BY DEF Dealings
  <2>3. \A n, g, h : \A c \in some(n, g, h) :
          /\ c.kind = "groups" /\ c.teams = n /\ c.groups = g /\ c.heads = h
          /\ c.order \in [Leagues!Chunks(n, g, h) -> Leagues!Orders(g)]
    OBVIOUS
  <2> HIDE DEF some
  <2>4. PICK n \in 4 .. MaxGrouped, g \in {2, 3}, h \in BOOLEAN : case \in some(n, g, h)
    BY <2>1, <2>2
  <2>5. /\ case.kind = "groups" /\ case.teams = n /\ case.groups = g /\ case.heads = h
        /\ case.order \in [Leagues!Chunks(n, g, h) -> Leagues!Orders(g)]
    BY <2>3, <2>4
  <2>6. n \in Nat /\ g \in Nat \ {0}
    BY BoundsAssumption
  <2>7. IsDealing(case.teams, case.groups, case.heads, case.order)
    BY <2>1, <2>5, <2>6 DEF IsDealing
  <2> QED BY <2>1, <2>5, <2>7
<1>4. ASSUME case \in TableCases PROVE case.kind = "table"
  <2>1. PICK x \in Results(1, 2), y \in Results(1, 3), z \in Results(2, 3),
             p \in ReturnResults(2, 1), q \in ReturnResults(3, 1), r \in ReturnResults(3, 2),
             pipeline \in Pipelines, rounds \in {1, 2} :
          case = [kind |-> "table", group |-> [t \in 1 .. 3 |-> "single"],
                  matches |-> UNION {x, y, z, p, q, r}, win |-> 3, draw |-> 1, loss |-> 0,
                  pipeline |-> pipeline, rounds |-> rounds, hash |-> <<2, 3, 1>>]
    BY <1>4 DEF TableCases
  <2> QED BY <2>1
<1>5. \/ case \in {[kind |-> "swiss"], [kind |-> "stage"]} \/ case \in BracketCases
      \/ case \in LeagueCases \/ case \in GroupCases \/ case \in TableCases
  BY DEF DrawsInit
<1>6. CASE case \in {[kind |-> "swiss"], [kind |-> "stage"]}
  <2>1. case.kind \in {"swiss", "stage"}
    BY <1>6
  <2> QED BY <2>1
<1>7. CASE case \in BracketCases
  BY <1>1, <1>7
<1>8. CASE case \in LeagueCases
  BY <1>2, <1>8
<1>9. CASE case \in GroupCases
  BY <1>3, <1>9
<1>10. CASE case \in TableCases
  BY <1>4, <1>10
<1> QED BY <1>5, <1>6, <1>7, <1>8, <1>9, <1>10

\* DrawIsABracket, for every bound on the number of teams: the run checks each of
\* them up to a bound, and the proof goes by induction over the rounds of the draw.
THEOREM EveryDrawIsABracket == DrawsSpec => []DrawIsABracket
<1>1. DrawsInit => DrawIsABracket
  <2> SUFFICES ASSUME DrawsInit, case.kind \in {"single", "double"}
               PROVE  Brackets!IsABracket(case.kind, case.teams, Brackets!Drawn(case.kind, case.teams))
    BY DEF DrawIsABracket
  <2>1. case \in BracketCases
    BY CasesAre
  <2>2. CASE case \in [kind : {"single"}, teams : 2 .. MaxSingle]
    <3>1. case.kind = "single" /\ case.teams \in Nat \ {0, 1}
      BY <2>2, BoundsAssumption
    <3> QED BY <3>1, WhatIsDrawn
  <2>3. CASE case \in [kind : {"double"}, teams : {Brackets!Power[k] : k \in 2 .. MaxPower}]
    <3>1. PICK k \in 2 .. MaxPower : case.teams = Brackets!Power[k]
      BY <2>3
    <3>2. case.kind = "double" /\ k \in Nat \ {0, 1}
      BY <2>3, BoundsAssumption
    <3> QED BY <3>1, <3>2, WhatIsDrawn
  <2> QED BY <2>1, <2>2, <2>3 DEF BracketCases
<1>2. DrawIsABracket /\ [DrawsNext]_drawsVars => DrawIsABracket'
  <2>1. [DrawsNext]_drawsVars => case' = case
    BY DEF DrawsNext, drawsVars
  <2> QED BY <2>1 DEF DrawIsABracket
<1> QED BY <1>1, <1>2, PTL DEF DrawsSpec

\* For any number of teams, in one leg or two, and for any number of groups dealt out in
\* any order, with heads or without, generate_round_robin_fixture gives a calendar in
\* which every two teams meet once in each leg, nobody plays twice in a round, and those
\* who rest do so equally often; and distribute_groups leaves no team out, puts none in
\* two groups and makes the groups even.
THEOREM EveryCalendarIsFair == DrawsSpec => []CalendarIsFair
<1>1. DrawsInit => CalendarIsFair
  <2> SUFFICES ASSUME DrawsInit PROVE CalendarIsFair
    OBVIOUS
  <2>1. CASE case.kind = "league"
    <3>1. case.teams \in Nat \ {0, 1} /\ case.legs \in {1, 2}
      BY <2>1, CasesAre
    <3>2. PICK n \in Nat \ {0, 1}, legs \in {1, 2} : case.teams = n /\ case.legs = legs
      BY <3>1
    <3> DEFINE s == [t \in 1 .. n |-> t]
    <3>3. AreInLine(s) /\ TeamsIn(s) = 1 .. n
      BY LeagueInLine
    <3> HIDE DEF s
    <3>4. /\ Leagues!IsFair(TeamsIn(s), legs, Leagues!RoundRobin(s, legs))
          /\ Leagues!ByesAreEven(TeamsIn(s), legs, Leagues!RoundRobin(s, legs))
      BY <3>3, RoundRobinIsFair
    <3>5. /\ Leagues!IsFair(1 .. n, legs, Leagues!RoundRobin(s, legs))
          /\ Leagues!ByesAreEven(1 .. n, legs, Leagues!RoundRobin(s, legs))
      BY <3>3, <3>4
    <3> QED BY <2>1, <3>2, <3>5 DEF CalendarIsFair, s
  <2>2. CASE case.kind = "groups"
    <3>1. /\ IsDealing(case.teams, case.groups, case.heads, case.order)
          /\ Leagues!EnoughTeams(case.teams, case.groups, case.heads, case.order)
      BY <2>2, CasesAre
    <3>2. PICK n, G, heads, order :
            case.teams = n /\ case.groups = G /\ case.heads = heads /\ case.order = order
      OBVIOUS
    <3>3. IsDealing(n, G, heads, order) /\ Leagues!EnoughTeams(n, G, heads, order)
      BY <3>1, <3>2
    <3>4. /\ Leagues!AreEven(1 .. n, [g \in 1 .. G |-> Leagues!MembersOf(g, n, G, heads, order)])
          /\ heads => \A g \in 1 .. G : g \in Leagues!ToSet(Leagues!MembersOf(g, n, G, heads, order))
      BY <3>3, GroupsAreEven
    <3>5. \A g \in 1 .. G :
            Leagues!IsFair(Leagues!ToSet(Leagues!MembersOf(g, n, G, heads, order)), 2,
                           Leagues!RoundRobin(Leagues!MembersOf(g, n, G, heads, order), 2))
      BY <3>3, GroupsAreFair
    <3> QED BY <2>2, <3>2, <3>4, <3>5 DEF CalendarIsFair
  <2>3. CASE case.kind \notin {"league", "groups"}
    BY <2>3 DEF CalendarIsFair
  <2> QED BY <2>1, <2>2, <2>3
<1>2. CalendarIsFair /\ [DrawsNext]_drawsVars => CalendarIsFair'
  <2>1. [DrawsNext]_drawsVars => case' = case
    BY DEF DrawsNext, drawsVars
  <2> QED BY <2>1 DEF CalendarIsFair
<1> QED BY <1>1, <1>2, PTL DEF DrawsSpec

------------------------------------------------------------------------------
(* The two stages side by side.                                            *)

\* The steps of MCDraws are steps of each stage, or leave it alone: the stages keep
\* their types, and a Swiss pair is of two teams, for every value of the constants.
THEOREM DrawsTypes == DrawsSpec => []DrawsTypeOK
<1>1. DrawsInit => Init /\ LeagueInit
  BY DEF DrawsInit
<1>2. [DrawsNext]_drawsVars => [Next]_vars /\ [LeagueNext]_leagueVars
  BY DEF DrawsNext, drawsVars
<1>3. DrawsSpec => Spec /\ LeagueSpec
  BY <1>1, <1>2, PTL DEF DrawsSpec, Spec, LeagueSpec
<1>4. SwissInv /\ LeagueTypeOK => DrawsTypeOK
  BY DEF SwissInv, DrawsTypeOK
<1> QED BY <1>3, <1>4, SwissInvariant, LeagueTypes, PTL
===============================================================================
