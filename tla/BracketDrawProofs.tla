-------------------------- MODULE BracketDrawProofs ---------------------------
(***************************************************************************)
(* What tournaments/scheduling.py draws is a bracket, whatever the number  *)
(* of teams: the run draws checks IsABracket up to a bound, here it is     *)
(* proved of the double elimination of every power of two not below four   *)
(* and of the single elimination of every number of teams not below two.   *)
(*                                                                         *)
(* IsABracket counts entries and links; both proofs say of each entrant    *)
(* where its slot is (BracketBySlots).  In a double elimination that is    *)
(* read off the rounds, which halve (DoubleEntrants, DoubleGoesOn).  The   *)
(* single elimination is a loop: SoFar is what holds after each of its     *)
(* rounds, and an induction over the rounds (AllNumbers) carries it from   *)
(* the teams to the champion.                                              *)
(***************************************************************************)
EXTENDS BracketDraw, FiniteSetTheorems, SequenceTheorems, TLAPS

-------------------------------------------------------------------------------
(* Numbers.  A set of numbers stands for the property of its members: the  *)
(* induction theorems of the library take an operator.                     *)

\* A nonempty set of numbers has a least element.
LEMMA LeastExists ==
    ASSUME NEW S \in SUBSET Nat, S # {}
    PROVE  \E n \in S : \A k \in S : n <= k
<1> DEFINE R == OpToRel(<, Nat)
<1>1. IsWellFoundedOn(R, Nat)
  BY NatLessThanWellFounded
<1>2. \A k, n \in Nat : k < n => <<k, n>> \in R
  BY DEF OpToRel
<1> HIDE DEF R
<1>3. PICK n \in S : \A k \in S : <<k, n>> \notin R
  BY <1>1, WFMin
<1>4. ASSUME NEW k \in S PROVE n <= k
  <2>1. k \in Nat /\ n \in Nat /\ ~(k < n)
    BY <1>2, <1>3
  <2> QED BY <2>1
<1> QED BY <1>4

\* A set of numbers with 0 and the successor of each of its members has them all.
LEMMA AllNumbers ==
    ASSUME NEW S \in SUBSET Nat, 0 \in S, \A n \in S : n + 1 \in S
    PROVE  S = Nat
<1> SUFFICES ASSUME Nat \ S # {} PROVE FALSE
  OBVIOUS
<1>1. PICK n \in Nat \ S : \A k \in Nat \ S : n <= k
  BY LeastExists
<1>2. n # 0 /\ n - 1 \in Nat
  BY <1>1
<1>3. n - 1 \in S
  BY <1>1, <1>2
<1>4. (n - 1) + 1 \in S
  BY <1>3
<1> QED BY <1>1, <1>4

\* The first powers of two, as a function on 0 .. n.
IsPower(g, n) ==
    g \in [0 .. n -> Nat \ {0}] /\ \A k \in 0 .. n : g[k] = IF k = 0 THEN 1 ELSE 2 * g[k - 1]

\* Power is a recursive function: there are functions that do what it says, on any
\* prefix of the numbers, and they agree.
LEMMA PowersExist == \A n \in Nat : \E g : IsPower(g, n)
<1> DEFINE S == {n \in Nat : \E g : IsPower(g, n)}
<1>1. 0 \in S
  <2>1. IsPower([k \in 0 .. 0 |-> 1], 0)
    BY DEF IsPower
  <2> QED BY <2>1
<1>2. ASSUME NEW n \in S PROVE n + 1 \in S
  <2>1. PICK g : IsPower(g, n)
    OBVIOUS
  <2> DEFINE h == [k \in 0 .. n + 1 |-> IF k = n + 1 THEN 2 * g[n] ELSE g[k]]
  <2>2. n \in Nat /\ g[n] \in Nat \ {0}
    BY <2>1 DEF IsPower
  <2>3. h \in [0 .. n + 1 -> Nat \ {0}]
    <3>1. ASSUME NEW k \in 0 .. n + 1, k # n + 1 PROVE k \in 0 .. n /\ g[k] \in Nat \ {0}
      BY <2>1, <2>2, <3>1 DEF IsPower
    <3>2. 2 * g[n] \in Nat \ {0}
      BY <2>2
    <3> QED BY <3>1, <3>2
  <2>4. ASSUME NEW k \in 0 .. n + 1 PROVE h[k] = IF k = 0 THEN 1 ELSE 2 * h[k - 1]
    <3>1. CASE k = n + 1
      <4>1. h[k] = 2 * g[n] /\ k # 0 /\ k - 1 = n /\ k - 1 \in 0 .. n + 1 /\ k - 1 # n + 1
        BY <2>2, <3>1
      <4>2. h[k - 1] = g[n]
        BY <4>1
      <4> QED BY <4>1, <4>2
    <3>2. CASE k # n + 1
      <4>1. k \in 0 .. n /\ h[k] = g[k]
        BY <2>2, <3>2
      <4>2. k # 0 => k - 1 \in 0 .. n + 1 /\ k - 1 # n + 1 /\ h[k - 1] = g[k - 1]
        BY <2>2, <4>1
      <4> HIDE DEF h
      <4> QED BY <2>1, <4>1, <4>2 DEF IsPower
    <3> QED BY <3>1, <3>2
  <2>5. IsPower(h, n + 1)
    BY <2>3, <2>4 DEF IsPower
  <2> HIDE DEF h
  <2> QED BY <2>2, <2>5
<1> HIDE DEF S
<1>3. S = Nat
  BY <1>1, <1>2, AllNumbers DEF S
<1> QED BY <1>3 DEF S

\* Two of them agree where both are defined.
LEMMA PowersAgree ==
    ASSUME NEW m \in Nat, NEW n \in Nat, NEW f, NEW g, IsPower(f, m), IsPower(g, n)
    PROVE  \A k \in Nat : k <= m /\ k <= n => f[k] = g[k]
<1> DEFINE S == {k \in Nat : k <= m /\ k <= n => f[k] = g[k]}
<1>1. 0 \in S
  BY DEF IsPower
<1>2. ASSUME NEW k \in S PROVE k + 1 \in S
  <2> SUFFICES ASSUME k + 1 <= m, k + 1 <= n PROVE f[k + 1] = g[k + 1]
    OBVIOUS
  <2>1. k \in Nat /\ k + 1 \in 0 .. m /\ k + 1 \in 0 .. n /\ k + 1 # 0 /\ (k + 1) - 1 = k
    OBVIOUS
  <2>2. f[k + 1] = 2 * f[k] /\ g[k + 1] = 2 * g[k]
    BY <2>1 DEF IsPower
  <2>3. f[k] = g[k]
    BY <2>1
  <2> QED BY <2>2, <2>3
<1> HIDE DEF S
<1>3. S = Nat
  BY <1>1, <1>2, AllNumbers DEF S
<1> QED BY <1>3 DEF S

\* Power is what its definition says, and it is never 0.
LEMMA PowerIsRight ==
    /\ Power[0] = 1
    /\ \A k \in Nat : Power[k] \in Nat \ {0} /\ Power[k + 1] = 2 * Power[k]
<1> DEFINE g(n) == CHOOSE h : IsPower(h, n)
           f == [n \in Nat |-> g(n)[n]]
<1>1. \A n \in Nat : IsPower(g(n), n)
  BY PowersExist
<1> HIDE DEF g
<1>2. \A n \in Nat : f[n] \in Nat \ {0}
  BY <1>1 DEF IsPower
<1>3. ASSUME NEW n \in Nat PROVE f[n] = IF n = 0 THEN 1 ELSE 2 * f[n - 1]
  <2>1. g(n)[n] = IF n = 0 THEN 1 ELSE 2 * g(n)[n - 1]
    BY <1>1 DEF IsPower
  <2>2. n # 0 => n - 1 \in Nat /\ n - 1 <= n
    OBVIOUS
  <2>3. n # 0 => g(n)[n - 1] = g(n - 1)[n - 1]
    BY <1>1, <2>2, PowersAgree
  <2> QED BY <2>1, <2>2, <2>3
<1> HIDE DEF f
<1>4. f = [k \in Nat |-> IF k = 0 THEN 1 ELSE 2 * f[k - 1]]
  BY <1>3 DEF f
<1>5. Power = [k \in Nat |-> IF k = 0 THEN 1 ELSE 2 * Power[k - 1]]
  BY <1>4, Zenon DEF Power
<1>6. \A k \in Nat : Power[k] = IF k = 0 THEN 1 ELSE 2 * Power[k - 1]
  BY <1>5
<1>7. \A k \in Nat : Power[k + 1] = 2 * Power[k]
  <2> TAKE k \in Nat
  <2>1. k + 1 \in Nat /\ k + 1 # 0 /\ (k + 1) - 1 = k
    OBVIOUS
  <2> QED BY <1>6, <2>1
<1> DEFINE S == {k \in Nat : Power[k] \in Nat \ {0}}
<1>8. 0 \in S
  BY <1>6
<1>9. \A k \in S : k + 1 \in S
  BY <1>7
<1> HIDE DEF S
<1>10. S = Nat
  BY <1>8, <1>9, AllNumbers DEF S
<1> QED BY <1>6, <1>7, <1>10 DEF S

\* More rounds are for more teams, and k rounds for more than k.
LEMMA PowersGrow ==
    /\ \A k \in Nat : k < Power[k]
    /\ \A j, k \in Nat : j < k => 2 * Power[j] <= Power[k]
<1>1. \A k \in Nat : Power[k] \in Nat \ {0} /\ Power[k + 1] = 2 * Power[k] /\ Power[0] = 1
  BY PowerIsRight
<1> DEFINE S == {k \in Nat : k < Power[k]}
           T == {k \in Nat : \A j \in Nat : j < k => 2 * Power[j] <= Power[k]}
<1>2. 0 \in S /\ 0 \in T
  BY <1>1
<1>3. \A k \in S : k + 1 \in S
  BY <1>1
<1>4. ASSUME NEW k \in T PROVE k + 1 \in T
  <2> SUFFICES ASSUME NEW j \in Nat, j < k + 1 PROVE 2 * Power[j] <= Power[k + 1]
    OBVIOUS
  <2>1. k \in Nat /\ (j = k \/ j < k)
    OBVIOUS
  <2>2. j < k => 2 * Power[j] <= Power[k]
    BY <2>1
  <2> QED BY <1>1, <2>1, <2>2
<1> HIDE DEF S, T
<1>5. S = Nat /\ T = Nat
  BY <1>2, <1>3, <1>4, AllNumbers DEF S, T
<1> QED BY <1>5 DEF S, T

\* The number of rounds is the least that is enough for the teams.
LEMMA RoundsAreEnough ==
    ASSUME NEW n \in Nat \ {0}
    PROVE  /\ RoundsFor(n) \in 0 .. n
           /\ Power[RoundsFor(n)] >= n
           /\ \A j \in 0 .. RoundsFor(n) - 1 : Power[j] < n
<1> DEFINE S == {k \in Nat : Power[k] >= n}
<1>1. n \in S
  BY PowersGrow, PowerIsRight
<1> HIDE DEF S
<1>2. PICK k \in S : \A j \in S : k <= j
  BY <1>1, LeastExists DEF S
<1>3. k \in 0 .. n /\ Power[k] >= n
  BY <1>1, <1>2 DEF S
<1>4. ASSUME NEW j \in 0 .. k - 1 PROVE Power[j] < n
  <2>1. j \in Nat /\ j \notin S
    BY <1>2, <1>3
  <2> QED BY <2>1, PowerIsRight DEF S
<1> QED BY <1>3, <1>4 DEF RoundsFor

\* A power of two takes as many rounds as its exponent.
LEMMA RoundsOfPower ==
    ASSUME NEW k \in Nat
    PROVE  RoundsFor(Power[k]) = k
<1> DEFINE r == RoundsFor(Power[k])
<1>1. Power[k] \in Nat \ {0}
  BY PowerIsRight
<1>2. r \in Nat /\ Power[r] >= Power[k] /\ \A j \in 0 .. r - 1 : Power[j] < Power[k]
  BY <1>1, RoundsAreEnough
<1> HIDE DEF r
<1>3. ~(r < k)
  BY <1>1, <1>2, PowersGrow, PowerIsRight
<1>4. ~(k < r)
  BY <1>1, <1>2
<1> QED BY <1>2, <1>3, <1>4 DEF r
-------------------------------------------------------------------------------
(* Slots.  IsABracket counts slots and links; what is proved of each kind  *)
(* of bracket is where an entrant is.                                      *)

\* An entrant is in one slot of the bracket, or in none.
HasOneSlot(bracket, e) ==
    \E x \in bracket, s \in Sides :
        x[s] = e /\ \A y \in bracket, t \in Sides : y[t] = e => y = x /\ t = s

HasNoSlot(bracket, e) == \A y \in bracket, t \in Sides : y[t] # e

\* A slot is of a team of the draw or of whoever leaves a match of the bracket.
NoByes(n, bracket) ==
    \A x \in bracket, s \in Sides :
        \/ \E i \in 1 .. n : x[s] = Entry(i)
        \/ \E m \in MatchIds(bracket), outcome \in {"winner", "loser"} : x[s] = From(m, outcome)

\* A slot for whoever leaves a match is a link from that match, and there are no others.
LEMMA LinksBySlots ==
    ASSUME NEW n, NEW bracket, NoByes(n, bracket)
    PROVE  /\ \A x \in bracket, s \in Sides : \A m, outcome : x[s] = From(m, outcome) =>
                 [source |-> m, target |-> x.match, side |-> s, outcome |-> outcome] \in Links(bracket)
           /\ \A l \in Links(bracket) : \E x \in bracket, s \in Sides :
                 /\ x[s] = From(l.source, l.outcome)
                 /\ l = [source |-> l.source, target |-> x.match, side |-> s, outcome |-> l.outcome]
<1>1. ASSUME NEW x \in bracket, NEW s \in Sides, NEW m, NEW outcome, x[s] = From(m, outcome)
      PROVE  [source |-> m, target |-> x.match, side |-> s, outcome |-> outcome] \in Links(bracket)
  <2>1. x[s].kind = "from" /\ x[s].match = m /\ x[s].outcome = outcome
    BY <1>1 DEF From
  <2> QED BY <2>1 DEF Links
<1>2. ASSUME NEW l \in Links(bracket)
      PROVE  \E x \in bracket, s \in Sides :
                 /\ x[s] = From(l.source, l.outcome)
                 /\ l = [source |-> l.source, target |-> x.match, side |-> s, outcome |-> l.outcome]
  <2>1. PICK x \in bracket, s \in Sides :
            /\ x[s].kind = "from"
            /\ l = [source  |-> x[s].match, target |-> x.match, side |-> s, outcome |-> x[s].outcome]
    BY DEF Links
  <2>2. \A i : x[s] # Entry(i)
    BY <2>1 DEF Entry
  <2>3. PICK m, outcome : x[s] = From(m, outcome)
    BY <2>2 DEF NoByes
  <2>4. x[s].match = m /\ x[s].outcome = outcome
    BY <2>3 DEF From
  <2>5. l.source = m /\ l.outcome = outcome
    BY <2>1, <2>4
  <2> QED BY <2>1, <2>3, <2>4, <2>5
<1> QED BY <1>1, <1>2

\* One slot is one link.
LEMMA SlotsAreLinks ==
    ASSUME NEW n, NEW bracket, NoByes(n, bracket), NEW m, NEW outcome
    PROVE  LET leaving == {l \in Links(bracket) : l.source = m /\ l.outcome = outcome} IN
           /\ HasOneSlot(bracket, From(m, outcome)) => \E l \in Links(bracket) : leaving = {l}
           /\ HasNoSlot(bracket, From(m, outcome)) => leaving = {}
<1> DEFINE leaving == {l \in Links(bracket) : l.source = m /\ l.outcome = outcome}
<1>1. ASSUME HasOneSlot(bracket, From(m, outcome)) PROVE \E l \in Links(bracket) : leaving = {l}
  <2>1. PICK x \in bracket, s \in Sides :
           x[s] = From(m, outcome) /\ \A y \in bracket, t \in Sides : y[t] = From(m, outcome) => y = x /\ t = s
    BY <1>1 DEF HasOneSlot
  <2> DEFINE l == [source |-> m, target |-> x.match, side |-> s, outcome |-> outcome]
  <2>2. l \in leaving
    BY <2>1, LinksBySlots
  <2>3. ASSUME NEW k \in leaving PROVE k = l
    <3>1. k \in Links(bracket) /\ k.source = m /\ k.outcome = outcome
      OBVIOUS
    <3>2. PICK y \in bracket, t \in Sides :
              /\ y[t] = From(k.source, k.outcome)
              /\ k = [source |-> k.source, target |-> y.match, side |-> t, outcome |-> k.outcome]
      BY <3>1, LinksBySlots
    <3>3. y = x /\ t = s
      BY <2>1, <3>1, <3>2
    <3> QED BY <3>1, <3>2, <3>3
  <2> HIDE DEF l
  <2>4. leaving = {l}
    BY <2>2, <2>3
  <2> QED BY <2>2, <2>4
<1>2. ASSUME HasNoSlot(bracket, From(m, outcome)) PROVE leaving = {}
  <2> SUFFICES ASSUME NEW l \in leaving PROVE FALSE
    OBVIOUS
  <2>1. l \in Links(bracket) /\ l.source = m /\ l.outcome = outcome
    OBVIOUS
  <2>2. PICK y \in bracket, t \in Sides : y[t] = From(l.source, l.outcome)
    BY <2>1, LinksBySlots
  <2> QED BY <1>2, <2>1, <2>2 DEF HasNoSlot
<1> QED BY <1>1, <1>2

\* What IsABracket says of entries and links, slot by slot.
LEMMA BracketBySlots ==
    ASSUME NEW format, NEW n, NEW bracket, NoByes(n, bracket),
           \A i \in 1 .. n : HasOneSlot(bracket, Entry(i)),
           LastMatch(format, n) \in MatchIds(bracket),
           \A m \in MatchIds(bracket) :
              /\ IF m = LastMatch(format, n) THEN HasNoSlot(bracket, From(m, "winner"))
                 ELSE HasOneSlot(bracket, From(m, "winner"))
              /\ IF m[1] = "winners" THEN HasOneSlot(bracket, From(m, "loser"))
                 ELSE HasNoSlot(bracket, From(m, "loser"))
    PROVE  EveryTeamEntersOnce(n, bracket) /\ EveryoneGoesOnOnce(format, n, bracket)
<1>1. ASSUME NEW i \in 1 .. n
      PROVE  \E p \in bracket \X Sides : {q \in bracket \X Sides : q[1][q[2]] = Entry(i)} = {p}
  <2>1. PICK x \in bracket, s \in Sides :
           x[s] = Entry(i) /\ \A y \in bracket, t \in Sides : y[t] = Entry(i) => y = x /\ t = s
    BY DEF HasOneSlot
  <2>2. ASSUME NEW q \in bracket \X Sides PROVE q[1][q[2]] = Entry(i) <=> q = <<x, s>>
    <3>1. q = <<q[1], q[2]>> /\ q[1] \in bracket /\ q[2] \in Sides
      OBVIOUS
    <3>2. ASSUME q[1][q[2]] = Entry(i) PROVE q = <<x, s>>
      BY <2>1, <3>1, <3>2
    <3>3. ASSUME q = <<x, s>> PROVE q[1][q[2]] = Entry(i)
      BY <2>1, <3>3
    <3> QED BY <3>2, <3>3
  <2>3. {q \in bracket \X Sides : q[1][q[2]] = Entry(i)} = {<<x, s>>}
    <3>1. <<x, s>> \in bracket \X Sides
      OBVIOUS
    <3> QED BY <2>2, <3>1
  <2> QED BY <2>3
<1>2. EveryTeamEntersOnce(n, bracket)
  BY <1>1 DEF EveryTeamEntersOnce, NoByes
<1>3. EveryoneGoesOnOnce(format, n, bracket)
  <2> DEFINE leaving(m, outcome) == {l \in Links(bracket) : l.source = m /\ l.outcome = outcome}
             goesOn(m, outcome) == \E l \in Links(bracket) : leaving(m, outcome) = {l}
  <2>1. ASSUME NEW m \in MatchIds(bracket)
        PROVE  /\ IF m = LastMatch(format, n) THEN leaving(m, "winner") = {} ELSE goesOn(m, "winner")
               /\ IF m[1] = "winners" THEN goesOn(m, "loser") ELSE leaving(m, "loser") = {}
    <3>1. \A outcome : HasOneSlot(bracket, From(m, outcome)) => goesOn(m, outcome)
      BY SlotsAreLinks
    <3>2. \A outcome : HasNoSlot(bracket, From(m, outcome)) => leaving(m, outcome) = {}
      BY SlotsAreLinks
    <3> HIDE DEF leaving, goesOn
    <3> QED BY <3>1, <3>2
  <2> QED BY <2>1 DEF EveryoneGoesOnOnce
<1> QED BY <1>2, <1>3

-------------------------------------------------------------------------------
(* The double elimination of n = 2 ^ k teams.                              *)

\* Rounds that halve: 2 ^ (depth - 1) matches in the first one, then one in the last.
Places(depth, n) == {p \in (1 .. depth) \X (1 .. n) : p[2] <= Power[depth - p[1]]}

\* A match of such a round is a number below 2 ^ depth: as in a heap, the final is 1
\* and what comes before i is at 2 * i and 2 * i + 1.
LEMMA PlacesAreCounted ==
    ASSUME NEW depth \in Nat \ {0}, NEW n \in Nat, Power[depth - 1] <= n
    PROVE  /\ IsFiniteSet(Places(depth, n))
           /\ Cardinality(Places(depth, n)) = Power[depth] - 1
<1> DEFINE N == Power[depth] - 1
           f == [p \in Places(depth, n) |-> Power[depth - p[1]] + p[2] - 1]
<1>1. N \in Nat /\ \A j \in Nat : Power[j] \in Nat \ {0} /\ Power[j + 1] = 2 * Power[j]
  BY PowerIsRight
<1>2. \A j, k \in Nat : j < k => 2 * Power[j] <= Power[k]
  BY PowersGrow
<1>3. ASSUME NEW p \in Places(depth, n)
      PROVE  /\ p[1] \in 1 .. depth /\ p[2] \in Nat \ {0} /\ p[2] <= Power[depth - p[1]]
             /\ depth - p[1] \in Nat /\ p = <<p[1], p[2]>>
             /\ f[p] = Power[depth - p[1]] + p[2] - 1
             /\ Power[depth - p[1]] <= f[p] /\ f[p] < 2 * Power[depth - p[1]] /\ f[p] \in Nat
  <2>1. p[1] \in 1 .. depth /\ p[2] \in 1 .. n /\ p[2] <= Power[depth - p[1]] /\ p = <<p[1], p[2]>>
    BY DEF Places
  <2>2. depth - p[1] \in Nat
    BY <2>1
  <2>3. Power[depth - p[1]] \in Nat \ {0}
    BY <1>1, <2>2
  <2> QED BY <2>1, <2>2, <2>3
<1> HIDE DEF f, N
<1>4. ASSUME NEW p \in Places(depth, n) PROVE f[p] \in 1 .. N
  <2>1. 2 * Power[depth - p[1]] <= Power[depth]
    <3>1. depth - p[1] < depth
      BY <1>3
    <3> QED BY <1>2, <1>3, <3>1
  <2> QED BY <1>1, <1>3, <2>1 DEF N
<1>5. ASSUME NEW p \in Places(depth, n), NEW q \in Places(depth, n), f[p] = f[q] PROVE p = q
  <2>1. p[1] = q[1]
    <3> DEFINE i == depth - p[1]
               j == depth - q[1]
    <3>1. /\ i \in Nat /\ j \in Nat /\ Power[i] \in Nat /\ Power[j] \in Nat
          /\ Power[i] <= f[p] /\ f[p] < 2 * Power[i] /\ Power[j] <= f[q] /\ f[q] < 2 * Power[j]
          /\ f[p] \in Nat /\ f[q] \in Nat
      BY <1>1, <1>3
    <3> HIDE DEF i, j
    <3>2. i = j
      BY <1>2, <1>5, <3>1
    <3> QED BY <1>3, <3>2 DEF i, j
  <2>2. p[2] = q[2]
    BY <1>1, <1>3, <1>5, <2>1
  <2> QED BY <1>3, <2>1, <2>2
<1>6. ASSUME NEW x \in 1 .. N PROVE \E p \in Places(depth, n) : f[p] = x
  <2> DEFINE S == {j \in Nat : x < Power[j + 1]}
  <2>1. depth - 1 \in S
    BY <1>1 DEF N
  <2> HIDE DEF S
  <2>2. PICK j \in S : \A i \in S : j <= i
    BY <2>1, LeastExists DEF S
  <2>3. j \in 0 .. depth - 1 /\ x < 2 * Power[j]
    <3>1. j <= depth - 1 /\ j \in Nat /\ x < Power[j + 1]
      BY <2>1, <2>2 DEF S
    <3> QED BY <1>1, <3>1
  <2>4. Power[j] <= x
    <3>1. CASE j = 0
      BY <3>1, PowerIsRight
    <3>2. CASE j # 0
      <4>1. j - 1 \in Nat /\ j - 1 \notin S /\ (j - 1) + 1 = j
        BY <2>2, <2>3, <3>2
      <4> QED BY <1>1, <2>3, <4>1 DEF S
    <3> QED BY <3>1, <3>2
  <2> DEFINE p == <<depth - j, x - Power[j] + 1>>
  <2>5. p[1] \in 1 .. depth /\ depth - p[1] = j
    BY <2>3
  <2>6. p[2] \in Nat \ {0} /\ p[2] <= Power[j]
    BY <1>1, <2>3, <2>4
  <2>7. Power[j] <= n
    <3>1. j = depth - 1 \/ 2 * Power[j] <= Power[depth - 1]
      BY <1>2, <2>3
    <3> QED BY <1>1, <2>3, <3>1
  <2>8. p \in Places(depth, n)
    BY <1>1, <2>3, <2>5, <2>6, <2>7 DEF Places
  <2>9. f[p] = x
    BY <1>1, <1>3, <2>3, <2>5, <2>8
  <2> QED BY <2>8, <2>9
<1>7. f \in Bijection(Places(depth, n), 1 .. N)
  <2>1. f \in [Places(depth, n) -> 1 .. N]
    BY <1>4 DEF f
  <2>2. f \in Injection(Places(depth, n), 1 .. N)
    BY <1>5, <2>1 DEF Injection, IsInjective
  <2>3. f \in Surjection(Places(depth, n), 1 .. N)
    BY <1>6, <2>1 DEF Surjection
  <2> QED BY <2>2, <2>3 DEF Bijection
<1>8. IsFiniteSet(1 .. N) /\ Cardinality(1 .. N) = N
  <2>1. IsFiniteSet(1 .. N) /\ Cardinality(1 .. N) = IF 1 > N THEN 0 ELSE N - 1 + 1
    <3>1. 1 \in Int /\ N \in Int
      BY <1>1
    <3> QED BY <3>1, FS_Interval, Zenon
  <2> QED BY <1>1, <2>1
<1>9. f \in Injection(Places(depth, n), 1 .. N) /\ f \in Surjection(Places(depth, n), 1 .. N)
  BY <1>7 DEF Bijection
<1>10. IsFiniteSet(Places(depth, n)) /\ Cardinality(Places(depth, n)) = N
  BY <1>8, <1>9, FS_Injection
<1> QED BY <1>10 DEF N

\* A function that tells its arguments apart has as many values as arguments.
LEMMA ImageIsAsLarge ==
    ASSUME NEW S, IsFiniteSet(S), NEW f, \A x, y \in S : f[x] = f[y] => x = y
    PROVE  /\ IsFiniteSet({f[x] : x \in S})
           /\ Cardinality({f[x] : x \in S}) = Cardinality(S)
<1> DEFINE U == {f[x] : x \in S}
           g == [x \in S |-> f[x]]
<1>1. g \in Surjection(S, U)
  BY DEF Surjection
<1>2. g \in Injection(S, U)
  BY DEF Injection, IsInjective
<1> HIDE DEF U, g
<1>3. IsFiniteSet(U) /\ Cardinality(U) = Cardinality(S)
  BY <1>1, <1>2, FS_Surjection
<1> QED BY <1>3 DEF U

\* Of two entrants that meet the odd one is at home.
Feeder(s, h) == IF s = "home" THEN 2 * h - 1 ELSE 2 * h

\* Every number up to 2 * p is the feeder of one side of one of p matches.
LEMMA Feeders ==
    /\ \A s, t \in Sides, g, h \in Nat : Feeder(s, g) = Feeder(t, h) => s = t /\ g = h
    /\ \A p \in Nat : \A i \in 1 .. 2 * p : \E s \in Sides, h \in 1 .. p : i = Feeder(s, h)
    /\ \A p \in Nat : \A s \in Sides, h \in 1 .. p : Feeder(s, h) \in 1 .. 2 * p
<1>1. ASSUME NEW s \in Sides, NEW t \in Sides, NEW g \in Nat, NEW h \in Nat, Feeder(s, g) = Feeder(t, h)
      PROVE  s = t /\ g = h
  BY <1>1 DEF Feeder, Sides
<1>2. ASSUME NEW p \in Nat, NEW i \in 1 .. 2 * p
      PROVE  \E s \in Sides, h \in 1 .. p : i = Feeder(s, h)
  <2>1. PICK h \in 1 .. p : i = 2 * h - 1 \/ i = 2 * h
    <3> DEFINE S == {h \in Nat : i <= 2 * h}
    <3>1. p \in S
      OBVIOUS
    <3> HIDE DEF S
    <3>2. PICK h \in S : \A g \in S : h <= g
      BY <3>1, LeastExists DEF S
    <3>3. h \in Nat /\ i <= 2 * h /\ h # 0
      BY <3>2 DEF S
    <3>4. h - 1 \in Nat /\ h - 1 \notin S /\ h <= p
      BY <3>1, <3>2, <3>3
    <3> QED BY <3>3, <3>4 DEF S
  <2> QED BY <2>1 DEF Feeder, Sides
<1>3. \A p \in Nat : \A s \in Sides, h \in 1 .. p : Feeder(s, h) \in 1 .. 2 * p
  BY DEF Feeder, Sides
<1> QED BY <1>1, <1>2, <1>3

\* Entrants and codes are told apart by what they are made of.
LEMMA NamesDiffer ==
    /\ \A i, j : Entry(i) = Entry(j) => i = j
    /\ \A i, m, o : Entry(i) # From(m, o)
    /\ \A m, l, o, q : From(m, o) = From(l, q) => m = l /\ o = q
    /\ \A r, i, s, j : Upper(r, i) = Upper(s, j) => r = s /\ i = j
    /\ \A r, i, s, j : Lower(r, i) = Lower(s, j) => r = s /\ i = j
    /\ \A r, i, s, j : Upper(r, i) # Lower(s, j)
    /\ \A r, i : Upper(r, i) # GrandFinal /\ Lower(r, i) # GrandFinal
    /\ \A r, i : Upper(r, i)[1] = "winners" /\ Lower(r, i)[1] = "losers"
    /\ \A r, i : Upper(r, i)[2] = r /\ Lower(r, i)[2] = r
    /\ GrandFinal[1] = "final"
<1>1. \A i, j : Entry(i) = Entry(j) => i = j
  BY DEF Entry
<1>2. \A i, m, o : Entry(i) # From(m, o)
  <2> SUFFICES ASSUME NEW i, NEW m, NEW o, Entry(i) = From(m, o) PROVE FALSE
    OBVIOUS
  <2>1. Entry(i).kind = "team" /\ From(m, o).kind = "from"
    BY DEF Entry, From
  <2> QED BY <2>1
<1>3. \A m, l, o, q : From(m, o) = From(l, q) => m = l /\ o = q
  BY DEF From
<1> QED BY <1>1, <1>2, <1>3 DEF Upper, Lower, GrandFinal

\* The rounds of 2 ^ k teams halve.
LEMMA DoubleRounds ==
    ASSUME NEW k \in Nat \ {0, 1}, NEW n, n = Power[k]
    PROVE  /\ n \in Nat \ {0, 1} /\ RoundsFor(n) = k
           /\ \A r \in 1 .. k : Power[k - r] \in Nat \ {0} /\ Power[k - r] <= n
           /\ \A r \in 2 .. k : Power[k - (r - 1)] = 2 * Power[k - r]
           /\ \A j \in 1 .. k - 1 : Power[k - 1 - j] = Power[k - (j + 1)] /\ Power[k - j] = 2 * Power[k - 1 - j]
           /\ Power[k - k] = 1 /\ Power[k - 1 - (k - 1)] = 1 /\ n = 2 * Power[k - 1]
<1>1. /\ Power[0] = 1
      /\ \A j \in Nat : Power[j] \in Nat \ {0} /\ Power[j + 1] = 2 * Power[j]
  BY PowerIsRight
<1>2. n = 2 * Power[k - 1]
  BY <1>1
<1>3. ASSUME NEW r \in 1 .. k PROVE Power[k - r] \in Nat \ {0} /\ Power[k - r] <= n
  <2>1. k - r \in Nat /\ k - r < k
    OBVIOUS
  <2>2. Power[k - r] \in Nat \ {0} /\ 2 * Power[k - r] <= n /\ n \in Nat
    BY <1>1, <2>1, PowersGrow
  <2> QED BY <2>2
<1>4. ASSUME NEW r \in 2 .. k PROVE Power[k - (r - 1)] = 2 * Power[k - r]
  <2>1. k - r \in Nat /\ (k - r) + 1 = k - (r - 1)
    OBVIOUS
  <2> QED BY <1>1, <2>1
<1>5. ASSUME NEW j \in 1 .. k - 1
      PROVE  Power[k - 1 - j] = Power[k - (j + 1)] /\ Power[k - j] = 2 * Power[k - 1 - j]
  <2>1. k - 1 - j \in Nat /\ k - 1 - j = k - (j + 1) /\ (k - 1 - j) + 1 = k - j
    OBVIOUS
  <2> QED BY <1>1, <2>1
<1>6. k - k = 0 /\ k - 1 - (k - 1) = 0
  OBVIOUS
<1>7. n \in Nat \ {0, 1}
  BY <1>1, <1>2
<1> QED BY <1>1, <1>2, <1>3, <1>4, <1>5, <1>6, <1>7, RoundsOfPower

\* The matches of a double elimination.
IsPlaced(n, k, x) ==
    \/ \E r \in 1 .. k : \E i \in 1 .. Power[k - r] : x = UpperMatch(r, i)
    \/ \E j \in 1 .. k - 1 : \E i \in 1 .. Power[k - 1 - j] : x = MinorMatch(n, j, i)
    \/ \E j \in 1 .. k - 1 : \E i \in 1 .. Power[k - 1 - j] : x = MajorMatch(n, j, i)
    \/ x = GrandFinalMatch(n)

\* A match is in the double elimination when it has its place in one of its rounds.
LEMMA DoubleMatches ==
    ASSUME NEW k \in Nat \ {0, 1}, NEW n, n = Power[k]
    PROVE  \A x : x \in DoubleElimination(n) <=> IsPlaced(n, k, x)
<1>1. /\ n \in Nat \ {0} /\ RoundsFor(n) = k
      /\ \A r \in 1 .. k : Power[k - r] \in Nat \ {0} /\ Power[k - r] <= n
      /\ \A j \in 1 .. k - 1 : Power[k - 1 - j] = Power[k - (j + 1)]
  BY DoubleRounds
<1>2. UpperPlaces(n) = {p \in (1 .. k) \X (1 .. n) : p[2] <= Power[k - p[1]]}
  BY <1>1 DEF UpperPlaces
<1>3. LowerPlaces(n) = {p \in (1 .. k - 1) \X (1 .. n) : p[2] <= Power[k - 1 - p[1]]}
  BY <1>1 DEF LowerPlaces
<1>4. ASSUME NEW r \in 1 .. k, NEW i \in 1 .. Power[k - r] PROVE <<r, i>> \in UpperPlaces(n)
  BY <1>1, <1>2
<1>5. ASSUME NEW j \in 1 .. k - 1, NEW i \in 1 .. Power[k - 1 - j] PROVE <<j, i>> \in LowerPlaces(n)
  <2>1. j + 1 \in 1 .. k /\ Power[k - 1 - j] <= n /\ Power[k - 1 - j] \in Nat
    <3>1. j + 1 \in 1 .. k
      OBVIOUS
    <3> QED BY <1>1, <3>1
  <2> QED BY <1>1, <1>3, <2>1
<1>6. \A p \in UpperPlaces(n) : p[1] \in 1 .. k /\ p[2] \in 1 .. Power[k - p[1]]
  BY <1>1, <1>2
<1>7. \A p \in LowerPlaces(n) : p[1] \in 1 .. k - 1 /\ p[2] \in 1 .. Power[k - 1 - p[1]]
  <2> TAKE p \in LowerPlaces(n)
  <2>1. p[1] \in 1 .. k - 1 /\ p[2] \in 1 .. n /\ p[2] <= Power[k - 1 - p[1]]
    BY <1>3
  <2>2. p[1] + 1 \in 1 .. k /\ Power[k - 1 - p[1]] = Power[k - (p[1] + 1)]
    BY <1>1, <2>1
  <2>3. Power[k - 1 - p[1]] \in Nat
    BY <1>1, <2>2
  <2> QED BY <2>1, <2>3
<1> HIDE DEF UpperPlaces, LowerPlaces
<1> TAKE x
<1>8. x \in {UpperMatch(p[1], p[2]) : p \in UpperPlaces(n)}
        <=> \E r \in 1 .. k : \E i \in 1 .. Power[k - r] : x = UpperMatch(r, i)
  <2>1. ASSUME NEW r \in 1 .. k, NEW i \in 1 .. Power[k - r], x = UpperMatch(r, i)
        PROVE  x \in {UpperMatch(p[1], p[2]) : p \in UpperPlaces(n)}
    <3> DEFINE place == <<r, i>>
    <3>1. place \in UpperPlaces(n) /\ place[1] = r /\ place[2] = i
      BY <1>4
    <3> HIDE DEF place
    <3> QED BY <2>1, <3>1
  <2>2. ASSUME NEW p \in UpperPlaces(n), x = UpperMatch(p[1], p[2])
        PROVE  \E r \in 1 .. k : \E i \in 1 .. Power[k - r] : x = UpperMatch(r, i)
    BY <1>6, <2>2
  <2> QED BY <2>1, <2>2
<1>9. x \in {MinorMatch(n, p[1], p[2]) : p \in LowerPlaces(n)}
        <=> \E j \in 1 .. k - 1 : \E i \in 1 .. Power[k - 1 - j] : x = MinorMatch(n, j, i)
  <2>1. ASSUME NEW j \in 1 .. k - 1, NEW i \in 1 .. Power[k - 1 - j], x = MinorMatch(n, j, i)
        PROVE  x \in {MinorMatch(n, p[1], p[2]) : p \in LowerPlaces(n)}
    <3> DEFINE place == <<j, i>>
    <3>1. place \in LowerPlaces(n) /\ place[1] = j /\ place[2] = i
      BY <1>5
    <3> HIDE DEF place
    <3> QED BY <2>1, <3>1
  <2>2. ASSUME NEW p \in LowerPlaces(n), x = MinorMatch(n, p[1], p[2])
        PROVE  \E j \in 1 .. k - 1 : \E i \in 1 .. Power[k - 1 - j] : x = MinorMatch(n, j, i)
    BY <1>7, <2>2
  <2> QED BY <2>1, <2>2
<1>10. x \in {MajorMatch(n, p[1], p[2]) : p \in LowerPlaces(n)}
        <=> \E j \in 1 .. k - 1 : \E i \in 1 .. Power[k - 1 - j] : x = MajorMatch(n, j, i)
  <2>1. ASSUME NEW j \in 1 .. k - 1, NEW i \in 1 .. Power[k - 1 - j], x = MajorMatch(n, j, i)
        PROVE  x \in {MajorMatch(n, p[1], p[2]) : p \in LowerPlaces(n)}
    <3> DEFINE place == <<j, i>>
    <3>1. place \in LowerPlaces(n) /\ place[1] = j /\ place[2] = i
      BY <1>5
    <3> HIDE DEF place
    <3> QED BY <2>1, <3>1
  <2>2. ASSUME NEW p \in LowerPlaces(n), x = MajorMatch(n, p[1], p[2])
        PROVE  \E j \in 1 .. k - 1 : \E i \in 1 .. Power[k - 1 - j] : x = MajorMatch(n, j, i)
    BY <1>7, <2>2
  <2> QED BY <2>1, <2>2
<1> QED BY <1>8, <1>9, <1>10 DEF DoubleElimination, IsPlaced

\* Where an entrant e of a double elimination comes from: side s of match y.
ComesTo(n, k, y, s, e) ==
    \/ \E h \in 1 .. Power[k - 1] : y = UpperMatch(1, h) /\ e = Entry(Feeder(s, h))
    \/ \E r \in 2 .. k : \E h \in 1 .. Power[k - r] :
          y = UpperMatch(r, h) /\ e = From(Upper(r - 1, Feeder(s, h)), "winner")
    \/ \E h \in 1 .. Power[k - 2] : y = MinorMatch(n, 1, h) /\ e = From(Upper(1, Feeder(s, h)), "loser")
    \/ \E j \in 2 .. k - 1 : \E h \in 1 .. Power[k - 1 - j] :
          y = MinorMatch(n, j, h) /\ e = From(Lower(k + 2 * (j - 1), Feeder(s, h)), "winner")
    \/ \E j \in 1 .. k - 1 : \E h \in 1 .. Power[k - 1 - j] :
          /\ y = MajorMatch(n, j, h)
          /\ e = IF s = "home" THEN From(Lower(k + 2 * j - 1, h), "winner") ELSE From(Upper(j + 1, h), "loser")
    \/ /\ y = GrandFinalMatch(n)
       /\ e = IF s = "home" THEN From(Upper(k, 1), "winner") ELSE From(Lower(k + 2 * (k - 1), 1), "winner")

\* Who comes to which slot is what ComesTo says.
LEMMA DoubleEntrants ==
    ASSUME NEW k \in Nat \ {0, 1}, NEW n, n = Power[k]
    PROVE  /\ \A x \in DoubleElimination(n), s \in Sides : ComesTo(n, k, x, s, x[s])
           /\ \A x, e : \A s \in Sides : ComesTo(n, k, x, s, e) => x \in DoubleElimination(n) /\ x[s] = e
<1>1. RoundsFor(n) = k
  BY DoubleRounds
<1>2. \A r, h : \A s \in Sides :
         UpperMatch(r, h)[s] = IF r = 1 THEN Entry(Feeder(s, h))
                               ELSE From(Upper(r - 1, Feeder(s, h)), "winner")
  BY DEF UpperMatch, Match, Sides, Feeder
<1>3. \A h : \A j \in Nat : \A s \in Sides :
         MinorMatch(n, j, h)[s] = IF j = 1 THEN From(Upper(1, Feeder(s, h)), "loser")
                                  ELSE From(Lower(k + 2 * (j - 1), Feeder(s, h)), "winner")
  BY <1>1 DEF MinorMatch, Match, Sides, Feeder, MajorRound
<1>4. \A j, h : \A s \in Sides :
         MajorMatch(n, j, h)[s] = IF s = "home" THEN From(Lower(k + 2 * j - 1, h), "winner")
                                  ELSE From(Upper(j + 1, h), "loser")
  BY <1>1 DEF MajorMatch, Match, Sides, MinorRound
<1>5. \A s \in Sides :
         GrandFinalMatch(n)[s] = IF s = "home" THEN From(Upper(k, 1), "winner")
                                 ELSE From(Lower(k + 2 * (k - 1), 1), "winner")
  BY <1>1 DEF GrandFinalMatch, Match, Sides, MajorRound
<1>6. k - 1 - 1 = k - 2 /\ 1 \in 1 .. k /\ 1 \in 1 .. k - 1
  OBVIOUS
<1>7. ASSUME NEW x \in DoubleElimination(n), NEW s \in Sides
      PROVE  ComesTo(n, k, x, s, x[s])
  <2>1. ASSUME NEW r \in 1 .. k, NEW i \in 1 .. Power[k - r], x = UpperMatch(r, i)
        PROVE  ComesTo(n, k, x, s, x[s])
    <3>1. r = 1 \/ r \in 2 .. k
      OBVIOUS
    <3> QED BY <1>2, <2>1, <3>1 DEF ComesTo
  <2>2. ASSUME NEW j \in 1 .. k - 1, NEW i \in 1 .. Power[k - 1 - j], x = MinorMatch(n, j, i)
        PROVE  ComesTo(n, k, x, s, x[s])
    <3>1. j \in Nat /\ (j = 1 \/ j \in 2 .. k - 1)
      OBVIOUS
    <3> QED BY <1>3, <1>6, <2>2, <3>1 DEF ComesTo
  <2>3. ASSUME NEW j \in 1 .. k - 1, NEW i \in 1 .. Power[k - 1 - j], x = MajorMatch(n, j, i)
        PROVE  ComesTo(n, k, x, s, x[s])
    BY <1>4, <2>3 DEF ComesTo
  <2>4. CASE x = GrandFinalMatch(n)
    BY <1>5, <2>4 DEF ComesTo
  <2>5. IsPlaced(n, k, x)
    BY DoubleMatches
  <2> QED BY <2>1, <2>2, <2>3, <2>4, <2>5 DEF IsPlaced
<1>8. ASSUME NEW x, NEW e, NEW s \in Sides, ComesTo(n, k, x, s, e)
      PROVE  x \in DoubleElimination(n) /\ x[s] = e
  <2>1. ASSUME NEW h \in 1 .. Power[k - 1], x = UpperMatch(1, h), e = Entry(Feeder(s, h))
        PROVE  x \in DoubleElimination(n) /\ x[s] = e
    BY <1>2, <1>6, <2>1, DoubleMatches DEF IsPlaced
  <2>2. ASSUME NEW r \in 2 .. k, NEW h \in 1 .. Power[k - r], x = UpperMatch(r, h),
               e = From(Upper(r - 1, Feeder(s, h)), "winner")
        PROVE  x \in DoubleElimination(n) /\ x[s] = e
    <3>1. r \in 1 .. k /\ r # 1
      OBVIOUS
    <3> QED BY <1>2, <2>2, <3>1, DoubleMatches DEF IsPlaced
  <2>3. ASSUME NEW h \in 1 .. Power[k - 2], x = MinorMatch(n, 1, h), e = From(Upper(1, Feeder(s, h)), "loser")
        PROVE  x \in DoubleElimination(n) /\ x[s] = e
    BY <1>3, <1>6, <2>3, DoubleMatches DEF IsPlaced
  <2>4. ASSUME NEW j \in 2 .. k - 1, NEW h \in 1 .. Power[k - 1 - j], x = MinorMatch(n, j, h),
               e = From(Lower(k + 2 * (j - 1), Feeder(s, h)), "winner")
        PROVE  x \in DoubleElimination(n) /\ x[s] = e
    <3>1. j \in 1 .. k - 1 /\ j # 1 /\ j \in Nat
      OBVIOUS
    <3> QED BY <1>3, <2>4, <3>1, DoubleMatches DEF IsPlaced
  <2>5. ASSUME NEW j \in 1 .. k - 1, NEW h \in 1 .. Power[k - 1 - j], x = MajorMatch(n, j, h),
               e = IF s = "home" THEN From(Lower(k + 2 * j - 1, h), "winner") ELSE From(Upper(j + 1, h), "loser")
        PROVE  x \in DoubleElimination(n) /\ x[s] = e
    BY <1>4, <2>5, DoubleMatches DEF IsPlaced
  <2>6. ASSUME x = GrandFinalMatch(n),
               e = IF s = "home" THEN From(Upper(k, 1), "winner")
                   ELSE From(Lower(k + 2 * (k - 1), 1), "winner")
        PROVE  x \in DoubleElimination(n) /\ x[s] = e
    BY <1>5, <2>6, DoubleMatches DEF IsPlaced
  <2> QED BY <1>8, <2>1, <2>2, <2>3, <2>4, <2>5, <2>6 DEF ComesTo
<1> QED BY <1>7, <1>8

\* The codes of the matches of a double elimination.
IsCode(k, m) ==
    \/ \E r \in 1 .. k : \E i \in 1 .. Power[k - r] : m = Upper(r, i)
    \/ \E j \in 1 .. k - 1 : \E i \in 1 .. Power[k - 1 - j] : m = Lower(k + 2 * j - 1, i)
    \/ \E j \in 1 .. k - 1 : \E i \in 1 .. Power[k - 1 - j] : m = Lower(k + 2 * j, i)
    \/ m = GrandFinal

\* The codes of the matches of a double elimination.
LEMMA DoubleCodes ==
    ASSUME NEW k \in Nat \ {0, 1}, NEW n, n = Power[k]
    PROVE  /\ \A r, i : UpperMatch(r, i).match = Upper(r, i)
           /\ \A j, i : MinorMatch(n, j, i).match = Lower(k + 2 * j - 1, i)
           /\ \A j, i : MajorMatch(n, j, i).match = Lower(k + 2 * j, i)
           /\ GrandFinalMatch(n).match = GrandFinal
           /\ \A m : m \in MatchIds(DoubleElimination(n)) <=> IsCode(k, m)
<1>0. RoundsFor(n) = k
  BY DoubleRounds
<1>1. \A r, i : UpperMatch(r, i).match = Upper(r, i)
  BY DEF UpperMatch, Match
<1>2. \A j, i : MinorMatch(n, j, i).match = Lower(k + 2 * j - 1, i)
  BY <1>0 DEF MinorMatch, Match, MinorRound
<1>3. \A j, i : MajorMatch(n, j, i).match = Lower(k + 2 * j, i)
  BY <1>0 DEF MajorMatch, Match, MajorRound
<1>4. GrandFinalMatch(n).match = GrandFinal
  BY DEF GrandFinalMatch, Match
<1>5. \A m : m \in MatchIds(DoubleElimination(n)) <=> IsCode(k, m)
  <2> TAKE m
  <2>1. ASSUME m \in MatchIds(DoubleElimination(n)) PROVE IsCode(k, m)
    <3>1. PICK x \in DoubleElimination(n) : m = x.match
      BY <2>1 DEF MatchIds
    <3>2. IsPlaced(n, k, x)
      BY DoubleMatches
    <3> QED BY <1>1, <1>2, <1>3, <1>4, <3>1, <3>2 DEF IsPlaced, IsCode
  <2>2. ASSUME IsCode(k, m) PROVE m \in MatchIds(DoubleElimination(n))
    <3>1. \E x : IsPlaced(n, k, x) /\ m = x.match
      BY <1>1, <1>2, <1>3, <1>4, <2>2 DEF IsPlaced, IsCode
    <3> QED BY <3>1, DoubleMatches DEF MatchIds
  <2> QED BY <2>1, <2>2
<1> QED BY <1>1, <1>2, <1>3, <1>4, <1>5

\* Whoever enters or leaves comes to the one slot that ComesTo names.
LEMMA DoubleSlot ==
    ASSUME NEW k \in Nat \ {0, 1}, NEW n, n = Power[k], NEW e, NEW x, NEW s \in Sides,
           ComesTo(n, k, x, s, e),
           \A y : \A t \in Sides : ComesTo(n, k, y, t, e) => y = x /\ t = s
    PROVE  HasOneSlot(DoubleElimination(n), e)
<1> DEFINE b == DoubleElimination(n)
<1>1. \A y \in b, t \in Sides : y[t] = e => ComesTo(n, k, y, t, e)
  BY DoubleEntrants
<1>2. x \in b /\ x[s] = e
  BY DoubleEntrants
<1> HIDE DEF b
<1>3. HasOneSlot(b, e)
  BY <1>1, <1>2 DEF HasOneSlot
<1> QED BY <1>3 DEF b

\* Who comes to no slot has none.
LEMMA DoubleNoSlot ==
    ASSUME NEW k \in Nat \ {0, 1}, NEW n, n = Power[k], NEW e,
           \A y : \A t \in Sides : ~ComesTo(n, k, y, t, e)
    PROVE  HasNoSlot(DoubleElimination(n), e)
BY DoubleEntrants DEF HasNoSlot

\* The links of a double elimination: where everybody goes, and nobody else does.
LEMMA DoubleGoesOn ==
    ASSUME NEW k \in Nat \ {0, 1}, NEW n, n = Power[k]
    PROVE  LET b == DoubleElimination(n) IN
           /\ \A i \in 1 .. n : HasOneSlot(b, Entry(i))
           /\ \A r \in 1 .. k : \A i \in 1 .. Power[k - r] :
                 HasOneSlot(b, From(Upper(r, i), "winner")) /\ HasOneSlot(b, From(Upper(r, i), "loser"))
           /\ \A j \in 1 .. k - 1 : \A i \in 1 .. Power[k - 1 - j] :
                 /\ HasOneSlot(b, From(Lower(k + 2 * j - 1, i), "winner"))
                 /\ HasOneSlot(b, From(Lower(k + 2 * j, i), "winner"))
           /\ \A r, i : HasNoSlot(b, From(Lower(r, i), "loser"))
           /\ \A o : HasNoSlot(b, From(GrandFinal, o))
<1> DEFINE b == DoubleElimination(n)
<1>1. /\ n = 2 * Power[k - 1]
      /\ \A r \in 2 .. k : Power[k - (r - 1)] = 2 * Power[k - r]
      /\ \A j \in 1 .. k - 1 : Power[k - 1 - j] = Power[k - (j + 1)] /\ Power[k - j] = 2 * Power[k - 1 - j]
      /\ Power[k - k] = 1 /\ Power[k - 1 - (k - 1)] = 1
  BY DoubleRounds
<1>2. \A j \in Nat : Power[j] \in Nat \ {0}
  BY PowerIsRight
<1>3. k - 1 \in Nat /\ k - 2 \in Nat /\ (\A r \in 1 .. k : k - r \in Nat)
         /\ (\A j \in 1 .. k - 1 : k - 1 - j \in Nat)
  OBVIOUS
<1>4. ASSUME NEW i \in 1 .. n PROVE HasOneSlot(b, Entry(i))
  <2>0. Power[k - 1] \in Nat /\ i \in 1 .. 2 * Power[k - 1]
    BY <1>1, <1>2, <1>3
  <2>1. PICK s \in Sides, h \in 1 .. Power[k - 1] : i = Feeder(s, h)
    BY <2>0, Feeders
  <2>2. ComesTo(n, k, UpperMatch(1, h), s, Entry(i))
    BY <2>1 DEF ComesTo
  <2>3. ASSUME NEW y, NEW t \in Sides, ComesTo(n, k, y, t, Entry(i))
        PROVE  y = UpperMatch(1, h) /\ t = s
    <3>1. PICK g \in 1 .. Power[k - 1] : y = UpperMatch(1, g) /\ Entry(i) = Entry(Feeder(t, g))
      BY <2>3, NamesDiffer DEF ComesTo
    <3>2. g \in Nat /\ h \in Nat
      BY <1>2, <1>3
    <3> QED BY <2>1, <3>1, <3>2, NamesDiffer, Feeders
  <2> QED BY <2>2, <2>3, DoubleSlot
<1>5. ASSUME NEW r \in 1 .. k, NEW i \in 1 .. Power[k - r]
      PROVE  HasOneSlot(b, From(Upper(r, i), "winner"))
  <2> DEFINE e == From(Upper(r, i), "winner")
  <2>1. CASE r = k
    <3>1. i = 1
      BY <1>1, <2>1
    <3>2. ComesTo(n, k, GrandFinalMatch(n), "home", e)
      BY <2>1, <3>1 DEF ComesTo, Sides
    <3>3. ASSUME NEW y, NEW t \in Sides, ComesTo(n, k, y, t, e)
          PROVE  y = GrandFinalMatch(n) /\ t = "home"
      <4>1. ASSUME NEW q \in 2 .. k, NEW h, e = From(Upper(q - 1, h), "winner") PROVE FALSE
        BY <2>1, <4>1, NamesDiffer
      <4> HIDE DEF e
      <4>2. \A q, h : e # From(Upper(q, h), "loser") /\ e # From(Lower(q, h), "winner") /\ e # Entry(h)
        BY NamesDiffer DEF e
      <4> QED BY <3>3, <4>1, <4>2 DEF ComesTo, Sides
    <3>4. "home" \in Sides
      BY DEF Sides
    <3> QED BY <3>2, <3>3, <3>4, DoubleSlot
  <2>2. CASE r # k
    <3>1. r + 1 \in 2 .. k /\ (r + 1) - 1 = r
      BY <2>2
    <3>0. Power[k - (r + 1)] \in Nat /\ i \in 1 .. 2 * Power[k - (r + 1)]
      <4>1. Power[k - ((r + 1) - 1)] = 2 * Power[k - (r + 1)]
        BY <1>1, <3>1
      <4>2. Power[k - r] = 2 * Power[k - (r + 1)] /\ k - (r + 1) \in Nat
        BY <3>1, <4>1
      <4> QED BY <1>2, <4>2
    <3>2. PICK s \in Sides, h \in 1 .. Power[k - (r + 1)] : i = Feeder(s, h)
      BY <3>0, Feeders
    <3>3. ComesTo(n, k, UpperMatch(r + 1, h), s, e)
      BY <3>1, <3>2 DEF ComesTo
    <3>4. ASSUME NEW y, NEW t \in Sides, ComesTo(n, k, y, t, e)
          PROVE  y = UpperMatch(r + 1, h) /\ t = s
      <4>1. \A q, g : e # From(Upper(q, g), "loser") /\ e # From(Lower(q, g), "winner") /\ e # Entry(g)
        BY NamesDiffer
      <4>2. e # From(Upper(k, 1), "winner")
        BY <2>2, NamesDiffer
      <4>3. PICK q \in 2 .. k, g \in Nat : y = UpperMatch(q, g) /\ e = From(Upper(q - 1, Feeder(t, g)), "winner")
        <5>1. PICK q \in 2 .. k : \E g \in 1 .. Power[k - q] :
                 y = UpperMatch(q, g) /\ e = From(Upper(q - 1, Feeder(t, g)), "winner")
          <6> HIDE DEF e
          <6> QED BY <3>4, <4>1, <4>2 DEF ComesTo
        <5>2. 1 .. Power[k - q] \subseteq Nat
          <6>1. k - q \in Nat
            OBVIOUS
          <6> QED BY <1>2, <6>1
        <5> QED BY <5>1, <5>2
      <4>4. q - 1 = r /\ Feeder(t, g) = i
        BY <4>3, NamesDiffer
      <4>5. q = r + 1 /\ h \in Nat
        BY <1>2, <1>3, <3>1, <4>4
      <4> QED BY <3>2, <4>3, <4>4, <4>5, Feeders
    <3> QED BY <3>3, <3>4, DoubleSlot
  <2> QED BY <2>1, <2>2
<1>6. ASSUME NEW r \in 1 .. k, NEW i \in 1 .. Power[k - r]
      PROVE  HasOneSlot(b, From(Upper(r, i), "loser"))
  <2> DEFINE e == From(Upper(r, i), "loser")
  <2>0. \A q, g : e # From(Upper(q, g), "winner") /\ e # From(Lower(q, g), "winner") /\ e # Entry(g)
    BY NamesDiffer
  <2>1. CASE r = 1
    <3>1. k - 1 = k - 2 + 1 /\ Power[k - 1] = 2 * Power[k - 2]
      BY <1>3, PowerIsRight
    <3>0. Power[k - 2] \in Nat /\ i \in 1 .. 2 * Power[k - 2]
      BY <1>2, <1>3, <2>1, <3>1
    <3>2. PICK s \in Sides, h \in 1 .. Power[k - 2] : i = Feeder(s, h)
      BY <3>0, Feeders
    <3>3. ComesTo(n, k, MinorMatch(n, 1, h), s, e)
      BY <2>1, <3>2 DEF ComesTo
    <3>4. ASSUME NEW y, NEW t \in Sides, ComesTo(n, k, y, t, e)
          PROVE  y = MinorMatch(n, 1, h) /\ t = s
      <4>1. ASSUME NEW q \in 1 .. k - 1, NEW g, e = From(Upper(q + 1, g), "loser") PROVE FALSE
        BY <2>1, <4>1, NamesDiffer
      <4>2. PICK g \in 1 .. Power[k - 2] : y = MinorMatch(n, 1, g) /\ e = From(Upper(1, Feeder(t, g)), "loser")
        <5> HIDE DEF e
        <5> QED BY <2>0, <3>4, <4>1 DEF ComesTo
      <4>3. Feeder(t, g) = i /\ g \in Nat /\ h \in Nat
        BY <1>2, <1>3, <4>2, NamesDiffer
      <4> QED BY <3>2, <4>2, <4>3, Feeders
    <3> QED BY <3>3, <3>4, DoubleSlot
  <2>2. CASE r # 1
    <3>1. r - 1 \in 1 .. k - 1 /\ (r - 1) + 1 = r
      BY <2>2
    <3>2. i \in 1 .. Power[k - 1 - (r - 1)]
      BY <1>1, <3>1
    <3>3. "away" \in Sides /\ "away" # "home"
      BY DEF Sides
    <3>4. ComesTo(n, k, MajorMatch(n, r - 1, i), "away", e)
      BY <3>1, <3>2, <3>3 DEF ComesTo
    <3>5. ASSUME NEW y, NEW t \in Sides, ComesTo(n, k, y, t, e)
          PROVE  y = MajorMatch(n, r - 1, i) /\ t = "away"
      <4>1. \A g : e # From(Upper(1, g), "loser")
        BY <2>2, NamesDiffer
      <4>2. PICK j \in 1 .. k - 1 : \E g \in 1 .. Power[k - 1 - j] :
               y = MajorMatch(n, j, g) /\ t # "home" /\ e = From(Upper(j + 1, g), "loser")
        <5> HIDE DEF e
        <5> QED BY <2>0, <3>5, <4>1 DEF ComesTo
      <4>3. j + 1 = r /\ y = MajorMatch(n, j, i)
        BY <4>2, NamesDiffer
      <4>4. j = r - 1
        BY <4>3
      <4> QED BY <4>2, <4>3, <4>4 DEF Sides
    <3> QED BY <3>3, <3>4, <3>5, DoubleSlot
  <2> QED BY <2>1, <2>2
<1>7. ASSUME NEW j \in 1 .. k - 1, NEW i \in 1 .. Power[k - 1 - j]
      PROVE  HasOneSlot(b, From(Lower(k + 2 * j - 1, i), "winner"))
  <2> DEFINE e == From(Lower(k + 2 * j - 1, i), "winner")
  <2>1. "home" \in Sides
    BY DEF Sides
  <2>2. ComesTo(n, k, MajorMatch(n, j, i), "home", e)
    BY <2>1 DEF ComesTo
  <2>3. ASSUME NEW y, NEW t \in Sides, ComesTo(n, k, y, t, e)
        PROVE  y = MajorMatch(n, j, i) /\ t = "home"
    <3>1. \A q, g, o : e # From(Upper(q, g), o) /\ e # Entry(g)
      BY NamesDiffer
    <3>2. ASSUME NEW q \in 2 .. k, NEW g, e = From(Lower(k + 2 * (q - 1), g), "winner") PROVE FALSE
      <4>1. k + 2 * (q - 1) = k + 2 * j - 1
        BY <3>2, NamesDiffer
      <4> QED BY <4>1
    <3>3. e # From(Lower(k + 2 * (k - 1), 1), "winner")
      BY <3>2
    <3>4. PICK q \in 1 .. k - 1 : \E g \in 1 .. Power[k - 1 - q] :
             y = MajorMatch(n, q, g) /\ t = "home" /\ e = From(Lower(k + 2 * q - 1, g), "winner")
      <4> HIDE DEF e
      <4>1. \A q \in 2 .. k - 1 : q \in 2 .. k
        OBVIOUS
      <4> QED BY <2>3, <3>1, <3>2, <3>3, <4>1 DEF ComesTo
    <3>5. k + 2 * q - 1 = k + 2 * j - 1 /\ y = MajorMatch(n, q, i)
      BY <3>4, NamesDiffer
    <3>6. q = j
      BY <3>5
    <3> QED BY <3>4, <3>5, <3>6
  <2> DEFINE x == MajorMatch(n, j, i)
  <2>4. ComesTo(n, k, x, "home", e) /\ \A y : \A t \in Sides : ComesTo(n, k, y, t, e) => y = x /\ t = "home"
    BY <2>2, <2>3
  <2> HIDE DEF e, x
  <2>5. HasOneSlot(DoubleElimination(n), e)
    BY <2>1, <2>4, DoubleSlot
  <2> QED BY <2>5 DEF e
<1>8. ASSUME NEW j \in 1 .. k - 1, NEW i \in 1 .. Power[k - 1 - j]
      PROVE  HasOneSlot(b, From(Lower(k + 2 * j, i), "winner"))
  <2> DEFINE e == From(Lower(k + 2 * j, i), "winner")
  <2>1. \A q, g, o : e # From(Upper(q, g), o) /\ e # Entry(g)
    BY NamesDiffer
  <2>2. ASSUME NEW q \in 1 .. k - 1, NEW g, e = From(Lower(k + 2 * q - 1, g), "winner") PROVE FALSE
    <3>1. k + 2 * q - 1 = k + 2 * j
      BY <2>2, NamesDiffer
    <3> QED BY <3>1
  <2>3. CASE j = k - 1
    <3>1. i = 1
      BY <1>1, <2>3
    <3>2. "away" \in Sides /\ "away" # "home"
      BY DEF Sides
    <3>3. ComesTo(n, k, GrandFinalMatch(n), "away", e)
      BY <2>3, <3>1, <3>2 DEF ComesTo
    <3>4. ASSUME NEW y, NEW t \in Sides, ComesTo(n, k, y, t, e)
          PROVE  y = GrandFinalMatch(n) /\ t = "away"
      <4>1. ASSUME NEW q \in 2 .. k - 1, NEW g, e = From(Lower(k + 2 * (q - 1), g), "winner") PROVE FALSE
        <5>1. k + 2 * (q - 1) = k + 2 * j
          BY <4>1, NamesDiffer
        <5> QED BY <2>3, <5>1
      <4> HIDE DEF e
      <4> QED BY <2>1, <2>2, <3>4, <4>1 DEF ComesTo, Sides
    <3> QED BY <3>2, <3>3, <3>4, DoubleSlot
  <2>4. CASE j # k - 1
    <3>1. j + 1 \in 2 .. k - 1 /\ (j + 1) - 1 = j /\ j \in 1 .. k - 1 /\ j + 1 \in 1 .. k - 1 /\ j + 1 \in 2 .. k
      BY <2>4
    <3>2. Power[k - 1 - j] = 2 * Power[k - 1 - (j + 1)]
      BY <1>1, <3>1
    <3>0. Power[k - 1 - (j + 1)] \in Nat /\ i \in 1 .. 2 * Power[k - 1 - (j + 1)]
      BY <1>2, <1>3, <3>1, <3>2
    <3>3. PICK s \in Sides, h \in 1 .. Power[k - 1 - (j + 1)] : i = Feeder(s, h)
      BY <3>0, Feeders
    <3>4. ComesTo(n, k, MinorMatch(n, j + 1, h), s, e)
      BY <3>1, <3>3 DEF ComesTo
    <3>5. ASSUME NEW y, NEW t \in Sides, ComesTo(n, k, y, t, e)
          PROVE  y = MinorMatch(n, j + 1, h) /\ t = s
      <4>1. e # From(Lower(k + 2 * (k - 1), 1), "winner")
        <5> SUFFICES ASSUME e = From(Lower(k + 2 * (k - 1), 1), "winner") PROVE FALSE
          OBVIOUS
        <5>1. k + 2 * j = k + 2 * (k - 1)
          BY NamesDiffer
        <5> QED BY <2>4, <5>1
      <4>2. PICK q \in 2 .. k - 1 : \E g \in 1 .. Power[k - 1 - q] :
               y = MinorMatch(n, q, g) /\ e = From(Lower(k + 2 * (q - 1), Feeder(t, g)), "winner")
        <5> HIDE DEF e
        <5> QED BY <2>1, <2>2, <3>5, <4>1 DEF ComesTo
      <4>3. PICK g \in 1 .. Power[k - 1 - q] :
               y = MinorMatch(n, q, g) /\ e = From(Lower(k + 2 * (q - 1), Feeder(t, g)), "winner")
        BY <4>2
      <4>4. k + 2 * (q - 1) = k + 2 * j /\ Feeder(t, g) = i
        BY <4>3, NamesDiffer
      <4>5. q = j + 1
        BY <4>4
      <4>6. g \in Nat /\ h \in Nat
        BY <1>2, <1>3, <3>1, <4>5
      <4> QED BY <3>3, <4>3, <4>4, <4>5, <4>6, Feeders
    <3> QED BY <3>4, <3>5, DoubleSlot
  <2> QED BY <2>3, <2>4
<1>9. ASSUME NEW r, NEW i PROVE HasNoSlot(b, From(Lower(r, i), "loser"))
  <2> DEFINE e == From(Lower(r, i), "loser")
  <2>1. \A q, g, o : e # From(Upper(q, g), o) /\ e # From(Lower(q, g), "winner") /\ e # Entry(g)
    BY NamesDiffer
  <2> HIDE DEF e
  <2>2. \A y : \A t \in Sides : ~ComesTo(n, k, y, t, e)
    BY <2>1 DEF ComesTo
  <2> QED BY <2>2, DoubleNoSlot DEF e
<1>10. ASSUME NEW o PROVE HasNoSlot(b, From(GrandFinal, o))
  <2> DEFINE e == From(GrandFinal, o)
  <2>1. \A q, g, p : e # From(Upper(q, g), p) /\ e # From(Lower(q, g), p) /\ e # Entry(g)
    BY NamesDiffer
  <2> HIDE DEF e
  <2>2. \A y : \A t \in Sides : ~ComesTo(n, k, y, t, e)
    BY <2>1 DEF ComesTo
  <2> QED BY <2>2, DoubleNoSlot DEF e
<1> HIDE DEF b
<1> QED BY <1>4, <1>5, <1>6, <1>7, <1>8, <1>9, <1>10 DEF b

\* Every entrant of a double elimination is a team or leaves one of its matches.
LEMMA DoubleNoByes ==
    ASSUME NEW k \in Nat \ {0, 1}, NEW n, n = Power[k]
    PROVE  NoByes(n, DoubleElimination(n))
<1> DEFINE b == DoubleElimination(n)
<1>1. /\ n = 2 * Power[k - 1]
      /\ \A r \in 2 .. k : Power[k - (r - 1)] = 2 * Power[k - r]
      /\ \A j \in 1 .. k - 1 : Power[k - 1 - j] = Power[k - (j + 1)] /\ Power[k - j] = 2 * Power[k - 1 - j]
      /\ Power[k - k] = 1 /\ Power[k - 1 - (k - 1)] = 1
  BY DoubleRounds
<1>2. \A j \in Nat : Power[j] \in Nat \ {0}
  BY PowerIsRight
<1>3. \A m : m \in MatchIds(b) <=> IsCode(k, m)
  BY DoubleCodes
<1>4. ASSUME NEW y \in b, NEW s \in Sides
      PROVE  \/ \E i \in 1 .. n : y[s] = Entry(i)
             \/ \E m \in MatchIds(b), o \in {"winner", "loser"} : y[s] = From(m, o)
  <2>0. ComesTo(n, k, y, s, y[s])
    BY DoubleEntrants
  <2>1. ASSUME NEW h \in 1 .. Power[k - 1], y[s] = Entry(Feeder(s, h))
        PROVE  \E i \in 1 .. n : y[s] = Entry(i)
    <3>1. k - 1 \in Nat
      OBVIOUS
    <3>2. Power[k - 1] \in Nat
      BY <1>2, <3>1
    <3>3. Feeder(s, h) \in 1 .. n
      BY <1>1, <3>2, Feeders
    <3> QED BY <2>1, <3>3
  <2>2. ASSUME NEW r \in 2 .. k, NEW h \in 1 .. Power[k - r], y[s] = From(Upper(r - 1, Feeder(s, h)), "winner")
        PROVE  \E m \in MatchIds(b), o \in {"winner", "loser"} : y[s] = From(m, o)
    <3>1. k - r \in Nat /\ r - 1 \in 1 .. k
      OBVIOUS
    <3>2. Feeder(s, h) \in 1 .. Power[k - (r - 1)]
      BY <1>1, <1>2, <3>1, Feeders
    <3>3. Upper(r - 1, Feeder(s, h)) \in MatchIds(b)
      BY <1>3, <3>1, <3>2 DEF IsCode
    <3> QED BY <2>2, <3>3
  <2>3. ASSUME NEW h \in 1 .. Power[k - 2], y[s] = From(Upper(1, Feeder(s, h)), "loser")
        PROVE  \E m \in MatchIds(b), o \in {"winner", "loser"} : y[s] = From(m, o)
    <3>1. k - 2 \in Nat /\ k - 2 + 1 = k - 1 /\ 1 \in 1 .. k
      OBVIOUS
    <3>2. Power[k - 2] \in Nat /\ Power[k - 1] = 2 * Power[k - 2]
      BY <3>1, PowerIsRight
    <3>3. Feeder(s, h) \in 1 .. Power[k - 1]
      BY <3>2, Feeders
    <3>4. Upper(1, Feeder(s, h)) \in MatchIds(b)
      BY <1>3, <3>1, <3>3 DEF IsCode
    <3> QED BY <2>3, <3>4
  <2>4. ASSUME NEW j \in 2 .. k - 1, NEW h \in 1 .. Power[k - 1 - j],
               y[s] = From(Lower(k + 2 * (j - 1), Feeder(s, h)), "winner")
        PROVE  \E m \in MatchIds(b), o \in {"winner", "loser"} : y[s] = From(m, o)
    <3>1. j - 1 \in 1 .. k - 1 /\ j \in 1 .. k - 1 /\ k - 1 - j \in Nat /\ k - ((j - 1) + 1) = k - j
      OBVIOUS
    <3>2. Power[k - 1 - j] \in Nat /\ Power[k - 1 - (j - 1)] = 2 * Power[k - 1 - j]
      BY <1>1, <1>2, <3>1
    <3>3. Feeder(s, h) \in 1 .. Power[k - 1 - (j - 1)]
      BY <3>2, Feeders
    <3>4. Lower(k + 2 * (j - 1), Feeder(s, h)) \in MatchIds(b)
      BY <1>3, <3>1, <3>3 DEF IsCode
    <3> QED BY <2>4, <3>4
  <2>5. ASSUME NEW j \in 1 .. k - 1, NEW h \in 1 .. Power[k - 1 - j],
               y[s] = IF s = "home" THEN From(Lower(k + 2 * j - 1, h), "winner") ELSE From(Upper(j + 1, h), "loser")
        PROVE  \E m \in MatchIds(b), o \in {"winner", "loser"} : y[s] = From(m, o)
    <3>1. Lower(k + 2 * j - 1, h) \in MatchIds(b)
      BY <1>3 DEF IsCode
    <3>2. Upper(j + 1, h) \in MatchIds(b)
      <4>1. j + 1 \in 1 .. k /\ h \in 1 .. Power[k - (j + 1)]
        BY <1>1
      <4> QED BY <1>3, <4>1 DEF IsCode
    <3> QED BY <2>5, <3>1, <3>2
  <2>6. ASSUME y[s] = IF s = "home" THEN From(Upper(k, 1), "winner") ELSE From(Lower(k + 2 * (k - 1), 1), "winner")
        PROVE  \E m \in MatchIds(b), o \in {"winner", "loser"} : y[s] = From(m, o)
    <3>1. k \in 1 .. k /\ k - 1 \in 1 .. k - 1 /\ 1 \in 1 .. Power[k - k] /\ 1 \in 1 .. Power[k - 1 - (k - 1)]
      BY <1>1
    <3>2. Upper(k, 1) \in MatchIds(b) /\ Lower(k + 2 * (k - 1), 1) \in MatchIds(b)
      BY <1>3, <3>1 DEF IsCode
    <3> QED BY <2>6, <3>2
  <2> HIDE DEF b
  <2> QED BY <2>0, <2>1, <2>2, <2>3, <2>4, <2>5, <2>6 DEF ComesTo
<1> QED BY <1>4 DEF NoByes

\* Every team enters a double elimination once and goes on as long as it may.
LEMMA DoubleIsLinked ==
    ASSUME NEW k \in Nat \ {0, 1}, NEW n, n = Power[k]
    PROVE  /\ EveryTeamEntersOnce(n, DoubleElimination(n))
           /\ EveryoneGoesOnOnce("double", n, DoubleElimination(n))
<1> DEFINE b == DoubleElimination(n)
<1>1. LastMatch("double", n) = GrandFinal
  BY DEF LastMatch
<1>2. NoByes(n, b) /\ \A i \in 1 .. n : HasOneSlot(b, Entry(i))
  BY DoubleNoByes, DoubleGoesOn
<1>3. GrandFinal \in MatchIds(b)
  BY DoubleCodes DEF IsCode
<1>4. ASSUME NEW m \in MatchIds(b)
      PROVE  /\ IF m = GrandFinal THEN HasNoSlot(b, From(m, "winner")) ELSE HasOneSlot(b, From(m, "winner"))
             /\ IF m[1] = "winners" THEN HasOneSlot(b, From(m, "loser")) ELSE HasNoSlot(b, From(m, "loser"))
  <2>0. IsCode(k, m)
    BY DoubleCodes
  <2> HIDE DEF b
  <2>1. ASSUME NEW r \in 1 .. k, NEW i \in 1 .. Power[k - r], m = Upper(r, i)
        PROVE  m # GrandFinal /\ m[1] = "winners" /\ HasOneSlot(b, From(m, "winner")) /\ HasOneSlot(b, From(m, "loser"))
    BY <2>1, DoubleGoesOn, NamesDiffer DEF b
  <2>2. ASSUME NEW j \in 1 .. k - 1, NEW i \in 1 .. Power[k - 1 - j],
               m = Lower(k + 2 * j - 1, i) \/ m = Lower(k + 2 * j, i)
        PROVE  m # GrandFinal /\ m[1] # "winners" /\ HasOneSlot(b, From(m, "winner")) /\ HasNoSlot(b, From(m, "loser"))
    <3>1. m # GrandFinal /\ m[1] # "winners"
      BY <2>2, NamesDiffer
    <3>2. /\ HasOneSlot(b, From(Lower(k + 2 * j - 1, i), "winner"))
          /\ HasOneSlot(b, From(Lower(k + 2 * j, i), "winner"))
          /\ \A r, h : HasNoSlot(b, From(Lower(r, h), "loser"))
      BY DoubleGoesOn DEF b
    <3> QED BY <2>2, <3>1, <3>2
  <2>3. ASSUME m = GrandFinal
        PROVE  m[1] # "winners" /\ HasNoSlot(b, From(m, "winner")) /\ HasNoSlot(b, From(m, "loser"))
    BY <2>3, DoubleGoesOn, NamesDiffer DEF b
  <2> QED BY <2>0, <2>1, <2>2, <2>3 DEF IsCode
<1> HIDE DEF b
<1> QED BY <1>1, <1>2, <1>3, <1>4, BracketBySlots DEF b

\* The links of a double elimination by the lanes and rounds they join.
LEMMA DoubleLinks ==
    ASSUME NEW k \in Nat \ {0, 1}, NEW n, n = Power[k], NEW l \in Links(DoubleElimination(n))
    PROVE  LET joins(source, outcome, target) ==
                   l.source = source /\ l.outcome = outcome /\ l.target = target
           IN l.side \in Sides /\
              \/ \E r \in 2 .. k : \E i, h : joins(Upper(r - 1, i), "winner", Upper(r, h))
              \/ \E i, h : joins(Upper(1, i), "loser", Lower(k + 1, h))
              \/ \E j \in 2 .. k - 1 : \E i, h :
                    joins(Lower(k + 2 * (j - 1), i), "winner", Lower(k + 2 * j - 1, h))
              \/ \E j \in 1 .. k - 1 : \E h : joins(Lower(k + 2 * j - 1, h), "winner", Lower(k + 2 * j, h))
              \/ \E j \in 1 .. k - 1 : \E h : joins(Upper(j + 1, h), "loser", Lower(k + 2 * j, h))
              \/ l.side = "home" /\ joins(Upper(k, 1), "winner", GrandFinal)
              \/ l.side = "away" /\ joins(Lower(k + 2 * (k - 1), 1), "winner", GrandFinal)
<1>1. PICK x \in DoubleElimination(n), s \in Sides :
         /\ x[s] = From(l.source, l.outcome)
         /\ l = [source |-> l.source, target |-> x.match, side |-> s, outcome |-> l.outcome]
  BY DoubleNoByes, LinksBySlots
<1>2. l.target = x.match /\ l.side = s
  BY <1>1
<1>3. ComesTo(n, k, x, s, From(l.source, l.outcome))
  BY <1>1, DoubleEntrants
<1>4. \A i : Entry(i) # From(l.source, l.outcome)
  BY NamesDiffer
<1>5. \A m, o : From(m, o) = From(l.source, l.outcome) => m = l.source /\ o = l.outcome
  BY NamesDiffer
<1>6. /\ \A r, i : UpperMatch(r, i).match = Upper(r, i)
      /\ \A j, i : MinorMatch(n, j, i).match = Lower(k + 2 * j - 1, i)
      /\ \A j, i : MajorMatch(n, j, i).match = Lower(k + 2 * j, i)
      /\ GrandFinalMatch(n).match = GrandFinal
  BY DoubleCodes
<1> DEFINE joins(source, outcome, target) == l.source = source /\ l.outcome = outcome /\ l.target = target
<1>7. ASSUME NEW r \in 2 .. k, NEW h, x = UpperMatch(r, h),
             From(l.source, l.outcome) = From(Upper(r - 1, Feeder(s, h)), "winner")
      PROVE  \E i : joins(Upper(r - 1, i), "winner", Upper(r, h))
  BY <1>2, <1>5, <1>6, <1>7
<1>8. ASSUME NEW h, x = MinorMatch(n, 1, h), From(l.source, l.outcome) = From(Upper(1, Feeder(s, h)), "loser")
      PROVE  \E i : joins(Upper(1, i), "loser", Lower(k + 1, h))
  <2>1. k + 2 * 1 - 1 = k + 1
    OBVIOUS
  <2>2. x.match = Lower(k + 1, h)
    BY <1>6, <1>8, <2>1
  <2> QED BY <1>2, <1>5, <1>8, <2>2
<1>9. ASSUME NEW j \in 2 .. k - 1, NEW h, x = MinorMatch(n, j, h),
             From(l.source, l.outcome) = From(Lower(k + 2 * (j - 1), Feeder(s, h)), "winner")
      PROVE  \E i : joins(Lower(k + 2 * (j - 1), i), "winner", Lower(k + 2 * j - 1, h))
  BY <1>2, <1>5, <1>6, <1>9
<1>10. ASSUME NEW j \in 1 .. k - 1, NEW h, x = MajorMatch(n, j, h),
              From(l.source, l.outcome) = IF s = "home" THEN From(Lower(k + 2 * j - 1, h), "winner")
                                          ELSE From(Upper(j + 1, h), "loser")
       PROVE  \/ joins(Lower(k + 2 * j - 1, h), "winner", Lower(k + 2 * j, h))
              \/ joins(Upper(j + 1, h), "loser", Lower(k + 2 * j, h))
  BY <1>2, <1>5, <1>6, <1>10
<1>11. ASSUME x = GrandFinalMatch(n),
              From(l.source, l.outcome) = IF s = "home" THEN From(Upper(k, 1), "winner")
                                          ELSE From(Lower(k + 2 * (k - 1), 1), "winner")
       PROVE  \/ l.side = "home" /\ joins(Upper(k, 1), "winner", GrandFinal)
              \/ l.side = "away" /\ joins(Lower(k + 2 * (k - 1), 1), "winner", GrandFinal)
  BY <1>2, <1>5, <1>6, <1>11 DEF Sides
<1> HIDE DEF joins
<1>12. \/ \E r \in 2 .. k : \E i, h : joins(Upper(r - 1, i), "winner", Upper(r, h))
       \/ \E i, h : joins(Upper(1, i), "loser", Lower(k + 1, h))
       \/ \E j \in 2 .. k - 1 : \E i, h :
             joins(Lower(k + 2 * (j - 1), i), "winner", Lower(k + 2 * j - 1, h))
       \/ \E j \in 1 .. k - 1 : \E h : joins(Lower(k + 2 * j - 1, h), "winner", Lower(k + 2 * j, h))
       \/ \E j \in 1 .. k - 1 : \E h : joins(Upper(j + 1, h), "loser", Lower(k + 2 * j, h))
       \/ l.side = "home" /\ joins(Upper(k, 1), "winner", GrandFinal)
       \/ l.side = "away" /\ joins(Lower(k + 2 * (k - 1), 1), "winner", GrandFinal)
  BY <1>3, <1>4, <1>7, <1>8, <1>9, <1>10, <1>11 DEF ComesTo
<1> QED BY <1>2, <1>12 DEF joins

\* The lanes of a double elimination count the defeats of a team.
LEMMA DoubleCountsDefeats ==
    ASSUME NEW k \in Nat \ {0, 1}, NEW n, n = Power[k]
    PROVE  LanesCountDefeats("double", n, DoubleElimination(n))
<1> DEFINE b == DoubleElimination(n)
<1>1. /\ \A r, i : \A s \in Sides : DefeatsAt(Upper(r, i), s) = 0
      /\ \A r, i : \A s \in Sides : DefeatsAt(Lower(r, i), s) = 1
      /\ DefeatsAt(GrandFinal, "home") = 0 /\ DefeatsAt(GrandFinal, "away") = 1
  <2>1. \A r, i : \A s \in Sides : DefeatsAt(Upper(r, i), s) = 0
    BY NamesDiffer DEF DefeatsAt
  <2>2. \A r, i : \A s \in Sides : DefeatsAt(Lower(r, i), s) = 1
    BY NamesDiffer DEF DefeatsAt
  <2>3. DefeatsAt(GrandFinal, "home") = 0 /\ DefeatsAt(GrandFinal, "away") = 1
    BY NamesDiffer DEF DefeatsAt
  <2> QED BY <2>1, <2>2, <2>3
<1>2. ASSUME NEW m \in MatchIds(b)
      PROVE  m[1] \in {"winners", "losers"} \/ m = LastMatch("double", n)
  <2>1. IsCode(k, m)
    BY DoubleCodes
  <2>2. LastMatch("double", n) = GrandFinal
    BY DEF LastMatch
  <2> HIDE DEF b
  <2>3. \A r, i : Upper(r, i)[1] = "winners" /\ Lower(r, i)[1] = "losers"
    BY NamesDiffer
  <2> QED BY <2>1, <2>2, <2>3 DEF IsCode
<1>3. ASSUME NEW x \in b, NEW s \in Sides, x[s].kind = "team"
      PROVE  DefeatsAt(x.match, s) = 0
  <2>1. ComesTo(n, k, x, s, x[s])
    BY DoubleEntrants
  <2>2. \A m, o : x[s] # From(m, o)
    BY <1>3 DEF From
  <2>3. PICK h : x = UpperMatch(1, h)
    <3> HIDE DEF b
    <3> QED BY <2>1, <2>2 DEF ComesTo
  <2>4. x.match = Upper(1, h)
    BY <2>3, DoubleCodes
  <2> QED BY <1>1, <2>4
<1>4. ASSUME NEW l \in Links(b), NEW s \in Sides
      PROVE  DefeatsAt(l.target, l.side) = DefeatsAt(l.source, s) + (IF l.outcome = "loser" THEN 1 ELSE 0)
  <2> DEFINE joins(source, outcome, target) == l.source = source /\ l.outcome = outcome /\ l.target = target
  <2>0. l.side \in Sides
    BY DoubleLinks
  <2>1. ASSUME NEW q, NEW i, NEW r, NEW h, joins(Upper(q, i), "winner", Upper(r, h))
        PROVE  DefeatsAt(l.target, l.side) = DefeatsAt(l.source, s) + (IF l.outcome = "loser" THEN 1 ELSE 0)
    BY <1>1, <2>0, <2>1
  <2>2. ASSUME NEW q, NEW i, NEW r, NEW h, joins(Upper(q, i), "loser", Lower(r, h))
        PROVE  DefeatsAt(l.target, l.side) = DefeatsAt(l.source, s) + (IF l.outcome = "loser" THEN 1 ELSE 0)
    BY <1>1, <2>0, <2>2
  <2>3. ASSUME NEW q, NEW i, NEW r, NEW h, joins(Lower(q, i), "winner", Lower(r, h))
        PROVE  DefeatsAt(l.target, l.side) = DefeatsAt(l.source, s) + (IF l.outcome = "loser" THEN 1 ELSE 0)
    BY <1>1, <2>0, <2>3
  <2>4. ASSUME NEW q, NEW i, l.side = "home", joins(Upper(q, i), "winner", GrandFinal)
        PROVE  DefeatsAt(l.target, l.side) = DefeatsAt(l.source, s) + (IF l.outcome = "loser" THEN 1 ELSE 0)
    BY <1>1, <2>4
  <2>5. ASSUME NEW q, NEW i, l.side = "away", joins(Lower(q, i), "winner", GrandFinal)
        PROVE  DefeatsAt(l.target, l.side) = DefeatsAt(l.source, s) + (IF l.outcome = "loser" THEN 1 ELSE 0)
    BY <1>1, <2>5
  <2>6. \/ \E r \in 2 .. k : \E i, h : joins(Upper(r - 1, i), "winner", Upper(r, h))
        \/ \E i, h : joins(Upper(1, i), "loser", Lower(k + 1, h))
        \/ \E j \in 2 .. k - 1 : \E i, h :
              joins(Lower(k + 2 * (j - 1), i), "winner", Lower(k + 2 * j - 1, h))
        \/ \E j \in 1 .. k - 1 : \E h : joins(Lower(k + 2 * j - 1, h), "winner", Lower(k + 2 * j, h))
        \/ \E j \in 1 .. k - 1 : \E h : joins(Upper(j + 1, h), "loser", Lower(k + 2 * j, h))
        \/ l.side = "home" /\ joins(Upper(k, 1), "winner", GrandFinal)
        \/ l.side = "away" /\ joins(Lower(k + 2 * (k - 1), 1), "winner", GrandFinal)
    BY DoubleLinks
  <2> HIDE DEF joins
  <2> QED BY <2>1, <2>2, <2>3, <2>4, <2>5, <2>6
<1> HIDE DEF b
<1>5. LanesCountDefeats("double", n, b)
  BY <1>2, <1>3, <1>4 DEF LanesCountDefeats
<1> QED BY <1>5 DEF b

\* The calendar of a double elimination can be played in order.
LEMMA DoubleInTurn ==
    ASSUME NEW k \in Nat \ {0, 1}, NEW n, n = Power[k]
    PROVE  FeedersArePlayedBefore(n, DoubleElimination(n))
<1> DEFINE b == DoubleElimination(n)
<1>1. /\ \A r, i : Matchday(n, Upper(r, i)) = r /\ Matchday(n, Lower(r, i)) = r
      /\ Matchday(n, GrandFinal) = 3 * k - 1
  BY DoubleRounds, NamesDiffer DEF Matchday
<1>2. ASSUME NEW m \in MatchIds(b) PROVE Matchday(n, m) \in Nat \ {0}
  <2>1. IsCode(k, m)
    BY DoubleCodes
  <2>2. 3 * k - 1 \in Nat \ {0} /\ (\A r \in 1 .. k : r \in Nat \ {0})
           /\ \A j \in 1 .. k - 1 : k + 2 * j - 1 \in Nat \ {0} /\ k + 2 * j \in Nat \ {0}
    OBVIOUS
  <2> HIDE DEF b
  <2> QED BY <1>1, <2>1, <2>2 DEF IsCode
<1>3. ASSUME NEW l \in Links(b) PROVE Matchday(n, l.source) < Matchday(n, l.target)
  <2> DEFINE joins(source, outcome, target) == l.source = source /\ l.outcome = outcome /\ l.target = target
             ranks(q, r) == Matchday(n, l.source) = q /\ Matchday(n, l.target) = r
  <2>1. \A q, i, o, r, h : joins(Upper(q, i), o, Upper(r, h)) => ranks(q, r)
    BY <1>1
  <2>2. \A q, i, o, r, h : joins(Upper(q, i), o, Lower(r, h)) => ranks(q, r)
    BY <1>1
  <2>3. \A q, i, o, r, h : joins(Lower(q, i), o, Lower(r, h)) => ranks(q, r)
    BY <1>1
  <2>4. \A q, i, o : joins(Upper(q, i), o, GrandFinal) => ranks(q, 3 * k - 1)
    BY <1>1
  <2>5. \A q, i, o : joins(Lower(q, i), o, GrandFinal) => ranks(q, 3 * k - 1)
    BY <1>1
  <2>6. \/ \E r \in 2 .. k : \E i, h : joins(Upper(r - 1, i), "winner", Upper(r, h))
        \/ \E i, h : joins(Upper(1, i), "loser", Lower(k + 1, h))
        \/ \E j \in 2 .. k - 1 : \E i, h :
              joins(Lower(k + 2 * (j - 1), i), "winner", Lower(k + 2 * j - 1, h))
        \/ \E j \in 1 .. k - 1 : \E h : joins(Lower(k + 2 * j - 1, h), "winner", Lower(k + 2 * j, h))
        \/ \E j \in 1 .. k - 1 : \E h : joins(Upper(j + 1, h), "loser", Lower(k + 2 * j, h))
        \/ l.side = "home" /\ joins(Upper(k, 1), "winner", GrandFinal)
        \/ l.side = "away" /\ joins(Lower(k + 2 * (k - 1), 1), "winner", GrandFinal)
    BY DoubleLinks
  <2> HIDE DEF joins, ranks
  <2>7. \/ \E r \in 2 .. k : ranks(r - 1, r)
        \/ ranks(1, k + 1)
        \/ \E j \in 2 .. k - 1 : ranks(k + 2 * (j - 1), k + 2 * j - 1)
        \/ \E j \in 1 .. k - 1 : ranks(k + 2 * j - 1, k + 2 * j) \/ ranks(j + 1, k + 2 * j)
        \/ ranks(k, 3 * k - 1) \/ ranks(k + 2 * (k - 1), 3 * k - 1)
    BY <2>1, <2>2, <2>3, <2>4, <2>5, <2>6
  <2> QED BY <2>7 DEF ranks
<1> HIDE DEF b
<1>4. FeedersArePlayedBefore(n, b)
  BY <1>2, <1>3 DEF FeedersArePlayedBefore
<1> QED BY <1>4 DEF b

\* No two matches of a double elimination have the same code.
LEMMA DoubleCodesDiffer ==
    ASSUME NEW k \in Nat \ {0, 1}, NEW n, n = Power[k]
    PROVE  CodesAreUnique(DoubleElimination(n))
<1> DEFINE b == DoubleElimination(n)
<1>1. ASSUME NEW x, NEW y, IsPlaced(n, k, x), IsPlaced(n, k, y), x.match = y.match PROVE x = y
  <2>1. /\ \A r, i : UpperMatch(r, i).match = Upper(r, i)
        /\ \A j, i : MinorMatch(n, j, i).match = Lower(k + 2 * j - 1, i)
        /\ \A j, i : MajorMatch(n, j, i).match = Lower(k + 2 * j, i)
        /\ GrandFinalMatch(n).match = GrandFinal
    BY DoubleCodes
  <2>2. ASSUME NEW r, NEW i, x = UpperMatch(r, i) PROVE x = y
    BY <1>1, <2>1, <2>2, NamesDiffer DEF IsPlaced
  <2>3. ASSUME NEW j \in 1 .. k - 1, NEW i, x = MinorMatch(n, j, i) PROVE x = y
    <3>1. ASSUME NEW q \in 1 .. k - 1, NEW h, y = MajorMatch(n, q, h) PROVE FALSE
      <4>1. k + 2 * j - 1 = k + 2 * q
        BY <1>1, <2>1, <2>3, <3>1, NamesDiffer
      <4> QED BY <4>1
    <3>2. ASSUME NEW q \in 1 .. k - 1, NEW h, y = MinorMatch(n, q, h) PROVE x = y
      <4>1. k + 2 * j - 1 = k + 2 * q - 1 /\ i = h
        BY <1>1, <2>1, <2>3, <3>2, NamesDiffer
      <4>2. j = q
        BY <4>1
      <4> QED BY <2>3, <3>2, <4>1, <4>2
    <3>3. y.match = Lower(k + 2 * j - 1, i)
      BY <1>1, <2>1, <2>3
    <3>4. ASSUME y = GrandFinalMatch(n) PROVE FALSE
      BY <2>1, <3>3, <3>4, NamesDiffer
    <3>5. ASSUME NEW r, NEW h, y = UpperMatch(r, h) PROVE FALSE
      BY <2>1, <3>3, <3>5, NamesDiffer
    <3> QED BY <1>1, <3>1, <3>2, <3>4, <3>5 DEF IsPlaced
  <2>4. ASSUME NEW j \in 1 .. k - 1, NEW i, x = MajorMatch(n, j, i) PROVE x = y
    <3>1. ASSUME NEW q \in 1 .. k - 1, NEW h, y = MinorMatch(n, q, h) PROVE FALSE
      <4>1. k + 2 * j = k + 2 * q - 1
        BY <1>1, <2>1, <2>4, <3>1, NamesDiffer
      <4> QED BY <4>1
    <3>2. ASSUME NEW q \in 1 .. k - 1, NEW h, y = MajorMatch(n, q, h) PROVE x = y
      <4>1. k + 2 * j = k + 2 * q /\ i = h
        BY <1>1, <2>1, <2>4, <3>2, NamesDiffer
      <4>2. j = q
        BY <4>1
      <4> QED BY <2>4, <3>2, <4>1, <4>2
    <3>3. y.match = Lower(k + 2 * j, i)
      BY <1>1, <2>1, <2>4
    <3>4. ASSUME y = GrandFinalMatch(n) PROVE FALSE
      BY <2>1, <3>3, <3>4, NamesDiffer
    <3>5. ASSUME NEW r, NEW h, y = UpperMatch(r, h) PROVE FALSE
      BY <2>1, <3>3, <3>5, NamesDiffer
    <3> QED BY <1>1, <3>1, <3>2, <3>4, <3>5 DEF IsPlaced
  <2>5. CASE x = GrandFinalMatch(n)
    BY <1>1, <2>1, <2>5, NamesDiffer DEF IsPlaced
  <2> QED BY <1>1, <2>2, <2>3, <2>4, <2>5 DEF IsPlaced
<1> QED BY <1>1, DoubleMatches DEF CodesAreUnique

\* Two sets without a member in common add up.
LEMMA DisjointAddUp ==
    ASSUME NEW S, NEW T, IsFiniteSet(S), IsFiniteSet(T), S \cap T = {}
    PROVE  IsFiniteSet(S \cup T) /\ Cardinality(S \cup T) = Cardinality(S) + Cardinality(T)
<1>1. Cardinality(S) \in Nat /\ Cardinality(T) \in Nat
  BY FS_CardinalityType
<1>2. IsFiniteSet(S \cup T) /\ Cardinality(S \cup T) = Cardinality(S) + Cardinality(T) - Cardinality(S \cap T)
  BY FS_Union
<1>3. Cardinality(S \cap T) = 0
  BY FS_EmptySet
<1> QED BY <1>1, <1>2, <1>3

\* n - 1 matches in the winners' lane, n - 2 in the losers' lane, and the grand final.
LEMMA DoubleIsCounted ==
    ASSUME NEW k \in Nat \ {0, 1}, NEW n, n = Power[k]
    PROVE  RightNumberOfMatches("double", n, DoubleElimination(n))
<1> DEFINE f == [p \in UpperPlaces(n) |-> UpperMatch(p[1], p[2])]
           g == [p \in LowerPlaces(n) |-> MinorMatch(n, p[1], p[2])]
           h == [p \in LowerPlaces(n) |-> MajorMatch(n, p[1], p[2])]
           U == {f[p] : p \in UpperPlaces(n)}
           G == {g[p] : p \in LowerPlaces(n)}
           H == {h[p] : p \in LowerPlaces(n)}
<1>1. /\ n \in Nat \ {0, 1} /\ RoundsFor(n) = k /\ n = 2 * Power[k - 1]
  BY DoubleRounds
<1>2. /\ UpperPlaces(n) = Places(k, n) /\ LowerPlaces(n) = Places(k - 1, n)
  BY <1>1 DEF UpperPlaces, LowerPlaces, Places
<1>3. /\ IsFiniteSet(UpperPlaces(n)) /\ Cardinality(UpperPlaces(n)) = n - 1
      /\ IsFiniteSet(LowerPlaces(n)) /\ Cardinality(LowerPlaces(n)) = Power[k - 1] - 1
  <2>1. /\ k \in Nat \ {0} /\ k - 1 \in Nat \ {0} /\ k - 1 - 1 = k - 2 /\ k - 2 \in Nat
        /\ k - 2 < k - 1
    OBVIOUS
  <2>2. Power[k - 1] \in Nat /\ Power[k - 2] \in Nat /\ 2 * Power[k - 2] <= Power[k - 1]
    BY <2>1, PowerIsRight, PowersGrow
  <2>3. Power[k - 1] <= n /\ Power[k - 1 - 1] <= n
    BY <1>1, <2>1, <2>2
  <2> QED BY <1>1, <1>2, <2>1, <2>3, PlacesAreCounted
<1>4. \A p \in UpperPlaces(n) : p = <<p[1], p[2]>> /\ p[1] \in 1 .. k
  BY <1>2 DEF Places
<1>5. \A p \in LowerPlaces(n) : p = <<p[1], p[2]>> /\ p[1] \in 1 .. k - 1
  BY <1>2 DEF Places
<1>6. /\ \A p \in UpperPlaces(n) : f[p].match = Upper(p[1], p[2])
      /\ \A p \in LowerPlaces(n) : g[p].match = Lower(k + 2 * p[1] - 1, p[2])
      /\ \A p \in LowerPlaces(n) : h[p].match = Lower(k + 2 * p[1], p[2])
  BY DoubleCodes
<1>7. DoubleElimination(n) = U \cup G \cup H \cup {GrandFinalMatch(n)}
  BY DEF DoubleElimination
<1> HIDE DEF f, g, h
<1>8. IsFiniteSet(U) /\ Cardinality(U) = n - 1
  <2>1. \A p, q \in UpperPlaces(n) : f[p] = f[q] => p = q
    <3> SUFFICES ASSUME NEW p \in UpperPlaces(n), NEW q \in UpperPlaces(n), f[p] = f[q] PROVE p = q
      OBVIOUS
    <3>1. Upper(p[1], p[2]) = Upper(q[1], q[2])
      BY <1>6
    <3>2. p[1] = q[1] /\ p[2] = q[2]
      BY <3>1, NamesDiffer
    <3> QED BY <1>4, <3>2
  <2> QED BY <1>3, <2>1, ImageIsAsLarge
<1>9. IsFiniteSet(G) /\ Cardinality(G) = Power[k - 1] - 1
  <2>1. \A p, q \in LowerPlaces(n) : g[p] = g[q] => p = q
    <3> SUFFICES ASSUME NEW p \in LowerPlaces(n), NEW q \in LowerPlaces(n), g[p] = g[q] PROVE p = q
      OBVIOUS
    <3>1. Lower(k + 2 * p[1] - 1, p[2]) = Lower(k + 2 * q[1] - 1, q[2])
      BY <1>6
    <3>2. k + 2 * p[1] - 1 = k + 2 * q[1] - 1 /\ p[2] = q[2]
      BY <3>1, NamesDiffer
    <3>3. p[1] \in Nat /\ q[1] \in Nat
      BY <1>5
    <3>4. p[1] = q[1]
      BY <3>2, <3>3
    <3> QED BY <1>5, <3>2, <3>4
  <2> QED BY <1>3, <2>1, ImageIsAsLarge
<1>10. IsFiniteSet(H) /\ Cardinality(H) = Power[k - 1] - 1
  <2>1. \A p, q \in LowerPlaces(n) : h[p] = h[q] => p = q
    <3> SUFFICES ASSUME NEW p \in LowerPlaces(n), NEW q \in LowerPlaces(n), h[p] = h[q] PROVE p = q
      OBVIOUS
    <3>1. Lower(k + 2 * p[1], p[2]) = Lower(k + 2 * q[1], q[2])
      BY <1>6
    <3>2. k + 2 * p[1] = k + 2 * q[1] /\ p[2] = q[2]
      BY <3>1, NamesDiffer
    <3>3. p[1] \in Nat /\ q[1] \in Nat
      BY <1>5
    <3>4. p[1] = q[1]
      BY <3>2, <3>3
    <3> QED BY <1>5, <3>2, <3>4
  <2> QED BY <1>3, <2>1, ImageIsAsLarge
<1>11. U \cap G = {} /\ (U \cup G) \cap H = {} /\ GrandFinalMatch(n) \notin U \cup G \cup H
  <2>1. ASSUME NEW p \in UpperPlaces(n), NEW q \in LowerPlaces(n)
        PROVE  f[p] # g[q] /\ f[p] # h[q] /\ f[p] # GrandFinalMatch(n)
    BY <1>6, DoubleCodes, NamesDiffer
  <2>2. ASSUME NEW p \in LowerPlaces(n), NEW q \in LowerPlaces(n)
        PROVE  g[p] # h[q] /\ g[p] # GrandFinalMatch(n) /\ h[p] # GrandFinalMatch(n)
    <3>1. p[1] \in Nat /\ q[1] \in Nat
      BY <1>5
    <3>2. Lower(k + 2 * p[1] - 1, p[2]) # Lower(k + 2 * q[1], q[2])
      <4>1. k + 2 * p[1] - 1 # k + 2 * q[1]
        BY <3>1
      <4> QED BY <4>1, NamesDiffer
    <3>3. GrandFinalMatch(n).match = GrandFinal
      BY DoubleCodes
    <3> QED BY <1>6, <3>2, <3>3, NamesDiffer
  <2>3. UpperPlaces(n) # {} /\ LowerPlaces(n) # {}
    <3>1. Cardinality(UpperPlaces(n)) # 0 /\ Cardinality(LowerPlaces(n)) # 0
      <4>1. k - 1 \in Nat /\ 1 <= k - 1
        OBVIOUS
      <4>2. k - 1 < Power[k - 1]
        BY <4>1, PowersGrow
      <4> QED BY <1>1, <1>3, <4>1, <4>2, PowerIsRight
    <3> QED BY <1>3, <3>1, FS_EmptySet
  <2> QED BY <2>1, <2>2, <2>3
<1> HIDE DEF U, G, H
<1>12. IsFiniteSet(U \cup G) /\ Cardinality(U \cup G) = n - 1 + (Power[k - 1] - 1)
  BY <1>8, <1>9, <1>11, DisjointAddUp
<1>13. /\ IsFiniteSet(U \cup G \cup H)
       /\ Cardinality(U \cup G \cup H) = n - 1 + (Power[k - 1] - 1) + (Power[k - 1] - 1)
  BY <1>10, <1>11, <1>12, DisjointAddUp
<1>14. /\ IsFiniteSet(DoubleElimination(n))
       /\ Cardinality(DoubleElimination(n)) = n - 1 + (Power[k - 1] - 1) + (Power[k - 1] - 1) + 1
  <2>1. GrandFinalMatch(n) \notin U \cup G \cup H
    BY <1>11
  <2>2. /\ IsFiniteSet((U \cup G \cup H) \cup {GrandFinalMatch(n)})
        /\ Cardinality((U \cup G \cup H) \cup {GrandFinalMatch(n)}) = Cardinality(U \cup G \cup H) + 1
    BY <1>13, <2>1, FS_AddElement
  <2> QED BY <1>7, <1>13, <2>2
<1>15. k - 1 \in Nat
  OBVIOUS
<1>16. n - 1 + (Power[k - 1] - 1) + (Power[k - 1] - 1) + 1 = 2 * (n - 1)
  BY <1>1, <1>15, PowerIsRight
<1> QED BY <1>14, <1>16 DEF RightNumberOfMatches, Losses

\* The double elimination of any power of two from four on is a bracket.
THEOREM DoubleIsABracket ==
    \A k \in Nat \ {0, 1} : IsABracket("double", Power[k], Drawn("double", Power[k]))
<1> TAKE k \in Nat \ {0, 1}
<1>1. Drawn("double", Power[k]) = DoubleElimination(Power[k])
  BY DEF Drawn
<1> QED BY <1>1, DoubleIsLinked, DoubleCountsDefeats, DoubleInTurn, DoubleCodesDiffer, DoubleIsCounted DEF IsABracket

-------------------------------------------------------------------------------
(* The single elimination of n teams, two or more.                         *)

\* A function on 1 .. n is a sequence of length n.
LEMMA LengthOf ==
    ASSUME NEW n \in Nat \ {0}, NEW S, NEW f \in [1 .. n -> S]
    PROVE  Len(f) = n
<1>1. f \in Seq(S)
  BY SeqDef
<1>2. Len(f) \in Nat /\ DOMAIN f = 1 .. Len(f) /\ DOMAIN f = 1 .. n
  BY <1>1, LenProperties
<1>3. n \in 1 .. Len(f)
  BY <1>2
<1>4. Len(f) \in 1 .. n
  BY <1>2, <1>3
<1> QED BY <1>2, <1>3, <1>4

\* The rounds up to r, as a function: what the loop of the generator leaves behind.
IsDrawn(d, n, r) ==
    d = [q \in 0 .. r |->
            IF q = 0 THEN [entries |-> FirstEntries(n), matches |-> {}]
            ELSE [entries |-> NextEntries(d[q - 1].entries, q),
                  matches |-> d[q - 1].matches \cup RoundMatches(d[q - 1].entries, q)]]

\* There is such a function up to any round.
LEMMA RoundsAreDrawn == \A n : \A r \in Nat : \E d : IsDrawn(d, n, r)
<1> TAKE n
<1> DEFINE S == {r \in Nat : \E d : IsDrawn(d, n, r)}
<1>1. 0 \in S
  <2> DEFINE d == [q \in 0 .. 0 |-> [entries |-> FirstEntries(n), matches |-> {}]]
  <2>1. IsDrawn(d, n, 0)
    BY DEF IsDrawn
  <2> QED BY <2>1
<1>2. ASSUME NEW r \in S PROVE r + 1 \in S
  <2>0. r \in Nat
    OBVIOUS
  <2>1. PICK d : IsDrawn(d, n, r)
    OBVIOUS
  <2> DEFINE after == [entries |-> NextEntries(d[r].entries, r + 1),
                       matches |-> d[r].matches \cup RoundMatches(d[r].entries, r + 1)]
             f == [q \in 0 .. r + 1 |-> IF q = r + 1 THEN after ELSE d[q]]
             g == [q \in 0 .. r + 1 |->
                     IF q = 0 THEN [entries |-> FirstEntries(n), matches |-> {}]
                     ELSE [entries |-> NextEntries(f[q - 1].entries, q),
                           matches |-> f[q - 1].matches \cup RoundMatches(f[q - 1].entries, q)]]
  <2>2. \A q \in 0 .. r : q \in 0 .. r + 1 /\ q # r + 1
    BY <2>0
  <2>3. \A q \in 0 .. r : f[q] = d[q]
    BY <2>2
  <2>4. ASSUME NEW q \in 0 .. r + 1 PROVE f[q] = g[q]
    <3>1. CASE q = r + 1
      <4>1. q # 0 /\ q - 1 = r /\ r \in 0 .. r /\ f[q] = after
        BY <2>0, <3>1
      <4>2. f[q - 1] = d[r]
        BY <2>3, <4>1
      <4> HIDE DEF f
      <4> QED BY <3>1, <4>1, <4>2
    <3>2. CASE q # r + 1
      <4>1. q \in 0 .. r /\ (q # 0 => q - 1 \in 0 .. r)
        BY <2>0, <3>2
      <4>2. f[q] = d[q] /\ (q # 0 => f[q - 1] = d[q - 1])
        BY <2>3, <4>1
      <4>3. d[q] = IF q = 0 THEN [entries |-> FirstEntries(n), matches |-> {}]
                   ELSE [entries |-> NextEntries(d[q - 1].entries, q),
                         matches |-> d[q - 1].matches \cup RoundMatches(d[q - 1].entries, q)]
        BY <2>1, <4>1 DEF IsDrawn
      <4> HIDE DEF f
      <4> QED BY <4>2, <4>3
    <3> QED BY <3>1, <3>2
  <2>5. f = g
    <3>1. f = [q \in 0 .. r + 1 |-> f[q]] /\ g = [q \in 0 .. r + 1 |-> g[q]]
      OBVIOUS
    <3> HIDE DEF f, g
    <3> QED BY <2>4, <3>1
  <2>6. IsDrawn(f, n, r + 1)
    <3> HIDE DEF f
    <3> QED BY <2>5 DEF IsDrawn
  <2> HIDE DEF f
  <2> QED BY <2>0, <2>6
<1> HIDE DEF S
<1>3. S = Nat
  BY <1>1, <1>2, AllNumbers DEF S
<1> QED BY <1>3 DEF S

\* SingleElimination has the matches that are there after the last round.
LEMMA SingleIsDrawn ==
    ASSUME NEW n \in Nat \ {0}
    PROVE  \E d : IsDrawn(d, n, RoundsFor(n)) /\ SingleElimination(n) = d[RoundsFor(n)].matches
<1>1. RoundsFor(n) \in Nat
  BY RoundsAreEnough
<1> DEFINE D == CHOOSE d : IsDrawn(d, n, RoundsFor(n))
<1>2. IsDrawn(D, n, RoundsFor(n))
  BY <1>1, RoundsAreDrawn
<1>3. SingleElimination(n) = D[RoundsFor(n)].matches
  BY Zenon DEF SingleElimination, IsDrawn
<1> QED BY <1>2, <1>3

\* Of the first c of 2 * Q entries, the others being empty, p pairs play; who is left
\* over goes on behind their winners.
InFront(E, Q, c, p, r) ==
    /\ RoundMatches(E, r) = {Match(Main(r, k), E[2 * k - 1], E[2 * k]) : k \in 1 .. p}
    /\ DOMAIN NextEntries(E, r) = 1 .. Q
    /\ NextEntries(E, r) \in [1 .. Q -> {NextEntries(E, r)[k] : k \in 1 .. Q}]
    /\ \A k \in 1 .. Q :
         NextEntries(E, r)[k] = IF k <= p THEN From(Main(r, k), "winner")
                                ELSE IF k = p + 1 /\ c = 2 * p + 1 THEN E[c] ELSE Bye

\* A round of the generator keeps whoever is left in front of the empty entries.
LEMMA PlayedInFront ==
    ASSUME NEW Q \in Nat \ {0}, NEW S, NEW E \in [1 .. 2 * Q -> S], NEW c \in 1 .. 2 * Q,
           \A i \in 1 .. 2 * Q : E[i] # Bye <=> i <= c,
           NEW p \in Nat, c = 2 * p \/ c = 2 * p + 1, NEW r
    PROVE  InFront(E, Q, c, p, r)
<1>1. Len(E) = 2 * Q /\ Len(E) \div 2 = Q
  BY LengthOf
<1>2. ASSUME NEW k \in 1 .. Q PROVE IsPlayed(E, k) <=> k <= p
  <2>1. 2 * k - 1 \in 1 .. 2 * Q /\ 2 * k \in 1 .. 2 * Q
    OBVIOUS
  <2>2. IsPlayed(E, k) <=> 2 * k - 1 <= c /\ 2 * k <= c
    BY <2>1 DEF IsPlayed
  <2> QED BY <2>2
<1>3. p <= Q
  OBVIOUS
<1>4. ASSUME NEW k \in 1 .. Q, k <= p PROVE NumberOf(E, k) = k
  <2>1. {j \in 1 .. k : IsPlayed(E, j)} = 1 .. k
    <3>1. \A j \in 1 .. k : j \in 1 .. Q /\ j <= p
      BY <1>4
    <3> QED BY <1>2, <3>1
  <2>2. Cardinality(1 .. k) = k
    <3>1. 1 \in Int /\ k \in Int /\ ~(1 > k) /\ k - 1 + 1 = k
      OBVIOUS
    <3>2. Cardinality(1 .. k) = IF 1 > k THEN 0 ELSE k - 1 + 1
      BY <3>1, FS_Interval, Zenon
    <3> QED BY <3>1, <3>2
  <2> QED BY <2>1, <2>2 DEF NumberOf
<1>5. RoundMatches(E, r) = {Match(Main(r, k), E[2 * k - 1], E[2 * k]) : k \in 1 .. p}
  <2>1. {j \in 1 .. Len(E) \div 2 : IsPlayed(E, j)} = 1 .. p
    <3>1. \A j : j \in 1 .. p <=> j \in 1 .. Q /\ j <= p
      BY <1>3
    <3> QED BY <1>1, <1>2, <3>1
  <2>2. RoundMatches(E, r) = {Match(Main(r, NumberOf(E, k)), E[2 * k - 1], E[2 * k]) : k \in 1 .. p}
    BY <2>1 DEF RoundMatches
  <2>3. \A k \in 1 .. p : NumberOf(E, k) = k
    <3>1. \A k \in 1 .. p : k \in 1 .. Q /\ k <= p
      BY <1>3
    <3> QED BY <1>4, <3>1
  <2>4. \A k \in 1 .. p : Match(Main(r, NumberOf(E, k)), E[2 * k - 1], E[2 * k])
                          = Match(Main(r, k), E[2 * k - 1], E[2 * k])
    BY <2>3
  <2> QED BY <2>2, <2>4
<1>6. NextEntries(E, r) = [k \in 1 .. Q |->
                             IF IsPlayed(E, k) THEN From(Main(r, NumberOf(E, k)), "winner")
                             ELSE Through(E[2 * k - 1], E[2 * k])]
  BY <1>1 DEF NextEntries
<1>7. ASSUME NEW k \in 1 .. Q
      PROVE  NextEntries(E, r)[k] = IF k <= p THEN From(Main(r, k), "winner")
                                    ELSE IF k = p + 1 /\ c = 2 * p + 1 THEN E[c] ELSE Bye
  <2>1. CASE k <= p
    BY <1>2, <1>4, <1>6, <2>1
  <2>2. CASE ~(k <= p)
    <3>1. NextEntries(E, r)[k] = Through(E[2 * k - 1], E[2 * k])
      BY <1>2, <1>6, <2>2
    <3>2. 2 * k - 1 \in 1 .. 2 * Q /\ 2 * k \in 1 .. 2 * Q /\ ~(2 * k <= c)
      BY <2>2
    <3>3. E[2 * k] = Bye
      BY <3>2
    <3>4. CASE k = p + 1 /\ c = 2 * p + 1
      <4>1. 2 * k - 1 = c
        BY <3>4
      <4>2. E[2 * k - 1] # Bye
        BY <3>2, <4>1
      <4> QED BY <2>2, <3>1, <3>4, <4>1, <4>2 DEF Through
    <3>5. CASE ~(k = p + 1 /\ c = 2 * p + 1)
      <4>1. ~(2 * k - 1 <= c)
        BY <2>2, <3>5
      <4>2. E[2 * k - 1] = Bye
        BY <3>2, <4>1
      <4> QED BY <2>2, <3>1, <3>3, <3>5, <4>2 DEF Through
    <3> QED BY <3>4, <3>5
  <2> QED BY <2>1, <2>2
<1>8. DOMAIN NextEntries(E, r) = 1 .. Q /\ NextEntries(E, r) = [k \in 1 .. Q |-> NextEntries(E, r)[k]]
  BY <1>6
<1>9. NextEntries(E, r) \in [1 .. Q -> {NextEntries(E, r)[k] : k \in 1 .. Q}]
  BY <1>8
<1> QED BY <1>5, <1>7, <1>8, <1>9 DEF InFront

\* Codes of the main lane are told apart by round and number; only Bye is Bye.
LEMMA MainCodes ==
    /\ \A r, i, s, j : Main(r, i) = Main(s, j) => r = s /\ i = j
    /\ \A r, i : Main(r, i)[1] = "main" /\ Main(r, i)[2] = r
    /\ \A i : Entry(i) # Bye
    /\ \A m, o : From(m, o) # Bye
<1>1. \A r, i, s, j : Main(r, i) = Main(s, j) => r = s /\ i = j
  BY DEF Main
<1>2. \A r, i : Main(r, i)[1] = "main" /\ Main(r, i)[2] = r
  BY DEF Main
<1>3. Bye.kind = "bye" /\ (\A i : Entry(i).kind = "team") /\ \A m, o : From(m, o).kind = "from"
  BY DEF Bye, Entry, From
<1>4. \A i : Entry(i) # Bye
  <2> SUFFICES ASSUME NEW i, Entry(i) = Bye PROVE FALSE
    OBVIOUS
  <2> QED BY <1>3
<1>5. \A m, o : From(m, o) # Bye
  <2> SUFFICES ASSUME NEW m, NEW o, From(m, o) = Bye PROVE FALSE
    OBVIOUS
  <2> QED BY <1>3
<1> QED BY <1>1, <1>2, <1>4, <1>5

\* A team, or whoever wins one of the matches.
IsEntrant(n, M, e) ==
    (\E i \in 1 .. n : e = Entry(i)) \/ \E m \in MatchIds(M) : e = From(m, "winner")

\* An entrant is once, or nowhere, among the first c entries.
Waits(E, c, e) == \E i \in 1 .. c : E[i] = e /\ \A j \in 1 .. c : E[j] = e => j = i
IsAbsent(E, c, e) == \A i \in 1 .. c : E[i] # e

\* After r rounds of k the matches M are drawn and the first c of the entries E are
\* left; everybody has either a slot or a place among these.
SoFar(n, k, r, E, M, c) ==
    /\ c \in 1 .. Power[k - r] /\ 2 * c > Power[k - r]
    /\ E \in [1 .. Power[k - r] -> {E[i] : i \in 1 .. Power[k - r]}]
    /\ \A i \in 1 .. Power[k - r] : E[i] # Bye <=> i <= c
    /\ r > 0 => E[1] = From(Main(r, 1), "winner")
    /\ IsFiniteSet(M) /\ Cardinality(M) = n - c
    /\ \A x \in M : \E q \in 1 .. r : \E j : x.match = Main(q, j)
    /\ CodesAreUnique(M)
    /\ \A i \in 1 .. c : IsEntrant(n, M, E[i])
    /\ \A x \in M, s \in Sides : IsEntrant(n, M, x[s])
    /\ \A x \in M, s \in Sides : \A m, o : x[s] = From(m, o) => m[2] < x.match[2]
    /\ \A e : IsEntrant(n, M, e) =>
          (HasOneSlot(M, e) /\ IsAbsent(E, c, e)) \/ (HasNoSlot(M, e) /\ Waits(E, c, e))

\* Before the first round every team waits.
LEMMA SingleStarts ==
    ASSUME NEW n \in Nat \ {0, 1}, NEW k, k = RoundsFor(n)
    PROVE  k \in Nat \ {0} /\ SoFar(n, k, 0, FirstEntries(n), {}, n)
<1>1. k \in Nat /\ Power[k] >= n /\ \A j \in 0 .. k - 1 : Power[j] < n
  BY RoundsAreEnough
<1>2. \A j \in Nat : Power[j] \in Nat \ {0} /\ Power[j + 1] = 2 * Power[j] /\ Power[0] = 1
  BY PowerIsRight
<1>3. k # 0
  BY <1>1, <1>2
<1>4. k - 1 \in Nat /\ Power[k] = 2 * Power[k - 1] /\ Power[k - 1] < n /\ k - 0 = k
  BY <1>1, <1>2, <1>3
<1> DEFINE P == Power[k]
           E == FirstEntries(n)
<1>5. P \in Nat /\ n \in 1 .. P /\ 2 * n > P
  BY <1>1, <1>2, <1>4
<1>6. E = [i \in 1 .. P |-> IF i <= n THEN Entry(i) ELSE Bye]
  BY DEF FirstEntries
<1> HIDE DEF P, E
<1>7. E \in [1 .. P -> {E[i] : i \in 1 .. P}] /\ \A i \in 1 .. P : E[i] # Bye <=> i <= n
  BY <1>6, MainCodes
<1>8. \A i \in 1 .. n : i \in 1 .. P /\ E[i] = Entry(i)
  BY <1>5, <1>6
<1>9. IsFiniteSet({}) /\ Cardinality({}) = n - n
  BY FS_EmptySet
<1>10. \A i \in 1 .. n : IsEntrant(n, {}, E[i])
  BY <1>8 DEF IsEntrant
<1>11. ASSUME NEW e, IsEntrant(n, {}, e) PROVE HasNoSlot({}, e) /\ Waits(E, n, e)
  <2>1. PICK i \in 1 .. n : e = Entry(i)
    BY <1>11 DEF IsEntrant, MatchIds
  <2>2. \A j \in 1 .. n : E[j] = e => j = i
    BY <1>8, <2>1, NamesDiffer
  <2> QED BY <1>8, <2>1, <2>2 DEF HasNoSlot, Waits
<1>12. CodesAreUnique({})
  BY DEF CodesAreUnique
<1>13. SoFar(n, k, 0, E, {}, n)
  BY <1>4, <1>5, <1>7, <1>9, <1>10, <1>11, <1>12 DEF SoFar, P
<1> QED BY <1>1, <1>3, <1>13 DEF E

\* A round gives its matches to whoever waits in pairs; their winners and who is left
\* over wait for the next.
LEMMA SingleGoesOn ==
    ASSUME NEW n \in Nat \ {0, 1}, NEW k \in Nat, NEW r \in 0 .. k - 1, NEW E, NEW M, NEW c,
           SoFar(n, k, r, E, M, c)
    PROVE  \E d : SoFar(n, k, r + 1, NextEntries(E, r + 1), M \cup RoundMatches(E, r + 1), d)
<1> DEFINE Q == Power[k - (r + 1)]
           F == NextEntries(E, r + 1)
           new == RoundMatches(E, r + 1)
           N == M \cup new
<1>1. Q \in Nat \ {0} /\ Power[k - r] = 2 * Q /\ r + 1 \in Nat \ {0} /\ r \in Nat
  <2>1. k - (r + 1) \in Nat /\ (k - (r + 1)) + 1 = k - r /\ r + 1 \in Nat \ {0} /\ r \in Nat
    OBVIOUS
  <2> QED BY <2>1, PowerIsRight
<1> HIDE DEF Q
<1>2. /\ c \in 1 .. 2 * Q /\ 2 * c > 2 * Q
      /\ E \in [1 .. 2 * Q -> {E[i] : i \in 1 .. 2 * Q}]
      /\ \A i \in 1 .. 2 * Q : E[i] # Bye <=> i <= c
      /\ IsFiniteSet(M) /\ Cardinality(M) = n - c
      /\ \A x \in M : \E q \in 1 .. r : \E j : x.match = Main(q, j)
      /\ CodesAreUnique(M)
      /\ \A i \in 1 .. c : IsEntrant(n, M, E[i])
      /\ \A x \in M, s \in Sides : IsEntrant(n, M, x[s])
      /\ \A x \in M, s \in Sides : \A m, o : x[s] = From(m, o) => m[2] < x.match[2]
      /\ \A e : IsEntrant(n, M, e) =>
            (HasOneSlot(M, e) /\ IsAbsent(E, c, e)) \/ (HasNoSlot(M, e) /\ Waits(E, c, e))
  BY <1>1 DEF SoFar
<1>3. PICK p \in Nat : c = 2 * p \/ c = 2 * p + 1
  <2> DEFINE S == {i \in Nat : c <= 2 * i + 1}
  <2>1. Q \in S
    BY <1>1, <1>2
  <2> HIDE DEF S
  <2>2. PICK i \in S : \A j \in S : i <= j
    BY <2>1, LeastExists DEF S
  <2>3. i \in Nat /\ c <= 2 * i + 1
    BY <2>2 DEF S
  <2>4. c \in Nat \ {0}
    BY <1>1, <1>2
  <2>5. i = 0 \/ i - 1 \notin S
    <3>1. i - 1 \in S => i <= i - 1
      BY <2>2
    <3> QED BY <2>3, <3>1
  <2>6. i = 0 \/ ~(c <= 2 * (i - 1) + 1)
    BY <2>3, <2>5 DEF S
  <2> QED BY <2>3, <2>4, <2>6
<1> DEFINE d == c - p
<1>0. /\ Q \in Nat \ {0} /\ c \in Nat /\ 2 * c > 2 * Q /\ c <= 2 * Q /\ p \in Nat
      /\ c = 2 * p \/ c = 2 * p + 1
  BY <1>1, <1>2, <1>3
<1>4. /\ p \in 1 .. Q /\ d \in 1 .. Q /\ 2 * d > Q
      /\ (d = p /\ c = 2 * p) \/ (d = p + 1 /\ c = 2 * p + 1)
      /\ 2 * p <= c /\ c <= 2 * Q /\ c \in Nat
  <2>1. CASE c = 2 * p
    BY <1>0, <2>1
  <2>2. CASE c = 2 * p + 1
    BY <1>0, <2>2
  <2> QED BY <1>0, <2>1, <2>2
<1>19. n - d = (n - c) + p
  BY <1>0
<1> HIDE DEF d
<1>5. /\ new = {Match(Main(r + 1, j), E[2 * j - 1], E[2 * j]) : j \in 1 .. p}
      /\ DOMAIN F = 1 .. Q
      /\ F \in [1 .. Q -> {F[j] : j \in 1 .. Q}]
      /\ \A j \in 1 .. Q : F[j] = IF j <= p THEN From(Main(r + 1, j), "winner")
                                  ELSE IF j = p + 1 /\ c = 2 * p + 1 THEN E[c] ELSE Bye
  <2>1. c = 2 * p \/ c = 2 * p + 1
    BY <1>3
  <2> DEFINE S == {E[i] : i \in 1 .. 2 * Q}
  <2>2. E \in [1 .. 2 * Q -> S] /\ c \in 1 .. 2 * Q /\ \A i \in 1 .. 2 * Q : E[i] # Bye <=> i <= c
    BY <1>2
  <2>3. Q \in Nat \ {0} /\ p \in Nat
    BY <1>0
  <2> HIDE DEF S
  <2>4. InFront(E, Q, c, p, r + 1)
    BY <2>1, <2>2, <2>3, PlayedInFront
  <2> QED BY <2>4 DEF InFront
<1> HIDE DEF F, new
<1> DEFINE f == [j \in 1 .. p |-> Match(Main(r + 1, j), E[2 * j - 1], E[2 * j])]
<1>6. /\ new = {f[j] : j \in 1 .. p}
      /\ \A j \in 1 .. p : f[j].match = Main(r + 1, j)
      /\ \A j \in 1 .. p : \A s \in Sides : f[j][s] = E[Feeder(s, j)] /\ Feeder(s, j) \in 1 .. c
      /\ \A j \in 1 .. p : f[j] \in new
  <2>1. new = {f[j] : j \in 1 .. p}
    BY <1>5
  <2>2. ASSUME NEW j \in 1 .. p, NEW s \in Sides PROVE f[j][s] = E[Feeder(s, j)] /\ Feeder(s, j) \in 1 .. c
    <3>1. f[j][s] = E[Feeder(s, j)]
      BY DEF Match, Sides, Feeder
    <3>2. Feeder(s, j) \in 1 .. c
      <4>1. j \in Nat /\ 1 <= j /\ j <= p
        BY <1>0
      <4> QED BY <1>0, <4>1 DEF Feeder
    <3> QED BY <3>1, <3>2
  <2>3. \A j \in 1 .. p : f[j].match = Main(r + 1, j)
    BY DEF Match
  <2> HIDE DEF f
  <2> QED BY <2>1, <2>2, <2>3
<1> HIDE DEF f
\* Who is told apart.
<1>7. /\ \A x \in M, y \in new : x.match # y.match
      /\ \A j : Main(r + 1, j) \notin MatchIds(M)
      /\ \A m \in MatchIds(M) : m[2] \in 1 .. r
      /\ \A j \in 1 .. p : Main(r + 1, j) \in MatchIds(N)
      /\ \A m \in MatchIds(N) : m \in MatchIds(M) \/ \E j \in 1 .. p : m = Main(r + 1, j)
  <2>1. ASSUME NEW m \in MatchIds(M) PROVE m[2] \in 1 .. r /\ \A j : m # Main(r + 1, j)
    <3>1. PICK q \in 1 .. r : \E j : m = Main(q, j)
      BY <1>2 DEF MatchIds
    <3>2. q # r + 1
      BY <1>1
    <3> QED BY <3>1, <3>2, MainCodes
  <2>2. \A x \in M, y \in new : x.match # y.match
    <3>1. \A x \in M : x.match \in MatchIds(M)
      BY DEF MatchIds
    <3> QED BY <1>6, <2>1, <3>1
  <2>3. \A j \in 1 .. p : Main(r + 1, j) \in MatchIds(N)
    BY <1>6 DEF MatchIds
  <2>4. \A m \in MatchIds(N) : m \in MatchIds(M) \/ \E j \in 1 .. p : m = Main(r + 1, j)
    BY <1>6 DEF MatchIds
  <2> QED BY <2>1, <2>2, <2>3, <2>4
<1>8. \A e : IsEntrant(n, N, e) <=> IsEntrant(n, M, e) \/ \E j \in 1 .. p : e = From(Main(r + 1, j), "winner")
  <2>1. \A m : m \in MatchIds(N) <=> m \in MatchIds(M) \/ \E j \in 1 .. p : m = Main(r + 1, j)
    <3>1. \A m : m \in MatchIds(M) => m \in MatchIds(N)
      BY DEF MatchIds
    <3> QED BY <1>7, <3>1
  <2> HIDE DEF N
  <2> QED BY <2>1 DEF IsEntrant
\* The parts of SoFar.
<1>9. \A i \in 1 .. Q : F[i] # Bye <=> i <= d
  <2> TAKE i \in 1 .. Q
  <2>1. E[c] # Bye
    BY <1>2
  <2>2. F[i] = IF i <= p THEN From(Main(r + 1, i), "winner")
               ELSE IF i = p + 1 /\ c = 2 * p + 1 THEN E[c] ELSE Bye
    BY <1>5
  <2> QED BY <1>4, <2>1, <2>2, MainCodes
<1>10. F[1] = From(Main(r + 1, 1), "winner")
  <2>1. 1 \in 1 .. Q /\ 1 <= p
    BY <1>0, <1>4
  <2> QED BY <1>5, <2>1
<1>11. IsFiniteSet(N) /\ Cardinality(N) = n - d
  <2>1. IsFiniteSet(1 .. p) /\ Cardinality(1 .. p) = p
    <3>1. 1 \in Int /\ p \in Int /\ ~(1 > p) /\ p - 1 + 1 = p
      BY <1>0, <1>4
    <3>2. IsFiniteSet(1 .. p) /\ Cardinality(1 .. p) = IF 1 > p THEN 0 ELSE p - 1 + 1
      BY <3>1, FS_Interval, Zenon
    <3> QED BY <3>1, <3>2
  <2>2. \A i, j \in 1 .. p : f[i] = f[j] => i = j
    BY <1>6, MainCodes
  <2> DEFINE I == 1 .. p
  <2>7. new = {f[i] : i \in I} /\ IsFiniteSet(I) /\ Cardinality(I) = p /\ \A i, j \in I : f[i] = f[j] => i = j
    BY <1>6, <2>1, <2>2
  <2> HIDE DEF I
  <2>3. IsFiniteSet(new) /\ Cardinality(new) = p
    BY <2>7, ImageIsAsLarge
  <2>4. M \cap new = {}
    BY <1>7
  <2>5. IsFiniteSet(N) /\ Cardinality(N) = (n - c) + p
    BY <1>2, <2>3, <2>4, DisjointAddUp
  <2> QED BY <1>19, <2>5
<1>12. \A x \in N : \E q \in 1 .. r + 1 : \E j : x.match = Main(q, j)
  <2> TAKE x \in N
  <2>1. CASE x \in M
    <3>1. PICK q \in 1 .. r : \E j : x.match = Main(q, j)
      BY <1>2, <2>1
    <3>2. q \in 1 .. r + 1
      BY <1>1
    <3> QED BY <3>1, <3>2
  <2>2. CASE x \in new
    <3>1. r + 1 \in 1 .. r + 1
      BY <1>1
    <3> QED BY <1>6, <2>2, <3>1
  <2> QED BY <2>1, <2>2
<1>13. CodesAreUnique(N)
  <2>1. \A x, y \in new : x.match = y.match => x = y
    BY <1>6, MainCodes
  <2> QED BY <1>2, <1>7, <2>1 DEF CodesAreUnique
<1>14. \A i \in 1 .. d : IsEntrant(n, N, F[i])
  <2> TAKE i \in 1 .. d
  <2>1. i \in 1 .. Q /\ c \in 1 .. c
    <3>1. d \in Nat /\ d <= Q /\ i \in Nat /\ 1 <= i /\ i <= d /\ 1 <= c
      BY <1>0, <1>4
    <3> QED BY <1>0, <3>1
  <2>2. CASE i <= p
    <3>1. i \in 1 .. p /\ F[i] = From(Main(r + 1, i), "winner")
      BY <1>5, <2>1, <2>2
    <3> QED BY <1>8, <3>1
  <2>3. CASE ~(i <= p)
    <3>1. i = p + 1 /\ c = 2 * p + 1
      BY <1>4, <2>3
    <3>2. F[i] = E[c]
      BY <1>5, <2>1, <2>3, <3>1
    <3> QED BY <1>2, <1>8, <2>1, <3>2
  <2> QED BY <2>2, <2>3
<1>15. \A x \in N, s \in Sides : IsEntrant(n, N, x[s])
  <2> TAKE x \in N, s \in Sides
  <2>1. CASE x \in M
    BY <1>2, <1>8, <2>1
  <2>2. CASE x \in new
    <3>1. PICK j \in 1 .. p : x = f[j]
      BY <1>6, <2>2
    <3>2. x[s] = E[Feeder(s, j)] /\ Feeder(s, j) \in 1 .. c
      BY <1>6, <3>1
    <3> QED BY <1>2, <1>8, <3>2
  <2> QED BY <2>1, <2>2
<1>16. \A x \in N, s \in Sides : \A m, o : x[s] = From(m, o) => m[2] < x.match[2]
  <2> SUFFICES ASSUME NEW x \in new, NEW s \in Sides, NEW m, NEW o, x[s] = From(m, o)
               PROVE  m[2] < x.match[2]
    BY <1>2
  <2>1. PICK j \in 1 .. p : x = f[j]
    BY <1>6
  <2>2. x[s] = E[Feeder(s, j)] /\ Feeder(s, j) \in 1 .. c /\ x.match[2] = r + 1
    BY <1>6, <2>1, MainCodes
  <2>3. IsEntrant(n, M, x[s])
    BY <1>2, <2>2
  <2>4. m \in MatchIds(M)
    BY <2>3, NamesDiffer DEF IsEntrant
  <2>5. m[2] \in 1 .. r
    BY <1>7, <2>4
  <2> QED BY <1>1, <2>2, <2>5
<1>17. \A e : IsEntrant(n, N, e) =>
          (HasOneSlot(N, e) /\ IsAbsent(F, d, e)) \/ (HasNoSlot(N, e) /\ Waits(F, d, e))
  <2>0. /\ \A i \in 1 .. d : i \in 1 .. Q
        /\ \A j \in 1 .. p : j \in 1 .. d
        /\ c \in 1 .. c
    <3>1. d \in Nat /\ d <= Q /\ 1 <= c /\ p <= d
      BY <1>0, <1>4
    <3> QED BY <1>0, <3>1
  <2>1. ASSUME NEW j \in 1 .. p
        PROVE  LET e == From(Main(r + 1, j), "winner") IN HasNoSlot(N, e) /\ Waits(F, d, e)
    <3> DEFINE e == From(Main(r + 1, j), "winner")
    <3>1. ~IsEntrant(n, M, e)
      BY <1>7, NamesDiffer DEF IsEntrant
    <3>2. \A x \in N, s \in Sides : x[s] # e
      <4> TAKE x \in N, s \in Sides
      <4>1. CASE x \in M
        BY <1>2, <3>1, <4>1
      <4>2. CASE x \in new
        <5>1. PICK i \in 1 .. p : x = f[i]
          BY <1>6, <4>2
        <5>2. x[s] = E[Feeder(s, i)] /\ Feeder(s, i) \in 1 .. c
          BY <1>6, <5>1
        <5> QED BY <1>2, <3>1, <5>2
      <4> QED BY <4>1, <4>2
    <3>3. F[j] = e
      <4>1. j \in 1 .. Q /\ j <= p
        BY <1>0, <1>4
      <4> QED BY <1>5, <4>1
    <3>4. ASSUME NEW i \in 1 .. d, F[i] = e PROVE i = j
      <4>1. CASE i <= p
        <5>1. F[i] = From(Main(r + 1, i), "winner")
          BY <1>5, <2>0, <4>1
        <5> QED BY <3>4, <5>1, NamesDiffer, MainCodes
      <4>2. CASE ~(i <= p)
        <5>1. i = p + 1 /\ c = 2 * p + 1
          BY <1>4, <4>2
        <5>2. F[i] = E[c]
          BY <1>5, <2>0, <4>2, <5>1
        <5> QED BY <1>2, <2>0, <3>1, <3>4, <5>2
      <4> QED BY <4>1, <4>2
    <3> HIDE DEF e
    <3>5. HasNoSlot(N, e) /\ Waits(F, d, e)
      BY <2>0, <3>2, <3>3, <3>4 DEF HasNoSlot, Waits
    <3> QED BY <3>5 DEF e
  <2>2. ASSUME NEW e, IsEntrant(n, M, e)
        PROVE  (HasOneSlot(N, e) /\ IsAbsent(F, d, e)) \/ (HasNoSlot(N, e) /\ Waits(F, d, e))
    <3>1. \A j : e # From(Main(r + 1, j), "winner")
      BY <1>7, <2>2, NamesDiffer DEF IsEntrant
    <3>2. \A i \in 1 .. d : F[i] = e => i = p + 1 /\ c = 2 * p + 1 /\ E[c] = e
      <4> TAKE i \in 1 .. d
      <4>1. F[i] = IF i <= p THEN From(Main(r + 1, i), "winner")
                   ELSE IF i = p + 1 /\ c = 2 * p + 1 THEN E[c] ELSE Bye
        BY <1>5, <2>0
      <4>2. e # Bye
        BY <2>2, MainCodes DEF IsEntrant
      <4> QED BY <3>1, <4>1, <4>2
    <3>3. CASE HasOneSlot(M, e) /\ IsAbsent(E, c, e)
      <4>1. ASSUME NEW x \in new, NEW s \in Sides PROVE x[s] # e
        <5>1. PICK i \in 1 .. p : x = f[i]
          BY <1>6
        <5>2. x[s] = E[Feeder(s, i)] /\ Feeder(s, i) \in 1 .. c
          BY <1>6, <5>1
        <5> QED BY <3>3, <5>2 DEF IsAbsent
      <4>2. HasOneSlot(N, e)
        BY <3>3, <4>1 DEF HasOneSlot
      <4>3. IsAbsent(F, d, e)
        BY <2>0, <3>2, <3>3 DEF IsAbsent
      <4> QED BY <4>2, <4>3
    <3>4. CASE HasNoSlot(M, e) /\ Waits(E, c, e)
      <4>1. PICK i \in 1 .. c : E[i] = e /\ \A j \in 1 .. c : E[j] = e => j = i
        BY <3>4 DEF Waits
      <4>2. CASE i <= 2 * p
        <5>1. i \in 1 .. 2 * p
          BY <1>2, <4>2
        <5>2. PICK s \in Sides, j \in 1 .. p : i = Feeder(s, j)
          BY <5>1, Feeders
        <5>3. f[j] \in new /\ f[j][s] = e
          BY <1>6, <4>1, <5>2
        <5>4. ASSUME NEW y \in N, NEW t \in Sides, y[t] = e PROVE y = f[j] /\ t = s
          <6>1. y \in new
            BY <3>4, <5>4 DEF HasNoSlot
          <6>2. PICK g \in 1 .. p : y = f[g]
            BY <1>6, <6>1
          <6>3. y[t] = E[Feeder(t, g)] /\ Feeder(t, g) \in 1 .. c
            BY <1>6, <6>2
          <6>4. Feeder(t, g) = Feeder(s, j)
            BY <4>1, <5>2, <5>4, <6>3
          <6>5. g \in Nat /\ j \in Nat
            OBVIOUS
          <6> QED BY <6>2, <6>4, <6>5, Feeders
        <5>5. HasOneSlot(N, e)
          BY <5>3, <5>4 DEF HasOneSlot
        <5>6. IsAbsent(F, d, e)
          <6>1. c = 2 * p + 1 => E[c] # e
            BY <2>0, <4>1, <4>2
          <6> QED BY <3>2, <6>1 DEF IsAbsent
        <5> QED BY <5>5, <5>6
      <4>3. CASE ~(i <= 2 * p)
        <5>1. i = c /\ c = 2 * p + 1 /\ d = p + 1
          BY <1>4, <4>3
        <5>2. ASSUME NEW x \in N, NEW s \in Sides PROVE x[s] # e
          <6>1. CASE x \in M
            BY <3>4, <6>1 DEF HasNoSlot
          <6>2. CASE x \in new
            <7>1. PICK j \in 1 .. p : x = f[j]
              BY <1>6, <6>2
            <7>2. x[s] = E[Feeder(s, j)] /\ Feeder(s, j) \in 1 .. c
              BY <1>6, <7>1
            <7>3. Feeder(s, j) # i
              BY <5>1 DEF Feeder
            <7> QED BY <4>1, <7>2, <7>3
          <6> QED BY <6>1, <6>2
        <5>3. p + 1 \in 1 .. Q /\ p + 1 \in 1 .. d /\ ~(p + 1 <= p)
          BY <1>4, <5>1
        <5>4. F[p + 1] = e
          BY <1>5, <4>1, <5>1, <5>3
        <5>5. Waits(F, d, e)
          BY <3>2, <5>3, <5>4 DEF Waits
        <5> QED BY <5>2, <5>5 DEF HasNoSlot
      <4> QED BY <4>2, <4>3
    <3> QED BY <1>2, <2>2, <3>3, <3>4
  <2> HIDE DEF N
  <2> QED BY <1>8, <2>1, <2>2
<1> HIDE DEF N
<1>18. SoFar(n, k, r + 1, F, N, d)
  BY <1>1, <1>4, <1>5, <1>9, <1>10, <1>11, <1>12, <1>13, <1>14, <1>15, <1>16, <1>17 DEF SoFar, Q
<1> QED BY <1>18 DEF F, N, new


\* So it is after every round, by induction.
LEMMA SingleIsSoFar ==
    ASSUME NEW n \in Nat \ {0, 1}, NEW K, K = RoundsFor(n), NEW D, IsDrawn(D, n, K)
    PROVE  K \in Nat \ {0} /\ \A r \in 0 .. K : \E c : SoFar(n, K, r, D[r].entries, D[r].matches, c)
<1>1. K \in Nat \ {0} /\ SoFar(n, K, 0, FirstEntries(n), {}, n)
  BY SingleStarts
<1> DEFINE S == {r \in Nat : r <= K => \E c : SoFar(n, K, r, D[r].entries, D[r].matches, c)}
<1>2. 0 \in S
  <2>1. 0 \in 0 .. K
    BY <1>1
  <2>2. D[0].entries = FirstEntries(n) /\ D[0].matches = {}
    BY <2>1 DEF IsDrawn
  <2> QED BY <1>1, <2>2
<1>3. ASSUME NEW r \in S PROVE r + 1 \in S
  <2>0. r \in Nat
    OBVIOUS
  <2> SUFFICES ASSUME r + 1 <= K
               PROVE  \E d : SoFar(n, K, r + 1, D[r + 1].entries, D[r + 1].matches, d)
    BY <2>0
  <2>1. r \in 0 .. K - 1 /\ r + 1 \in 0 .. K /\ r + 1 # 0 /\ (r + 1) - 1 = r /\ r <= K /\ K \in Nat
    BY <1>1, <2>0
  <2>2. PICK c : SoFar(n, K, r, D[r].entries, D[r].matches, c)
    BY <2>1
  <2>3. /\ D[r + 1].entries = NextEntries(D[r].entries, r + 1)
        /\ D[r + 1].matches = D[r].matches \cup RoundMatches(D[r].entries, r + 1)
    <3>1. D[r + 1] = [entries |-> NextEntries(D[(r + 1) - 1].entries, r + 1),
                      matches |-> D[(r + 1) - 1].matches \cup RoundMatches(D[(r + 1) - 1].entries, r + 1)]
      BY <2>1 DEF IsDrawn
    <3> QED BY <2>1, <3>1
  <2>4. \E d : SoFar(n, K, r + 1, NextEntries(D[r].entries, r + 1),
                     D[r].matches \cup RoundMatches(D[r].entries, r + 1), d)
    BY <2>1, <2>2, SingleGoesOn
  <2> QED BY <2>3, <2>4
<1> HIDE DEF S
<1>4. S = Nat
  BY <1>2, <1>3, AllNumbers DEF S
<1> QED BY <1>1, <1>4 DEF S

\* Every team, and the winner of every match but the last, has one slot; the losers none.
LEMMA SingleSlots ==
    ASSUME NEW n \in Nat \ {0, 1}, NEW K \in Nat \ {0}, NEW E, NEW M, NEW c, SoFar(n, K, K, E, M, c)
    PROVE  /\ c = 1 /\ Main(K, 1) \in MatchIds(M) /\ NoByes(n, M)
           /\ \A i \in 1 .. n : HasOneSlot(M, Entry(i))
           /\ \A m \in MatchIds(M) : /\ IF m = Main(K, 1) THEN HasNoSlot(M, From(m, "winner"))
                                        ELSE HasOneSlot(M, From(m, "winner"))
                                     /\ HasNoSlot(M, From(m, "loser"))
<1>1. K - K = 0 /\ K > 0 /\ Power[0] = 1
  BY PowerIsRight
<1>2. c = 1 /\ E[1] = From(Main(K, 1), "winner")
  <2>1. c \in 1 .. Power[K - K] /\ E[1] = From(Main(K, 1), "winner")
    BY <1>1 DEF SoFar
  <2> QED BY <1>1, <2>1
<1>3. /\ \A i \in 1 .. c : IsEntrant(n, M, E[i])
      /\ \A x \in M, s \in Sides : IsEntrant(n, M, x[s])
      /\ \A e : IsEntrant(n, M, e) =>
            (HasOneSlot(M, e) /\ IsAbsent(E, c, e)) \/ (HasNoSlot(M, e) /\ Waits(E, c, e))
  BY DEF SoFar
<1>4. ASSUME NEW e, IsEntrant(n, M, e)
      PROVE  IF e = E[1] THEN HasNoSlot(M, e) ELSE HasOneSlot(M, e)
  <2>1. IsAbsent(E, c, e) => e # E[1]
    BY <1>2 DEF IsAbsent
  <2>2. Waits(E, c, e) => e = E[1]
    BY <1>2 DEF Waits
  <2> QED BY <1>3, <1>4, <2>1, <2>2
<1>5. Main(K, 1) \in MatchIds(M)
  <2>1. IsEntrant(n, M, E[1])
    BY <1>2, <1>3
  <2> QED BY <1>2, <2>1, NamesDiffer DEF IsEntrant
<1>6. NoByes(n, M)
  BY <1>3 DEF NoByes, IsEntrant
<1>7. ASSUME NEW i \in 1 .. n PROVE HasOneSlot(M, Entry(i))
  BY <1>2, <1>4, NamesDiffer DEF IsEntrant
<1>8. ASSUME NEW m \in MatchIds(M)
      PROVE  IF m = Main(K, 1) THEN HasNoSlot(M, From(m, "winner")) ELSE HasOneSlot(M, From(m, "winner"))
  <2>1. IsEntrant(n, M, From(m, "winner"))
    BY DEF IsEntrant
  <2>2. From(m, "winner") = E[1] <=> m = Main(K, 1)
    BY <1>2, NamesDiffer
  <2> QED BY <1>4, <2>1, <2>2
<1>9. ASSUME NEW m PROVE HasNoSlot(M, From(m, "loser"))
  <2> SUFFICES ASSUME NEW x \in M, NEW s \in Sides, x[s] = From(m, "loser") PROVE FALSE
    BY DEF HasNoSlot
  <2>1. IsEntrant(n, M, From(m, "loser"))
    BY <1>3
  <2> QED BY <2>1, NamesDiffer DEF IsEntrant
<1> QED BY <1>2, <1>5, <1>6, <1>7, <1>8, <1>9

\* What build_single_elimination_bracket draws for two teams or more is a bracket.
THEOREM SingleIsABracket ==
    \A n \in Nat \ {0, 1} : IsABracket("single", n, Drawn("single", n))
<1> TAKE n \in Nat \ {0, 1}
<1> DEFINE K == RoundsFor(n)
           M == Drawn("single", n)
<1>1. PICK D : IsDrawn(D, n, K) /\ M = D[K].matches
  BY SingleIsDrawn DEF Drawn
<1> HIDE DEF M
<1>2. K \in Nat \ {0} /\ K \in 0 .. K /\ \A r \in 0 .. K : \E c : SoFar(n, K, r, D[r].entries, D[r].matches, c)
  BY <1>1, SingleIsSoFar
<1>3. PICK c : SoFar(n, K, K, D[K].entries, M, c)
  BY <1>1, <1>2
<1> DEFINE E == D[K].entries
<1> HIDE DEF E
<1>4. /\ c = 1 /\ Main(K, 1) \in MatchIds(M) /\ NoByes(n, M)
      /\ \A i \in 1 .. n : HasOneSlot(M, Entry(i))
      /\ \A m \in MatchIds(M) : /\ IF m = Main(K, 1) THEN HasNoSlot(M, From(m, "winner"))
                                   ELSE HasOneSlot(M, From(m, "winner"))
                                /\ HasNoSlot(M, From(m, "loser"))
  <2>1. SoFar(n, K, K, E, M, c)
    BY <1>3 DEF E
  <2> HIDE DEF K
  <2> QED BY <1>2, <2>1, SingleSlots
<1>5. /\ IsFiniteSet(M) /\ Cardinality(M) = n - c /\ CodesAreUnique(M)
      /\ \A x \in M : \E q \in 1 .. K : \E j : x.match = Main(q, j)
      /\ \A x \in M, s \in Sides : \A m, o : x[s] = From(m, o) => m[2] < x.match[2]
  BY <1>3 DEF SoFar
<1>6. ASSUME NEW m \in MatchIds(M)
      PROVE  m[1] = "main" /\ m[2] \in Nat \ {0} /\ m # GrandFinal
  <2>1. PICK q \in 1 .. K : \E j : m = Main(q, j)
    BY <1>5 DEF MatchIds
  <2>2. m[1] = "main" /\ m[2] = q
    BY <2>1, MainCodes
  <2> QED BY <1>2, <2>2, NamesDiffer
<1>7. LastMatch("single", n) = Main(K, 1)
  BY DEF LastMatch
<1> HIDE DEF K
<1>8. EveryTeamEntersOnce(n, M) /\ EveryoneGoesOnOnce("single", n, M)
  BY <1>4, <1>6, <1>7, BracketBySlots
<1>9. ASSUME NEW l \in Links(M)
      PROVE  /\ l.outcome = "winner" /\ l.source \in MatchIds(M) /\ l.target \in MatchIds(M)
             /\ l.source[2] < l.target[2]
  <2>1. PICK x \in M, s \in Sides :
            /\ x[s] = From(l.source, l.outcome)
            /\ l = [source |-> l.source, target |-> x.match, side |-> s, outcome |-> l.outcome]
    BY <1>4, LinksBySlots
  <2>2. l.target = x.match /\ x.match \in MatchIds(M)
    BY <2>1 DEF MatchIds
  <2>3. l.source[2] < l.target[2]
    BY <1>5, <2>1, <2>2
  <2>4. l.source \in MatchIds(M) /\ l.outcome \in {"winner", "loser"}
    BY <1>4, <2>1, NamesDiffer DEF NoByes
  <2>5. l.outcome # "loser"
    BY <1>4, <2>1, <2>4 DEF HasNoSlot
  <2> QED BY <2>2, <2>3, <2>4, <2>5
<1>10. LanesCountDefeats("single", n, M)
  <2>1. \A m \in MatchIds(M), s \in Sides : DefeatsAt(m, s) = 0
    BY <1>6 DEF DefeatsAt
  <2>2. \A x \in M, s \in Sides : x[s].kind = "team" => DefeatsAt(x.match, s) = 0
    BY <2>1 DEF MatchIds
  <2>3. ASSUME NEW l \in Links(M), NEW s \in Sides
        PROVE  DefeatsAt(l.target, l.side) = DefeatsAt(l.source, s) + (IF l.outcome = "loser" THEN 1 ELSE 0)
    <3>1. DefeatsAt(l.target, l.side) = 0
      BY <1>6, <1>9 DEF DefeatsAt
    <3> QED BY <1>9, <2>1, <3>1
  <2> QED BY <1>6, <2>2, <2>3 DEF LanesCountDefeats
<1>11. RightNumberOfMatches("single", n, M)
  BY <1>4, <1>5 DEF RightNumberOfMatches, Losses
<1>12. FeedersArePlayedBefore(n, M)
  BY <1>6, <1>9 DEF FeedersArePlayedBefore, Matchday
<1>13. IsABracket("single", n, M)
  BY <1>5, <1>8, <1>10, <1>11, <1>12 DEF IsABracket
<1> QED BY <1>13 DEF M
===============================================================================
