----------------------------- MODULE RelayProofs -------------------------------
(***************************************************************************)
(* Relay for streams, batches and budgets of any size and in every         *)
(* environment: the types, and that no failure, trim or restart makes the  *)
(* relay repeat more than the last entry.  Ordered is what carries the     *)
(* second: whatever the relay may read or holds in its batch is at or past *)
(* the last emission.                                                      *)
(***************************************************************************)
EXTENDS Relay, FiniteSetTheorems, WellFoundedInduction, TLAPS

USE DEF None, Ids

\* A nonempty finite set of numbers has a greatest element: the one with the fewest
\* elements above it, for strict inclusion is well founded on a finite set.
LEMMA NewestExists ==
    ASSUME NEW S, IsFiniteSet(S), S # {}, S \subseteq Nat
    PROVE  \E id \in S : \A x \in S : x <= id
<1> DEFINE Above(x) == {y \in S : y > x}
           R == StrictSubsetOrdering(S)
           T == {Above(x) : x \in S}
<1>1. IsWellFoundedOn(R, SUBSET S)
  BY FS_StrictSubsetOrderingWellFounded, FS_FiniteSubsetsOfFinite
<1>2. T \subseteq SUBSET S /\ T # {}
  OBVIOUS
<1>3. \E A \in T : \A B \in T : <<B, A>> \notin R
  <2> HIDE DEF R, T
  <2> QED BY <1>1, <1>2, WFMin
<1>4. PICK id \in S : \A y \in S : <<Above(y), Above(id)>> \notin R
  BY <1>3
<1>5. \A y \in S : y > id => <<Above(y), Above(id)>> \in R
  <2> SUFFICES ASSUME NEW y \in S, y > id
               PROVE  <<Above(y), Above(id)>> \in R
    OBVIOUS
  <2>1. y \in Above(id) /\ y \notin Above(y)
    OBVIOUS
  <2>2. Above(y) \subseteq Above(id)
    <3> SUFFICES ASSUME NEW z \in S, z > y
                 PROVE  z > id
      OBVIOUS
    <3>1. z \in Nat /\ y \in Nat /\ id \in Nat
      OBVIOUS
    <3> QED BY <3>1
  <2>3. Above(y) \in SUBSET S /\ Above(id) \in SUBSET S /\ Above(y) # Above(id)
    BY <2>1
  <2> QED BY <2>2, <2>3 DEF StrictSubsetOrdering
<1>6. \A y \in S : ~(y > id)
  BY <1>4, <1>5
<1> QED BY <1>6

LEMMA TailIsNewest ==
    ASSUME NEW top \in Nat, stream \subseteq 1 .. top
    PROVE  /\ Tail \in 0 .. top
           /\ \A x \in stream : x <= Tail
<1>1. CASE stream = {}
  BY <1>1 DEF Tail
<1>2. CASE stream # {}
  <2>1. IsFiniteSet(stream)
    <3>1. IsFiniteSet(1 .. top)
      BY FS_Interval
    <3> QED BY <3>1, FS_Subset
  <2>2. stream \subseteq Nat
    OBVIOUS
  <2>3. \E id \in stream : IsNewest(id)
    <3>1. \E id \in stream : \A x \in stream : x <= id
      BY <1>2, <2>1, <2>2, NewestExists
    <3> QED BY <3>1 DEF IsNewest
  <2>4. Tail \in stream /\ IsNewest(Tail)
    BY <1>2, <2>3 DEF Tail
  <2> QED BY <2>4 DEF IsNewest
<1> QED BY <1>1, <1>2

-------------------------------------------------------------------------------
(* Types.                                                                  *)

LEMMA TailType == ASSUME TypeOK, RelayAssumption PROVE Tail \in 0 .. MaxId
<1>1. MaxId \in Nat /\ stream \subseteq 1 .. MaxId
  BY DEF TypeOK, RelayAssumption
<1> QED BY <1>1, TailIsNewest

LEMMA OldestRetained == ASSUME TypeOK, RelayAssumption PROVE Oldest = None \/ Oldest \in stream
<1> DEFINE Later == {MaxId - x : x \in stream}
<1>1. MaxId \in Nat /\ stream \subseteq 1 .. MaxId
  BY DEF TypeOK, RelayAssumption
<1>2. CASE stream = {}
  BY <1>2 DEF Oldest
<1>3. CASE stream # {}
  <2>1. Later \subseteq 0 .. MaxId /\ Later # {}
    <3>1. \A x \in stream : MaxId - x \in 0 .. MaxId
      BY <1>1
    <3> QED BY <1>3, <3>1
  <2>2. IsFiniteSet(Later)
    <3>1. IsFiniteSet(0 .. MaxId)
      BY <1>1, FS_Interval
    <3> QED BY <2>1, <3>1, FS_Subset
  <2>3. \E late \in Later : \A n \in Later : n <= late
    <3>1. Later \subseteq Nat
      BY <1>1, <2>1
    <3> HIDE DEF Later
    <3> QED BY <2>1, <2>2, <3>1, NewestExists
  <2>4. PICK id \in stream : \A x \in stream : MaxId - x <= MaxId - id
    BY <2>3
  <2>5. IsOldest(id)
    BY <1>1, <2>4 DEF IsOldest
  <2>6. Oldest \in stream
    BY <1>3, <2>5 DEF Oldest, IsOldest
  <2> QED BY <2>6
<1> QED BY <1>2, <1>3

LEMMA OldestType == ASSUME TypeOK, RelayAssumption PROVE Oldest \in 0 .. MaxId
<1>1. MaxId \in Nat /\ stream \subseteq 1 .. MaxId
  BY DEF TypeOK, RelayAssumption
<1>2. Oldest = None \/ Oldest \in stream
  BY OldestRetained, RelayAssumption
<1>3. CASE Oldest = None
  BY <1>1, <1>3
<1>4. CASE Oldest \in stream
  <2>1. Oldest \in 1 .. MaxId
    BY <1>1, <1>4
  <2> QED BY <1>1, <2>1
<1> QED BY <1>2, <1>3, <1>4

\* The state of Redis, of the relay and of the client keeps its types, whatever the
\* environment does.
THEOREM TypeCorrect == Spec => []TypeOK
<1>0. MaxId \in Nat /\ MaxRuns \in Nat /\ MaxFaults \in Nat
  BY RelayAssumption DEF RelayAssumption
<1>1. Init => TypeOK
  <2>1. /\ 0 \in 0 .. MaxId /\ 0 \in 0 .. MaxFaults /\ 0 \in 0 .. MaxRuns + 1
        /\ 1 \in 1 .. MaxRuns + 1
    BY <1>0
  <2> QED BY <2>1 DEF Init, TypeOK, Places
<1>2. ASSUME TypeOK, [Next]_vars
      PROVE  TypeOK'
  <2> USE <1>2, RelayAssumption
  <2>0. env' \in Envs
    BY DEF Next, vars, TypeOK
  <2> USE <2>0
  <2>1. Tail \in 0 .. MaxId /\ Oldest \in 0 .. MaxId
    BY TailType, OldestType
  <2>2. CASE \E keep \in Ids : Append(keep)
    <3>1. PICK keep \in Ids : Append(keep)
      BY <2>2
    <3>2. lastId + 1 \in Ids /\ lastId + 1 \in 0 .. MaxId
      BY <1>0, <3>1 DEF Append, TypeOK
    <3>3. stream' \subseteq Ids /\ lastId' \in 0 .. MaxId /\ owed' \subseteq Ids
      BY <3>1, <3>2 DEF Append, TypeOK
    <3> QED BY <3>1, <3>3 DEF TypeOK, Append, state
  <2>3. CASE \E keep \in 0 .. MaxId : Restart(keep)
    <3>1. PICK keep \in 0 .. MaxId : Restart(keep)
      BY <2>3
    <3>2. run + 1 \in 1 .. MaxRuns + 1
      BY <1>0, <3>1 DEF Restart, TypeOK
    <3>3. stream' \subseteq Ids /\ run' \in 1 .. MaxRuns + 1 /\ link' \in BOOLEAN
      BY <3>1, <3>2 DEF Restart, TypeOK
    <3> QED BY <3>1, <3>3 DEF TypeOK, Restart, state, sockets
  <2>4. CASE Join \/ Leave
    BY <2>4 DEF TypeOK, Join, Leave, redis, state
  <2>5. CASE Connect
    BY <1>0, <2>5 DEF TypeOK, Connect, state, sockets, Places
  <2>6. CASE Begin
    BY <2>6 DEF TypeOK, Begin, redis, sockets, Places
  <2>7. CASE StartAtTail
    BY <2>1, <2>7 DEF TypeOK, StartAtTail, redis, sockets, Places
  <2>8. CASE ResetToTail
    BY <2>1, <2>8 DEF TypeOK, ResetToTail, JumpToTail, redis, Places
  <2>9. CASE ReadFirst
    BY <2>1, <2>9 DEF TypeOK, ReadFirst, redis, state, sockets, Places
  <2>10. CASE CheckContinuity
    BY <2>1, <2>10 DEF TypeOK, CheckContinuity, JumpToTail, redis, Places
  <2>11. CASE Read
    BY <2>11 DEF TypeOK, Read, Unread, redis, state, sockets, Places
  <2>12. CASE \E id \in Ids : Emit(id)
    <3>1. PICK id \in Ids : Emit(id)
      BY <2>12
    <3>2. /\ position' \in 0 .. MaxId /\ emitted' \in 0 .. MaxId
          /\ owed' \subseteq Ids /\ batch' \subseteq Ids
      <4>1. id \in 0 .. MaxId
        BY <1>0
      <4> QED BY <3>1, <4>1 DEF Emit, Handled, TypeOK
    <3>3. pc' \in Places
      BY <3>1 DEF Emit, Handled, Places
    <3> QED BY <3>1, <3>2, <3>3 DEF TypeOK, Emit, redis
  <2>13. CASE \E id \in Ids : EmitRaises(id)
    <3>1. PICK id \in Ids : EmitRaises(id)
      BY <2>13
    <3>2. faults' \in 0 .. MaxFaults
      BY <1>0, <3>1 DEF EmitRaises, TypeOK
    <3>3. emitted' \in 0 .. MaxId /\ owed' \subseteq Ids
      BY <1>0, <3>1 DEF EmitRaises, TypeOK
    <3> QED BY <3>1, <3>2, <3>3 DEF TypeOK, EmitRaises, redis, state, Places
  <2>14. CASE RedisRaises
    <3>1. faults' \in 0 .. MaxFaults
      <4>1. faults < MaxFaults => faults + 1 \in 0 .. MaxFaults
        BY <1>0 DEF TypeOK
      <4> QED BY <2>14, <4>1 DEF TypeOK, RedisRaises
    <3> QED BY <2>14, <3>1 DEF TypeOK, RedisRaises, redis, state, sockets, Places
  <2>15. CASE UNCHANGED vars
    BY <2>15 DEF TypeOK, vars
  <2> QED BY <2>2, <2>3, <2>4, <2>5, <2>6, <2>7, <2>8, <2>9, <2>10, <2>11, <2>12, <2>13,
             <2>14, <2>15 DEF Next, Relaying
<1> QED BY <1>1, <1>2, PTL DEF Spec

-------------------------------------------------------------------------------
(* Repetition.                                                             *)

\* XREAD leaves out only entries that are newer than those it returns.
LEMMA BatchIsOldest ==
    ASSUME stream \subseteq 1 .. lastId, lastId \in Nat, BatchMax \in Nat, Read
    PROVE  \A x \in Unread, b \in batch' : x \in batch' \/ x > b
<1> DEFINE UpTo(x) == {y \in Unread : y <= x}
<1>1. batch' = {x \in Unread : Cardinality(UpTo(x)) <= BatchMax}
  BY DEF Read
<1>2. Unread \subseteq 1 .. lastId
  BY DEF Unread
<1> SUFFICES ASSUME NEW x \in Unread, NEW b \in batch', x \notin batch', x <= b
             PROVE  FALSE
  <2>1. \A x \in Unread, b \in batch' : x \in Nat /\ b \in Nat
    BY <1>1, <1>2
  <2> QED BY <2>1
<1>3. b \in Unread /\ Cardinality(UpTo(b)) <= BatchMax /\ ~(Cardinality(UpTo(x)) <= BatchMax)
  BY <1>1
<1>4. IsFiniteSet(UpTo(b))
  <2>1. IsFiniteSet(1 .. lastId)
    BY FS_Interval
  <2> QED BY <1>2, <2>1, FS_Subset
<1>5. UpTo(x) \subseteq UpTo(b)
  <2>1. \A y \in Unread : y <= x => y <= b
    <3>1. Unread \subseteq Nat
      BY <1>2
    <3> QED BY <1>3, <3>1
  <2> QED BY <2>1
<1>6. IsFiniteSet(UpTo(x)) /\ Cardinality(UpTo(x)) <= Cardinality(UpTo(b))
  BY <1>4, <1>5, FS_Subset
<1>7. Cardinality(UpTo(x)) \in Nat /\ Cardinality(UpTo(b)) \in Nat
  BY <1>4, <1>6, FS_CardinalityType
<1> HIDE DEF UpTo
<1> QED BY <1>3, <1>6, <1>7

\* What may still be read, and what is left of a batch, is at or past the last
\* emission; the batch holds the oldest of it.
Ordered ==
    /\ stream \subseteq 1 .. lastId
    /\ batch \subseteq 1 .. lastId
    /\ emitted <= lastId
    /\ \A x \in stream : x > position => x >= emitted
    /\ pc = "emit" => /\ \A b \in batch : b > position /\ b >= emitted
                      /\ \A x \in stream, b \in batch : x > position => x \in batch \/ x > b

LEMMA InitOrdered == ASSUME Init PROVE Ordered
BY DEF Init, Ordered

LEMMA OrderedStep ==
    ASSUME TypeOK, Ordered, [Next]_vars, RelayAssumption
    PROVE  Ordered' /\ emitted' >= emitted
<1> USE DEF Ordered
<1>0. /\ MaxId \in Nat /\ BatchMax \in Nat
      /\ lastId \in Nat /\ position \in Nat /\ emitted \in Nat
      /\ stream \subseteq Nat /\ batch \subseteq Nat
  BY DEF TypeOK, RelayAssumption
<1>1. \A x \in stream : x <= Tail
  BY <1>0, TailIsNewest
<1>2. ASSUME NEW keep \in Ids, Append(keep)
      PROVE  Ordered' /\ emitted' >= emitted
  <2>1. /\ lastId' = lastId + 1
        /\ stream' \subseteq stream \cup {lastId + 1}
        /\ UNCHANGED <<pc, position, batch, emitted>>
    BY <1>2 DEF Append, state
  <2> QED BY <1>0, <2>1
<1>3. ASSUME NEW keep \in 0 .. MaxId, Restart(keep)
      PROVE  Ordered' /\ emitted' >= emitted
  <2>1. stream' \subseteq stream /\ UNCHANGED <<lastId, pc, position, batch, emitted>>
    BY <1>3 DEF Restart, state, sockets
  <2> QED BY <1>0, <2>1
<1>4. ASSUME UNCHANGED <<stream, lastId, position, batch, emitted>>, pc' = pc \/ pc' # "emit"
      PROVE  Ordered' /\ emitted' >= emitted
  BY <1>0, <1>4
<1>5. CASE Join \/ Leave \/ Connect \/ Begin \/ ReadFirst \/ RedisRaises
  <2>1. UNCHANGED <<stream, lastId, position, batch, emitted>> /\ (pc' = pc \/ pc' # "emit")
    BY <1>5 DEF Join, Leave, Connect, Begin, ReadFirst, RedisRaises, redis, state, sockets
  <2> QED BY <1>4, <2>1
<1>6. ASSUME UNCHANGED <<stream, lastId, batch, emitted>>, position' = Tail, pc' # "emit"
      PROVE  Ordered' /\ emitted' >= emitted
  BY <1>0, <1>1, <1>6, TailType
<1>7. CASE StartAtTail \/ ResetToTail \/ CheckContinuity
  <2>1. /\ UNCHANGED <<stream, lastId, batch, emitted>> /\ pc' # "emit"
        /\ position' = Tail \/ position' = position
    BY <1>7 DEF StartAtTail, ResetToTail, CheckContinuity, JumpToTail, redis, sockets
  <2> QED BY <1>4, <1>6, <2>1
<1>8. CASE Read
  <2>1. UNCHANGED <<stream, lastId, position, emitted>>
    BY <1>8 DEF Read, redis, state, sockets
  <2>2. batch' \subseteq Unread /\ Unread \subseteq stream /\ \A x \in Unread : x > position
    BY <1>8 DEF Read, Unread
  <2>3. \A x \in Unread, b \in batch' : x \in batch' \/ x > b
    BY <1>0, <1>8, BatchIsOldest
  <2>4. \A x \in stream, b \in batch' : x > position => x \in batch' \/ x > b
    BY <2>3 DEF Unread
  <2>5. \A b \in batch' : b \in stream /\ b > position
    BY <2>1, <2>2
  <2>6. \A b \in batch' : b \in 1 .. lastId /\ b >= emitted
    BY <2>5
  <2> QED BY <1>0, <2>1, <2>4, <2>5, <2>6
<1>9. ASSUME NEW id \in Ids, Emit(id)
      PROVE  Ordered' /\ emitted' >= emitted
  <2>1. /\ pc = "emit" /\ id \in batch /\ \A x \in batch : id <= x
        /\ batch' = batch \ {id} /\ position' = id
        /\ UNCHANGED <<stream, lastId>>
        /\ emitted' = emitted \/ emitted' = id
    BY <1>9 DEF Emit, NextEntry, Handled, redis
  <2>2. id > position /\ id >= emitted /\ id <= lastId
    BY <1>0, <2>1
  <2>3. \A x \in stream : x > id => x \in batch' \/ \A b \in batch' : x > b
    BY <1>0, <2>1, <2>2
  <2> QED BY <1>0, <2>1, <2>2, <2>3
<1>10. ASSUME NEW id \in Ids, EmitRaises(id)
       PROVE  Ordered' /\ emitted' >= emitted
  <2>1. /\ pc = "emit" /\ id \in batch /\ \A x \in batch : id <= x
        /\ batch' = {} /\ pc' = "idle" /\ emitted' = id
        /\ UNCHANGED <<stream, lastId, position>>
    BY <1>10 DEF EmitRaises, NextEntry, redis, state
  <2>2. id > position /\ id >= emitted /\ id <= lastId
    BY <1>0, <2>1
  <2>3. \A x \in stream : x > position => x >= id
    BY <1>0, <2>1
  <2> QED BY <1>0, <2>1, <2>2, <2>3
<1>11. CASE UNCHANGED vars
  BY <1>4, <1>11 DEF vars
<1> QED BY <1>2, <1>3, <1>5, <1>7, <1>8, <1>9, <1>10, <1>11 DEF Next, Relaying

\* However often calls raise, Redis restarts or trims, an emission never goes back
\* past the last one (relay_cycle advances entry by entry).
THEOREM RepeatsLast == Spec => RepeatsAtMostTheLast
<1>1. Init => Ordered
  BY InitOrdered
<1>2. ASSUME TypeOK, Ordered, [Next]_vars
      PROVE  Ordered' /\ emitted' >= emitted
  BY <1>2, RelayAssumption, OrderedStep
<1>3. TypeOK /\ Ordered /\ [Next]_vars => Ordered'
  BY <1>2
<1>4. TypeOK /\ Ordered /\ [Next]_vars => [emitted' >= emitted]_emitted
  BY <1>2
<1> QED BY <1>1, <1>3, <1>4, TypeCorrect, PTL DEF Spec, RepeatsAtMostTheLast
-------------------------------------------------------------------------------
(* No entry is passed silently while the relay compares its position with  *)
(* the stream (env = {}).                                                  *)

USE DEF Ordered

OwedAhead == /\ owed \subseteq (1 .. lastId) \ Malformed
             /\ position <= lastId
             /\ NoSilentGap

\* Nothing is owed before the first cycle, the only one that may skip the past.
Starting == /\ ~started => owed = {}
            /\ pc = "start" => ~started
            /\ pc \in {"reset", "first", "last", "read", "emit"} => started

\* The run_id was read on this connection: it is of the Redis that is up for as
\* long as the connection stands, and of an earlier one afterwards.
Connected == pc # "idle" => /\ current \in 1 .. run
                            /\ IF link THEN current = run ELSE current < run

Following == /\ started => runId \in 1 .. run
             /\ pc \notin {"idle", "top"} => runId = current

\* What is owed is in the stream, unless Redis is another one than the state
\* remembers or has trimmed all of what came before its oldest entry.
Detectable ==
    started /\ runId = run /\ pc # "reset" =>
        \A id \in owed : \/ id \in stream
                         \/ position # None /\ \A x \in stream : id < x

\* What a cycle has established of the stream by each of its awaits.
InCycle ==
    /\ pc = "last" /\ link => first = None \/ first \in stream
    /\ pc = "read" /\ link => owed \subseteq stream
    /\ pc = "emit" => \A id \in owed : id \in batch \/ \A b \in batch : id > b

GapInv == OwedAhead /\ Starting /\ Connected /\ Following /\ Detectable /\ InCycle

LEMMA InitGapInv == ASSUME Init PROVE GapInv
BY DEF Init, GapInv, OwedAhead, NoSilentGap, Starting, Connected, Following, Detectable, InCycle

LEMMA Numbers ==
    ASSUME TypeOK
    PROVE  /\ MaxId \in Nat /\ lastId \in Nat /\ position \in Nat /\ run \in Nat
           /\ current \in Nat /\ runId \in Nat /\ first \in Nat /\ link \in BOOLEAN
           /\ started \in BOOLEAN
           /\ stream \subseteq Nat /\ batch \subseteq Nat /\ owed \subseteq Nat
BY RelayAssumption DEF TypeOK, RelayAssumption

\* Appending trims only where the relay will notice.
LEMMA AppendKeepsGapInv ==
    ASSUME TypeOK, Ordered, GapInv, env = {}, NEW keep \in Ids, Append(keep)
    PROVE  GapInv'
<1> DEFINE id == lastId + 1
<1>0. /\ lastId \in Nat /\ position \in Nat /\ keep \in Nat /\ id \in Nat
      /\ stream \subseteq Nat /\ batch \subseteq Nat /\ owed \subseteq Nat /\ MaxId \in Nat
  BY Numbers
<1>1. /\ lastId' = id
      /\ stream' = {x \in stream \cup {id} : x >= keep} /\ stream' # {}
      /\ stream' # stream \cup {id} => /\ position # None
                                       /\ pc \notin {"last", "read"}
      /\ owed' = IF client /\ started /\ id \notin Malformed THEN owed \cup {id} ELSE owed
      /\ UNCHANGED <<run, link, pc, started, position, runId, current, first, batch>>
  BY DEF Append, state
<1> HIDE DEF id
<1>2. /\ id > lastId /\ id \in 1 .. id
      /\ \A x \in stream : x < id
      /\ \A x \in owed : x < id
      /\ \A x \in batch : x < id
  BY <1>0 DEF GapInv, OwedAhead, id
<1>3. id \in stream'
  <2>1. PICK x \in stream' : x >= keep /\ x \in stream \cup {id}
    BY <1>1
  <2> QED BY <1>0, <1>1, <1>2, <2>1
<1>4. OwedAhead'
  <2>1. owed \subseteq (1 .. id) \ Malformed
    BY <1>0, <1>2 DEF GapInv, OwedAhead
  <2>2. \A x \in owed' : x > position
    BY <1>0, <1>1, <1>2 DEF GapInv, OwedAhead, NoSilentGap
  <2>3. owed' \subseteq (1 .. id) \ Malformed
    BY <1>1, <1>2, <2>1
  <2>4. position <= id
    BY <1>0, <1>2 DEF GapInv, OwedAhead
  <2> QED BY <1>1, <2>2, <2>3, <2>4 DEF OwedAhead, NoSilentGap
<1>5. Starting'
  BY <1>1 DEF GapInv, Starting
<1>6. Connected' /\ Following'
  BY <1>1 DEF GapInv, Connected, Following
<1>7. Detectable'
  <2> SUFFICES ASSUME started, runId = run, pc # "reset", NEW x \in owed'
               PROVE  \/ x \in stream'
                      \/ position # None /\ \A y \in stream' : x < y
    BY <1>1 DEF Detectable
  <2>1. CASE x = id
    BY <1>3, <2>1
  <2>2. CASE x \in owed /\ x \in stream /\ x \notin stream'
    <3>1. x < keep /\ position # None
      BY <1>0, <1>1, <2>2
    <3> QED BY <1>0, <1>1, <2>2, <3>1
  <2>3. CASE x \in owed /\ x \notin stream
    <3>1. position # None /\ \A y \in stream : x < y
      BY <2>3 DEF GapInv, Detectable
    <3> QED BY <1>1, <1>2, <2>3, <3>1
  <2> QED BY <1>1, <2>1, <2>2, <2>3
<1>8. InCycle'
  <2>1. pc \in {"last", "read"} => stream' = stream \cup {id}
    BY <1>1
  <2>2. owed' \subseteq owed \cup {id}
    BY <1>1
  <2> QED BY <1>1, <1>2, <1>3, <2>1, <2>2 DEF GapInv, InCycle
<1> QED BY <1>4, <1>5, <1>6, <1>7, <1>8 DEF GapInv

\* A restart may lose anything, but the run_id tells it.
LEMMA RestartKeepsGapInv ==
    ASSUME TypeOK, Ordered, GapInv, NEW keep \in 0 .. MaxId, Restart(keep)
    PROVE  GapInv'
<1>0. run \in Nat /\ current \in Nat /\ runId \in Nat
  BY Numbers
<1>1. /\ run' = run + 1 /\ link' = FALSE
      /\ UNCHANGED <<lastId, pc, started, position, runId, current, first, batch, owed>>
  BY DEF Restart, state, sockets
<1>2. OwedAhead' /\ Starting'
  BY <1>1 DEF GapInv, OwedAhead, NoSilentGap, Starting
<1>3. Connected'
  <2>1. pc # "idle" => current \in 1 .. run + 1 /\ current < run + 1
    BY <1>0 DEF GapInv, Connected
  <2> QED BY <1>1, <2>1 DEF Connected
<1>4. Following' /\ (started => runId' # run')
  <2>1. started => runId \in 1 .. run + 1 /\ runId # run + 1
    BY <1>0 DEF GapInv, Following
  <2> QED BY <1>1, <2>1 DEF GapInv, Following
<1>5. Detectable'
  BY <1>1, <1>4 DEF Detectable
<1>6. InCycle'
  BY <1>1 DEF GapInv, InCycle
<1> QED BY <1>2, <1>3, <1>4, <1>5, <1>6 DEF GapInv

\* The client's coming and going, and every jump to the tail, settle what is owed.
LEMMA NothingOwedKeepsGapInv ==
    ASSUME GapInv, TypeOK, owed' = {},
           UNCHANGED <<stream, lastId, run, link, started, runId, current, first>>,
           \/ UNCHANGED <<pc, position>>
           \/ started /\ pc' = "top" /\ pc # "idle" /\ position' = Tail,
           stream \subseteq 1 .. lastId
    PROVE  GapInv'
<1>0. lastId \in Nat
  BY Numbers
<1>1. position' <= lastId
  BY <1>0, TailIsNewest DEF GapInv, OwedAhead
<1>2. OwedAhead'
  BY <1>1 DEF OwedAhead, NoSilentGap
<1>3. Starting' /\ Connected' /\ Following'
  BY DEF GapInv, Starting, Connected, Following
<1>4. Detectable' /\ InCycle'
  BY DEF GapInv, Detectable, InCycle
<1> QED BY <1>2, <1>3, <1>4 DEF GapInv

LEMMA ConnectKeepsGapInv ==
    ASSUME TypeOK, GapInv, env = {}, Connect \/ Begin
    PROVE  GapInv'
<1>0. /\ run \in Nat /\ current \in Nat /\ runId \in Nat /\ run # None
      /\ link \in BOOLEAN /\ started \in BOOLEAN
  BY Numbers DEF TypeOK
<1>1. CASE Connect
  <2>1. /\ pc = "idle" /\ pc' = "top" /\ link' = TRUE /\ current' = run
        /\ UNCHANGED <<stream, lastId, run, started, position, runId, owed, first, batch>>
    BY <1>1 DEF Connect, state, sockets
  <2>2. run \in 1 .. run
    BY <1>0
  <2> QED BY <2>1, <2>2 DEF GapInv, OwedAhead, NoSilentGap, Starting, Connected, Following,
             Detectable, InCycle
<1>2. CASE Begin
  <2>1. /\ pc = "top"
        /\ UNCHANGED <<stream, lastId, run, link, started, position, current, owed, first, batch>>
    BY <1>2 DEF Begin, redis, sockets
  <2>2. current \in 1 .. run /\ current # None
    BY <1>0, <2>1 DEF GapInv, Connected
  <2>3. runId' = current
    BY <1>2, <2>2 DEF Begin
  <2>4. \/ ~started /\ pc' = "start"
        \/ started /\ pc' = "reset"
        \/ started /\ pc' = "first" /\ runId = current
    <3>1. started => runId # None
      BY <1>0 DEF GapInv, Following
    <3> QED BY <1>2, <2>2, <3>1 DEF Begin
  <2>5. OwedAhead' /\ Starting'
    BY <2>1, <2>4 DEF GapInv, OwedAhead, NoSilentGap, Starting
  <2>6. Connected' /\ Following'
    BY <2>1, <2>2, <2>3 DEF GapInv, Connected, Following
  <2>7. Detectable'
    <3>1. CASE ~started \/ pc' = "reset"
      BY <2>1, <3>1 DEF Detectable
    <3>2. CASE started /\ runId' = runId /\ pc # "reset"
      BY <2>1, <3>2 DEF GapInv, Detectable
    <3> QED BY <2>1, <2>3, <2>4, <3>1, <3>2
  <2>8. InCycle'
    BY <2>4 DEF InCycle
  <2> QED BY <2>5, <2>6, <2>7, <2>8 DEF GapInv
<1> QED BY <1>1, <1>2

LEMMA StartKeepsGapInv ==
    ASSUME TypeOK, Ordered, GapInv, StartAtTail
    PROVE  GapInv'
<1>1. /\ pc = "start" /\ pc' = "read" /\ link /\ position' = Tail /\ started'
      /\ UNCHANGED <<stream, lastId, run, link, runId, current, first, batch, owed>>
  BY DEF StartAtTail, redis, sockets
<1>2. owed = {} /\ runId = current /\ current = run /\ current \in 1 .. run
  BY <1>1 DEF GapInv, Starting, Following, Connected
<1>3. position' <= lastId
  <2>1. lastId \in Nat
    BY Numbers
  <2> QED BY <1>1, <2>1, TailIsNewest
<1> QED BY <1>1, <1>2, <1>3
        DEF GapInv, OwedAhead, NoSilentGap, Starting, Connected, Following, Detectable, InCycle

\* A call that raises while the relay looks up the tail after a reset (which env = {}
\* excludes while Redis is up) would forget that it had to.
LEMMA RaiseKeepsGapInv ==
    ASSUME TypeOK, GapInv, env = {}, RedisRaises
    PROVE  GapInv'
<1>0. run \in Nat /\ current \in Nat
  BY Numbers
<1>1. /\ pc # "idle" /\ pc' = "idle" /\ (pc = "reset" => ~link)
      /\ UNCHANGED <<stream, lastId, run, link, started, position, runId, current,
                     first, batch, owed>>
  BY DEF RedisRaises, redis, state, sockets
<1>2. pc = "reset" => runId # run
  BY <1>0, <1>1 DEF GapInv, Connected, Following
<1> QED BY <1>1, <1>2
        DEF GapInv, OwedAhead, NoSilentGap, Starting, Connected, Following, Detectable, InCycle

LEMMA CheckKeepsGapInv ==
    ASSUME TypeOK, Ordered, GapInv, ReadFirst \/ CheckContinuity
    PROVE  GapInv'
<1>0. /\ position \in Nat /\ first \in Nat /\ owed \subseteq Nat /\ stream \subseteq Nat
      /\ lastId \in Nat
  BY Numbers
<1>1. CASE ReadFirst
  <2>1. /\ pc = "first" /\ pc' = "last" /\ first' = Oldest
        /\ UNCHANGED <<stream, lastId, run, link, started, position, runId, current, batch, owed>>
    BY <1>1 DEF ReadFirst, redis, state, sockets
  <2>2. Oldest = None \/ Oldest \in stream
    BY OldestRetained, RelayAssumption
  <2> QED BY <2>1, <2>2
          DEF GapInv, OwedAhead, NoSilentGap, Starting, Connected, Following, Detectable, InCycle
<1>2. CASE CheckContinuity /\ Broken /\ JumpToTail
  <2>1. /\ pc = "last" /\ pc' = "top" /\ position' = Tail /\ owed' = {}
        /\ UNCHANGED <<stream, lastId, run, link, started, runId, current, first>>
    BY <1>2 DEF CheckContinuity, JumpToTail, redis
  <2>2. started
    BY <2>1 DEF GapInv, Starting
  <2> QED BY <2>1, <2>2, NothingOwedKeepsGapInv
<1>3. CASE CheckContinuity /\ ~Broken /\ pc' = "read" /\ UNCHANGED <<position, owed>>
  <2>1. /\ pc = "last" /\ link /\ pc' = "read"
        /\ UNCHANGED <<stream, lastId, run, link, started, position, runId, current, first,
                       batch, owed>>
    BY <1>3 DEF CheckContinuity, redis
  <2>2. started /\ runId = current /\ current = run
    BY <2>1 DEF GapInv, Starting, Following, Connected
  <2>3. owed \subseteq stream
    <3> SUFFICES ASSUME NEW id \in owed, position # None, \A x \in stream : id < x
                 PROVE  FALSE
      BY <2>1, <2>2 DEF GapInv, Detectable
    <3>1. first # None /\ ~(first > position)
      BY <1>3 DEF Broken
    <3>2. first \in stream /\ id > position
      BY <2>1, <3>1 DEF GapInv, InCycle, OwedAhead, NoSilentGap
    <3>3. id < first
      BY <3>2
    <3> QED BY <1>0, <3>1, <3>2, <3>3
  <2> QED BY <2>1, <2>2, <2>3
          DEF GapInv, OwedAhead, NoSilentGap, Starting, Connected, Following, Detectable, InCycle
<1> QED BY <1>1, <1>2, <1>3 DEF CheckContinuity

LEMMA ReadKeepsGapInv ==
    ASSUME TypeOK, Ordered, GapInv, Read
    PROVE  GapInv'
<1>0. lastId \in Nat /\ BatchMax \in Nat
  BY Numbers, RelayAssumption DEF RelayAssumption
<1>1. /\ pc = "read" /\ link /\ pc' \in {"top", "emit"}
      /\ UNCHANGED <<stream, lastId, run, link, started, position, runId, current, first, owed>>
  BY DEF Read, redis, state, sockets
<1>2. owed \subseteq Unread
  BY <1>1 DEF GapInv, InCycle, OwedAhead, NoSilentGap, Unread
<1>3. \A id \in owed : id \in batch' \/ \A b \in batch' : id > b
  BY <1>0, <1>2, BatchIsOldest
<1> QED BY <1>1, <1>3
        DEF GapInv, OwedAhead, NoSilentGap, Starting, Connected, Following, Detectable, InCycle

LEMMA EmitKeepsGapInv ==
    ASSUME TypeOK, Ordered, GapInv, NEW id \in Ids, Emit(id) \/ EmitRaises(id)
    PROVE  GapInv'
<1>0. /\ position \in Nat /\ lastId \in Nat
      /\ owed \subseteq Nat /\ batch \subseteq Nat /\ id \in Nat /\ id # None
  BY Numbers
<1>1. /\ pc = "emit" /\ pc' \in {"idle", "top", "emit"}
      /\ id \in batch /\ batch' \subseteq batch \ {id} /\ \A x \in batch : id <= x
      /\ pc' = "emit" => batch' = batch \ {id}
      /\ owed' \in {owed, owed \ {id}}
      /\ UNCHANGED <<stream, lastId, run, link, started, runId, current, first>>
  BY DEF Emit, EmitRaises, NextEntry, Handled, redis, state
<1>2. /\ position' = position \/ position' = id
      /\ position' = id \/ pc' = "idle"
      /\ position' = id => owed' = owed \ {id} \/ id \in Malformed
  BY <1>0, <1>1 DEF Emit, EmitRaises, Handled, state, GapInv, Ordered
<1>3. position' = id => id \notin owed'
  BY <1>1, <1>2 DEF GapInv, OwedAhead
<1>4. \A y \in owed : y # id => y > id
  BY <1>0, <1>1 DEF GapInv, InCycle
<1>5. OwedAhead'
  <2>2. \A y \in owed' : y > position'
    BY <1>1, <1>2, <1>3, <1>4 DEF GapInv, OwedAhead, NoSilentGap
  <2>3. position' <= lastId
    BY <1>0, <1>1, <1>2 DEF GapInv, OwedAhead
  <2> QED BY <1>1, <2>2, <2>3 DEF GapInv, OwedAhead, NoSilentGap
<1>6. Starting' /\ Connected' /\ Following'
  BY <1>1 DEF GapInv, Starting, Connected, Following
<1>7. Detectable'
  <2>1. position # None => position' # None
    BY <1>0, <1>2
  <2> QED BY <1>1, <2>1 DEF GapInv, Detectable
<1>8. InCycle'
  <2>1. pc' = "emit" => \A y \in owed' : y \in batch' \/ \A b \in batch' : y > b
    <3> SUFFICES ASSUME pc' = "emit", NEW y \in owed'
                 PROVE  y \in batch' \/ \A b \in batch' : y > b
      OBVIOUS
    <3>1. y \in owed /\ (y \in batch \/ \A b \in batch : y > b)
      BY <1>1 DEF GapInv, InCycle
    <3>2. y # id
      BY <1>2, <1>3
    <3> QED BY <1>1, <3>1, <3>2
  <2> QED BY <1>1, <2>1 DEF InCycle
<1> QED BY <1>5, <1>6, <1>7, <1>8 DEF GapInv

LEMMA GapInvStep ==
    ASSUME TypeOK, Ordered, GapInv, env = {}, [Next]_vars
    PROVE  GapInv'
<1>1. ASSUME NEW keep \in Ids, Append(keep) PROVE GapInv'
  BY <1>1, AppendKeepsGapInv
<1>2. ASSUME NEW keep \in 0 .. MaxId, Restart(keep) PROVE GapInv'
  BY <1>2, RestartKeepsGapInv
<1>3. CASE Join \/ Leave
  <2>1. /\ owed' = {}
        /\ UNCHANGED <<stream, lastId, run, link, pc, started, position, runId, current, first>>
    BY <1>3 DEF Join, Leave, redis, state
  <2> QED BY <2>1, NothingOwedKeepsGapInv
<1>4. CASE ResetToTail
  <2>1. /\ owed' = {} /\ pc = "reset" /\ pc' = "top" /\ position' = Tail
        /\ UNCHANGED <<stream, lastId, run, link, started, runId, current, first>>
    BY <1>4 DEF ResetToTail, JumpToTail, redis
  <2>2. started
    BY <2>1 DEF GapInv, Starting
  <2> QED BY <2>1, <2>2, NothingOwedKeepsGapInv
<1>5. CASE UNCHANGED vars
  BY <1>5 DEF vars, GapInv, OwedAhead, NoSilentGap, Starting, Connected, Following,
              Detectable, InCycle
<1>6. CASE \E id \in Ids : Emit(id) \/ EmitRaises(id)
  BY <1>6, EmitKeepsGapInv
<1> QED BY <1>1, <1>2, <1>3, <1>4, <1>5, <1>6, ConnectKeepsGapInv, StartKeepsGapInv,
           CheckKeepsGapInv, ReadKeepsGapInv, RaiseKeepsGapInv
        DEF Next, Relaying

\* Whatever Redis trims between two cycles, loses in a restart or raises, the relay
\* never moves its position past an entry it still owes to the connected client
\* (relay_cycle: the run_id and the continuity are checked before it reads).
THEOREM NothingSkipped == Spec => []NoSilentGapIfChecked
<1>1. Init => Ordered /\ (env = {} => GapInv)
  BY InitOrdered, InitGapInv
<1>2. TypeOK /\ Ordered /\ (env = {} => GapInv) /\ [Next]_vars
      => Ordered' /\ (env = {} => GapInv)'
  <2>1. [Next]_vars => env' = env
    BY DEF Next, vars
  <2> QED BY <2>1, OrderedStep, GapInvStep, RelayAssumption
<1>3. (env = {} => GapInv) => NoSilentGapIfChecked
  BY DEF GapInv, OwedAhead, NoSilentGapIfChecked
<1> QED BY <1>1, <1>2, <1>3, TypeCorrect, PTL DEF Spec
================================================================================
