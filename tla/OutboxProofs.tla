----------------------------- MODULE OutboxProofs -----------------------------
(***************************************************************************)
(* Theorems about the outbox for any set of events, workers and bounds:    *)
(* its types, that no committed event is lost, that processed is final,    *)
(* and that the table with its workers implements AtLeastOnce.             *)
(***************************************************************************)
EXTENDS Outbox, TLAPS

\* A worker that is past the choice of an event has one in hand.
HasEvent == \A w \in Workers : pc[w] \in {"publish", "complete", "fail"} => current[w] \in Events

\* A worker about to complete an event has appended it: the claim, its expiry
\* and everybody else's steps leave published alone or enlarge it.
CompletingWasPublished == \A w \in Workers : pc[w] = "complete" => current[w] \in published

\* What a worker holds has been committed: no row goes back to being absent.
HeldIsCommitted ==
    \A w \in Workers, e \in Events : e \in batch[w] \/ current[w] = e => status[e] # "absent"

IInv == TypeOK /\ HasEvent /\ CompletingWasPublished /\ HeldIsCommitted /\ ProcessedWasPublished

LEMMA InitIInv == ASSUME Init PROVE IInv
BY OutboxAssumption DEF Init, IInv, TypeOK, HasEvent, CompletingWasPublished,
   HeldIsCommitted, ProcessedWasPublished, Statuses, Places

LEMMA OldestSubset == ASSUME NEW S, NEW n PROVE Oldest(S, n) \subseteq S
BY DEF Oldest

LEMMA RowStep ==
    ASSUME IInv, NEW e \in Events, Insert(e) \/ LockExpires(e) \/ BecomesAvailable(e)
    PROVE  IInv'
<1>1. CASE Insert(e)
  BY <1>1 DEF Insert, IInv, TypeOK, HasEvent, CompletingWasPublished, HeldIsCommitted,
     ProcessedWasPublished, Statuses, Places, workers, budget
<1>2. CASE LockExpires(e)
  BY <1>2 DEF LockExpires, IInv, TypeOK, HasEvent, CompletingWasPublished,
     HeldIsCommitted, ProcessedWasPublished, Statuses, Places, workers, budget
<1>3. CASE BecomesAvailable(e)
  BY <1>3 DEF BecomesAvailable, IInv, TypeOK, HasEvent, CompletingWasPublished,
     HeldIsCommitted, ProcessedWasPublished, Statuses, Places, workers, budget
<1> QED BY <1>1, <1>2, <1>3

LEMMA ClaimStep == ASSUME IInv, NEW w \in Workers, Claim(w) PROVE IInv'
<1> PICK skipped \in SUBSET (Claimable \cap RowsInTransaction) :
      LET taken == Oldest(Claimable \ skipped, BatchLimit) IN
         /\ taken # {}
         /\ status' = [e \in Events |-> IF e \in taken THEN "processing" ELSE status[e]]
         /\ attempts' = [e \in Events |-> IF e \in taken THEN Counted(attempts[e])
                                                         ELSE attempts[e]]
         /\ expired' = expired \ taken
         /\ batch' = [batch EXCEPT ![w] = taken]
  BY DEF Claim
<1> DEFINE taken == Oldest(Claimable \ skipped, BatchLimit)
<1>1. taken \subseteq Events
  BY OldestSubset DEF Claimable
<1>2. \A n \in 0 .. MaxAttempts : Counted(n) \in 0 .. MaxAttempts
  BY OutboxAssumption DEF Counted
<1>3. pc' = [pc EXCEPT ![w] = "next"] /\ UNCHANGED <<delayed, published, current, budget, everExpired>>
  BY DEF Claim
<1> HIDE DEF taken
<1>4. TypeOK'
  <2>1. attempts' \in [Events -> 0 .. MaxAttempts]
    BY <1>1, <1>2 DEF IInv, TypeOK, taken
  <2>2. status' \in [Events -> Statuses]
    BY <1>1 DEF IInv, TypeOK, Statuses, taken
  <2>3. batch' \in [Workers -> SUBSET Events] /\ expired' \subseteq Events
    BY <1>1 DEF IInv, TypeOK, taken
  <2>4. pc' \in [Workers -> Places]
    BY <1>3 DEF IInv, TypeOK, Places
  <2> QED BY <1>3, <2>1, <2>2, <2>3, <2>4 DEF IInv, TypeOK, budget
<1>5. HasEvent' /\ CompletingWasPublished'
  BY <1>3 DEF IInv, TypeOK, HasEvent, CompletingWasPublished
<1>6. ProcessedWasPublished'
  BY <1>1, <1>3 DEF IInv, TypeOK, ProcessedWasPublished, taken
<1>7. HeldIsCommitted'
  BY <1>1, <1>3 DEF IInv, TypeOK, HeldIsCommitted, taken
<1> QED BY <1>4, <1>5, <1>6, <1>7 DEF IInv

LEMMA RequeueStep == ASSUME IInv, Requeue PROVE IInv'
<1> PICK n \in 1 .. Cardinality(Events) :
      LET again == Oldest(Requeueable, n) IN
         /\ again # {}
         /\ status' = [e \in Events |-> IF e \in again THEN "pending" ELSE status[e]]
         /\ attempts' = [e \in Events |-> IF e \in again THEN 0 ELSE attempts[e]]
         /\ expired' = expired \ again
         /\ delayed' = delayed \ again
  BY DEF Requeue
<1> DEFINE again == Oldest(Requeueable, n)
<1>1. UNCHANGED <<published, workers, crashes, everExpired>> /\ requeues' \in 0 .. MaxRequeues
  BY OutboxAssumption DEF Requeue, IInv, TypeOK
<1> HIDE DEF again
<1>2. /\ status' = [e \in Events |-> IF e \in again THEN "pending" ELSE status[e]]
      /\ attempts' = [e \in Events |-> IF e \in again THEN 0 ELSE attempts[e]]
      /\ expired' = expired \ again
      /\ delayed' = delayed \ again
  BY DEF again
<1>3. TypeOK'
  <2>1. status' \in [Events -> Statuses]
    BY <1>2 DEF IInv, TypeOK, Statuses
  <2>2. attempts' \in [Events -> 0 .. MaxAttempts]
    BY <1>2, OutboxAssumption DEF IInv, TypeOK
  <2>3. expired' \subseteq Events /\ delayed' \subseteq Events
    BY <1>2 DEF IInv, TypeOK
  <2> QED BY <1>1, <2>1, <2>2, <2>3 DEF IInv, TypeOK, workers
<1> QED BY <1>1, <1>2, <1>3 DEF IInv, TypeOK, HasEvent, CompletingWasPublished,
           HeldIsCommitted, ProcessedWasPublished, workers

\* What completing and failing a row do to the table, whoever does it.
LEMMA SettlingRows ==
    ASSUME IInv, NEW e \in Events, CompleteRow(e) \/ FailRow(e) \/ UNCHANGED rows
    PROVE  /\ status' \in [Events -> Statuses]
           /\ attempts' \in [Events -> 0 .. MaxAttempts]
           /\ expired' \subseteq Events
           /\ delayed' \subseteq Events
           /\ \A f \in Events : status'[f] = "processed" =>
                 status[f] = "processed" \/ (f = e /\ CompleteRow(e))
           /\ \A f \in Events : status'[f] = "absent" => status[f] = "absent"
<1>1. CASE CompleteRow(e)
  BY <1>1 DEF CompleteRow, IInv, TypeOK, rows, Statuses
<1>2. CASE FailRow(e)
  BY <1>2 DEF FailRow, IInv, TypeOK, rows, Statuses
<1>3. CASE UNCHANGED rows
  BY <1>3 DEF IInv, TypeOK, rows
<1> QED BY <1>1, <1>2, <1>3

LEMMA WorkStep == ASSUME IInv, NEW w \in Workers, Work(w) \/ Crash(w) PROVE IInv'
<1>1. CASE Claim(w)
  BY <1>1, ClaimStep
<1>2. CASE TakeNext(w)
  BY <1>2 DEF TakeNext, IInv, TypeOK, HasEvent, CompletingWasPublished,
     HeldIsCommitted, ProcessedWasPublished, Places, rows, budget
<1>3. CASE BatchDone(w)
  BY <1>3 DEF BatchDone, IInv, TypeOK, HasEvent, CompletingWasPublished,
     HeldIsCommitted, ProcessedWasPublished, Places, rows, budget
<1>4. CASE Publish(w)
  BY <1>4 DEF Publish, IInv, TypeOK, HasEvent, CompletingWasPublished,
     HeldIsCommitted, ProcessedWasPublished, Places, rows, budget
<1>5. CASE PublishRaises(w)
  BY <1>5 DEF PublishRaises, IInv, TypeOK, HasEvent, CompletingWasPublished,
     HeldIsCommitted, ProcessedWasPublished, Places, rows, budget
<1>6. CASE Complete(w)
  <2>1. current[w] \in Events /\ current[w] \in published /\ CompleteRow(current[w])
    BY <1>6 DEF Complete, IInv, HasEvent, CompletingWasPublished
  <2>2. /\ pc' = [pc EXCEPT ![w] = "next"]
        /\ current' = [current EXCEPT ![w] = NoEvent]
        /\ UNCHANGED <<published, batch, crashes, requeues, everExpired>>
    BY <1>6 DEF Complete, Settled, budget
  <2>3. TypeOK'
    BY <2>1, <2>2, SettlingRows DEF IInv, TypeOK, Places
  <2>4. HeldIsCommitted'
    BY <2>1, <2>2, SettlingRows, OutboxAssumption DEF IInv, TypeOK, HeldIsCommitted
  <2> QED BY <2>1, <2>2, <2>3, <2>4, SettlingRows DEF IInv, TypeOK, HasEvent,
             CompletingWasPublished, ProcessedWasPublished
<1>7. CASE CompleteRaises(w)
  <2>1. current[w] \in Events /\ current[w] \in published
    BY <1>7 DEF CompleteRaises, IInv, HasEvent, CompletingWasPublished
  <2>2. CompleteRow(current[w]) \/ UNCHANGED rows
    BY <1>7 DEF CompleteRaises
  <2>3. /\ pc' = [pc EXCEPT ![w] = "fail"]
        /\ UNCHANGED <<published, batch, current, crashes, requeues, everExpired>>
    BY <1>7 DEF CompleteRaises, budget
  <2>4. TypeOK'
    BY <2>1, <2>2, <2>3, SettlingRows DEF IInv, TypeOK, Places
  <2> QED BY <2>1, <2>2, <2>3, <2>4, SettlingRows DEF IInv, TypeOK, HasEvent,
             CompletingWasPublished, HeldIsCommitted, ProcessedWasPublished
<1>8. CASE Fail(w)
  <2>1. current[w] \in Events /\ FailRow(current[w])
    BY <1>8 DEF Fail, IInv, HasEvent
  <2>2. \A f \in Events : status'[f] = "processed" => status[f] = "processed"
    BY <2>1 DEF FailRow, rows, IInv, TypeOK
  <2>3. /\ pc' = [pc EXCEPT ![w] = "next"]
        /\ current' = [current EXCEPT ![w] = NoEvent]
        /\ UNCHANGED <<published, batch, crashes, requeues, everExpired>>
    BY <1>8 DEF Fail, Settled, budget
  <2>4. TypeOK'
    BY <2>1, <2>3, SettlingRows DEF IInv, TypeOK, Places
  <2>5. HeldIsCommitted'
    BY <2>1, <2>3, SettlingRows, OutboxAssumption DEF IInv, TypeOK, HeldIsCommitted
  <2> QED BY <2>2, <2>3, <2>4, <2>5 DEF IInv, TypeOK, HasEvent, CompletingWasPublished,
             ProcessedWasPublished
<1>9. CASE Crash(w)
  BY <1>9, OutboxAssumption DEF Crash, IInv, TypeOK, HasEvent, CompletingWasPublished,
     HeldIsCommitted, ProcessedWasPublished, Places, rows
<1> QED BY <1>1, <1>2, <1>3, <1>4, <1>5, <1>6, <1>7, <1>8, <1>9 DEF Work

LEMMA NextIInv == ASSUME IInv, [Next]_vars PROVE IInv'
<1>1. CASE UNCHANGED vars
  BY <1>1 DEF vars, IInv, TypeOK, HasEvent, CompletingWasPublished, HeldIsCommitted, ProcessedWasPublished
<1>2. CASE Next
  BY <1>2, RowStep, WorkStep, RequeueStep DEF Next
<1> QED BY <1>1, <1>2

LEMMA SpecIInv == Spec => []IInv
<1>1. Init => IInv
  BY InitIInv
<1>2. IInv /\ [Next]_vars => IInv'
  BY NextIInv
<1> QED BY <1>1, <1>2, PTL DEF Spec

\* The state of the table and of every worker keeps its type.
THEOREM TypeCorrect == Spec => []TypeOK
<1>1. IInv => TypeOK
  BY DEF IInv
<1> QED BY <1>1, SpecIInv, PTL

\* No committed event is lost: one that is marked processed is in the stream,
\* for any number of workers, expired claims, failures and crashes.
THEOREM NothingLost == Spec => []ProcessedWasPublished
<1>1. IInv => ProcessedWasPublished
  BY DEF IInv
<1> QED BY <1>1, SpecIInv, PTL

-------------------------------------------------------------------------------
LEMMA StatusStep ==
    ASSUME IInv, Next, NEW e \in Events, status[e] = "processed"
    PROVE  status'[e] = "processed"
<1>1. CASE \E f \in Events : Insert(f) \/ LockExpires(f) \/ BecomesAvailable(f)
  BY <1>1 DEF Insert, LockExpires, BecomesAvailable, IInv, TypeOK
<1>2. CASE Requeue
  <2>1. PICK again \in SUBSET Requeueable :
          status' = [f \in Events |-> IF f \in again THEN "pending" ELSE status[f]]
    BY <1>2, OldestSubset DEF Requeue
  <2> QED BY <2>1 DEF Requeueable
<1>3. CASE \E w \in Workers : Claim(w)
  <2>1. PICK taken \in SUBSET Claimable :
          status' = [f \in Events |-> IF f \in taken THEN "processing" ELSE status[f]]
    BY <1>3, OldestSubset DEF Claim
  <2> QED BY <2>1 DEF Claimable
<1>4. ASSUME NEW w \in Workers, (Work(w) \/ Crash(w)) /\ ~Claim(w)
      PROVE  status'[e] = "processed"
  <2>1. CASE Complete(w) \/ CompleteRaises(w)
    BY <2>1 DEF Complete, CompleteRaises, CompleteRow, rows, IInv, TypeOK
  <2>2. CASE Fail(w)
    BY <2>2 DEF Fail, FailRow, rows, IInv, TypeOK
  <2>3. CASE TakeNext(w) \/ BatchDone(w) \/ Publish(w) \/ PublishRaises(w) \/ Crash(w)
    BY <2>3 DEF TakeNext, BatchDone, Publish, PublishRaises, Crash, rows
  <2> QED BY <1>4, <2>1, <2>2, <2>3 DEF Work
<1> QED BY <1>1, <1>2, <1>3, <1>4 DEF Next

\* processed is final, for the late settlements of expired claims too.
THEOREM ProcessedStays == Spec => ProcessedIsFinal
<1>1. IInv /\ [Next]_vars => [\A e \in Events : status[e] = "processed" => status'[e] = "processed"]_vars
  BY StatusStep
<1> QED BY <1>1, SpecIInv, PTL DEF Spec, ProcessedIsFinal

-------------------------------------------------------------------------------
(* A claim whose lock never expired is exclusive.                          *)

\* A worker has a batch only within a round, an event in hand only within its
\* turn, and takes an event out of its batch when it takes it in hand.
HoldsInTurn ==
    \A w \in Workers :
        /\ pc[w] = "idle" => batch[w] = {}
        /\ pc[w] \in {"idle", "next"} => current[w] = NoEvent
        /\ current[w] \notin batch[w]

Holds(w, e) == e \in batch[w] \/ current[w] = e

\* One worker at most holds a row whose lock never expired; the row stays in
\* processing while it is held, but for a completion whose answer was lost.
HeldByOne(e) ==
    /\ \A v, w \in Workers : Holds(v, e) /\ Holds(w, e) => v = w
    /\ \A w \in Workers :
          /\ e \in batch[w] => status[e] = "processing"
          /\ current[w] = e => \/ status[e] = "processing"
                               \/ status[e] = "processed" /\ pc[w] = "fail"

\* Whatever could be claimed while it is held has lost its lock before.
FreshInv == /\ expired \subseteq everExpired
            /\ HoldsInTurn
            /\ \A e \in Events \ everExpired : HeldByOne(e)

LEMMA InitFreshInv == ASSUME Init PROVE FreshInv
BY OutboxAssumption DEF Init, FreshInv, HoldsInTurn, HeldByOne, Holds

\* A row nobody works on changes hands without harm to the fresh claims: those
\* it is taken from had lost it, or nobody held it.
LEMMA FreshIsUnheld ==
    ASSUME FreshInv, NEW e \in Events \ everExpired, status[e] \notin {"processing", "processed"}
    PROVE  \A w \in Workers : ~Holds(w, e)
BY DEF FreshInv, HeldByOne, Holds

LEMMA FreshRowStep ==
    ASSUME TypeOK, FreshInv, NEW e \in Events,
           Insert(e) \/ LockExpires(e) \/ BecomesAvailable(e)
    PROVE  FreshInv'
<1>1. UNCHANGED <<pc, batch, current>> /\ everExpired \subseteq everExpired'
  BY DEF Insert, LockExpires, BecomesAvailable, workers
<1>2. HoldsInTurn'
  BY <1>1 DEF FreshInv, HoldsInTurn
<1>3. expired' \subseteq everExpired'
  BY DEF FreshInv, Insert, LockExpires, BecomesAvailable
<1>4. ASSUME NEW f \in Events \ everExpired' PROVE HeldByOne(f)'
  <2>1. f \in Events \ everExpired /\ HeldByOne(f)
    BY <1>1 DEF FreshInv
  <2>2. status'[f] = status[f] \/ \A w \in Workers : ~Holds(w, f)
    <3>1. CASE Insert(e)
      BY <2>1, <3>1, FreshIsUnheld DEF TypeOK, Insert
    <3>2. CASE ~Insert(e)
      BY <3>2 DEF LockExpires, BecomesAvailable
    <3> QED BY <3>1, <3>2
  <2> QED BY <1>1, <2>1, <2>2 DEF HeldByOne, Holds
<1> QED BY <1>2, <1>3, <1>4 DEF FreshInv

LEMMA FreshClaimStep ==
    ASSUME TypeOK, FreshInv, NEW w \in Workers, Claim(w)
    PROVE  FreshInv'
<1>1. PICK taken \in SUBSET Claimable :
         /\ status' = [e \in Events |-> IF e \in taken THEN "processing" ELSE status[e]]
         /\ expired' = expired \ taken
         /\ batch' = [batch EXCEPT ![w] = taken]
  <2>1. PICK skipped \in SUBSET (Claimable \cap RowsInTransaction) :
          LET taken == Oldest(Claimable \ skipped, BatchLimit) IN
          /\ status' = [e \in Events |-> IF e \in taken THEN "processing" ELSE status[e]]
          /\ expired' = expired \ taken
          /\ batch' = [batch EXCEPT ![w] = taken]
    BY DEF Claim
  <2>2. Oldest(Claimable \ skipped, BatchLimit) \subseteq Claimable
    BY OldestSubset
  <2> QED BY <2>1, <2>2
<1>2. /\ pc[w] = "idle" /\ pc' = [pc EXCEPT ![w] = "next"]
      /\ UNCHANGED <<current, everExpired>>
  BY DEF Claim
<1>3. batch[w] = {} /\ current[w] = NoEvent /\ taken \subseteq Events /\ NoEvent \notin taken
  BY <1>2, OutboxAssumption DEF FreshInv, HoldsInTurn, Claimable
<1>4. HoldsInTurn'
  BY <1>1, <1>2, <1>3 DEF FreshInv, HoldsInTurn, TypeOK
<1>5. expired' \subseteq everExpired'
  BY <1>1, <1>2 DEF FreshInv
<1>6. ASSUME NEW e \in Events \ everExpired' PROVE HeldByOne(e)'
  <2>1. e \in Events \ everExpired /\ HeldByOne(e)
    BY <1>2 DEF FreshInv
  <2>2. CASE e \in taken
    <3>1. status[e] = "pending"
      BY <1>1, <2>1, <2>2 DEF FreshInv, Claimable
    <3>2. \A v \in Workers : e \notin batch[v] /\ current[v] # e
      BY <2>1, <3>1, FreshIsUnheld DEF Holds
    <3>3. \A v \in Workers : v # w => batch'[v] = batch[v]
      BY <1>1 DEF TypeOK
    <3>4. status'[e] = "processing"
      BY <1>1, <2>2
    <3> QED BY <1>2, <3>2, <3>3, <3>4 DEF HeldByOne, Holds
  <2>3. CASE e \notin taken
    <3>1. status'[e] = status[e]
      BY <1>1, <2>3
    <3>2. \A v \in Workers : e \in batch'[v] => e \in batch[v]
      BY <1>1, <2>3 DEF TypeOK
    <3>3. \A v \in Workers : pc[v] = "fail" => pc'[v] = "fail"
      BY <1>2 DEF TypeOK
    <3> QED BY <1>2, <2>1, <3>1, <3>2, <3>3 DEF HeldByOne, Holds
  <2> QED BY <2>2, <2>3
<1> QED BY <1>4, <1>5, <1>6 DEF FreshInv

LEMMA FreshRequeueStep == ASSUME TypeOK, FreshInv, Requeue PROVE FreshInv'
<1>1. PICK again \in SUBSET Requeueable :
        /\ status' = [e \in Events |-> IF e \in again THEN "pending" ELSE status[e]]
        /\ expired' = expired \ again
  <2>1. PICK n \in 1 .. Cardinality(Events) :
          LET again == Oldest(Requeueable, n) IN
          /\ status' = [e \in Events |-> IF e \in again THEN "pending" ELSE status[e]]
          /\ expired' = expired \ again
    BY DEF Requeue
  <2> QED BY <2>1, OldestSubset
<1>2. UNCHANGED <<pc, batch, current, everExpired>>
  BY DEF Requeue, workers
<1>3. HoldsInTurn'
  BY <1>2 DEF FreshInv, HoldsInTurn
<1>4. ASSUME NEW e \in Events \ everExpired' PROVE HeldByOne(e)'
  <2>1. e \in Events \ everExpired /\ HeldByOne(e)
    BY <1>2 DEF FreshInv
  <2>2. CASE e \in again
    <3>1. status[e] = "failed"
      BY <1>1, <2>1, <2>2 DEF FreshInv, Requeueable
    <3>2. \A w \in Workers : ~Holds(w, e)
      BY <2>1, <3>1, FreshIsUnheld
    <3> QED BY <1>2, <3>2 DEF HeldByOne, Holds
  <2>3. CASE e \notin again
    <3>1. status'[e] = status[e]
      BY <1>1, <2>3
    <3> QED BY <1>2, <2>1, <3>1 DEF HeldByOne, Holds
  <2> QED BY <2>2, <2>3
<1> QED BY <1>1, <1>2, <1>3, <1>4 DEF FreshInv

\* Settling an event, or failing to: only its own row moves, and a worker that
\* keeps the event in hand is about to fail it.
LEMMA FreshSettleStep ==
    ASSUME TypeOK, HasEvent, FreshInv, NEW w \in Workers,
           Complete(w) \/ CompleteRaises(w) \/ Fail(w)
    PROVE  FreshInv'
<1> DEFINE mine == current[w]
<1>1. mine \in Events /\ mine # NoEvent
  BY OutboxAssumption DEF HasEvent, Complete, CompleteRaises, Fail
<1>2. /\ UNCHANGED <<batch, everExpired>>
      /\ \A v \in Workers : v # w => pc'[v] = pc[v] /\ current'[v] = current[v]
      /\ \/ pc'[w] = "next" /\ current'[w] = NoEvent
         \/ pc'[w] = "fail" /\ current'[w] = mine
  BY DEF Complete, CompleteRaises, Fail, Settled, TypeOK
<1>3. /\ expired' \subseteq expired
      /\ \A e \in Events : e # mine => status'[e] = status[e]
      /\ status'[mine] \in {status[mine], "processed"} \/ current'[w] = NoEvent
  BY <1>1 DEF Complete, CompleteRaises, Fail, Settled, CompleteRow, FailRow, rows, TypeOK
<1> HIDE DEF mine
<1>4. HoldsInTurn'
  <2>1. mine \notin batch[w] /\ NoEvent \notin batch[w]
    BY OutboxAssumption DEF FreshInv, HoldsInTurn, TypeOK, mine
  <2> QED BY <1>1, <1>2, <2>1 DEF FreshInv, HoldsInTurn
<1>5. ASSUME NEW e \in Events \ everExpired' PROVE HeldByOne(e)'
  <2>1. e \in Events \ everExpired /\ HeldByOne(e) /\ e # NoEvent
    BY <1>2, OutboxAssumption DEF FreshInv
  <2>2. \A v \in Workers : e \in batch'[v] => e \in batch[v] /\ (e = mine => FALSE)
    BY <1>2, <2>1 DEF FreshInv, HoldsInTurn, HeldByOne, Holds, mine
  <2>3. \A v \in Workers : current'[v] = e =>
          current[v] = e /\ (e = mine => v = w /\ pc'[w] = "fail")
    BY <1>2, <2>1 DEF HeldByOne, Holds, mine
  <2>4. CASE e = mine
    <3>1. \A v \in Workers : current'[v] = e => status'[e] \in {"processing", "processed"}
      BY <1>2, <1>3, <2>1, <2>3, <2>4 DEF HeldByOne, mine
    <3> QED BY <2>2, <2>3, <2>4, <3>1 DEF HeldByOne, Holds
  <2>5. CASE e # mine
    <3>1. status'[e] = status[e]
      BY <1>3, <2>5
    <3>2. \A v \in Workers : current'[v] = e => v # w /\ pc'[v] = pc[v]
      BY <1>2, <2>1, <2>5
    <3> QED BY <2>1, <2>2, <2>3, <3>1, <3>2 DEF HeldByOne, Holds
  <2> QED BY <2>4, <2>5
<1> QED BY <1>2, <1>3, <1>4, <1>5 DEF FreshInv

\* A worker that takes an event in hand, publishes it or gives everything up
\* holds no more than before.
LEMMA FreshHoldStep ==
    ASSUME TypeOK, FreshInv, NEW w \in Workers,
           TakeNext(w) \/ BatchDone(w) \/ Publish(w) \/ PublishRaises(w) \/ Crash(w)
    PROVE  FreshInv'
<1>1. /\ UNCHANGED <<status, expired, everExpired>>
      /\ pc[w] # "fail" \/ current'[w] = NoEvent
      /\ \A v \in Workers : v # w => /\ pc'[v] = pc[v] /\ current'[v] = current[v]
                                     /\ batch'[v] = batch[v]
  BY DEF TakeNext, BatchDone, Publish, PublishRaises, Crash, rows, TypeOK
<1>2. /\ batch'[w] \subseteq batch[w]
      /\ current'[w] \in {current[w], NoEvent} \cup batch[w]
      /\ current'[w] \in batch[w] => batch'[w] = batch[w] \ {current'[w]}
      /\ pc'[w] = "idle" => batch'[w] = {}
      /\ pc'[w] \in {"idle", "next"} => current'[w] = NoEvent
  BY OutboxAssumption
     DEF TakeNext, BatchDone, Publish, PublishRaises, Crash, TypeOK, FreshInv, HoldsInTurn
<1>3. NoEvent \notin batch[w]
  BY OutboxAssumption DEF TypeOK
<1>4. HoldsInTurn'
  BY <1>1, <1>2, <1>3 DEF FreshInv, HoldsInTurn
<1>5. ASSUME NEW e \in Events \ everExpired' PROVE HeldByOne(e)'
  <2>1. e \in Events \ everExpired /\ HeldByOne(e) /\ e # NoEvent
    BY <1>1, OutboxAssumption DEF FreshInv
  <2>2. \A v \in Workers : Holds(v, e)' => Holds(v, e)
    BY <1>1, <1>2, <2>1 DEF Holds
  <2>3. \A v \in Workers : e \in batch'[v] => e \in batch[v]
    BY <1>1, <1>2
  <2>4. \A v \in Workers : current'[v] = e =>
          \/ status[e] = "processing"
          \/ v # w /\ current[v] = e
    BY <1>1, <1>2, <2>1 DEF HeldByOne
  <2> QED BY <1>1, <2>1, <2>2, <2>3, <2>4 DEF HeldByOne, Holds
<1> QED BY <1>1, <1>4, <1>5 DEF FreshInv

LEMMA FreshStep == ASSUME IInv, FreshInv, [Next]_vars PROVE FreshInv'
<1>1. TypeOK /\ HasEvent
  BY DEF IInv
<1>2. ASSUME NEW e \in Events, Insert(e) \/ LockExpires(e) \/ BecomesAvailable(e)
      PROVE  FreshInv'
  BY <1>1, <1>2, FreshRowStep
<1>3. ASSUME NEW w \in Workers, Work(w) \/ Crash(w) PROVE FreshInv'
  BY <1>1, <1>3, FreshClaimStep, FreshSettleStep, FreshHoldStep DEF Work
<1>4. CASE Requeue
  BY <1>1, <1>4, FreshRequeueStep
<1>5. CASE UNCHANGED vars
  BY <1>5 DEF vars, FreshInv, HoldsInTurn, HeldByOne, Holds
<1> QED BY <1>2, <1>3, <1>4, <1>5 DEF Next

\* Two workers never publish or settle the same event while its lock holds: a
\* row is given to somebody else (claim_outbox_events, requeue_outbox_events)
\* only after five minutes, or after its claimant let it go.
THEOREM ClaimsAreExclusive == Spec => []FreshClaimIsExclusive
<1>1. FreshInv => FreshClaimIsExclusive
  BY DEF FreshInv, FreshClaimIsExclusive, HeldByOne, HoldersOf, Holds
<1>2. Init => IInv /\ FreshInv
  BY InitIInv, InitFreshInv
<1>3. IInv /\ FreshInv /\ [Next]_vars => (IInv /\ FreshInv)'
  BY NextIInv, FreshStep
<1> QED BY <1>1, <1>2, <1>3, PTL DEF Spec

-------------------------------------------------------------------------------
LEMMA PromiseInit == Init => Promise!Init
BY DEF Init, Promise!Init, Debt

\* Rewriting rows that are owed into rows that are owed changes no debt.
LEMMA SameDebt ==
    ASSUME IInv, status' \in [Events -> Statuses],
           \A e \in Events : \/ status'[e] = status[e]
                             \/ /\ status[e] \in {"pending", "processing"}
                                /\ status'[e] \in {"pending", "processing"}
    PROVE  Debt' = Debt
BY DEF Debt

LEMMA PromiseSettle ==
    ASSUME IInv, NEW e \in Events, published' = published,
           \/ CompleteRow(e) /\ e \in published
           \/ FailRow(e)
    PROVE  [Promise!Next]_(Promise!vars)
<1>0. status \in [Events -> Statuses]
  BY DEF IInv, TypeOK
<1>1. CASE status[e] # "processing"
  BY <1>1, SameDebt DEF CompleteRow, FailRow, rows, IInv, TypeOK, Promise!vars
<1>2. CASE status[e] = "processing" /\ CompleteRow(e) /\ e \in published
  <2>1. status' = [status EXCEPT ![e] = "processed"]
    BY <1>2 DEF CompleteRow
  <2>2. Debt[e] = "owed"
    BY <1>2 DEF Debt
  <2>3. Debt' = [Debt EXCEPT ![e] = "acknowledged"]
    BY <2>1, <1>0 DEF Debt
  <2>4. Promise!Acknowledge(e)
    BY <1>2, <2>2, <2>3 DEF Promise!Acknowledge
  <2> QED BY <2>4 DEF Promise!Next
<1>3. CASE status[e] = "processing" /\ FailRow(e) /\ attempts[e] >= MaxAttempts
  <2>1. status' = [status EXCEPT ![e] = "failed"]
    BY <1>3 DEF FailRow
  <2>2. Debt[e] = "owed"
    BY <1>3 DEF Debt
  <2>3. Debt' = [Debt EXCEPT ![e] = "setAside"]
    BY <2>1, <1>0 DEF Debt
  <2>4. Promise!SetAside(e)
    BY <2>2, <2>3 DEF Promise!SetAside
  <2> QED BY <2>4 DEF Promise!Next
<1>4. CASE status[e] = "processing" /\ FailRow(e) /\ ~(attempts[e] >= MaxAttempts)
  <2>1. status' = [status EXCEPT ![e] = "pending"]
    BY <1>4 DEF FailRow
  <2>2. Debt' = Debt
    BY <1>0, <1>4, <2>1, SameDebt DEF Statuses
  <2> QED BY <2>2 DEF Promise!vars
<1> QED BY <1>1, <1>2, <1>3, <1>4

LEMMA PromiseRequeue == ASSUME IInv, Requeue PROVE [Promise!Next]_(Promise!vars)
<1>1. PICK again \in SUBSET Requeueable :
        status' = [e \in Events |-> IF e \in again THEN "pending" ELSE status[e]]
  BY OldestSubset DEF Requeue
<1> DEFINE S == {e \in again : status[e] = "failed"}
<1>2. S \in SUBSET Events /\ \A e \in S : Debt[e] = "setAside"
  BY DEF Requeueable, Debt
<1>3. Debt' = [e \in Events |-> IF e \in S THEN "owed" ELSE Debt[e]]
  BY <1>1 DEF Requeueable, Debt
<1>4. published' = published
  BY DEF Requeue
<1>5. Promise!Resume(S)
  BY <1>2, <1>3, <1>4 DEF Promise!Resume
<1> QED BY <1>2, <1>5 DEF Promise!Next

LEMMA PromiseStep == ASSUME IInv, [Next]_vars PROVE [Promise!Next]_(Promise!vars)
<1>0. status \in [Events -> Statuses]
  BY DEF IInv, TypeOK
<1>1. CASE UNCHANGED vars
  BY <1>1 DEF vars, Promise!vars, Debt
<1>2. ASSUME NEW e \in Events, Insert(e) PROVE [Promise!Next]_(Promise!vars)
  <2>1. Debt[e] = "absent" /\ Debt' = [Debt EXCEPT ![e] = "owed"] /\ published' = published
    BY <1>0, <1>2 DEF Insert, Debt
  <2> QED BY <2>1 DEF Promise!Commit, Promise!Next
<1>3. ASSUME NEW e \in Events, LockExpires(e) \/ BecomesAvailable(e)
      PROVE  [Promise!Next]_(Promise!vars)
  BY <1>3 DEF LockExpires, BecomesAvailable, Debt, Promise!vars
<1>4. CASE Requeue
  BY <1>4, PromiseRequeue
<1>5. ASSUME NEW w \in Workers, Claim(w) PROVE [Promise!Next]_(Promise!vars)
  <2>1. PICK taken \in SUBSET Claimable :
          status' = [e \in Events |-> IF e \in taken THEN "processing" ELSE status[e]]
    BY <1>5, OldestSubset DEF Claim
  <2>2. Debt' = Debt
    BY <1>0, <2>1 DEF Claimable, Debt
  <2> QED BY <1>5, <2>2 DEF Claim, Promise!vars
<1>6. ASSUME NEW w \in Workers, Publish(w) \/ PublishRaises(w) PROVE [Promise!Next]_(Promise!vars)
  <2>1. current[w] \in Events /\ Debt' = Debt
    BY <1>6 DEF Publish, PublishRaises, rows, IInv, HasEvent, Debt
  <2>2. published' = published \/ published' = published \cup {current[w]}
    BY <1>6 DEF Publish, PublishRaises
  <2>3. Debt[current[w]] # "absent" \/ published' = published
    <3>1. status[current[w]] # "absent"
      BY <2>1 DEF IInv, HeldIsCommitted
    <3> QED BY <2>1, <3>1 DEF Debt
  <2> QED BY <2>1, <2>2, <2>3 DEF Promise!Append, Promise!Next, Promise!vars
<1>7. ASSUME NEW w \in Workers, Complete(w) PROVE [Promise!Next]_(Promise!vars)
  BY <1>7, PromiseSettle DEF Complete, Settled, IInv, HasEvent, CompletingWasPublished
<1>8. ASSUME NEW w \in Workers, CompleteRaises(w) PROVE [Promise!Next]_(Promise!vars)
  <2>1. CASE CompleteRow(current[w])
    BY <1>8, <2>1, PromiseSettle DEF CompleteRaises, IInv, HasEvent, CompletingWasPublished
  <2>2. CASE UNCHANGED rows
    BY <1>8, <2>2 DEF CompleteRaises, rows, Debt, Promise!vars
  <2> QED BY <1>8, <2>1, <2>2 DEF CompleteRaises
<1>9. ASSUME NEW w \in Workers, Fail(w) PROVE [Promise!Next]_(Promise!vars)
  BY <1>9, PromiseSettle DEF Fail, Settled, IInv, HasEvent
<1>10. ASSUME NEW w \in Workers, TakeNext(w) \/ BatchDone(w) \/ Crash(w)
       PROVE  [Promise!Next]_(Promise!vars)
  BY <1>10 DEF TakeNext, BatchDone, Crash, rows, Debt, Promise!vars
<1> QED BY <1>1, <1>2, <1>3, <1>4, <1>5, <1>6, <1>7, <1>8, <1>9, <1>10 DEF Next, Work

\* The table and its workers implement the at-least-once guarantee.
THEOREM Refinement == Spec => ImplementsAtLeastOnce
<1>1. Init => Promise!Init
  BY PromiseInit
<1>2. IInv /\ [Next]_vars => [Promise!Next]_(Promise!vars)
  BY PromiseStep
<1> QED BY <1>1, <1>2, SpecIInv, PTL DEF Spec, ImplementsAtLeastOnce, Promise!Spec
===============================================================================
