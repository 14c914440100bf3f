-------------------------------- MODULE Outbox --------------------------------
(***************************************************************************)
(* The table outbox_events and the workers that drain it into the Redis    *)
(* stream (backend/app/workers/outbox.py, claim_/complete_/fail_/requeue_  *)
(* outbox_events in infra/postgres).  A worker claims a batch in one       *)
(* transaction, then publishes and settles the events one by one, each in  *)
(* a transaction of its own.  No row carries the identity of its claimant: *)
(* a worker that outlives the five minutes of its claim still completes or *)
(* fails a row that somebody else is publishing.                           *)
(*                                                                         *)
(* Time is abstracted to two facts per row: its lock is older than five    *)
(* minutes (expired) and its available_at is still to come (delayed).      *)
(***************************************************************************)
EXTENDS Integers, FiniteSets

CONSTANTS Events,       \* events, named by the position of created_at
          Workers,      \* worker processes (several replicas, or an old one)
          NoEvent,      \* the value of current[w] outside an event
          BatchLimit,   \* claim_outbox_events(20)
          MaxAttempts,  \* attempts >= 5 fails the event for good
          MaxCrashes,   \* bound on worker crashes
          MaxRequeues   \* bound on the operator's requeues

ASSUME OutboxAssumption ==
    /\ Events \subseteq Nat
    /\ NoEvent \notin Events
    /\ BatchLimit \in Nat \ {0}
    /\ MaxAttempts \in Nat \ {0}
    /\ MaxCrashes \in Nat
    /\ MaxRequeues \in Nat

VARIABLES status,     \* outbox_events.status, "absent" before the insert commits
          attempts,   \* outbox_events.attempts, counted up to MaxAttempts
          expired,    \* rows in processing whose locked_at is over 5 minutes old
          delayed,    \* pending rows whose available_at is in the future
          published,  \* events that XADD has appended to the stream
          pc,         \* where each worker is in process_once
          batch,      \* the events of its claim a worker has not taken up yet
          current,    \* the event a worker is publishing or settling
          crashes, requeues,
          everExpired \* history: rows whose lock expired once

rows == <<status, attempts, expired, delayed>>
workers == <<pc, batch, current>>
budget == <<crashes, requeues>>
vars == <<status, attempts, expired, delayed, published, pc, batch, current,
          crashes, requeues, everExpired>>

Statuses == {"absent", "pending", "processing", "processed", "failed"}
Places == {"idle", "next", "publish", "complete", "fail"}

TypeOK ==
    /\ status \in [Events -> Statuses]
    /\ attempts \in [Events -> 0 .. MaxAttempts]
    /\ expired \subseteq Events
    /\ delayed \subseteq Events
    /\ published \subseteq Events
    /\ pc \in [Workers -> Places]
    /\ batch \in [Workers -> SUBSET Events]
    /\ current \in [Workers -> Events \cup {NoEvent}]
    /\ crashes \in 0 .. MaxCrashes
    /\ requeues \in 0 .. MaxRequeues
    /\ everExpired \subseteq Events

Init ==
    /\ status = [e \in Events |-> "absent"]
    /\ attempts = [e \in Events |-> 0]
    /\ expired = {}
    /\ delayed = {}
    /\ published = {}
    /\ pc = [w \in Workers |-> "idle"]
    /\ batch = [w \in Workers |-> {}]
    /\ current = [w \in Workers |-> NoEvent]
    /\ crashes = 0
    /\ requeues = 0
    /\ everExpired = {}

-------------------------------------------------------------------------------
(* The rows.                                                               *)

\* The domain transaction that inserted the event commits.  created_at is the
\* start of that transaction, so events appear in any order.
Insert(e) ==
    /\ status[e] = "absent"
    /\ status' = [status EXCEPT ![e] = "pending"]
    /\ UNCHANGED <<attempts, expired, delayed, published, workers, budget, everExpired>>

LockExpires(e) ==
    /\ status[e] = "processing"
    /\ e \notin expired
    /\ expired' = expired \cup {e}
    /\ everExpired' = everExpired \cup {e}
    /\ UNCHANGED <<status, attempts, delayed, published, workers, budget>>

BecomesAvailable(e) ==
    /\ e \in delayed
    /\ delayed' = delayed \ {e}
    /\ UNCHANGED <<status, attempts, expired, published, workers, budget, everExpired>>

\* Mutants: the age of the lock is ignored; an abandoned claim is never taken over.
Claimable_AnyLock == {e \in Events : status[e] \in {"pending", "processing"} /\ e \notin delayed}
Claimable_PendingOnly == {e \in Events : status[e] = "pending" /\ e \notin delayed}

Claimable == {e \in Events : \/ status[e] = "pending" /\ e \notin delayed
                             \/ status[e] = "processing" /\ e \in expired}

\* ORDER BY created_at LIMIT n
Oldest(S, n) == {e \in S : Cardinality({f \in S : f < e}) < n}

\* Rows a transaction in progress holds: FOR UPDATE SKIP LOCKED passes them over.
RowsInTransaction == {current[w] : w \in {v \in Workers : pc[v] \in {"complete", "fail"}}}

Counted(n) == IF n < MaxAttempts THEN n + 1 ELSE n

\* claim_outbox_events: the rows are handed over in no particular order.
Claim(w) ==
    /\ pc[w] = "idle"
    /\ \E skipped \in SUBSET (Claimable \cap RowsInTransaction) :
         LET taken == Oldest(Claimable \ skipped, BatchLimit) IN
         /\ taken # {}
         /\ status' = [e \in Events |-> IF e \in taken THEN "processing" ELSE status[e]]
         /\ attempts' = [e \in Events |-> IF e \in taken THEN Counted(attempts[e])
                                                         ELSE attempts[e]]
         /\ expired' = expired \ taken
         /\ batch' = [batch EXCEPT ![w] = taken]
    /\ pc' = [pc EXCEPT ![w] = "next"]
    /\ UNCHANGED <<delayed, published, current, budget, everExpired>>

\* The operator's requeue_outbox_events (migration 010), LIMIT included.
\* Mutant: settled rows are queued again as well.
Requeueable_Settled == {e \in Events : status[e] \in {"failed", "processed"}}

Requeueable == {e \in Events : \/ status[e] = "failed"
                               \/ status[e] = "processing" /\ e \in expired}

Requeue ==
    /\ requeues < MaxRequeues
    /\ \E n \in 1 .. Cardinality(Events) :
         LET again == Oldest(Requeueable, n) IN
         /\ again # {}
         /\ status' = [e \in Events |-> IF e \in again THEN "pending" ELSE status[e]]
         /\ attempts' = [e \in Events |-> IF e \in again THEN 0 ELSE attempts[e]]
         /\ expired' = expired \ again
         /\ delayed' = delayed \ again
    /\ requeues' = requeues + 1
    /\ UNCHANGED <<published, workers, crashes, everExpired>>

\* complete_outbox_event and fail_outbox_event: both only touch a row that is
\* still in processing, whoever claimed it.
CompleteRow(e) ==
    IF status[e] = "processing"
    THEN /\ status' = [status EXCEPT ![e] = "processed"]
         /\ expired' = expired \ {e}
         /\ UNCHANGED <<attempts, delayed>>
    ELSE UNCHANGED rows

\* Mutants: fail_outbox_event without its status guard, or with a status the
\* CHECK of the table does not know.
FailRow_Unguarded(e) ==
    /\ status' = [status EXCEPT ![e] = IF attempts[e] >= MaxAttempts THEN "failed" ELSE "pending"]
    /\ expired' = expired \ {e}
    /\ UNCHANGED <<attempts, delayed>>

FailRow_UnknownStatus(e) ==
    /\ status' = [status EXCEPT ![e] = IF @ = "processing" THEN "retry" ELSE @]
    /\ UNCHANGED <<attempts, delayed, expired>>

FailRow(e) ==
    IF status[e] = "processing"
    THEN LET dead == attempts[e] >= MaxAttempts IN
         /\ status' = [status EXCEPT ![e] = IF dead THEN "failed" ELSE "pending"]
         /\ delayed' = IF dead THEN delayed ELSE delayed \cup {e}
         /\ expired' = expired \ {e}
         /\ UNCHANGED attempts
    ELSE UNCHANGED rows

-------------------------------------------------------------------------------
(* One round of process_once, and the loop around it.                      *)

TakeNext(w) ==
    /\ pc[w] = "next"
    /\ \E e \in batch[w] : /\ current' = [current EXCEPT ![w] = e]
                           /\ batch' = [batch EXCEPT ![w] = @ \ {e}]
    /\ pc' = [pc EXCEPT ![w] = "publish"]
    /\ UNCHANGED <<rows, published, budget, everExpired>>

BatchDone(w) ==
    /\ pc[w] = "next"
    /\ batch[w] = {}
    /\ pc' = [pc EXCEPT ![w] = "idle"]
    /\ UNCHANGED <<rows, published, batch, current, budget, everExpired>>

Publish(w) ==
    /\ pc[w] = "publish"
    /\ published' = published \cup {current[w]}
    /\ pc' = [pc EXCEPT ![w] = "complete"]
    /\ UNCHANGED <<rows, batch, current, budget, everExpired>>

\* Mutant: the exception of xadd is swallowed and the event is completed.
PublishRaises_Swallowed(w) ==
    /\ pc[w] = "publish"
    /\ published' \in {published, published \cup {current[w]}}
    /\ pc' = [pc EXCEPT ![w] = "complete"]
    /\ UNCHANGED <<rows, batch, current, budget, everExpired>>

\* xadd raises.  A lost answer leaves the entry in the stream all the same.
PublishRaises(w) ==
    /\ pc[w] = "publish"
    /\ published' \in {published, published \cup {current[w]}}
    /\ pc' = [pc EXCEPT ![w] = "fail"]
    /\ UNCHANGED <<rows, batch, current, budget, everExpired>>

Settled(w) == /\ pc' = [pc EXCEPT ![w] = "next"]
              /\ current' = [current EXCEPT ![w] = NoEvent]
              /\ UNCHANGED <<published, batch, budget, everExpired>>

Complete(w) ==
    /\ pc[w] = "complete"
    /\ CompleteRow(current[w])
    /\ Settled(w)

\* The completing transaction raises, rolled back or committed unnoticed.
CompleteRaises(w) ==
    /\ pc[w] = "complete"
    /\ CompleteRow(current[w]) \/ UNCHANGED rows
    /\ pc' = [pc EXCEPT ![w] = "fail"]
    /\ UNCHANGED <<published, batch, current, budget, everExpired>>

Fail(w) ==
    /\ pc[w] = "fail"
    /\ FailRow(current[w])
    /\ Settled(w)

\* The process dies, or an exception of fail_outbox_event leaves process_once
\* and _run_loop starts a new round: either way the rest of the claim is lost.
Crash(w) ==
    /\ pc[w] # "idle"
    /\ crashes < MaxCrashes
    /\ crashes' = crashes + 1
    /\ pc' = [pc EXCEPT ![w] = "idle"]
    /\ batch' = [batch EXCEPT ![w] = {}]
    /\ current' = [current EXCEPT ![w] = NoEvent]
    /\ UNCHANGED <<rows, published, requeues, everExpired>>

Work(w) == \/ Claim(w) \/ TakeNext(w) \/ BatchDone(w) \/ Publish(w)
           \/ PublishRaises(w) \/ Complete(w) \/ CompleteRaises(w) \/ Fail(w)

Next == \/ \E e \in Events : Insert(e) \/ LockExpires(e) \/ BecomesAvailable(e)
        \/ \E w \in Workers : Work(w) \/ Crash(w)
        \/ Requeue

Spec == Init /\ [][Next]_vars

\* _run_loop never stops and every call it makes returns or raises; the clock
\* advances.  Nothing makes producers, operators or crashes happen.
Fairness == /\ \A w \in Workers : WF_vars(Work(w))
            /\ \A e \in Events : WF_vars(LockExpires(e)) /\ WF_vars(BecomesAvailable(e))

FairSpec == Spec /\ Fairness
-------------------------------------------------------------------------------
(* Safety.                                                                 *)

\* An event is marked processed only once it is in the stream: no interleaving
\* of claims, expired locks, retries and crashes loses a committed event.
ProcessedWasPublished == \A e \in Events : status[e] = "processed" => e \in published

\* A claim whose lock never expired is exclusive: nobody else holds the event,
\* and its row does not go back to a state from which it can be claimed.
HoldersOf(e) == {w \in Workers : e \in batch[w] \/ current[w] = e}

FreshClaimIsExclusive ==
    \A e \in Events \ everExpired :
        /\ \A v, w \in HoldersOf(e) : v = w
        /\ HoldersOf(e) # {} /\ status[e] # "processing" =>
              /\ status[e] = "processed"
              /\ \A w \in HoldersOf(e) : pc[w] = "fail"

\* processed is final for every handler, a late fail_outbox_event and the
\* operator's requeue included: nothing republishes a settled event by itself.
ProcessedIsFinal ==
    [][\A e \in Events : status[e] = "processed" => status'[e] = "processed"]_vars

\* The table implements the at-least-once guarantee the README states for it.
Debt == [e \in Events |->
            CASE status[e] = "absent" -> "absent"
              [] status[e] \in {"pending", "processing"} -> "owed"
              [] status[e] = "processed" -> "acknowledged"
              [] OTHER -> "setAside"]

Promise == INSTANCE AtLeastOnce WITH debt <- Debt, appended <- published

ImplementsAtLeastOnce == Promise!Spec

(* Liveness.                                                               *)

\* With finitely many crashes and operator interventions, every committed event
\* is eventually published and settled, or set aside after MaxAttempts.
EverythingSettles ==
    \A e \in Events : status[e] # "absent" ~> status[e] \in {"processed", "failed"}
===============================================================================
