----------------------------- MODULE AtLeastOnce -----------------------------
(***************************************************************************)
(* What the transactional outbox promises to the rest of the system,       *)
(* without workers, claims or retries.  The README of the repository calls *)
(* the guarantee of the path outbox_events -> stream "at-least-once": a    *)
(* committed event stays owed until it has been appended to the stream; it *)
(* is acknowledged only afterwards; an operator may find it set aside, but *)
(* never silently dropped, and an acknowledged event is never owed again.  *)
(***************************************************************************)
CONSTANT Events

VARIABLES debt,      \* debt[e]: what the system still owes for event e
          appended   \* the events that are in the stream at least once

vars == <<debt, appended>>

Debts == {"absent", "owed", "acknowledged", "setAside"}

Init == /\ debt = [e \in Events |-> "absent"]
        /\ appended = {}

Commit(e) == /\ debt[e] = "absent"
             /\ debt' = [debt EXCEPT ![e] = "owed"]
             /\ UNCHANGED appended

\* A duplicate is allowed in any state except before the commit: that is the
\* difference with exactly-once.
Append(e) == /\ debt[e] # "absent"
             /\ appended' = appended \cup {e}
             /\ UNCHANGED debt

Acknowledge(e) == /\ debt[e] = "owed"
                  /\ e \in appended
                  /\ debt' = [debt EXCEPT ![e] = "acknowledged"]
                  /\ UNCHANGED appended

SetAside(e) == /\ debt[e] = "owed"
               /\ debt' = [debt EXCEPT ![e] = "setAside"]
               /\ UNCHANGED appended

\* The operator's requeue works on a whole set of events at once.
Resume(S) == /\ \A e \in S : debt[e] = "setAside"
             /\ debt' = [e \in Events |-> IF e \in S THEN "owed" ELSE debt[e]]
             /\ UNCHANGED appended

Next == \/ \E e \in Events : Commit(e) \/ Append(e) \/ Acknowledge(e) \/ SetAside(e)
        \/ \E S \in SUBSET Events : Resume(S)

Spec == Init /\ [][Next]_vars
==============================================================================
