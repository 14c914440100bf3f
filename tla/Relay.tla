-------------------------------- MODULE Relay ---------------------------------
(***************************************************************************)
(* The relay of one API process (backend/app/main.py): it follows the      *)
(* stream bracket_craft.events with a position of its own and forwards the *)
(* entries over Socket.IO to a client that may come and go.  Where entries *)
(* will never be forwarded the client is owed a RESYNC instead.            *)
(*                                                                         *)
(* Entries are numbered in the order of XADD: Redis gives them growing     *)
(* ids.  A step of the relay ends at an await on Redis or on an emission;  *)
(* between two steps the worker appends, Redis trims or restarts and the   *)
(* client joins or leaves.                                                 *)
(***************************************************************************)
EXTENDS Integers, FiniteSets

CONSTANTS MaxId,      \* bound on the entries appended
          MaxLen,     \* OUTBOX_STREAM_MAXLEN
          BatchMax,   \* COUNT of XREAD
          MaxRuns,    \* bound on the starts of Redis
          MaxFaults,  \* bound on calls that raise although Redis is up
          Malformed,  \* entries that parse_envelope rejects
          Envs        \* the environments to consider, see Environments

\* "trim_unchecked": Redis trims between the check of a cycle and its XREAD.
\* "trim_unpositioned": it trims while the relay has no position to compare.
\* "raise_in_reset": the call that looks up the tail after a reset raises.
\* "no_info": INFO server is not available.
Environments == {"trim_unchecked", "trim_unpositioned", "raise_in_reset", "no_info"}

ASSUME RelayAssumption ==
    /\ {MaxId, MaxRuns, MaxFaults} \subseteq Nat
    /\ MaxLen \in Nat \ {0} /\ BatchMax \in Nat \ {0}
    /\ Malformed \subseteq 1 .. MaxId
    /\ Envs \subseteq SUBSET Environments

None == 0   \* an id or a run_id that Python holds as None

VARIABLES stream,    \* the ids Redis retains
          lastId,    \* the newest id ever appended
          run,       \* run_id of the Redis that is up
          link,      \* FALSE once Redis restarted under the relay's connection
          pc,        \* where the relay is
          started, position, runId,   \* RelayState
          current,   \* current_run_id, read when the connection was made
          first,     \* what resolve_first returned in this cycle
          batch,     \* entries returned by XREAD and not handled yet
          client,    \* TRUE while a socket is registered in its room
          owed,      \* history: well-formed entries appended since the client's
                     \* last RESYNC that have not been emitted to it
          emitted,   \* history: the last entry whose emission was begun
          faults,
          env        \* what else the environment may do in this behaviour

redis == <<stream, lastId, run, link>>
state == <<started, position, runId>>
sockets == <<client, owed, emitted>>
vars == <<stream, lastId, run, link, pc, started, position, runId, current, first,
          batch, client, owed, emitted, faults, env>>

Ids == 1 .. MaxId
Places == {"idle", "top", "start", "reset", "first", "last", "read", "emit"}

TypeOK ==
    /\ stream \subseteq Ids /\ lastId \in 0 .. MaxId
    /\ run \in 1 .. MaxRuns + 1 /\ link \in BOOLEAN
    /\ pc \in Places
    /\ started \in BOOLEAN /\ position \in 0 .. MaxId /\ runId \in 0 .. MaxRuns + 1
    /\ current \in 0 .. MaxRuns + 1
    /\ first \in 0 .. MaxId /\ batch \subseteq Ids
    /\ client \in BOOLEAN /\ owed \subseteq Ids /\ emitted \in 0 .. MaxId
    /\ faults \in 0 .. MaxFaults
    /\ env \in Envs

Init ==
    /\ stream = {} /\ lastId = 0 /\ run = 1 /\ link = FALSE
    /\ pc = "idle"
    /\ started = FALSE /\ position = None /\ runId = None
    /\ current = None /\ first = None /\ batch = {}
    /\ client = FALSE /\ owed = {} /\ emitted = None
    /\ faults = 0
    /\ env \in Envs

\* resolve_first and resolve_tail
IsOldest(id) == id \in stream /\ \A x \in stream : id <= x
IsNewest(id) == id \in stream /\ \A x \in stream : x <= id
Oldest == IF stream = {} THEN None ELSE CHOOSE id \in stream : IsOldest(id)

\* Mutant: the position after the newest entry.
Tail_After == IF stream = {} THEN None ELSE 1 + CHOOSE id \in stream : IsNewest(id)

Tail == IF stream = {} THEN None ELSE CHOOSE id \in stream : IsNewest(id)

-------------------------------------------------------------------------------
(* The environment.                                                        *)

\* XADD with an approximate MAXLEN: Redis keeps at least that many entries.
Append(keep) ==
    /\ lastId < MaxId
    /\ LET id == lastId + 1
           kept == {x \in stream \cup {id} : x >= keep} IN
         /\ kept # {}
         /\ kept # stream \cup {id} =>
               /\ Cardinality(kept) >= MaxLen
               /\ position = None => "trim_unpositioned" \in env
               /\ position # None /\ pc \in {"last", "read"} => "trim_unchecked" \in env
         /\ stream' = kept
         /\ lastId' = id
         /\ owed' = IF client /\ started /\ id \notin Malformed THEN owed \cup {id} ELSE owed
    /\ UNCHANGED <<run, link, pc, state, current, first, batch, client, emitted, faults>>

\* A restart loses what the append-only file had not synced: a suffix, or all.
Restart(keep) ==
    /\ run <= MaxRuns
    /\ run' = run + 1
    /\ link' = FALSE
    /\ stream' = {x \in stream : x <= keep}
    /\ UNCHANGED <<lastId, pc, state, current, first, batch, sockets, faults>>

\* connect: the socket enters its room and gets RESYNC JOIN.
Join ==
    /\ ~client
    /\ client' = TRUE
    /\ owed' = {}
    /\ UNCHANGED <<redis, pc, state, current, first, batch, emitted, faults>>

Leave ==
    /\ client
    /\ client' = FALSE
    /\ owed' = {}
    /\ UNCHANGED <<redis, pc, state, current, first, batch, emitted, faults>>

-------------------------------------------------------------------------------
(* relay_loop and relay_cycle.                                             *)

\* emit_gap_resync to the connected rooms, and the position jumps to the tail.
JumpToTail ==
    /\ position' = Tail
    /\ owed' = {}
    /\ pc' = "top"

\* A new connection; INFO server tells which Redis answers.
Connect ==
    /\ pc = "idle"
    /\ link' = TRUE
    /\ \/ current' = run
       \/ "no_info" \in env /\ current' = None
    /\ pc' = "top"
    /\ UNCHANGED <<stream, lastId, run, state, first, batch, sockets, faults>>

\* The head of relay_cycle, up to its first await.
Begin ==
    /\ pc = "top"
    /\ \/ /\ ~started
          /\ runId' = current
          /\ pc' = "start"
       \/ /\ started /\ current # None /\ runId # None /\ current # runId
          /\ runId' = current
          /\ pc' = "reset"
       \/ /\ started
          /\ current # None => runId \in {None, current}
          /\ runId' = IF current = None THEN runId ELSE current
          /\ pc' = "first"
    /\ UNCHANGED <<redis, started, position, current, first, batch, sockets, faults>>

\* A new process starts at the tail and announces nothing.
StartAtTail ==
    /\ pc = "start" /\ link
    /\ position' = Tail
    /\ started' = TRUE
    /\ pc' = "read"
    /\ UNCHANGED <<redis, runId, current, first, batch, sockets, faults>>

\* Another Redis than before: REDIS_RESET.
ResetToTail ==
    /\ pc = "reset" /\ link
    /\ JumpToTail
    /\ UNCHANGED <<redis, started, runId, current, first, batch, client, emitted, faults>>

ReadFirst ==
    /\ pc = "first" /\ link
    /\ first' = Oldest
    /\ pc' = "last"
    /\ UNCHANGED <<redis, state, current, batch, sockets, faults>>

\* Mutant: the oldest retained entry is not compared with the position.
Broken_NoTrim == position # None /\ (first = None \/ Tail = None \/ position > Tail)

\* STREAM_TRIMMED or REDIS_RESET: the position is outside the retained entries.
Broken == position # None /\ (first = None \/ first > position \/ Tail = None \/ position > Tail)

\* Mutant: a broken continuity ends the cycle without jumping or announcing it.
CheckContinuity_Returns ==
    /\ pc = "last" /\ link
    /\ pc' = IF Broken THEN "top" ELSE "read"
    /\ UNCHANGED <<redis, state, current, first, batch, sockets, faults>>

CheckContinuity ==
    /\ pc = "last" /\ link
    /\ \/ Broken /\ JumpToTail
       \/ ~Broken /\ pc' = "read" /\ UNCHANGED <<position, owed>>
    /\ UNCHANGED <<redis, started, runId, current, first, batch, client, emitted, faults>>

Unread == {x \in stream : x > position}

\* XREAD returns the oldest unread entries, none after a second without any.
Read ==
    /\ pc = "read" /\ link
    /\ batch' = {x \in Unread : Cardinality({y \in Unread : y <= x}) <= BatchMax}
    /\ pc' = IF Unread = {} THEN "top" ELSE "emit"
    /\ UNCHANGED <<redis, state, current, first, sockets, faults>>

NextEntry(id) == id \in batch /\ \A x \in batch : id <= x

\* Mutant: the position advances once per batch.
Handled_PerBatch(id) ==
    /\ batch' = batch \ {id}
    /\ position' = IF batch = {id} THEN id ELSE position
    /\ pc' = IF batch = {id} THEN "top" ELSE "emit"

\* The position advances entry by entry.
Handled(id) ==
    /\ batch' = batch \ {id}
    /\ position' = id
    /\ pc' = IF batch = {id} THEN "top" ELSE "emit"

Emit(id) ==
    /\ pc = "emit" /\ NextEntry(id)
    /\ Handled(id)
    /\ \/ id \in Malformed /\ UNCHANGED <<owed, emitted>>
       \/ id \notin Malformed /\ owed' = owed \ {id} /\ emitted' = id
    /\ UNCHANGED <<redis, started, runId, current, first, client, faults>>

\* sio.emit raises, after one of the rooms got the event or before.
EmitRaises(id) ==
    /\ pc = "emit" /\ NextEntry(id) /\ id \notin Malformed
    /\ faults < MaxFaults
    /\ faults' = faults + 1
    /\ emitted' = id
    /\ owed' \in {owed, owed \ {id}}
    /\ batch' = {}
    /\ pc' = "idle"
    /\ UNCHANGED <<redis, state, current, first, client>>

\* A call to Redis raises: relay_loop keeps its state, sleeps and connects again.
RedisRaises ==
    /\ pc \in {"start", "reset", "first", "last", "read"}
    /\ \/ ~link /\ UNCHANGED faults
       \/ /\ link /\ faults < MaxFaults
          /\ pc = "reset" => "raise_in_reset" \in env
          /\ faults' = faults + 1
    /\ pc' = "idle"
    /\ UNCHANGED <<redis, state, current, first, batch, sockets>>

Relaying ==
    \/ Connect \/ Begin \/ StartAtTail \/ ResetToTail \/ ReadFirst \/ CheckContinuity \/ Read
    \/ \E id \in Ids : Emit(id) \/ EmitRaises(id)
    \/ RedisRaises

Next ==
    /\ \/ Relaying
       \/ \E keep \in Ids : Append(keep)
       \/ \E keep \in 0 .. MaxId : Restart(keep)
       \/ Join \/ Leave
    /\ UNCHANGED env

Spec == Init /\ [][Next]_vars

\* The loop runs for as long as its process; nothing is promised of the others.
FairSpec == Spec /\ WF_vars(Relaying /\ UNCHANGED env)
-------------------------------------------------------------------------------
\* Every entry the connected client has neither been sent nor been told to reload
\* for is still ahead of the relay: the position never passes an entry silently
\* (specs/004, "los que estén conectados en el momento del hueco reciben RESYNC").
NoSilentGap == \A id \in owed : id > position

\* It does so wherever entries are lost while the relay compares its position with
\* the stream: trims between two cycles, restarts, calls that raise.
NoSilentGapIfChecked == env = {} => NoSilentGap

\* A failed call repeats at most the last entry: emissions never go back past it,
\* across reconnections, resets and trims (relay_cycle, the comment on the advance).
RepeatsAtMostTheLast == [][emitted' >= emitted]_emitted

\* Whatever is lost, raises or restarts, a client that stays is eventually sent every
\* entry appended after the relay started, or is told to reload.
Served == \A id \in Ids : (env = {} /\ id \in owed) ~> id \notin owed
================================================================================
