------------------------------ MODULE Rosters ------------------------------
(***************************************************************************)
(* Registering players for one team of a tournament: one at a time, by an  *)
(* import that uploads the photos first, retired and reactivated, until    *)
(* the first matchday locks the rosters.                                   *)
(*                                                                         *)
(* Requests overlap.  Each writes in one transaction, READ COMMITTED: a    *)
(* statement sees what is committed and what its own transaction wrote,    *)
(* and an insert that collides with a row another transaction has written  *)
(* waits for that one to end.  The lock of the rosters is read and taken   *)
(* for granted until the commit.                                           *)
(***************************************************************************)
EXTENDS Integers, FiniteSets, Sequences

CONSTANTS
  Request,       \* requests that register or reactivate
  Person,        \* documents
  Dorsal,
  Files          \* contents of the imports: sequences of rows

Row == [person : Person, dorsal : Dorsal]

ASSUME RostersAssumption == Files \subseteq Seq(Row) /\ <<>> \notin Files

VARIABLES
  locked,    \* every match of the reference matchday is confirmed
  players,   \* players of the organization: document, and who inserted it
  rosters,   \* registrations: id, player and dorsal
  active,    \* ids of those with is_active
  job,       \* what each request is doing
  early      \* requests that were writing when the lock came (history)

rostersVars == <<locked, players, rosters, active, job, early>>

Fresh == [pc |-> "start", rows |-> <<>>, at |-> 1, players |-> {},
          rosters |-> {}, id |-> <<>>]

Writing(r) == job[r].pc \in {"find", "insert", "enroll", "commit", "reactivate"}
Current(r) == job[r].rows[job[r].at]

Step(r, pc) == job' = [job EXCEPT ![r].pc = pc]

-----------------------------------------------------------------------------
(* The player of a document: found, or inserted ON CONFLICT DO NOTHING.    *)

Holders(r, person) == {p \in players \cup job[r].players : p.person = person}
PlayerOf(r, person) == CHOOSE p \in Holders(r, person) : TRUE

(* create_roster_player checks the lock and writes.                        *)
Register(r, row) ==
  /\ job[r].pc = "start" /\ ~locked
  /\ job' = [job EXCEPT ![r].pc = "find", ![r].rows = <<row>>]
  /\ UNCHANGED <<locked, players, rosters, active, early>>

(* An import checks it before the photos are uploaded ...                  *)
Import(r, rows) ==
  /\ job[r].pc = "start" /\ ~locked
  /\ job' = [job EXCEPT ![r].pc = "upload", ![r].rows = rows]
  /\ UNCHANGED <<locked, players, rosters, active, early>>

(* Mutant: the lock is only checked before the photos.                     *)
Uploaded_Unchecked(r) ==
  /\ job[r].pc = "upload"
  /\ Step(r, "find")
  /\ UNCHANGED <<locked, players, rosters, active, early>>

(* ... and again in the transaction that writes.                           *)
Uploaded(r) ==
  /\ job[r].pc = "upload"
  /\ Step(r, IF locked THEN "done" ELSE "find")
  /\ UNCHANGED <<locked, players, rosters, active, early>>

FindPlayer(r) ==
  /\ job[r].pc = "find"
  /\ Step(r, IF Holders(r, Current(r).person) = {} THEN "insert" ELSE "enroll")
  /\ UNCHANGED <<locked, players, rosters, active, early>>

(* Mutant: the document was looked for and not found, so it is inserted.   *)
InsertPlayer_Blind(r) ==
  /\ job[r].pc = "insert"
  /\ job' = [job EXCEPT ![r].pc = "enroll",
               ![r].players = {[person |-> Current(r).person, by |-> r]} \cup @]
  /\ UNCHANGED <<locked, players, rosters, active, early>>

(* Another transaction that is inserting the document is waited for; if it *)
(* commits its player is used.                                             *)
InsertPlayer(r) ==
  /\ job[r].pc = "insert"
  /\ \A q \in Request \ {r} :
       \A p \in job[q].players : p.person # Current(r).person
  /\ job' = [job EXCEPT
       ![r].pc = "enroll",
       ![r].players = IF Holders(r, Current(r).person) = {}
                      THEN @ \cup {[person |-> Current(r).person, by |-> r]} ELSE @]
  /\ UNCHANGED <<locked, players, rosters, active, early>>

-----------------------------------------------------------------------------
(* Registrations: one active row of a player, one of a dorsal.             *)

Collide(a, b) == a.id # b.id /\ (a.player = b.player \/ a.dorsal = b.dorsal)

Over(r) == job' = [job EXCEPT ![r] = [Fresh EXCEPT !.pc = "done"]]

(* The partial unique indexes admit the row x of the request r, after the  *)
(* transactions that have written one like it.                             *)
Admissible(r, x) ==
  \A y \in {z \in rosters : z.id \in active} \cup job[r].rosters : ~Collide(x, y)
MustWait(r, x) == \E q \in Request \ {r} : \E y \in job[q].rosters : Collide(x, y)

Enroll(r) ==
  LET x == [id |-> <<r, job[r].at>>, player |-> PlayerOf(r, Current(r).person),
            dorsal |-> Current(r).dorsal]
  IN  /\ job[r].pc = "enroll"
      /\ ~MustWait(r, x)
      /\ IF Admissible(r, x)
         THEN job' = [job EXCEPT
                ![r].rosters = @ \cup {x}, ![r].at = @ + 1,
                ![r].pc = IF job[r].at = Len(job[r].rows) THEN "commit" ELSE "find"]
         ELSE Over(r)
      /\ UNCHANGED <<locked, players, rosters, active, early>>

CommitRows(r) ==
  /\ job[r].pc = "commit"
  /\ players' = players \cup job[r].players
  /\ rosters' = rosters \cup job[r].rosters
  /\ active' = active \cup {x.id : x \in job[r].rosters}
  /\ Over(r)
  /\ UNCHANGED <<locked, early>>

(* A deadlock of two imports, a photo that cannot be uploaded, a crash.    *)
Fail(r) ==
  /\ job[r].pc \notin {"start", "done"}
  /\ Over(r)
  /\ UNCHANGED <<locked, players, rosters, active, early>>

-----------------------------------------------------------------------------
(* update_roster_player_status: retiring is exempt from the lock.          *)

Retire(x) ==
  /\ x.id \in active
  /\ active' = active \ {x.id}
  /\ UNCHANGED <<locked, players, rosters, job, early>>

Reactivate(r, x) ==
  /\ job[r].pc = "start" /\ ~locked
  /\ x.id \notin active /\ Admissible(r, x)
  /\ job' = [job EXCEPT ![r].pc = "reactivate", ![r].id = x.id]
  /\ UNCHANGED <<locked, players, rosters, active, early>>

(* The row is written once the ones it collides with have been committed   *)
(* or rolled back; the unique indexes have the last word.                  *)
ReactivateWrite(r) ==
  \E x \in rosters :
    /\ job[r].pc = "reactivate" /\ x.id = job[r].id
    /\ ~MustWait(r, x)
    /\ active' = IF Admissible(r, x) THEN active \cup {x.id} ELSE active
    /\ Over(r)
    /\ UNCHANGED <<locked, players, rosters, early>>

-----------------------------------------------------------------------------
(* The last match of the reference matchday is closed; another version is  *)
(* published, and its first stage has not been played.                     *)
Lock == /\ ~locked /\ locked' = TRUE
        /\ early' = {r \in Request : Writing(r)}
        /\ UNCHANGED <<players, rosters, active, job>>

Unlock == /\ locked /\ locked' = FALSE
          /\ early' = {}
          /\ UNCHANGED <<players, rosters, active, job>>

RostersInit ==
  /\ locked = FALSE
  /\ players = {} /\ rosters = {} /\ active = {}
  /\ job = [r \in Request |-> Fresh]
  /\ early = {}

RostersNext ==
  \/ \E r \in Request :
       \/ \E row \in Row : Register(r, row)
       \/ \E rows \in Files : Import(r, rows)
       \/ Uploaded(r) \/ FindPlayer(r) \/ InsertPlayer(r) \/ Enroll(r)
       \/ CommitRows(r) \/ Fail(r)
       \/ \E x \in rosters : Reactivate(r, x)
       \/ ReactivateWrite(r)
  \/ \E x \in rosters : Retire(x)
  \/ Lock \/ Unlock

RostersSpec == RostersInit /\ [][RostersNext]_rostersVars

-----------------------------------------------------------------------------
RostersTypeOK ==
  /\ locked \in BOOLEAN /\ early \subseteq Request
  /\ players \subseteq [person : Person, by : Request]
  /\ rosters \subseteq [id : Request \X Nat, player : players, dorsal : Dorsal]
  /\ active \subseteq {x.id : x \in rosters}

(* Whatever requests overlap, nobody is registered twice: no document has  *)
(* two active registrations (the index is on players, so the document must *)
(* have one player), and no dorsal does.                                   *)
OneRegistration ==
  \A x, y \in rosters :
    x.id # y.id /\ {x.id, y.id} \subseteq active =>
      x.player.person # y.player.person /\ x.dorsal # y.dorsal

(* While the rosters are locked they only shrink, but for the requests     *)
(* that were already writing when the lock came.                           *)
LockHonoured ==
  [][\A x \in rosters' :
       locked /\ x.id \in active' \ active =>
         \E r \in early : x.id = job[r].id \/ x \in job[r].rosters]_rostersVars
=============================================================================
