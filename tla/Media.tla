------------------------------- MODULE Media -------------------------------
(***************************************************************************)
(* The objects behind the photo of a registration and the crest of a team. *)
(*                                                                         *)
(* The database keeps a key, the storage keeps the object; no transaction  *)
(* covers both.  A request uploads the new object before its transaction   *)
(* and deletes the old one after it; it deletes its own object if the      *)
(* transaction did not get to its end.  A commit may fail with or without  *)
(* its effect; a cancelled upload may still land; a process may die.       *)
(*                                                                         *)
(* The crest is read with its row locked.  The functions of the database   *)
(* that write the photo read the old key and the consent before they take  *)
(* the row.                                                                *)
(***************************************************************************)
EXTENDS Naturals, FiniteSets

CONSTANTS
  Upload,   \* requests; an uploaded object has its request for a key
  NoKey

ASSUME MediaAssumption == NoKey \notin Upload

VARIABLES
  enrolled,   \* the registration exists
  consent,    \* its photo_consent
  photo,      \* its photo_object_key
  crest,      \* crest_object_key of the team
  store,      \* objects in the storage
  landing,    \* uploads that were cancelled and may still arrive
  task,       \* what each request is doing, and the old key it knows
  spoiled     \* some request failed after its upload (history)

mediaVars == <<enrolled, consent, photo, crest, store, landing, task, spoiled>>

Key == Upload \cup {NoKey}
Unstarted(r) == task[r].pc = "start"
Goes(r, pc) == task' = [task EXCEPT ![r].pc = pc]
GoesWith(r, pc, old) == task' = [task EXCEPT ![r].pc = pc, ![r].old = old]

-----------------------------------------------------------------------------
(* What the three uploads begin with.                                      *)

Begins(r, kind, old) ==
  task' = [task EXCEPT ![r] = [kind |-> kind, pc |-> "put", old |-> old]]

Others == <<enrolled, consent, photo, crest>>

PhotoGate(r) ==
  /\ Unstarted(r) /\ enrolled /\ consent
  /\ Begins(r, "photo", photo)
  /\ UNCHANGED <<Others, store, landing, spoiled>>

CrestGate(r) ==
  /\ Unstarted(r)
  /\ Begins(r, "crest", NoKey)
  /\ UNCHANGED <<Others, store, landing, spoiled>>

ImportGate(r) ==
  /\ Unstarted(r) /\ ~enrolled
  /\ Begins(r, "import", NoKey)
  /\ UNCHANGED <<Others, store, landing, spoiled>>

Put(r) ==
  /\ task[r].pc = "put"
  /\ store' = store \cup {r}
  /\ Goes(r, "write")
  /\ UNCHANGED <<Others, landing, spoiled>>

(* The request is cancelled while the thread that uploads goes on; or the  *)
(* storage fails, with or without the object.                              *)
PutInterrupted(r) ==
  /\ task[r].pc = "put"
  /\ landing' = landing \cup {r}
  /\ Goes(r, "undo") /\ spoiled' = TRUE
  /\ UNCHANGED <<Others, store>>

Land(r) ==
  /\ r \in landing
  /\ store' = store \cup {r} /\ landing' = landing \ {r}
  /\ UNCHANGED <<Others, task, spoiled>>

Undo(r) ==
  /\ task[r].pc = "undo"
  /\ store' = store \ {r}
  /\ Goes(r, "done")
  /\ UNCHANGED <<Others, landing, spoiled>>

(* The transaction fails before its end and is rolled back.                *)
WriteFails(r) ==
  /\ task[r].pc \in {"write", "update"}
  /\ Goes(r, IF task[r].kind \in {"consent", "delete"} THEN "done" ELSE "undo")
  /\ spoiled' = TRUE
  /\ UNCHANGED <<Others, store, landing>>

(* A process dies, or its best-effort deletion fails.                      *)
Dies(r) ==
  /\ ~Unstarted(r) /\ task[r].pc # "done"
  /\ Goes(r, "done") /\ spoiled' = TRUE
  /\ UNCHANGED <<Others, store, landing>>

-----------------------------------------------------------------------------
(* The commit.  It is confirmed, or it fails and nobody knows: then        *)
(* nothing is deleted.                                                     *)

(* Mutant: the old object goes whatever becomes of the commit.             *)
AfterCommit_Unsure(r, old, confirmed) ==
  /\ GoesWith(r, IF old # NoKey THEN "drop" ELSE "done", old)
  /\ spoiled' = (spoiled \/ ~confirmed)

AfterCommit(r, old, confirmed) ==
  /\ GoesWith(r, IF confirmed /\ old # NoKey THEN "drop" ELSE "done", old)
  /\ spoiled' = (spoiled \/ ~confirmed)

Drop(r) ==
  /\ task[r].pc = "drop"
  /\ store' = store \ {task[r].old}
  /\ Goes(r, "done")
  /\ UNCHANGED <<Others, landing, spoiled>>

-----------------------------------------------------------------------------
(* The crest: the row of the team is locked and read, then written.        *)

WriteCrest(r, key, took, confirmed) ==
  /\ crest' = IF took THEN key ELSE crest
  /\ AfterCommit(r, crest, confirmed)
  /\ UNCHANGED <<enrolled, consent, photo, store, landing>>

ReplaceCrest(r, took, confirmed) ==
  /\ task[r].pc = "write" /\ task[r].kind = "crest"
  /\ WriteCrest(r, r, took, confirmed)

(* Without a crest there is nothing to do; the read before the transaction *)
(* is only the gate.                                                       *)
DeleteCrestGate(r) ==
  /\ Unstarted(r) /\ crest # NoKey
  /\ task' = [task EXCEPT ![r] = [kind |-> "delete", pc |-> "write", old |-> crest]]
  /\ UNCHANGED <<Others, store, landing, spoiled>>

DeleteCrest(r, took, confirmed) ==
  /\ task[r].pc = "write" /\ task[r].kind = "delete"
  /\ WriteCrest(r, NoKey, took, confirmed)

-----------------------------------------------------------------------------
(* The photo.                                                              *)

(* An import writes the registration and its photo at once, and deletes    *)
(* nothing.                                                                *)
ImportRow(r, took, confirmed) ==
  /\ task[r].pc = "write" /\ task[r].kind = "import" /\ ~enrolled
  /\ enrolled' = took /\ consent' = took
  /\ photo' = IF took THEN r ELSE photo
  /\ AfterCommit(r, NoKey, confirmed)
  /\ UNCHANGED <<crest, store, landing>>

(* set_roster_photo_object reads the old key and the consent ...           *)
ReadPhoto(r) ==
  /\ task[r].pc = "write" /\ task[r].kind = "photo"
  /\ consent
  /\ GoesWith(r, "update", IF photo = NoKey THEN task[r].old ELSE photo)
  /\ UNCHANGED <<Others, store, landing, spoiled>>

(* chk_roster_photo_consent.                                               *)
Allowed(key, agreed) == agreed \/ key = NoKey

(* ... and updates the row; the constraint of the table is checked on what *)
(* the row is by then.                                                     *)
UpdatePhoto(r, took, confirmed) ==
  /\ task[r].pc = "update" /\ task[r].kind = "photo"
  /\ IF Allowed(r, consent)
     THEN /\ photo' = IF took THEN r ELSE photo
          /\ AfterCommit(r, task[r].old, confirmed)
     ELSE Goes(r, "undo") /\ UNCHANGED <<photo, spoiled>>
  /\ UNCHANGED <<enrolled, consent, crest, store, landing>>

(* set_roster_photo_consent reads the key and updates the row; without     *)
(* consent there is no photo.                                              *)
ReadConsent(r) ==
  /\ Unstarted(r) /\ enrolled
  /\ task' = [task EXCEPT ![r] = [kind |-> "consent", pc |-> "update", old |-> photo]]
  /\ UNCHANGED <<Others, store, landing, spoiled>>

UpdateConsent(r, agreed, took, confirmed) ==
  /\ task[r].pc = "update" /\ task[r].kind = "consent"
  /\ consent' = IF took THEN agreed ELSE consent
  /\ photo' = IF took /\ ~agreed THEN NoKey ELSE photo
  /\ AfterCommit(r, IF agreed THEN NoKey ELSE task[r].old, confirmed)
  /\ UNCHANGED <<enrolled, crest, store, landing>>

-----------------------------------------------------------------------------
MediaInit ==
  /\ enrolled = FALSE /\ consent = FALSE
  /\ photo = NoKey /\ crest = NoKey
  /\ store = {} /\ landing = {}
  /\ task = [r \in Upload |-> [kind |-> "none", pc |-> "start", old |-> NoKey]]
  /\ spoiled = FALSE

(* What a commit does and what its client learns: a confirmed commit took. *)
MediaNext ==
  \E r \in Upload :
    \/ PhotoGate(r) \/ CrestGate(r) \/ ImportGate(r) \/ DeleteCrestGate(r)
    \/ Put(r) \/ PutInterrupted(r) \/ Land(r) \/ Undo(r)
    \/ WriteFails(r) \/ Dies(r) \/ Drop(r)
    \/ ReadPhoto(r) \/ ReadConsent(r)
    \/ \E took, confirmed \in BOOLEAN :
         /\ confirmed => took
         /\ \/ ReplaceCrest(r, took, confirmed)
            \/ DeleteCrest(r, took, confirmed)
            \/ ImportRow(r, took, confirmed)
            \/ UpdatePhoto(r, took, confirmed)
            \/ \E agreed \in BOOLEAN : UpdateConsent(r, agreed, took, confirmed)

MediaSpec == MediaInit /\ [][MediaNext]_mediaVars

-----------------------------------------------------------------------------
MediaTypeOK ==
  /\ enrolled \in BOOLEAN /\ consent \in BOOLEAN /\ spoiled \in BOOLEAN
  /\ photo \in Key /\ crest \in Key
  /\ store \subseteq Upload /\ landing \subseteq Upload
  /\ task \in [Upload -> [kind : {"none", "photo", "crest", "import", "delete", "consent"},
                          pc : {"start", "put", "write", "update", "drop", "undo", "done"},
                          old : Key]]

(* Whatever fails, and whichever requests overlap, a key the database      *)
(* keeps has its object in the storage.                                    *)
NoBrokenReference == {photo, crest} \ {NoKey} \subseteq store

(* A registration without consent has no photo, although the consent is    *)
(* read before the row is taken and may be withdrawn in between.           *)
NoPhotoWithoutConsent == photo # NoKey => consent

(* As long as nothing fails, a replaced or deleted crest leaves no object  *)
(* behind once its request is over.                                        *)
NoCrestLeft ==
  ~spoiled =>
    \A r \in store :
      task[r].kind = "crest" =>
        \/ crest = r \/ task[r].pc # "done"
        \/ \E q \in Upload : task[q].pc = "drop" /\ task[q].old = r

(* The three together: what the rows say of the objects is true.           *)
PicturesInOrder == NoBrokenReference /\ NoPhotoWithoutConsent /\ NoCrestLeft
=============================================================================
