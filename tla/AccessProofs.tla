----------------------------- MODULE AccessProofs -----------------------------
(***************************************************************************)
(* Accounts and Members for any number of addresses, identities, browsers, *)
(* attempts, callbacks, invitations, links and requests under way.         *)
(*                                                                         *)
(* Accounts: the types with the promise of the unique indexes, that nobody *)
(* is locked out or taken over, that an attempt serves once, and that a    *)
(* session opened with an identity is one of the account it is linked to.  *)
(* None of these is inductive: what carries them is what a callback still  *)
(* knows when it resumes (CallbacksKnow).                                  *)
(*                                                                         *)
(* Members: the types with the unique index of the pending invitations,    *)
(* that a dead link stays dead, and who may accept.  Rows and people are   *)
(* kept apart (RowsRight, PeopleRight), as the requests that write them    *)
(* are; last, both together as MCAccess composes them.                     *)
(***************************************************************************)
EXTENDS MCAccess, FiniteSetTheorems, TLAPS

(* A callback under way is of a browser and of what the provider reported. *)
Reported ==
  \A c \in Callback :
    callback[c].step # "idle" =>
      /\ callback[c].browser \in Browser
      /\ callback[c].subject \in Subject
      /\ callback[c].email \in Email

(* A link in course is for the account whose session started it; that      *)
(* account exists, for no account ever goes away.                          *)
LinksItsStarter ==
  \A c \in Callback :
    callback[c].step \in {"link", "linking"} =>
      /\ callback[c].user \in Email
      /\ callback[c].starter = callback[c].user
      /\ account[callback[c].user] # "none"

(* The account of a resolved sign-in is the one linked to the identity,    *)
(* and stays so until the session is delivered.                            *)
ResolvedToLinked ==
  \A c \in Callback :
    callback[c].step = "resolved" => callback[c].user \in LinkedTo(callback[c].subject)

CallbacksKnow == Reported /\ LinksItsStarter /\ ResolvedToLinked

PasswordsOfAccounts == \A e \in password : account[e] # "none"

(* An attempt that is stored has been issued and nobody has got it.        *)
StoredIsUntaken ==
  \A st \in 1..MaxState :
    /\ attempt[st] # NoAttempt =>
         attempt[st].flow \in {"login", "link"} /\ taken[st] = 0 /\ st <= issued
    /\ st > issued => taken[st] = 0

AccountsInv ==
  /\ AccountsTypeOK
  /\ CallbacksKnow
  /\ PasswordsOfAccounts
  /\ StoredIsUntaken
  /\ AccountsHold
  /\ SessionOfTheLinked

-------------------------------------------------------------------------------
(* One step per request: each lemma has a conjunct for every part of the    *)
(* invariant that the request can disturb, and one for those whose          *)
(* variables it leaves alone.                                               *)

USE AccountsAssumption DEF AccountsAssumption, Users, Identity, NoSession, NoAttempt, Idle

LEMMA RegisterKeeps ==
    ASSUME AccountsInv, NEW b \in Browser, NEW e \in Email, Register(b, e)
    PROVE  AccountsInv'
<1>1. AccountsTypeOK'
  BY DEF AccountsInv, AccountsTypeOK, Register, FreeEmail
<1>2. LinksItsStarter'
  BY DEF AccountsInv, CallbacksKnow, AccountsTypeOK, LinksItsStarter, Register,
         FreeEmail
<1>3. PasswordsOfAccounts'
  BY DEF AccountsInv, AccountsTypeOK, PasswordsOfAccounts, Register, FreeEmail
<1>4. NoHalfAccount'
  BY DEF AccountsInv, AccountsHold, AccountsTypeOK, NoHalfAccount, Register,
         FreeEmail, SubjectOf
<1>5. NoTakeover'
  BY DEF AccountsInv, AccountsHold, AccountsTypeOK, NoTakeover, Register, FreeEmail
<1>6. SessionOfTheLinked'
  BY DEF AccountsInv, AccountsTypeOK, SessionOfTheLinked, Register, FreeEmail,
         LinkedTo
<1>7. Reported' /\ ResolvedToLinked' /\ StoredIsUntaken' /\ AttemptOnce'
  BY DEF AccountsInv, CallbacksKnow, AccountsHold, Reported, ResolvedToLinked,
         StoredIsUntaken, AttemptOnce, Register, LinkedTo
<1> QED
  BY <1>1, <1>2, <1>3, <1>4, <1>5, <1>6, <1>7
  DEF AccountsInv, CallbacksKnow, AccountsHold

LEMMA LoginKeeps ==
    ASSUME AccountsInv, NEW b \in Browser, NEW e \in Email, Login(b, e)
    PROVE  AccountsInv'
<1>1. AccountsTypeOK'
  BY DEF AccountsInv, AccountsTypeOK, Login
<1>2. SessionOfTheLinked'
  BY DEF AccountsInv, AccountsTypeOK, SessionOfTheLinked, Login, LinkedTo
<1>3. Reported' /\ LinksItsStarter' /\ ResolvedToLinked' /\
     PasswordsOfAccounts' /\ StoredIsUntaken' /\ NoHalfAccount' /\
     NoTakeover' /\ AttemptOnce'
  BY DEF AccountsInv, CallbacksKnow, AccountsHold, Reported, LinksItsStarter,
         ResolvedToLinked, PasswordsOfAccounts, StoredIsUntaken,
         NoHalfAccount, NoTakeover, AttemptOnce, Login, LinkedTo, SubjectOf
<1> QED BY <1>1, <1>2, <1>3 DEF AccountsInv, CallbacksKnow, AccountsHold

LEMMA LogoutKeeps ==
    ASSUME AccountsInv, NEW b \in Browser, Logout(b)
    PROVE  AccountsInv'
<1>1. AccountsTypeOK'
  BY DEF AccountsInv, AccountsTypeOK, Logout
<1>2. SessionOfTheLinked'
  BY DEF AccountsInv, AccountsTypeOK, SessionOfTheLinked, Logout, LinkedTo
<1>3. Reported' /\ LinksItsStarter' /\ ResolvedToLinked' /\
     PasswordsOfAccounts' /\ StoredIsUntaken' /\ NoHalfAccount' /\
     NoTakeover' /\ AttemptOnce'
  BY DEF AccountsInv, CallbacksKnow, AccountsHold, Reported, LinksItsStarter,
         ResolvedToLinked, PasswordsOfAccounts, StoredIsUntaken,
         NoHalfAccount, NoTakeover, AttemptOnce, Logout, LinkedTo, SubjectOf
<1> QED BY <1>1, <1>2, <1>3 DEF AccountsInv, CallbacksKnow, AccountsHold

LEMMA SetUserActiveKeeps ==
    ASSUME AccountsInv, NEW e \in Email, NEW active \in BOOLEAN, SetUserActive(e, active)
    PROVE  AccountsInv'
<1>1. AccountsTypeOK'
  BY DEF AccountsInv, AccountsTypeOK, SetUserActive
<1>2. Reported'
  BY DEF AccountsInv, CallbacksKnow, AccountsTypeOK, Reported, SetUserActive
<1>3. LinksItsStarter'
  BY DEF AccountsInv, CallbacksKnow, AccountsTypeOK, LinksItsStarter, SetUserActive
<1>4. ResolvedToLinked'
  BY DEF AccountsInv, CallbacksKnow, AccountsTypeOK, ResolvedToLinked, SetUserActive,
         LinkedTo
<1>5. PasswordsOfAccounts'
  BY DEF AccountsInv, AccountsTypeOK, PasswordsOfAccounts, SetUserActive
<1>6. NoHalfAccount'
  BY DEF AccountsInv, AccountsHold, AccountsTypeOK, NoHalfAccount, SetUserActive,
         SubjectOf
<1>7. NoTakeover'
  BY DEF AccountsInv, AccountsHold, AccountsTypeOK, NoTakeover, SetUserActive
<1>8. SessionOfTheLinked'
  BY DEF AccountsInv, AccountsTypeOK, SessionOfTheLinked, SetUserActive, LinkedTo
<1>9. StoredIsUntaken' /\ AttemptOnce'
  BY DEF AccountsInv, AccountsHold, StoredIsUntaken, AttemptOnce, SetUserActive
<1> QED
  BY <1>1, <1>2, <1>3, <1>4, <1>5, <1>6, <1>7, <1>8, <1>9
  DEF AccountsInv, CallbacksKnow, AccountsHold

LEMMA GoogleStartKeeps ==
    ASSUME AccountsInv, NEW b \in Browser, NEW flow \in {"login", "link"}, GoogleStart(b, flow)
    PROVE  AccountsInv'
<1>1. AccountsTypeOK'
  BY DEF AccountsInv, AccountsTypeOK, GoogleStart, UserOf
<1>2. StoredIsUntaken'
  BY DEF AccountsInv, AccountsTypeOK, StoredIsUntaken, GoogleStart
<1>3. Reported' /\ LinksItsStarter' /\ ResolvedToLinked' /\
     PasswordsOfAccounts' /\ NoHalfAccount' /\ NoTakeover' /\
     AttemptOnce' /\ SessionOfTheLinked'
  BY DEF AccountsInv, CallbacksKnow, AccountsHold, Reported, LinksItsStarter,
         ResolvedToLinked, PasswordsOfAccounts, NoHalfAccount, NoTakeover,
         AttemptOnce, SessionOfTheLinked, GoogleStart, LinkedTo, SubjectOf
<1> QED BY <1>1, <1>2, <1>3 DEF AccountsInv, CallbacksKnow, AccountsHold

LEMMA AttemptExpiresKeeps ==
    ASSUME AccountsInv, NEW st \in 1..MaxState, AttemptExpires(st)
    PROVE  AccountsInv'
<1>1. AccountsTypeOK'
  BY DEF AccountsInv, AccountsTypeOK, AttemptExpires
<1>2. StoredIsUntaken'
  BY DEF AccountsInv, AccountsTypeOK, StoredIsUntaken, AttemptExpires
<1>3. Reported' /\ LinksItsStarter' /\ ResolvedToLinked' /\
     PasswordsOfAccounts' /\ NoHalfAccount' /\ NoTakeover' /\
     AttemptOnce' /\ SessionOfTheLinked'
  BY DEF AccountsInv, CallbacksKnow, AccountsHold, Reported, LinksItsStarter,
         ResolvedToLinked, PasswordsOfAccounts, NoHalfAccount, NoTakeover,
         AttemptOnce, SessionOfTheLinked, AttemptExpires, LinkedTo, SubjectOf
<1> QED BY <1>1, <1>2, <1>3 DEF AccountsInv, CallbacksKnow, AccountsHold

LEMMA ReturnKeeps ==
    ASSUME AccountsInv, NEW c \in Callback, NEW b \in Browser, NEW s \in Subject, NEW e \in Email,
           Return(c, b, s, e)
    PROVE  AccountsInv'
<1>1. AccountsTypeOK'
  BY DEF AccountsInv, AccountsTypeOK, StoredIsUntaken, Return, Consumed, UserOf
<1>2. Reported'
  BY DEF AccountsInv, CallbacksKnow, AccountsTypeOK, Reported, Return
<1>3. LinksItsStarter'
  BY DEF AccountsInv, CallbacksKnow, AccountsTypeOK, LinksItsStarter,
         StoredIsUntaken, Return, MayGoOn, UserOf
<1>4. ResolvedToLinked'
  BY DEF AccountsInv, CallbacksKnow, AccountsTypeOK, ResolvedToLinked,
         StoredIsUntaken, Return, LinkedTo
<1>5. StoredIsUntaken'
  BY DEF AccountsInv, AccountsTypeOK, StoredIsUntaken, Return, Consumed
<1>6. AttemptOnce'
  BY DEF AccountsInv, AccountsHold, AccountsTypeOK, StoredIsUntaken, AttemptOnce,
         Return
<1>7. PasswordsOfAccounts' /\ NoHalfAccount' /\ NoTakeover' /\
     SessionOfTheLinked'
  BY DEF AccountsInv, AccountsHold, PasswordsOfAccounts, NoHalfAccount, NoTakeover,
         SessionOfTheLinked, Return, LinkedTo, SubjectOf
<1> QED
  BY <1>1, <1>2, <1>3, <1>4, <1>5, <1>6, <1>7
  DEF AccountsInv, CallbacksKnow, AccountsHold

LEMMA RefuseKeeps ==
    ASSUME AccountsInv, NEW b \in Browser, Refuse(b)
    PROVE  AccountsInv'
<1>1. AccountsTypeOK'
  BY DEF AccountsInv, AccountsTypeOK, Refuse, Consumed
<1>2. StoredIsUntaken'
  BY DEF AccountsInv, AccountsTypeOK, StoredIsUntaken, Refuse, Consumed
<1>3. AttemptOnce'
  BY DEF AccountsInv, AccountsHold, AccountsTypeOK, StoredIsUntaken, AttemptOnce,
         Refuse
<1>4. Reported' /\ LinksItsStarter' /\ ResolvedToLinked' /\
     PasswordsOfAccounts' /\ NoHalfAccount' /\ NoTakeover' /\
     SessionOfTheLinked'
  BY DEF AccountsInv, CallbacksKnow, AccountsHold, Reported, LinksItsStarter,
         ResolvedToLinked, PasswordsOfAccounts, NoHalfAccount, NoTakeover,
         SessionOfTheLinked, Refuse, LinkedTo, SubjectOf
<1> QED BY <1>1, <1>2, <1>3, <1>4 DEF AccountsInv, CallbacksKnow, AccountsHold

LEMMA FailKeeps ==
    ASSUME AccountsInv, NEW c \in Callback, Fail(c)
    PROVE  AccountsInv'
<1>1. AccountsTypeOK'
  BY DEF AccountsInv, CallbacksKnow, AccountsTypeOK, Reported, Fail
<1>2. Reported'
  BY DEF AccountsInv, CallbacksKnow, AccountsTypeOK, Reported, Fail
<1>3. LinksItsStarter'
  BY DEF AccountsInv, CallbacksKnow, AccountsTypeOK, LinksItsStarter, Fail
<1>4. ResolvedToLinked'
  BY DEF AccountsInv, CallbacksKnow, AccountsTypeOK, ResolvedToLinked, Fail, LinkedTo
<1>5. PasswordsOfAccounts' /\ StoredIsUntaken' /\ NoHalfAccount' /\
     NoTakeover' /\ AttemptOnce' /\ SessionOfTheLinked'
  BY DEF AccountsInv, AccountsHold, PasswordsOfAccounts, StoredIsUntaken,
         NoHalfAccount, NoTakeover, AttemptOnce, SessionOfTheLinked, Fail,
         LinkedTo, SubjectOf
<1> QED BY <1>1, <1>2, <1>3, <1>4, <1>5 DEF AccountsInv, CallbacksKnow, AccountsHold

LEMMA LoginReadKeeps ==
    ASSUME AccountsInv, NEW c \in Callback, LoginRead(c)
    PROVE  AccountsInv'
<1> USE DEF AccountsInv, CallbacksKnow, LoginRead, LinkedAccount
<1>a. /\ \A d \in Callback : d # c => callback'[d] = callback[d]
      /\ \/ \E u \in LinkedTo(callback[c].subject) :
              callback'[c] = [callback[c] EXCEPT !.step = "resolved", !.user = u]
         \/ callback'[c] = [callback[c] EXCEPT !.step = "create"]
  BY DEF AccountsTypeOK
<1>b. LinkedTo(callback[c].subject) \subseteq Email
  BY DEF AccountsTypeOK, LinkedTo
<1>c. /\ callback[c].step = "login" /\ callback'[c].step \in {"create", "resolved"}
      /\ callback'[c].browser = callback[c].browser
      /\ callback'[c].subject = callback[c].subject
      /\ callback'[c].email = callback[c].email
      /\ callback'[c].step = "resolved" => callback'[c].user \in LinkedTo(callback[c].subject)
  <2>1. CASE \E u \in LinkedTo(callback[c].subject) :
              callback'[c] = [callback[c] EXCEPT !.step = "resolved", !.user = u]
    <3>1. PICK u \in LinkedTo(callback[c].subject) :
            callback'[c] = [callback[c] EXCEPT !.step = "resolved", !.user = u]
      BY <2>1
    <3> QED BY <3>1 DEF AccountsTypeOK
  <2>2. CASE callback'[c] = [callback[c] EXCEPT !.step = "create"]
    BY <2>2 DEF AccountsTypeOK
  <2> QED BY <1>a, <2>1, <2>2
<1>1. AccountsTypeOK'
  <2> DEFINE Row ==
        [step : {"idle", "login", "link", "create", "linking", "resolved"},
         browser : Browser \cup {Nobody}, starter : Users, user : Users,
         subject : Subject \cup {NoSubject}, email : Users, pass : 0..2]
  <2>0. callback[c] \in Row
    BY DEF AccountsTypeOK
  <2>1. callback'[c] \in Row
    <3>1. ASSUME NEW u \in LinkedTo(callback[c].subject)
          PROVE  [callback[c] EXCEPT !.step = "resolved", !.user = u] \in Row
      <4>1. u \in Users
        BY <1>b DEF Users
      <4> QED BY <2>0, <4>1
    <3>2. [callback[c] EXCEPT !.step = "create"] \in Row
      BY <2>0
    <3> QED BY <1>a, <3>1, <3>2
  <2> QED BY <2>1 DEF AccountsTypeOK
<1>2. Reported'
  BY <1>a, <1>c DEF Reported
<1>3. LinksItsStarter'
  BY <1>a, <1>c DEF LinksItsStarter
<1>4. ResolvedToLinked'
  <2>1. identities' = identities
    OBVIOUS
  <2>2. \A x : LinkedTo(x)' = LinkedTo(x)
    BY <2>1 DEF LinkedTo
  <2>3. \A d \in Callback :
          callback'[d].step = "resolved" => callback'[d].user \in LinkedTo(callback'[d].subject)
    BY <1>a, <1>c DEF ResolvedToLinked
  <2> QED BY <2>2, <2>3 DEF ResolvedToLinked
<1>5. PasswordsOfAccounts' /\ StoredIsUntaken' /\ NoHalfAccount' /\
     NoTakeover' /\ AttemptOnce' /\ SessionOfTheLinked'
  BY DEF AccountsInv, AccountsHold, PasswordsOfAccounts, StoredIsUntaken,
         NoHalfAccount, NoTakeover, AttemptOnce, SessionOfTheLinked,
         LoginRead, LinkedTo, SubjectOf
<1> QED BY <1>1, <1>2, <1>3, <1>4, <1>5 DEF AccountsInv, CallbacksKnow, AccountsHold

LEMMA LoginCreateKeeps ==
    ASSUME AccountsInv, NEW c \in Callback, LoginCreate(c)
    PROVE  AccountsInv'
<1> DEFINE r == callback[c]
           new == [subject |-> r.subject, user |-> r.email, starter |-> Nobody]
<1>a. /\ r.step = "create" /\ account[r.email] = "none"
      /\ LinkedTo(r.subject) = {} /\ SubjectOf(r.email) = {}
      /\ identities' = identities \cup {new}
      /\ account' = [account EXCEPT ![r.email] = "active"]
      /\ callback' = [callback EXCEPT ![c] = [r EXCEPT !.step = "resolved", !.user = r.email]]
  BY DEF LoginCreate, FreeEmail, FreeIdentity, NewIdentity, AccountsInv, AccountsTypeOK
<1>b. r.subject \in Subject /\ r.email \in Email
  BY <1>a DEF AccountsInv, CallbacksKnow, Reported
<1>c. new \in Identity /\ \A i \in identities : i.subject # r.subject /\ i.user # r.email
  BY <1>a, <1>b DEF LinkedTo, SubjectOf
<1>1. AccountsTypeOK'
  <2>1. identities' \subseteq Identity
    BY <1>a, <1>c DEF AccountsInv, AccountsTypeOK
  <2>2. \A i, j \in identities' : i.subject = j.subject \/ i.user = j.user => i = j
    BY <1>a, <1>c DEF AccountsInv, AccountsTypeOK
  <2>3. callback' \in [Callback ->
          [step : {"idle", "login", "link", "create", "linking", "resolved"},
           browser : Browser \cup {Nobody}, starter : Users, user : Users,
           subject : Subject \cup {NoSubject}, email : Users, pass : 0..2]]
    <3>1. [r EXCEPT !.step = "resolved", !.user = r.email] \in
          [step : {"idle", "login", "link", "create", "linking", "resolved"},
           browser : Browser \cup {Nobody}, starter : Users, user : Users,
           subject : Subject \cup {NoSubject}, email : Users, pass : 0..2]
      <4>1. r \in [step : {"idle", "login", "link", "create", "linking", "resolved"},
                   browser : Browser \cup {Nobody}, starter : Users, user : Users,
                   subject : Subject \cup {NoSubject}, email : Users, pass : 0..2]
        BY DEF AccountsInv, AccountsTypeOK
      <4> HIDE DEF r
      <4> QED BY <4>1
    <3> QED BY <1>a, <3>1 DEF AccountsInv, AccountsTypeOK
  <2>4. account' \in [Email -> {"none", "active", "disabled"}]
    BY <1>a, <1>b DEF AccountsInv, AccountsTypeOK
  <2> QED BY <2>1, <2>2, <2>3, <2>4 DEF AccountsInv, AccountsTypeOK, LoginCreate
<1>2. Reported'
  BY DEF AccountsInv, CallbacksKnow, AccountsTypeOK, Reported, LoginCreate, FreeEmail
<1>3. LinksItsStarter'
  BY DEF AccountsInv, CallbacksKnow, AccountsTypeOK, LinksItsStarter, LoginCreate,
         FreeEmail
<1>4. ResolvedToLinked'
  <2> SUFFICES ASSUME NEW d \in Callback, callback'[d].step = "resolved"
               PROVE  \E i \in identities' : /\ i.subject = callback'[d].subject
                                             /\ i.user = callback'[d].user
    BY DEF ResolvedToLinked, LinkedTo
  <2>1. CASE d = c
    <3>1. callback'[c] = [r EXCEPT !.step = "resolved", !.user = r.email]
      BY <1>a DEF AccountsInv, AccountsTypeOK
    <3>2. callback'[c].subject = new.subject /\ callback'[c].user = new.user
      BY <3>1 DEF AccountsInv, AccountsTypeOK
    <3> QED BY <2>1, <1>a, <3>2
  <2>2. CASE d # c
    <3>1. callback'[d] = callback[d]
      BY <2>2, <1>a DEF AccountsInv, AccountsTypeOK
    <3> QED BY <1>a, <3>1 DEF AccountsInv, CallbacksKnow, ResolvedToLinked, LinkedTo
  <2> QED BY <2>1, <2>2
<1>5. PasswordsOfAccounts'
  BY DEF AccountsInv, AccountsTypeOK, PasswordsOfAccounts, LoginCreate, FreeEmail
<1>6. NoHalfAccount'
  <2> SUFFICES ASSUME NEW e \in Email, account'[e] # "none"
               PROVE  e \in password' \/ \E i \in identities' : i.user = e
    BY DEF NoHalfAccount, SubjectOf
  <2>1. CASE e = r.email
    <3>1. new \in identities' /\ new.user = r.email
      BY <1>a
    <3> QED BY <2>1, <3>1
  <2>2. CASE e # r.email
    <3>1. account[e] # "none"
      BY <1>a, <1>b, <2>2 DEF AccountsInv, AccountsTypeOK
    <3>2. e \in password \/ \E i \in identities : i.user = e
      BY <3>1 DEF AccountsInv, AccountsHold, NoHalfAccount, SubjectOf
    <3> QED BY <1>a, <3>2 DEF LoginCreate
  <2> QED BY <2>1, <2>2
<1>7. NoTakeover'
  BY DEF AccountsInv, CallbacksKnow, AccountsHold, AccountsTypeOK, Reported,
         PasswordsOfAccounts, NoTakeover, LoginCreate, FreeEmail, NewIdentity
<1>8. SessionOfTheLinked'
  BY DEF AccountsInv, AccountsTypeOK, SessionOfTheLinked, LoginCreate, FreeEmail,
         LinkedTo
<1>9. StoredIsUntaken' /\ AttemptOnce'
  BY DEF AccountsInv, AccountsHold, StoredIsUntaken, AttemptOnce, LoginCreate
<1> QED
  BY <1>1, <1>2, <1>3, <1>4, <1>5, <1>6, <1>7, <1>8, <1>9
  DEF AccountsInv, CallbacksKnow, AccountsHold

LEMMA LoginConflictKeeps ==
    ASSUME AccountsInv, NEW c \in Callback, LoginConflict(c)
    PROVE  AccountsInv'
<1>1. AccountsTypeOK'
  BY DEF AccountsInv, CallbacksKnow, AccountsTypeOK, Reported, LoginConflict
<1>2. Reported'
  BY DEF AccountsInv, CallbacksKnow, AccountsTypeOK, Reported, LoginConflict
<1>3. LinksItsStarter'
  BY DEF AccountsInv, CallbacksKnow, AccountsTypeOK, LinksItsStarter, LoginConflict
<1>4. ResolvedToLinked'
  BY DEF AccountsInv, CallbacksKnow, AccountsTypeOK, ResolvedToLinked, LoginConflict,
         LinkedTo
<1>5. PasswordsOfAccounts' /\ StoredIsUntaken' /\ NoHalfAccount' /\
     NoTakeover' /\ AttemptOnce' /\ SessionOfTheLinked'
  BY DEF AccountsInv, AccountsHold, PasswordsOfAccounts, StoredIsUntaken,
         NoHalfAccount, NoTakeover, AttemptOnce, SessionOfTheLinked,
         LoginConflict, LinkedTo, SubjectOf
<1> QED BY <1>1, <1>2, <1>3, <1>4, <1>5 DEF AccountsInv, CallbacksKnow, AccountsHold

LEMMA DeliverKeeps ==
    ASSUME AccountsInv, NEW c \in Callback, Deliver(c)
    PROVE  AccountsInv'
<1>1. AccountsTypeOK'
  BY DEF AccountsInv, CallbacksKnow, AccountsTypeOK, Reported, Deliver
<1>2. Reported'
  BY DEF AccountsInv, CallbacksKnow, AccountsTypeOK, Reported, Deliver
<1>3. LinksItsStarter'
  BY DEF AccountsInv, CallbacksKnow, AccountsTypeOK, LinksItsStarter, Deliver
<1>4. ResolvedToLinked'
  BY DEF AccountsInv, CallbacksKnow, AccountsTypeOK, ResolvedToLinked, Deliver,
         LinkedTo
<1>5. SessionOfTheLinked'
  BY DEF AccountsInv, CallbacksKnow, AccountsTypeOK, Reported, ResolvedToLinked,
         SessionOfTheLinked, Deliver, LinkedTo
<1>6. PasswordsOfAccounts' /\ StoredIsUntaken' /\ NoHalfAccount' /\
     NoTakeover' /\ AttemptOnce'
  BY DEF AccountsInv, AccountsHold, PasswordsOfAccounts, StoredIsUntaken,
         NoHalfAccount, NoTakeover, AttemptOnce, Deliver, SubjectOf
<1> QED
  BY <1>1, <1>2, <1>3, <1>4, <1>5, <1>6
  DEF AccountsInv, CallbacksKnow, AccountsHold

LEMMA LinkReadKeeps ==
    ASSUME AccountsInv, NEW c \in Callback, LinkRead(c)
    PROVE  AccountsInv'
<1>1. AccountsTypeOK'
  <2> DEFINE Row ==
        [step : {"idle", "login", "link", "create", "linking", "resolved"},
         browser : Browser \cup {Nobody}, starter : Users, user : Users,
         subject : Subject \cup {NoSubject}, email : Users, pass : 0..2]
  <2>1. callback \in [Callback -> Row]
    BY DEF AccountsInv, AccountsTypeOK
  <2>2. [callback[c] EXCEPT !.step = "linking"] \in Row
    BY <2>1
  <2>3. callback' \in [Callback -> Row]
    BY <2>1, <2>2 DEF LinkRead
  <2> QED BY <2>3 DEF AccountsInv, AccountsTypeOK, LinkRead
<1>2. Reported'
  BY DEF AccountsInv, CallbacksKnow, AccountsTypeOK, Reported, LinkRead
<1>3. LinksItsStarter'
  BY DEF AccountsInv, CallbacksKnow, AccountsTypeOK, LinksItsStarter, LinkRead
<1>4. ResolvedToLinked'
  BY DEF AccountsInv, CallbacksKnow, AccountsTypeOK, ResolvedToLinked, LinkRead,
         LinkedTo
<1>5. PasswordsOfAccounts' /\ StoredIsUntaken' /\ NoHalfAccount' /\
     NoTakeover' /\ AttemptOnce' /\ SessionOfTheLinked'
  BY DEF AccountsInv, AccountsHold, PasswordsOfAccounts, StoredIsUntaken,
         NoHalfAccount, NoTakeover, AttemptOnce, SessionOfTheLinked, LinkRead,
         LinkedTo, SubjectOf
<1> QED BY <1>1, <1>2, <1>3, <1>4, <1>5 DEF AccountsInv, CallbacksKnow, AccountsHold

LEMMA LinkWriteKeeps ==
    ASSUME AccountsInv, NEW c \in Callback, LinkWrite(c)
    PROVE  AccountsInv'
<1> DEFINE r == callback[c]
           new == [subject |-> r.subject, user |-> r.user, starter |-> r.starter]
<1>a. /\ r.step = "linking"
      /\ LinkedTo(r.subject) = {} /\ SubjectOf(r.user) = {}
      /\ identities' = identities \cup {new}
  BY DEF LinkWrite, FreeIdentity
<1>b. /\ r.subject \in Subject /\ r.user \in Email /\ r.browser \in Browser
      /\ r.starter = r.user /\ account[r.user] # "none"
  BY <1>a DEF AccountsInv, CallbacksKnow, Reported, LinksItsStarter
<1>c. new \in Identity /\ \A i \in identities : i.subject # r.subject /\ i.user # r.user
  BY <1>a, <1>b DEF LinkedTo, SubjectOf
<1>1. AccountsTypeOK'
  <2>1. identities' \subseteq Identity
    BY <1>a, <1>c DEF AccountsInv, AccountsTypeOK
  <2>2. \A i, j \in identities' : i.subject = j.subject \/ i.user = j.user => i = j
    BY <1>a, <1>c DEF AccountsInv, AccountsTypeOK
  <2> QED BY <1>b, <2>1, <2>2 DEF AccountsInv, AccountsTypeOK, LinkWrite
<1>2. Reported'
  BY DEF AccountsInv, CallbacksKnow, AccountsTypeOK, Reported, LinkWrite
<1>3. LinksItsStarter'
  BY DEF AccountsInv, CallbacksKnow, AccountsTypeOK, LinksItsStarter, LinkWrite
<1>4. ResolvedToLinked'
  BY DEF AccountsInv, CallbacksKnow, AccountsTypeOK, ResolvedToLinked, LinkWrite,
         LinkedTo
<1>5. NoHalfAccount'
  BY DEF AccountsInv, AccountsHold, AccountsTypeOK, NoHalfAccount, LinkWrite,
         SubjectOf
<1>6. NoTakeover'
  <2>1. r.user \in password
    \* An account that has no identity has a password.
    BY <1>a, <1>b DEF AccountsInv, AccountsHold, NoHalfAccount
  <2> QED BY <1>a, <1>b, <2>1 DEF AccountsInv, AccountsHold, NoTakeover, LinkWrite
<1>7. SessionOfTheLinked'
  BY DEF AccountsInv, AccountsTypeOK, SessionOfTheLinked, LinkWrite, LinkedTo
<1>8. PasswordsOfAccounts' /\ StoredIsUntaken' /\ AttemptOnce'
  BY DEF AccountsInv, AccountsHold, PasswordsOfAccounts, StoredIsUntaken,
         AttemptOnce, LinkWrite
<1> QED
  BY <1>1, <1>2, <1>3, <1>4, <1>5, <1>6, <1>7, <1>8
  DEF AccountsInv, CallbacksKnow, AccountsHold

-------------------------------------------------------------------------------
LEMMA AccountsStart == AccountsInit => AccountsInv
BY DEF AccountsInit, AccountsInv, AccountsTypeOK, CallbacksKnow, Reported,
       LinksItsStarter, ResolvedToLinked, PasswordsOfAccounts, StoredIsUntaken,
       AccountsHold, NoHalfAccount, NoTakeover, AttemptOnce, SessionOfTheLinked

LEMMA AccountsStutter ==
    ASSUME AccountsInv, UNCHANGED accountsVars
    PROVE  AccountsInv'
BY DEF accountsVars, AccountsInv, AccountsTypeOK, CallbacksKnow, Reported,
       LinksItsStarter, ResolvedToLinked, PasswordsOfAccounts, StoredIsUntaken,
       AccountsHold, NoHalfAccount, NoTakeover, AttemptOnce, SessionOfTheLinked,
       LinkedTo, SubjectOf

LEMMA AccountsStep ==
    ASSUME AccountsInv, [AccountsNext]_accountsVars
    PROVE  AccountsInv'
<1>1. CASE \E b \in Browser, e \in Email : Register(b, e) \/ Login(b, e)
  BY <1>1, RegisterKeeps, LoginKeeps
<1>2. CASE \E b \in Browser : Logout(b) \/ Refuse(b)
  BY <1>2, LogoutKeeps, RefuseKeeps
<1>3. CASE \E e \in Email, active \in BOOLEAN : SetUserActive(e, active)
  BY <1>3, SetUserActiveKeeps
<1>4. CASE \E b \in Browser, flow \in {"login", "link"} : GoogleStart(b, flow)
  BY <1>4, GoogleStartKeeps
<1>5. CASE \E st \in 1..MaxState : AttemptExpires(st)
  BY <1>5, AttemptExpiresKeeps
<1>6. CASE \E c \in Callback, b \in Browser, s \in Subject, e \in Email : Return(c, b, s, e)
  BY <1>6, ReturnKeeps
<1>7. CASE \E c \in Callback : Fail(c) \/ LoginRead(c) \/ LoginCreate(c) \/ LoginConflict(c)
  BY <1>7, FailKeeps, LoginReadKeeps, LoginCreateKeeps, LoginConflictKeeps
<1>8. CASE \E c \in Callback : Deliver(c) \/ LinkRead(c) \/ LinkWrite(c)
  BY <1>8, DeliverKeeps, LinkReadKeeps, LinkWriteKeeps
<1>9. CASE UNCHANGED accountsVars
  BY <1>9, AccountsStutter
<1> QED
  BY <1>1, <1>2, <1>3, <1>4, <1>5, <1>6, <1>7, <1>8, <1>9 DEF AccountsNext

LEMMA AccountsInductive == AccountsSpec => []AccountsInv
<1>1. AccountsInit => AccountsInv
  BY AccountsStart
<1>2. AccountsInv /\ [AccountsNext]_accountsVars => AccountsInv'
  BY AccountsStep
<1> QED BY <1>1, <1>2, PTL DEF AccountsSpec

-------------------------------------------------------------------------------
\* The tables, Redis and the requests keep their types, and the two unique
\* indexes their promise: one account of an identity, one identity of an account.
THEOREM AccountsTypes == AccountsSpec => []AccountsTypeOK
<1>1. AccountsInv => AccountsTypeOK
  BY DEF AccountsInv
<1> QED BY <1>1, AccountsInductive, PTL

\* However registrations, sign-ins, links and the disabling of accounts
\* overlap, every account can be entered, none with a password gets an identity
\* but from a session of its own, and an attempt serves one callback.
THEOREM NobodyTakenOver == AccountsSpec => []AccountsHold
<1>1. AccountsInv => AccountsHold
  BY DEF AccountsInv
<1> QED BY <1>1, AccountsInductive, PTL

\* A session opened with an identity is one of the account the identity is
\* linked to, from the read of the account to the delivery and ever after.
THEOREM SessionsOfTheLinked == AccountsSpec => []SessionOfTheLinked
<1>1. AccountsInv => SessionOfTheLinked
  BY DEF AccountsInv
<1> QED BY <1>1, AccountsInductive, PTL
-------------------------------------------------------------------------------
(* Members.                                                                *)

HIDE DEF Users, Identity, NoSession, NoAttempt, Idle
USE MembersAssumption DEF MembersAssumption, Role, InvitedRole

(* What the types of Members rest on: links are numbered in the order they  *)
(* are issued, and the unique index holds.                                  *)
MembersInv ==
  /\ MembersTypeOK
  /\ \A i \in Invitation : invitation[i].token <= links
  /\ Unique(invitation)

RowType ==
  [status : {"none", "pending", "accepted", "expired", "revoked"}, person : Person,
   role : InvitedRole, token : 0..MaxToken, late : BOOLEAN]

RequestType ==
  [op : {"free", "renew", "accept", "disable"}, row : SUBSET Invitation,
   stale : SUBSET Invitation, person : Person \cup {Anonymous},
   token : 0..MaxToken, needsLogin : BOOLEAN]

(* The rows of the invitations, and what the requests have read of them.    *)
RowsRight ==
  /\ invitation \in [Invitation -> RowType]
  /\ links \in 0..MaxToken
  /\ \A i \in Invitation : invitation[i].token <= links
  /\ \A i, j \in Invitation :
       invitation[i].token = invitation[j].token => i = j \/ invitation[i].token = 0
  /\ Unique(invitation)

PeopleRight ==
  /\ user \in [Person -> {"none", "active", "disabled"}]
  /\ role \in [Person -> Role \cup {"none"}]
  /\ enabled \subseteq {p \in Person : role[p] # "none"}

RequestsRight == request \in [Request -> RequestType]

\* Two pending rows of one address are the same row, so there is at most one.
LEMMA PendingOnce ==
    ASSUME invitation \in [Invitation -> RowType], Unique(invitation), NEW p \in Person
    PROVE  Cardinality(Pending(p)) <= 1
<1>1. \A i, j \in Pending(p) : i = j
  BY DEF Unique, Pending
<1>2. CASE Pending(p) = {}
  BY <1>2, FS_EmptySet
<1>3. CASE Pending(p) # {}
  <2>1. PICK i \in Pending(p) : TRUE
    BY <1>3
  <2>2. Pending(p) = {i}
    BY <1>1, <2>1
  <2>3. Cardinality({i}) = 1
    BY FS_Singleton
  <2> QED BY <2>2, <2>3
<1> QED BY <1>2, <1>3

LEMMA PartsAreTheInvariant == MembersInv <=> RowsRight /\ PeopleRight /\ RequestsRight
<1>1. MembersInv => RowsRight /\ PeopleRight /\ RequestsRight
  BY DEF MembersInv, MembersTypeOK, RowsRight, PeopleRight, RequestsRight, RowType,
         RequestType
<1>2. ASSUME RowsRight, PeopleRight, RequestsRight PROVE MembersInv
  <2>1. \A p \in Person : Cardinality(Pending(p)) <= 1
    BY <1>2, PendingOnce DEF RowsRight
  <2> QED
    BY <1>2, <2>1
    DEF MembersInv, MembersTypeOK, RowsRight, PeopleRight, RequestsRight, RowType,
        RequestType
<1> QED BY <1>1, <1>2

(* Giving a row a link of its own, after some expired ones are materialized. *)
LEMMA RenewalKeepsRows ==
    ASSUME RowsRight, NEW i \in Invitation, NEW p \in Person, NEW r \in InvitedRole,
           NEW rows \in SUBSET Invitation, links < MaxToken,
           invitation' = Renewed(Materialized(rows), i, p, r), Unique(invitation'),
           links' = links + 1
    PROVE  RowsRight'
<1>1. Materialized(rows) \in [Invitation -> RowType]
  BY DEF RowsRight, Materialized, RowType
<1>2. \A j \in Invitation : Materialized(rows)[j].token = invitation[j].token
  BY DEF RowsRight, Materialized, RowType
<1>3. links \in Nat /\ links + 1 \in 0..MaxToken
  BY DEF RowsRight
<1>4. invitation' \in [Invitation -> RowType]
  BY <1>1, <1>3 DEF Renewed, RowType
<1>5. /\ invitation'[i].token = links + 1
      /\ \A j \in Invitation \ {i} : invitation'[j].token = invitation[j].token
  BY <1>1, <1>2 DEF Renewed
<1>6. \A j \in Invitation : invitation[j].token \in Nat /\ invitation[j].token <= links
  BY DEF RowsRight, RowType
<1> QED BY <1>3, <1>4, <1>5, <1>6 DEF RowsRight

(* A row that changes its status or its clock, and is not made pending.     *)
LEMMA ChangeKeepsRows ==
    ASSUME RowsRight, NEW i \in Invitation, NEW s, NEW late \in BOOLEAN,
           s \in {"pending", "accepted", "expired", "revoked"},
           s = "pending" => invitation[i].status = "pending",
           invitation' = [invitation EXCEPT ![i] = [@ EXCEPT !.status = s, !.late = late]],
           UNCHANGED links
    PROVE  RowsRight'
<1>1. [invitation[i] EXCEPT !.status = s, !.late = late] \in RowType
  BY DEF RowsRight, RowType
<1>2. invitation' \in [Invitation -> RowType]
  BY <1>1 DEF RowsRight
<1>3. /\ \A j \in Invitation : /\ invitation'[j].token = invitation[j].token
                               /\ invitation'[j].person = invitation[j].person
      /\ \A j \in Invitation :
           invitation'[j].status = "pending" => invitation[j].status = "pending"
  BY DEF RowsRight, RowType
<1>4. Unique(invitation')
  BY <1>3 DEF RowsRight, Unique
<1> QED BY <1>2, <1>3, <1>4 DEF RowsRight

LEMMA FreeType == Free \in RequestType
<1>1. 0 \in 0..MaxToken
  OBVIOUS
<1> QED BY <1>1 DEF Free, RequestType

(* A request begins with what it has read, or ends.                         *)
LEMMA RequestBeginsOrEnds ==
    ASSUME RequestsRight, NEW q \in Request,
           \/ End(q)
           \/ \E r \in RequestType : Begin(q, r)
    PROVE  RequestsRight'
BY FreeType DEF RequestsRight, End, Begin

LEMMA RowsStay == RowsRight /\ UNCHANGED <<invitation, links>> => RowsRight'
BY DEF RowsRight, Unique

LEMMA PeopleStay == PeopleRight /\ UNCHANGED <<user, role, enabled>> => PeopleRight'
BY DEF PeopleRight

LEMMA RequestsStay == RequestsRight /\ UNCHANGED request => RequestsRight'
BY DEF RequestsRight

LEMMA MembersStart == MembersInit => MembersInv
<1> SUFFICES ASSUME MembersInit PROVE RowsRight /\ PeopleRight /\ RequestsRight
  BY PartsAreTheInvariant
<1>1. RowsRight
  BY DEF MembersInit, RowsRight, RowType, NoRow, Unique
<1>2. PeopleRight
  BY DEF MembersInit, PeopleRight
<1>3. RequestsRight
  BY DEF MembersInit, RequestsRight, RequestType, Free
<1> QED BY <1>1, <1>2, <1>3

LEMMA MembersStep ==
    ASSUME MembersInv, [MembersNext]_membersVars
    PROVE  MembersInv'
<1> USE DEF RowsRight, PeopleRight, RequestsRight
<1>0. RowsRight /\ PeopleRight /\ RequestsRight
  BY PartsAreTheInvariant
<1> HIDE DEF RowsRight, PeopleRight, RequestsRight
<1> SUFFICES RowsRight' /\ PeopleRight' /\ RequestsRight'
  BY PartsAreTheInvariant, PTL
<1>1. ASSUME NEW i \in Invitation, NEW p \in Person, NEW r \in InvitedRole,
             CreateInvitation(i, p, r)
      PROVE  RowsRight' /\ PeopleRight' /\ RequestsRight'
  <2>1. Stale(p) \in SUBSET Invitation
    BY DEF Stale, Pending
  <2>2. RowsRight'
    BY <1>0, <1>1, <2>1, RenewalKeepsRows DEF CreateInvitation
  <2> QED BY <1>0, <1>1, <2>2, PeopleStay, RequestsStay DEF CreateInvitation
<1>2. ASSUME NEW q \in Request, NEW i \in Invitation, ResendCheck(q, i) \/ ReopenCheck(q, i)
      PROVE  RowsRight' /\ PeopleRight' /\ RequestsRight'
  <2>1. Stale(invitation[i].person) \in SUBSET Invitation
    BY DEF Stale, Pending
  <2>2. [Free EXCEPT !.op = "renew", !.row = {i}, !.stale = Stale(invitation[i].person)]
          \in RequestType
    BY <2>1, FreeType DEF RequestType
  <2>3. RequestsRight'
    BY <1>0, <1>2, <2>2, RequestBeginsOrEnds DEF ResendCheck, ReopenCheck
  <2> QED BY <1>0, <1>2, <2>3, RowsStay, PeopleStay DEF ResendCheck, ReopenCheck
<1>3. ASSUME NEW q \in Request, RenewWrite(q)
      PROVE  RowsRight' /\ PeopleRight' /\ RequestsRight'
  <2>1. PICK i \in request[q].row :
          invitation' = Renewed(Materialized(request[q].stale), i,
                                invitation[i].person, invitation[i].role)
    BY <1>3 DEF RenewWrite
  <2>2. i \in Invitation /\ request[q].stale \in SUBSET Invitation
    BY <1>0, <2>1 DEF RequestsRight, RequestType
  <2>3. invitation[i].person \in Person /\ invitation[i].role \in InvitedRole
    BY <1>0, <2>2 DEF RowsRight, RowType
  <2>4. RowsRight'
    BY <1>0, <1>3, <2>1, <2>2, <2>3, RenewalKeepsRows DEF RenewWrite
  <2> QED BY <1>0, <1>3, <2>4, PeopleStay, RequestBeginsOrEnds DEF RenewWrite
<1>4. ASSUME NEW i \in Invitation, Revoke(i)
      PROVE  RowsRight' /\ PeopleRight' /\ RequestsRight'
  <2>1. RowsRight'
    <3>1. invitation' = [invitation EXCEPT
                           ![i] = [@ EXCEPT !.status = "revoked", !.late = FALSE]]
      BY <1>0, <1>4 DEF Revoke, RowsRight, RowType
    <3> QED BY <1>0, <1>4, <3>1, ChangeKeepsRows DEF Revoke
  <2> QED BY <1>0, <1>4, <2>1, PeopleStay, RequestsStay DEF Revoke
<1>5. ASSUME NEW i \in Invitation, ClockPasses(i)
      PROVE  RowsRight' /\ PeopleRight' /\ RequestsRight'
  <2>1. RowsRight'
    <3>1. invitation' = [invitation EXCEPT
                           ![i] = [@ EXCEPT !.status = "pending", !.late = TRUE]]
      BY <1>0, <1>5 DEF ClockPasses, RowsRight, RowType
    <3> QED BY <1>0, <1>5, <3>1, ChangeKeepsRows DEF ClockPasses
  <2> QED BY <1>0, <1>5, <2>1, PeopleStay, RequestsStay DEF ClockPasses
<1>6. ASSUME NEW q \in Request, NEW i \in Invitation, NEW a \in Person \cup {Anonymous},
             Preview(q, i, a)
      PROVE  RowsRight' /\ PeopleRight' /\ RequestsRight'
  <2> DEFINE needsLogin == user[invitation[i].person] = "active"
  <2>1. [Free EXCEPT !.op = "accept", !.person = a, !.needsLogin = needsLogin,
                     !.token = invitation[i].token] \in RequestType
    <3>1. invitation[i].token \in 0..MaxToken
      BY <1>0 DEF RowsRight, RowType
    <3>2. needsLogin \in BOOLEAN
      OBVIOUS
    <3> HIDE DEF needsLogin
    <3> QED BY <3>1, <3>2, FreeType DEF RequestType
  <2>2. RequestsRight'
    BY <1>0, <1>6, <2>1, RequestBeginsOrEnds DEF Preview
  <2> QED BY <1>0, <1>6, <2>2, RowsStay, PeopleStay DEF Preview
<1>7. ASSUME NEW q \in Request, NEW i \in Invitation, Accept(q, i)
      PROVE  RowsRight' /\ PeopleRight' /\ RequestsRight'
  <2>1. RowsRight'
    <3>1. invitation' = [invitation EXCEPT
                           ![i] = [@ EXCEPT !.status = "accepted", !.late = FALSE]]
      BY <1>0, <1>7 DEF Accept, StillGood, RowsRight, RowType
    <3> QED BY <1>0, <1>7, <3>1, ChangeKeepsRows DEF Accept
  <2>2. PeopleRight'
    <3>1. invitation[i].person \in Person /\ invitation[i].role \in InvitedRole
      BY <1>0 DEF RowsRight, RowType
    <3> QED BY <1>0, <1>7, <3>1 DEF Accept, PeopleRight
  <2> QED BY <1>0, <1>7, <2>1, <2>2, RequestBeginsOrEnds DEF Accept
<1>8. ASSUME NEW q \in Request, NEW p \in Person, DisableCheck(q, p)
      PROVE  RowsRight' /\ PeopleRight' /\ RequestsRight'
  <2>1. [Free EXCEPT !.op = "disable", !.person = p] \in RequestType
    BY FreeType DEF RequestType
  <2>2. RequestsRight'
    BY <1>0, <1>8, <2>1, RequestBeginsOrEnds DEF DisableCheck
  <2> QED BY <1>0, <1>8, <2>2, RowsStay, PeopleStay DEF DisableCheck
<1>9. ASSUME NEW q \in Request, DisableWrite(q) \/ Abandon(q)
      PROVE  RowsRight' /\ PeopleRight' /\ RequestsRight'
  <2>1. PeopleRight'
    BY <1>0, <1>9 DEF DisableWrite, Abandon, PeopleRight
  <2>2. RequestsRight'
    BY <1>0, <1>9, RequestBeginsOrEnds DEF DisableWrite, Abandon
  <2> QED BY <1>0, <1>9, <2>1, <2>2, RowsStay DEF DisableWrite, Abandon
<1>10. ASSUME NEW p \in Person, NEW r \in Role, NEW status \in {"active", "disabled"},
              \/ PlatformAdds(p, r)
              \/ r \in InvitedRole /\ ChangeRole(p, r)
              \/ Enable(p)
              \/ SetUser(p, status)
       PROVE  RowsRight' /\ PeopleRight' /\ RequestsRight'
  <2>1. PeopleRight'
    BY <1>0, <1>10 DEF PlatformAdds, ChangeRole, Enable, SetUser, PeopleRight
  <2> QED
    BY <1>0, <1>10, <2>1, RowsStay, RequestsStay
    DEF PlatformAdds, ChangeRole, Enable, SetUser
<1>11. CASE UNCHANGED membersVars
  BY <1>0, <1>11, RowsStay, PeopleStay, RequestsStay DEF membersVars
<1> QED
  BY <1>1, <1>2, <1>3, <1>4, <1>5, <1>6, <1>7, <1>8, <1>9, <1>10, <1>11 DEF MembersNext

LEMMA MembersInductive == MembersSpec => []MembersInv
<1>1. MembersInv /\ [MembersNext]_membersVars => MembersInv'
  BY MembersStep
<1> QED BY <1>1, MembersStart, PTL DEF MembersSpec

\* People, rows and requests keep their types; no two rows have one link and
\* no address two pending rows, whatever the requests saw before they wrote.
THEOREM MembersTypes == MembersSpec => []MembersTypeOK
<1>1. MembersInv => MembersTypeOK
  BY DEF MembersInv
<1> QED BY <1>1, MembersInductive, PTL

\* A link that does not work, of those issued so far, never works again.
THEOREM LinksStayDead == MembersSpec => LinksNeverRevive
<1>1. ASSUME MembersInv, [MembersNext]_membersVars
      PROVE  \A t \in 1..links : ~Alive(t) => ~Alive(t)'
  <2>0. RowsRight /\ RequestsRight
    BY <1>1, PartsAreTheInvariant
  <2>1. \A i \in Invitation :
          StillGood(i)' =>
            \/ StillGood(i) /\ invitation'[i].token = invitation[i].token
            \/ invitation'[i].token = links + 1
    <3> USE <2>0 DEF StillGood, RowsRight, RowType
    <3>1. ASSUME NEW i \in Invitation, NEW p, NEW r, NEW rows,
                 invitation' = Renewed(Materialized(rows), i, p, r)
          PROVE  \A j \in Invitation :
                   StillGood(j)' =>
                     \/ StillGood(j) /\ invitation'[j].token = invitation[j].token
                     \/ invitation'[j].token = links + 1
      BY <3>1 DEF Renewed, Materialized
    <3>2. CASE \E i \in Invitation, p \in Person, r \in InvitedRole : CreateInvitation(i, p, r)
      BY <3>1, <3>2 DEF CreateInvitation
    <3>3. CASE \E q \in Request : RenewWrite(q)
      BY <3>1, <3>3 DEF RenewWrite, RequestsRight, RequestType
    <3>4. CASE \E i \in Invitation : Revoke(i) \/ ClockPasses(i)
      BY <3>4 DEF Revoke, ClockPasses
    <3>5. CASE \E q \in Request, i \in Invitation : Accept(q, i)
      BY <3>5 DEF Accept
    <3>6. CASE UNCHANGED invitation
      BY <3>6
    <3> QED
      BY <1>1, <3>2, <3>3, <3>4, <3>5, <3>6
      DEF MembersNext, membersVars, ResendCheck, ReopenCheck, Preview, DisableCheck,
          DisableWrite, Abandon, PlatformAdds, ChangeRole, Enable, SetUser
  <2>2. \A t \in 1..links : t # links + 1
    BY <2>0 DEF RowsRight
  <2> QED BY <2>1, <2>2 DEF Alive
<1> QED BY <1>1, MembersInductive, PTL DEF MembersSpec, LinksNeverRevive

\* An invitation is accepted by its person while its link works, and gives the
\* role it names to somebody who was no member.
THEOREM AcceptancesAreRight == MembersSpec => AcceptedByItsPerson
<1> DEFINE Right(i) ==
      LET p == invitation[i].person IN
      invitation[i].status # "accepted" /\ invitation'[i].status = "accepted" =>
        /\ invitation[i].status = "pending" /\ ~invitation[i].late
        /\ role[p] = "none" /\ role'[p] = invitation[i].role
        /\ \/ user[p] = "none"
           \/ user[p] = "active" /\ \E q \in Request : request[q].person = p
        /\ user'[p] = "active"
<1>1. ASSUME MembersInv, [MembersNext]_membersVars
      PROVE  \A i \in Invitation : Right(i)
  <2>0. RowsRight /\ PeopleRight /\ RequestsRight
    BY <1>1, PartsAreTheInvariant
  <2>1. ASSUME NEW q \in Request, NEW i \in Invitation, Accept(q, i)
        PROVE  \A j \in Invitation : Right(j)
    <3>1. invitation[i].person \in Person
      BY <2>0 DEF RowsRight, RowType
    <3>2. \A j \in Invitation \ {i} : invitation'[j].status = invitation[j].status
      BY <2>0, <2>1 DEF Accept, RowsRight
    <3>3. Right(i)
      BY <2>0, <2>1, <3>1 DEF Accept, StillGood, MayEnter, PeopleRight
    <3> QED BY <3>2, <3>3
  <2>2. ASSUME \A i \in Invitation :
                 invitation'[i].status = "accepted" => invitation[i].status = "accepted"
        PROVE  \A i \in Invitation : Right(i)
    BY <2>2
  <2>3. CASE \E i \in Invitation, p \in Person, r \in InvitedRole : CreateInvitation(i, p, r)
    BY <2>0, <2>2, <2>3 DEF CreateInvitation, Renewed, Materialized, RowsRight, RowType
  <2>4. CASE \E q \in Request : RenewWrite(q)
    BY <2>0, <2>2, <2>4
    DEF RenewWrite, Renewed, Materialized, RowsRight, RowType, RequestsRight,
        RequestType
  <2>5. CASE \E i \in Invitation : Revoke(i) \/ ClockPasses(i)
    BY <2>0, <2>2, <2>5 DEF Revoke, ClockPasses, RowsRight, RowType
  <2>6. CASE UNCHANGED invitation
    BY <2>2, <2>6
  <2> QED
    BY <1>1, <2>1, <2>3, <2>4, <2>5, <2>6
    DEF MembersNext, membersVars, ResendCheck, ReopenCheck, Preview, DisableCheck,
        DisableWrite, Abandon, PlatformAdds, ChangeRole, Enable, SetUser
<1> QED BY <1>1, MembersInductive, PTL DEF MembersSpec, AcceptedByItsPerson

-------------------------------------------------------------------------------
\* Accounts and members side by side, as the run checks them, keep their types.
THEOREM AccessTypes == Spec => []AccessTypeOK
<1>1. Init => AccountsInv /\ MembersInv
  BY AccountsStart, MembersStart DEF Init
<1>2. ASSUME AccountsInv, MembersInv, [Next]_accessVars
      PROVE  AccountsInv' /\ MembersInv'
  <2>1. [AccountsNext]_accountsVars /\ [MembersNext]_membersVars
    BY <1>2 DEF Next, accessVars
  <2> QED BY <1>2, <2>1, AccountsStep, MembersStep
<1>3. AccountsInv /\ MembersInv => AccessTypeOK
  BY DEF AccountsInv, MembersInv, AccessTypeOK
<1> QED BY <1>1, <1>2, <1>3, PTL DEF Spec
=============================================================================
