------------------------------ MODULE Accounts ------------------------------
(***************************************************************************)
(* Accounts, Google identities, sessions and sign-in attempts.             *)
(*                                                                         *)
(* A sign-in with Google takes three requests: google_start stores an      *)
(* attempt in Redis under a fresh state and gives the state to the browser *)
(* as a cookie; the provider sends the browser back; google_callback takes *)
(* the attempt out of Redis, asks the provider who it is and resolves the  *)
(* account in a transaction that reads first and inserts later, under no   *)
(* lock but the unique indexes.  Between any two of those points other     *)
(* requests register, link, sign in, or disable the same account.          *)
(*                                                                         *)
(* An account is named by its address, which LOWER(email) makes unique.    *)
(***************************************************************************)
EXTENDS Integers, FiniteSets

CONSTANTS
  Email,      \* addresses, each of at most one account
  Subject,    \* identities of the provider (provider_subject)
  Browser,    \* browsers, each with one cookie jar
  Callback,   \* callbacks that may be under way at the same time
  MaxState,   \* bound: sign-in attempts
  Nobody, NoSubject

ASSUME AccountsAssumption ==
  /\ MaxState \in Nat
  /\ Nobody \notin Email \cup Browser
  /\ NoSubject \notin Subject

VARIABLES
  account,    \* users: none, active or disabled
  password,   \* users whose password_hash is not null
  identities, \* auth_identities, with the account whose session asked for it
  session,    \* user_sessions, the one whose token each browser holds
  attempt,    \* Redis: the attempts stored, by state
  jar,        \* the state cookie of each browser (0: none)
  issued,     \* states issued so far
  taken,      \* how many callbacks got the attempt of a state
  callback    \* what each callback under way has read and decided

accountsVars ==
  <<account, password, identities, session, attempt, jar, issued, taken, callback>>

Users == Email \cup {Nobody}
Identity == [subject : Subject, user : Email, starter : Users]
NoSession == [user |-> Nobody, by |-> NoSubject]
NoAttempt == [flow |-> "none", user |-> Nobody]
Idle == [step |-> "idle", browser |-> Nobody, starter |-> Nobody,
         user |-> Nobody, subject |-> NoSubject, email |-> Nobody, pass |-> 0]

(* get_current_user_id: session and account are read at every request.     *)
UserOf(b) ==
  IF session[b].user # Nobody /\ account[session[b].user] = "active"
  THEN session[b].user ELSE Nobody

LinkedTo(s) == {i.user : i \in {x \in identities : x.subject = s}}
SubjectOf(e) == {i.subject : i \in {x \in identities : x.user = e}}

(* The unique indexes of users and of auth_identities.                     *)
FreeEmail(e) == account[e] = "none"

(* Mutant: only the identity is unique, not the one of each account.       *)
FreeIdentity_BySubject(s, e) == LinkedTo(s) = {} /\ e \in Email

FreeIdentity(s, e) == LinkedTo(s) = {} /\ SubjectOf(e) = {}

-----------------------------------------------------------------------------
(* Requests of one transaction.                                            *)

(* register, and an invitation accepted by somebody without an account.    *)
Register(b, e) ==
  /\ FreeEmail(e)
  /\ account' = [account EXCEPT ![e] = "active"]
  /\ password' = password \cup {e}
  /\ session' = [session EXCEPT ![b] = [user |-> e, by |-> NoSubject]]
  /\ UNCHANGED <<identities, attempt, jar, issued, taken, callback>>

Login(b, e) ==
  /\ account[e] = "active"
  /\ e \in password
  /\ session' = [session EXCEPT ![b] = [user |-> e, by |-> NoSubject]]
  /\ UNCHANGED <<account, password, identities, attempt, jar, issued, taken, callback>>

Logout(b) ==
  /\ UserOf(b) # Nobody
  /\ session' = [session EXCEPT ![b] = NoSession]
  /\ UNCHANGED <<account, password, identities, attempt, jar, issued, taken, callback>>

(* platform_set_user_active.  Disabling revokes every session of the user, *)
(* the one a callback has created and is about to deliver included.        *)
SetUserActive(e, active) ==
  /\ account[e] = IF active THEN "disabled" ELSE "active"
  /\ account' = [account EXCEPT ![e] = IF active THEN "active" ELSE "disabled"]
  /\ \/ active /\ UNCHANGED <<session, callback>>
     \/ /\ ~active
        /\ session' = [b \in Browser |-> IF session[b].user = e THEN NoSession ELSE session[b]]
        /\ callback' = [c \in Callback |->
             IF callback[c].step = "resolved" /\ callback[c].user = e THEN Idle ELSE callback[c]]
  /\ UNCHANGED <<password, identities, attempt, jar, issued, taken>>

-----------------------------------------------------------------------------
(* The attempt.                                                            *)

(* google_start.  The attempt of the state the browser held is discarded;  *)
(* a link is for a session whose account has no identity yet.              *)
GoogleStart(b, flow) ==
  /\ issued < MaxState
  /\ flow = "link" => UserOf(b) # Nobody /\ SubjectOf(UserOf(b)) = {}
  /\ issued' = issued + 1
  /\ attempt' = [st \in 1..MaxState |->
       IF st = issued + 1 THEN [flow |-> flow, user |-> UserOf(b)]
       ELSE IF st = jar[b] THEN NoAttempt ELSE attempt[st]]
  /\ jar' = [jar EXCEPT ![b] = issued + 1]
  /\ UNCHANGED <<account, password, identities, session, taken, callback>>

(* The 600 seconds are over, in Redis or in the record.                    *)
AttemptExpires(st) ==
  /\ attempt[st] # NoAttempt
  /\ attempt' = [attempt EXCEPT ![st] = NoAttempt]
  /\ UNCHANGED <<account, password, identities, session, jar, issued, taken, callback>>

Consumed(st) == [attempt EXCEPT ![st] = NoAttempt]

(* Mutant: the session that comes back need not be the one that asked.     *)
MayGoOn_AnySession(b, a) == a.flow = "login" \/ UserOf(b) # Nobody

(* A link goes on only for the session that started it.                    *)
MayGoOn(b, a) == a.flow = "login" \/ (a.user # Nobody /\ UserOf(b) = a.user)

(* google_callback up to the provider's answer.  The dependency reads the  *)
(* session first; the state must be the one of the cookie; an attempt that *)
(* is gone, an identity that is not valid or a link for another session    *)
(* end the request.                                                        *)
Return(c, b, s, e) ==
  LET st == jar[b] IN
  /\ callback[c].step = "idle"
  /\ st # 0
  /\ attempt[st] # NoAttempt
  /\ attempt' = Consumed(st)
  /\ taken' = [taken EXCEPT ![st] = @ + 1]
  /\ MayGoOn(b, attempt[st])
  /\ callback' = [callback EXCEPT ![c] =
       [step |-> attempt[st].flow, browser |-> b, starter |-> attempt[st].user,
        user |-> UserOf(b), subject |-> s, email |-> e, pass |-> 1]]
  /\ UNCHANGED <<account, password, identities, session, jar, issued>>

(* The callback that finds no attempt, is cancelled at the provider or may *)
(* not go on: the attempt is consumed all the same, the cookie removed.    *)
Refuse(b) ==
  /\ jar[b] # 0
  /\ attempt' = Consumed(jar[b])
  /\ jar' = [jar EXCEPT ![b] = 0]
  /\ taken' = [taken EXCEPT ![jar[b]] = @ + IF attempt[jar[b]] = NoAttempt THEN 0 ELSE 1]
  /\ UNCHANGED <<account, password, identities, session, issued, callback>>

(* The request ends without an effect: an error redirect or a crash.       *)
Fail(c) ==
  /\ callback[c].step # "idle"
  /\ callback' = [callback EXCEPT ![c] = Idle]
  /\ jar' = [jar EXCEPT ![callback[c].browser] = 0]
  /\ UNCHANGED <<account, password, identities, session, attempt, issued, taken>>

-----------------------------------------------------------------------------
(* Login: _resolve_login_once, at most twice.                              *)

(* Mutant: the address is looked at before the identity.                   *)
LinkedAccount_ByEmail(s, e) == IF account[e] = "none" THEN LinkedTo(s) ELSE {e}

LinkedAccount(s, e) == LinkedTo(s)

(* The reads and the decision: the linked account if it is active, a new   *)
(* account if the address has none, nothing otherwise (Fail).           *)
LoginRead(c) ==
  LET r == callback[c] IN
  /\ r.step = "login"
  /\ \/ \E u \in LinkedAccount(r.subject, r.email) :
          /\ account[u] = "active"
          /\ callback' = [callback EXCEPT ![c].step = "resolved", ![c].user = u]
     \/ /\ LinkedAccount(r.subject, r.email) = {}
        /\ account[r.email] = "none"
        /\ callback' = [callback EXCEPT ![c].step = "create"]
  /\ UNCHANGED <<account, password, identities, session, attempt, jar, issued, taken>>

NewIdentity(r) == {[subject |-> r.subject, user |-> r.email, starter |-> Nobody]}

(* The inserts of the account and its identity, in one transaction.        *)
LoginCreate(c) ==
  LET r == callback[c] IN
  /\ r.step = "create"
  /\ FreeEmail(r.email)
  /\ FreeIdentity(r.subject, r.email)
  /\ account' = [account EXCEPT ![r.email] = "active"]
  /\ identities' = identities \cup NewIdentity(r)
  /\ callback' = [callback EXCEPT ![c].step = "resolved", ![c].user = r.email]
  /\ UNCHANGED <<password, session, attempt, jar, issued, taken>>

(* A unique index refuses an insert: one more pass, then the end.          *)
LoginConflict(c) ==
  LET r == callback[c] IN
  /\ r.step = "create"
  /\ r.pass = 1
  /\ ~(FreeEmail(r.email) /\ FreeIdentity(r.subject, r.email))
  /\ callback' = [callback EXCEPT ![c].step = "login", ![c].pass = 2]
  /\ UNCHANGED <<account, password, identities, session, attempt, jar, issued, taken>>

(* The response: the browser gets the new session in place of the one it   *)
(* presented, which _revoke_presented_session revokes.                     *)
Deliver(c) ==
  LET r == callback[c] IN
  /\ r.step = "resolved"
  /\ session' = [session EXCEPT ![r.browser] = [user |-> r.user, by |-> r.subject]]
  /\ jar' = [jar EXCEPT ![r.browser] = 0]
  /\ callback' = [callback EXCEPT ![c] = Idle]
  /\ UNCHANGED <<account, password, identities, attempt, issued, taken>>

-----------------------------------------------------------------------------
(* Link: link_identity.                                                    *)

(* Neither has the other's counterpart yet, and the addresses agree.       *)
MayLink(r) ==
  SubjectOf(r.user) = {} /\ LinkedTo(r.subject) = {} /\ r.email = r.user

(* decide_link says LINK; every other outcome writes nothing (Fail).    *)
LinkRead(c) ==
  LET r == callback[c] IN
  /\ r.step = "link"
  /\ account[r.user] = "active"
  /\ MayLink(r)
  /\ callback' = [callback EXCEPT ![c].step = "linking"]
  /\ UNCHANGED <<account, password, identities, session, attempt, jar, issued, taken>>

(* The insert; a conflict is classified and rejected (Fail).            *)
LinkWrite(c) ==
  LET r == callback[c] IN
  /\ r.step = "linking"
  /\ FreeIdentity(r.subject, r.user)
  /\ identities' = identities \cup
       {[subject |-> r.subject, user |-> r.user, starter |-> r.starter]}
  /\ callback' = [callback EXCEPT ![c] = Idle]
  /\ jar' = [jar EXCEPT ![r.browser] = 0]
  /\ UNCHANGED <<account, password, session, attempt, issued, taken>>

-----------------------------------------------------------------------------
AccountsInit ==
  /\ account = [e \in Email |-> "none"]
  /\ password = {}
  /\ identities = {}
  /\ session = [b \in Browser |-> NoSession]
  /\ attempt = [st \in 1..MaxState |-> NoAttempt]
  /\ jar = [b \in Browser |-> 0]
  /\ issued = 0
  /\ taken = [st \in 1..MaxState |-> 0]
  /\ callback = [c \in Callback |-> Idle]

AccountsNext ==
  \/ \E b \in Browser, e \in Email : Register(b, e) \/ Login(b, e)
  \/ \E b \in Browser : Logout(b) \/ Refuse(b)
  \/ \E e \in Email, active \in BOOLEAN : SetUserActive(e, active)
  \/ \E b \in Browser, flow \in {"login", "link"} : GoogleStart(b, flow)
  \/ \E st \in 1..MaxState : AttemptExpires(st)
  \/ \E c \in Callback, b \in Browser, s \in Subject, e \in Email : Return(c, b, s, e)
  \/ \E c \in Callback :
       \/ Fail(c) \/ LoginRead(c) \/ LoginCreate(c) \/ LoginConflict(c)
       \/ Deliver(c) \/ LinkRead(c) \/ LinkWrite(c)

AccountsSpec == AccountsInit /\ [][AccountsNext]_accountsVars

-----------------------------------------------------------------------------
(* Properties.                                                             *)

(* Types, and what the indexes promise: an identity has one account and an *)
(* account one identity, whatever was read before the insert.              *)
AccountsTypeOK ==
  /\ account \in [Email -> {"none", "active", "disabled"}]
  /\ password \subseteq Email
  /\ identities \subseteq Identity
  /\ \A i, j \in identities : i.subject = j.subject \/ i.user = j.user => i = j
  /\ session \in [Browser -> [user : Users, by : Subject \cup {NoSubject}]]
  /\ attempt \in [1..MaxState -> [flow : {"none", "login", "link"}, user : Users]]
  /\ jar \in [Browser -> 0..MaxState]
  /\ issued \in 0..MaxState
  /\ taken \in [1..MaxState -> Nat]
  /\ callback \in [Callback ->
       [step : {"idle", "login", "link", "create", "linking", "resolved"}, browser : Browser \cup {Nobody},
        starter : Users, user : Users, subject : Subject \cup {NoSubject},
        email : Users, pass : 0..2]]

(* Nobody is locked out: every account has a password or an identity, so a *)
(* creation that loses a race after its first insert leaves nothing.       *)
NoHalfAccount ==
  \A e \in Email : account[e] # "none" => e \in password \/ SubjectOf(e) # {}

(* Nobody is taken over: an account with a password gets an identity only  *)
(* through a link that a session of that very account started; the ones    *)
(* without a password were created together with theirs.                   *)
NoTakeover ==
  \A i \in identities :
    /\ account[i.user] # "none"
    /\ i.starter = IF i.user \in password THEN i.user ELSE Nobody

(* A session opened with an identity is a session of the account the       *)
(* identity is linked to, although the address the provider reports may be *)
(* another one by now and the account was read before the insert.          *)
SessionOfTheLinked ==
  \A b \in Browser :
    session[b].by # NoSubject => session[b].user \in LinkedTo(session[b].by)

(* An attempt serves one callback: a return that is repeated, or two that  *)
(* arrive together, do not resolve it twice.                               *)
AttemptOnce == \A st \in 1..MaxState : taken[st] <= 1

(* The three together, of every account and attempt.                       *)
AccountsHold == NoHalfAccount /\ NoTakeover /\ AttemptOnce
=============================================================================
