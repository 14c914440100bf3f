------------------------------ MODULE Members ------------------------------
(***************************************************************************)
(* The members of one organization and the invitations that admit them.    *)
(*                                                                         *)
(* A request of the organization checks what it needs under the lock of    *)
(* the one row it is about to change, and writes later in the same         *)
(* transaction; the other rows it has read are not locked.  An acceptance  *)
(* looks the link up without a lock and lets a database function decide.   *)
(* Time enters as the expiry of a pending invitation.                      *)
(***************************************************************************)
EXTENDS Integers, FiniteSets

CONSTANTS
  Person,     \* addresses; each names at most one account
  Founder,    \* the owner the organization was created with
  Anonymous,  \* a request without a session
  Invitation, \* rows of organization_invitations
  Request,    \* requests that may be under way at the same time
  MaxToken    \* bound: links issued

ASSUME MembersAssumption ==
  /\ Founder \in Person
  /\ Anonymous \notin Person
  /\ MaxToken \in Nat

VARIABLES
  user,       \* users: none, active or disabled
  role,       \* organization_users with their role; none: no membership
  enabled,    \* memberships whose is_active is true
  invitation, \* organization_invitations; late: the clock passed expires_at
  links,      \* links issued so far
  request     \* what each request under way has checked

membersVars == <<user, role, enabled, invitation, links, request>>

Role == {"owner", "administrator", "viewer"}
InvitedRole == Role \ {"owner"}
NoRow == [status |-> "none", person |-> Founder, role |-> "viewer", token |-> 0, late |-> FALSE]
Free == [op |-> "free", row |-> {}, stale |-> {}, person |-> Anonymous, token |-> 0,
         needsLogin |-> FALSE]

Begin(q, r) == request[q] = Free /\ request' = [request EXCEPT ![q] = r]
End(q) == request' = [request EXCEPT ![q] = Free]

(* get_auth_context and require_permission(MANAGE_MEMBERS).                *)
SomebodyManages ==
  \E p \in enabled : user[p] = "active" /\ role[p] \in {"owner", "administrator"}

(* The rows that a request under way has locked.                           *)
Locked(r) == IF r.op = "renew" THEN r.row \cup r.stale ELSE {}
RowFree(i) == \A q \in Request : i \notin Locked(request[q])
MemberFree(p) == \A q \in Request : request[q].op = "disable" => request[q].person # p

Pending(p) == {i \in Invitation : invitation[i].status = "pending" /\ invitation[i].person = p}
Stale(p) == {i \in Pending(p) : invitation[i].late}

(* _materialize_expired_pending, of the rows found when it ran.            *)
Materialized(rows) ==
  [i \in Invitation |->
     IF i \in rows THEN [invitation[i] EXCEPT !.status = "expired"] ELSE invitation[i]]

(* Mutant: the row is renewed with the link it had.                        *)
Renewed_SameLink(inv, i, p, r) ==
  [inv EXCEPT ![i] = [status |-> "pending", person |-> p, role |-> r, late |-> FALSE,
                      token |-> IF inv[i].token = 0 THEN links + 1 ELSE inv[i].token]]

(* The row is pending with a link and an expiry of its own.                *)
Renewed(inv, i, p, r) ==
  [inv EXCEPT ![i] = [status |-> "pending", person |-> p, role |-> r, late |-> FALSE,
                      token |-> links + 1]]

(* uq_pending_organization_invitation_email.                               *)
Unique(inv) ==
  \A i, j \in Invitation :
    inv[i].status = "pending" /\ inv[j].status = "pending" /\ inv[i].person = inv[j].person
      => i = j

-----------------------------------------------------------------------------
(* Invitations.                                                            *)

(* create_invitation; the message is sent after the commit, and the row    *)
(* stands whether or not it arrives.                                       *)
CreateInvitation(i, p, r) ==
  /\ SomebodyManages
  /\ invitation[i] = NoRow
  /\ \A j \in Stale(p) : RowFree(j)
  /\ links < MaxToken
  /\ invitation' = Renewed(Materialized(Stale(p)), i, p, r)
  /\ Unique(invitation')
  /\ links' = links + 1
  /\ UNCHANGED <<user, role, enabled, request>>

(* resend_invitation, up to the update: not accepted, not revoked, and no  *)
(* other pending one once the expired ones are materialized.               *)
ResendCheck(q, i) ==
  /\ SomebodyManages
  /\ RowFree(i)
  /\ invitation[i].status \in {"pending", "expired"}
  /\ LET p == invitation[i].person IN
       /\ \A j \in Stale(p) : RowFree(j)
       /\ Pending(p) \ Stale(p) \subseteq {i}
       /\ Begin(q, [Free EXCEPT !.op = "renew", !.row = {i}, !.stale = Stale(p)])
  /\ UNCHANGED <<user, role, enabled, invitation, links>>

(* reopen_invitation, up to the update: a revoked one, and no other        *)
(* pending one that is still alive.                                        *)
ReopenCheck(q, i) ==
  /\ SomebodyManages
  /\ RowFree(i)
  /\ invitation[i].status = "revoked"
  /\ LET p == invitation[i].person IN
       /\ \A j \in Stale(p) : RowFree(j)
       /\ Pending(p) = Stale(p)
       /\ Begin(q, [Free EXCEPT !.op = "renew", !.row = {i}, !.stale = Stale(p)])
  /\ UNCHANGED <<user, role, enabled, invitation, links>>

(* The update of either, which the unique index may refuse (Abandon).      *)
RenewWrite(q) ==
  LET r == request[q] IN
  /\ r.op = "renew"
  /\ links < MaxToken
  /\ \E i \in r.row :
       invitation' = Renewed(Materialized(r.stale), i, invitation[i].person, invitation[i].role)
  /\ Unique(invitation')
  /\ links' = links + 1
  /\ End(q)
  /\ UNCHANGED <<user, role, enabled>>

(* revoke_invitation: the effective status decides.                        *)
Revoke(i) ==
  /\ SomebodyManages
  /\ RowFree(i)
  /\ invitation[i].status = "pending"
  /\ ~invitation[i].late
  /\ invitation' = [invitation EXCEPT ![i].status = "revoked"]
  /\ UNCHANGED <<user, role, enabled, links, request>>

ClockPasses(i) ==
  /\ invitation[i].status = "pending"
  /\ ~invitation[i].late
  /\ invitation' = [invitation EXCEPT ![i].late = TRUE]
  /\ UNCHANGED <<user, role, enabled, links, request>>

(* accept_invitation: what get_organization_invitation_by_token tells.     *)
Preview(q, i, actor) ==
  LET needsLogin == user[invitation[i].person] = "active" IN
  /\ invitation[i].status = "pending"
  /\ ~invitation[i].late
  /\ actor # Anonymous => user[actor] = "active"
  /\ needsLogin => actor # Anonymous
  /\ Begin(q, [Free EXCEPT !.op = "accept", !.person = actor, !.needsLogin = needsLogin,
                           !.token = invitation[i].token])
  /\ UNCHANGED <<user, role, enabled, invitation, links>>

(* Mutant: the function trusts what the preview has seen.                  *)
StillGood_Trusted(i) == invitation[i].status # "none"

StillGood(i) == invitation[i].status = "pending" /\ ~invitation[i].late

(* An account that exists must be the session's; otherwise one is created, *)
(* with the password that is passed when the preview asked for no login.   *)
MayEnter(r, p) ==
  \/ user[p] = "active" /\ r.person = p
  \/ user[p] = "none" /\ ~r.needsLogin

(* accept_organization_invitation, one statement under the row's lock.     *)
Accept(q, i) ==
  LET r == request[q]
      p == invitation[i].person
  IN  /\ r.op = "accept"
      /\ invitation[i].token = r.token
      /\ RowFree(i)
      /\ StillGood(i)
      /\ MayEnter(r, p)
      /\ role[p] = "none"
      /\ user' = [user EXCEPT ![p] = IF @ = "none" THEN "active" ELSE @]
      /\ role' = [role EXCEPT ![p] = invitation[i].role]
      /\ enabled' = enabled \cup {p}
      /\ invitation' = [invitation EXCEPT ![i].status = "accepted"]
      /\ End(q)
      /\ UNCHANGED links

(* Any request ends without an effect: a conflict, a refusal or a crash.   *)
Abandon(q) ==
  /\ request[q] # Free
  /\ End(q)
  /\ UNCHANGED <<user, role, enabled, invitation, links>>

-----------------------------------------------------------------------------
(* Members and accounts.                                                   *)

(* platform_create_membership, for any role.                               *)
PlatformAdds(p, r) ==
  /\ user[p] = "active"
  /\ role[p] = "none"
  /\ role' = [role EXCEPT ![p] = r]
  /\ enabled' = enabled \cup {p}
  /\ UNCHANGED <<user, invitation, links, request>>

(* update_member_role: the owner keeps the role, nobody is given it.       *)
ChangeRole(p, r) ==
  /\ SomebodyManages
  /\ role[p] \in InvitedRole
  /\ MemberFree(p)
  /\ role' = [role EXCEPT ![p] = r]
  /\ UNCHANGED <<user, enabled, invitation, links, request>>

(* update_member_status and platform_set_membership_active: the row of the *)
(* member is locked and the active owners are counted.                     *)
DisableCheck(q, p) ==
  /\ p \in enabled
  /\ MemberFree(p)
  /\ role[p] = "owner" => \E o \in enabled \ {p} : role[o] = "owner"
  /\ Begin(q, [Free EXCEPT !.op = "disable", !.person = p])
  /\ UNCHANGED <<user, role, enabled, invitation, links>>

DisableWrite(q) ==
  /\ request[q].op = "disable"
  /\ enabled' = enabled \ {request[q].person}
  /\ End(q)
  /\ UNCHANGED <<user, role, invitation, links>>

Enable(p) ==
  /\ role[p] # "none"
  /\ p \notin enabled
  /\ enabled' = enabled \cup {p}
  /\ UNCHANGED <<user, role, invitation, links, request>>

(* register or a first sign-in elsewhere, and platform_set_user_active.    *)
SetUser(p, status) ==
  /\ user[p] # status
  /\ user[p] = "none" => status = "active"
  /\ user' = [user EXCEPT ![p] = status]
  /\ UNCHANGED <<role, enabled, invitation, links, request>>

-----------------------------------------------------------------------------
MembersInit ==
  /\ user = [p \in Person |-> IF p = Founder THEN "active" ELSE "none"]
  /\ role = [p \in Person |-> IF p = Founder THEN "owner" ELSE "none"]
  /\ enabled = {Founder}
  /\ invitation = [i \in Invitation |-> NoRow]
  /\ links = 0
  /\ request = [q \in Request |-> Free]

MembersNext ==
  \/ \E i \in Invitation, p \in Person, r \in InvitedRole : CreateInvitation(i, p, r)
  \/ \E q \in Request, i \in Invitation : ResendCheck(q, i) \/ ReopenCheck(q, i) \/ Accept(q, i)
  \/ \E q \in Request, i \in Invitation, a \in Person \cup {Anonymous} : Preview(q, i, a)
  \/ \E i \in Invitation : Revoke(i) \/ ClockPasses(i)
  \/ \E q \in Request : RenewWrite(q) \/ DisableWrite(q) \/ Abandon(q)
  \/ \E q \in Request, p \in Person : DisableCheck(q, p)
  \/ \E p \in Person, r \in Role : PlatformAdds(p, r)
  \/ \E p \in Person, r \in InvitedRole : ChangeRole(p, r)
  \/ \E p \in Person : Enable(p)
  \/ \E p \in Person, status \in {"active", "disabled"} : SetUser(p, status)

MembersSpec == MembersInit /\ [][MembersNext]_membersVars

-----------------------------------------------------------------------------
(* Properties.                                                             *)

(* Types; a link names one row, and an address has one invitation pending  *)
(* although every request looks for the others before it writes.           *)
MembersTypeOK ==
  /\ user \in [Person -> {"none", "active", "disabled"}]
  /\ role \in [Person -> Role \cup {"none"}]
  /\ enabled \subseteq {p \in Person : role[p] # "none"}
  /\ invitation \in [Invitation ->
       [status : {"none", "pending", "accepted", "expired", "revoked"}, person : Person,
        role : InvitedRole, token : 0..MaxToken, late : BOOLEAN]]
  /\ \A i, j \in Invitation :
       invitation[i].token = invitation[j].token => i = j \/ invitation[i].token = 0
  /\ \A p \in Person : Cardinality(Pending(p)) <= 1
  /\ links \in 0..MaxToken
  /\ request \in [Request ->
       [op : {"free", "renew", "accept", "disable"}, row : SUBSET Invitation,
        stale : SUBSET Invitation, person : Person \cup {Anonymous},
        token : 0..MaxToken, needsLogin : BOOLEAN]]

(* The link t opens the organization to somebody.                          *)
Alive(t) == \E i \in Invitation : StillGood(i) /\ invitation[i].token = t

(* A link that was revoked, used, replaced or that expired never works     *)
(* again, whatever happens to its invitation: resending and reopening give *)
(* the row another link.                                                   *)
LinksNeverRevive ==
  [][\A t \in 1..links : ~Alive(t) => ~Alive(t)']_membersVars

(* An invitation is accepted only while its link works, by the person it   *)
(* was sent to and in that person's own session if there is an account     *)
(* already, and it gives the role it names to who was no member before;    *)
(* what the preview saw may have changed since.                            *)
AcceptedByItsPerson ==
  [][\A i \in Invitation :
       LET p == invitation[i].person IN
       invitation[i].status # "accepted" /\ invitation'[i].status = "accepted" =>
         /\ invitation[i].status = "pending" /\ ~invitation[i].late
         /\ role[p] = "none" /\ role'[p] = invitation[i].role
         /\ \/ user[p] = "none"
            \/ user[p] = "active" /\ \E q \in Request : request[q].person = p
         /\ user'[p] = "active"]_membersVars

(* "La organizacion debe conservar un owner activo": the answer of         *)
(* update_member_status to the request that would leave it without one.    *)
OwnerRemains == \E p \in enabled : role[p] = "owner"
=============================================================================
