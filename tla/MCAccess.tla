------------------------------ MODULE MCAccess ------------------------------
(***************************************************************************)
(* Accounts and Members for TLC, one beside the other: a behaviour is one  *)
(* of the first or of the second, which share no state here (an account    *)
(* that appears or is disabled is an action of both).                      *)
(***************************************************************************)
EXTENDS Accounts, Members, TLC

accessVars == <<accountsVars, membersVars>>

Init == AccountsInit /\ MembersInit

Next ==
  \/ MembersInit /\ AccountsNext /\ UNCHANGED membersVars
  \/ AccountsInit /\ MembersNext /\ UNCHANGED accountsVars

Spec == Init /\ [][Next]_accessVars

\* The callbacks are requests too.
Symmetry == Permutations(Request) \cup Permutations(Invitation) \cup Permutations(Email)

\* One type invariant for the two modules.
AccessTypeOK == AccountsTypeOK /\ MembersTypeOK
=============================================================================
