----------------------------- MODULE Memberships -----------------------------
(***************************************************************************)
(* iam.service and the part of auth.service that lets people in: who       *)
(* belongs to which tenant, in which role, and which tenant a session is   *)
(* bound to.                                                               *)
(*                                                                         *)
(* A person is known by their address.  The scope of a membership is part  *)
(* of the role here.  Invitations are numbered as they are inserted.       *)
(***************************************************************************)
EXTENDS Integers, Sequences, FiniteSets

CONSTANTS People, Tenants, Roles, Requests, MaxInvitations

None == "none"

VARIABLES
  users,        \* addresses that have an account
  membership,   \* of a person in a tenant: roles held
  suspended,    \* of those, <<tenant, person>>; a suspension takes all roles there are
  invitation,   \* user_invitations
  bound,        \* sessions: <<tenant, person>> with one that is not revoked
  request,      \* per request, what it has locked and read
  spent         \* history: how often an invitation was accepted

vars == <<users, membership, suspended, invitation, bound, request, spent>>

Idle == [step |-> None, tenant |-> None, person |-> None, invitation |-> 0, known |-> FALSE]

Init ==
  /\ users = {} /\ bound = {}
  /\ membership = [k \in Tenants \X People |-> {}]
  /\ suspended = [k \in Tenants \X People |-> {}]
  /\ invitation = <<>> /\ spent = <<>>
  /\ request = [r \in Requests |-> Idle]

Holders(i) == {r \in Requests : request[r].invitation = i}
Pending(t, p) ==
  {i \in DOMAIN invitation : invitation[i].tenant = t /\ invitation[i].person = p
                             /\ invitation[i].status = "PENDING"}
Active(t, p) == membership[<<t, p>>] \ suspended[<<t, p>>]
Member(t, p) == membership[<<t, p>>] # {}
(* grantsFor, on every request: what a bound session may do.                *)
Grants(t, p) == IF <<t, p>> \in bound THEN Active(t, p) ELSE {}

(* An account, a tenant, its roles and the first membership, at once.       *)
SignUp(t, p) ==
  /\ p \notin users /\ \A q \in People : ~Member(t, q)
  /\ users' = users \cup {p}
  /\ membership' = [membership EXCEPT ![<<t, p>>] = {"owner"}]
  /\ bound' = bound \cup {<<t, p>>}
  /\ UNCHANGED <<suspended, invitation, request, spent>>
-----------------------------------------------------------------------------
(* inviteUser: the pending invitation to the address is revoked, which      *)
(* waits for its row, and a new one takes its place.                        *)
BeginInvite(r, by, t, p) ==
  /\ request[r] = Idle /\ Grants(t, by) # {}
  /\ \A i \in Pending(t, p) : Holders(i) = {}
  /\ request' = [request EXCEPT ![r] = [Idle EXCEPT
       !.step = "inviting", !.tenant = t, !.person = p,
       !.invitation = IF Pending(t, p) = {} THEN 0 ELSE CHOOSE i \in Pending(t, p) : TRUE]]
  /\ UNCHANGED <<users, membership, suspended, invitation, bound, spent>>

(* user_invitations_pending_uq: an insert that finds another pending        *)
(* invitation fails, and its transaction with it (Rollback).                *)
CommitInvite(r, role) ==
  LET q == request[r] IN
  /\ q.step = "inviting" /\ Pending(q.tenant, q.person) \subseteq {q.invitation}
  /\ Len(invitation) < MaxInvitations
  /\ invitation' = Append([i \in DOMAIN invitation |->
                             IF i = q.invitation THEN [invitation[i] EXCEPT !.status = "REVOKED"]
                             ELSE invitation[i]],
                          [tenant |-> q.tenant, person |-> q.person, role |-> role, status |-> "PENDING"])
  /\ spent' = Append(spent, 0)
  /\ request' = [request EXCEPT ![r] = Idle]
  /\ UNCHANGED <<users, membership, suspended, bound>>

(* acceptInvitation: locks the invitation, then looks for the account.  An  *)
(* expired one is refused, and stays PENDING with the rollback.             *)
BeginAccept_Unlocked(r, i) ==   \* mutant: the invitation is read without its lock
  /\ request[r] = Idle /\ invitation[i].status = "PENDING"
  /\ request' = [request EXCEPT ![r] = [Idle EXCEPT !.step = "accepting", !.invitation = i,
                                          !.known = invitation[i].person \in users]]
  /\ UNCHANGED <<users, membership, suspended, invitation, bound, spent>>
BeginAccept(r, i) ==
  /\ request[r] = Idle /\ Holders(i) = {} /\ invitation[i].status = "PENDING"
  /\ request' = [request EXCEPT ![r] = [Idle EXCEPT !.step = "accepting", !.invitation = i,
                                          !.known = invitation[i].person \in users]]
  /\ UNCHANGED <<users, membership, suspended, invitation, bound, spent>>

(* The account is inserted unless one was found: should another transaction *)
(* have made it since, users.email refuses the second.  A role already held *)
(* stays as it is.                                                          *)
CommitAccept(r) ==
  LET i == request[r].invitation
      v == invitation[i]
      k == <<v.tenant, v.person>>
  IN /\ request[r].step = "accepting"
     /\ request[r].known \/ v.person \notin users
     /\ users' = users \cup {v.person}
     /\ membership' = [membership EXCEPT ![k] = @ \cup {v.role}]
     /\ invitation' = [invitation EXCEPT ![i].status = "ACCEPTED"]
     /\ bound' = bound \cup {k}
     /\ spent' = [spent EXCEPT ![i] = @ + 1]
     /\ request' = [request EXCEPT ![r] = Idle]
     /\ UNCHANGED suspended

Rollback(r) ==
  /\ request[r] # Idle
  /\ request' = [request EXCEPT ![r] = Idle]
  /\ UNCHANGED <<users, membership, suspended, invitation, bound, spent>>
-----------------------------------------------------------------------------
CreateMembership(by, t, p, role) ==   \* only to who is a member already
  /\ Grants(t, by) # {} /\ Member(t, p) /\ role \notin membership[<<t, p>>]
  /\ membership' = [membership EXCEPT ![<<t, p>>] = @ \cup {role}]
  /\ UNCHANGED <<users, suspended, invitation, bound, request, spent>>

(* Of every role in this tenant, and no other; the sessions bound to this   *)
(* tenant end.  Nobody suspends themselves.  The grants of who asks were    *)
(* read when the request arrived.                                           *)
RequestSuspension(r, by, t, p, on) ==
  /\ request[r] = Idle /\ Grants(t, by) # {} /\ Member(t, p)
  /\ on => by # p
  /\ request' = [request EXCEPT ![r] = [Idle EXCEPT
       !.step = IF on THEN "suspending" ELSE "reinstating", !.tenant = t, !.person = p]]
  /\ UNCHANGED <<users, membership, suspended, invitation, bound, spent>>

SetUserSuspension(r) ==
  LET k == <<request[r].tenant, request[r].person>>
      on == request[r].step = "suspending"
  IN /\ request[r].step \in {"suspending", "reinstating"}
     /\ suspended' = [suspended EXCEPT ![k] = IF on THEN membership[k] ELSE {}]
     /\ bound' = IF on THEN bound \ {k} ELSE bound
     /\ request' = [request EXCEPT ![r] = Idle]
     /\ UNCHANGED <<users, membership, invitation, spent>>

(* login binds the tenant when there is one; selectTenant reads the         *)
(* membership and then binds.                                               *)
Login(p) ==
  LET active == {t \in Tenants : Active(t, p) # {}} IN
  /\ p \in users /\ Cardinality(active) = 1
  /\ bound' = bound \cup (active \X {p})
  /\ UNCHANGED <<users, membership, suspended, invitation, request, spent>>

SelectTenant(r, t, p) ==
  /\ request[r] = Idle /\ Active(t, p) # {}
  /\ request' = [request EXCEPT ![r] = [Idle EXCEPT !.step = "selecting", !.tenant = t, !.person = p]]
  /\ UNCHANGED <<users, membership, suspended, invitation, bound, spent>>
BindTenant(r) ==
  /\ request[r].step = "selecting"
  /\ bound' = bound \cup {<<request[r].tenant, request[r].person>>}
  /\ request' = [request EXCEPT ![r] = Idle]
  /\ UNCHANGED <<users, membership, suspended, invitation, spent>>

Next ==
  \/ \E t \in Tenants, p \in People : SignUp(t, p)
  \/ \E by, p \in People, t \in Tenants, role \in Roles : CreateMembership(by, t, p, role)
  \/ \E p \in People : Login(p)
  \/ \E r \in Requests :
       \/ \E by, p \in People, t \in Tenants : 
            \/ BeginInvite(r, by, t, p) \/ SelectTenant(r, t, p)
            \/ \E on \in BOOLEAN : RequestSuspension(r, by, t, p, on)
       \/ \E role \in Roles : CommitInvite(r, role)
       \/ \E i \in DOMAIN invitation : BeginAccept(r, i)
       \/ CommitAccept(r) \/ SetUserSuspension(r) \/ BindTenant(r) \/ Rollback(r)

Spec == Init /\ [][Next]_vars
-----------------------------------------------------------------------------
(* "Two valid tokens for the same person never coexist": one invitation of  *)
(* a tenant to an address is pending, whichever requests raced; one that    *)
(* was replaced is never accepted and none is accepted twice; and who       *)
(* accepted belongs to the tenant, in the role they were invited to, with   *)
(* the one account their address has.                                       *)
InvitationsAreSpentOnce ==
  /\ \A t \in Tenants, p \in People : Cardinality(Pending(t, p)) <= 1
  /\ \A i \in DOMAIN invitation : LET v == invitation[i] IN
       /\ spent[i] = IF v.status = "ACCEPTED" THEN 1 ELSE 0
       /\ v.status = "ACCEPTED" => v.person \in users /\ v.role \in membership[<<v.tenant, v.person>>]

(* "You cannot suspend your own access. Ask another administrator." There   *)
(* is always another to ask (refuted: two suspend each other).              *)
SomeoneIsLeft ==
  \A t \in Tenants : (\E p \in People : Member(t, p)) => \E p \in People : Active(t, p) # {}
=============================================================================
