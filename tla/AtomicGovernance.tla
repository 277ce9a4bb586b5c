-------------------------- MODULE AtomicGovernance --------------------------
(***************************************************************************)
(* Who may take part in one shared ledger, as a server without concurrent   *)
(* requests would decide it: every condition of a step holds of the rows as *)
(* they are at that moment. Invitations do not expire here.                 *)
(* WorkspaceGovernance implements it.                                       *)
(***************************************************************************)
EXTENDS Naturals, FiniteSets

CONSTANTS
    Owner,          \* the workspace's immutable owner, who has no member row
    People,         \* everybody else
    Invites,        \* invitation ids
    Roles,          \* "admin" and the roles that govern nothing
    MaxMembers,     \* MAX_MEMBERS, per workspace and per person
    MaxRequests,    \* MAX_JOIN_REQUESTS, per invitation
    Null

VARIABLES
    member,     \* member[p]: the workspace_members row of p, or Null
    invite,     \* invite[i]: the workspace_invites row, or Null
    request,    \* request[<<i, p>>]: the workspace_join_requests row, or Null
    elsewhere   \* elsewhere[p]: p's active memberships in other workspaces

rows == <<member, invite, request, elsewhere>>

Actors == People \cup {Owner}

IsMember(p) == p \in People /\ member[p] # Null /\ ~member[p].removed
IsAdmin(p)  == IsMember(p) /\ member[p].role = "admin"

(* _manage: the owner manages everybody, an admin everybody but admins.      *)
MayManage(a, role) == a # Owner => IsAdmin(a) /\ role # "admin"

Members == {p \in People : IsMember(p)}
RequestsOf(i) == {p \in People : request[<<i, p>>] # Null}

(* _inviter_authorized: who issued an invitation is still who they were.     *)
StandsBehind(i) ==
    invite[i].by # Owner =>
        /\ IsAdmin(invite[i].by)
        /\ member[invite[i].by].rev = invite[i].byRev /\ invite[i].role # "admin"

Open(i) == invite[i] # Null /\ invite[i].status = "pending"

-----------------------------------------------------------------------------
(* Rows as the statements of a batch leave them.                             *)

NewInvite(a, role) ==
    [role |-> role, status |-> "pending", rev |-> 1, by |-> a,
     byRev |-> IF a = Owner THEN 1 ELSE member[a].rev, to |-> Null]

Joined(p, role) ==
    [role |-> role, rev |-> IF member[p] = Null THEN 1 ELSE member[p].rev + 1, removed |-> FALSE]

Reviewed(i, p, state) == [status |-> state, rev |-> request[<<i, p>>].rev + 1]

Closed(i, state, to) ==
    [role |-> invite[i].role, status |-> state, rev |-> invite[i].rev + 1,
     by |-> invite[i].by, byRev |-> invite[i].byRev, to |-> to]

SetMember(p, row) ==
    /\ member' = [member EXCEPT ![p] = row]
    /\ UNCHANGED <<invite, request, elsewhere>>

AddInvite(a, i, role) ==
    /\ invite' = [invite EXCEPT ![i] = NewInvite(a, role)]
    /\ UNCHANGED <<member, request, elsewhere>>

MarkRevoked(i) ==
    /\ invite' = [invite EXCEPT ![i] = Closed(i, "revoked", invite[i].to)]
    /\ UNCHANGED <<member, request, elsewhere>>

AddRequest(i, p) ==
    /\ request' = [request EXCEPT ![<<i, p>>] = [status |-> "pending", rev |-> 1]]
    /\ UNCHANGED <<member, invite, elsewhere>>

Admit(i, p) ==
    /\ member' = [member EXCEPT ![p] = Joined(p, invite[i].role)]
    /\ invite' = [invite EXCEPT ![i] = Closed(i, "accepted", p)]
    /\ request' = [request EXCEPT ![<<i, p>>] = Reviewed(i, p, "approved")]
    /\ UNCHANGED elsewhere

TurnDown(i, p) ==
    /\ request' = [request EXCEPT ![<<i, p>>] = Reviewed(i, p, "rejected")]
    /\ UNCHANGED <<member, invite, elsewhere>>

-----------------------------------------------------------------------------
(* What may happen.                                                          *)

ChangeRole(a, p, role) ==
    /\ IsMember(p)
    /\ MayManage(a, member[p].role) /\ MayManage(a, role)
    /\ SetMember(p, [member[p] EXCEPT !.role = role, !.rev = @ + 1])

Remove(a, p) ==
    /\ IsMember(p)
    /\ MayManage(a, member[p].role)
    /\ SetMember(p, [member[p] EXCEPT !.removed = TRUE, !.rev = @ + 1])

IssueInvite(a, i, role) ==
    /\ invite[i] = Null
    /\ MayManage(a, role)
    /\ AddInvite(a, i, role)

Revoke(a, i) ==
    /\ Open(i)
    /\ MayManage(a, invite[i].role)
    /\ MarkRevoked(i)

Apply(i, p) ==
    /\ Open(i) /\ StandsBehind(i)
    /\ ~IsMember(p)
    /\ request[<<i, p>>] = Null
    /\ Cardinality(RequestsOf(i)) < MaxRequests
    /\ AddRequest(i, p)

(* Only the person who issued an invitation decides who joins by it.         *)
Decides(a, i, p) ==
    /\ Open(i) /\ StandsBehind(i)
    /\ a = invite[i].by /\ MayManage(a, invite[i].role)
    /\ request[<<i, p>>] # Null /\ request[<<i, p>>].status = "pending"

Approve(a, i, p) ==
    /\ Decides(a, i, p)
    /\ ~IsMember(p)
    /\ Cardinality(Members) < MaxMembers
    /\ Cardinality(Members \cap {p}) + elsewhere[p] < MaxMembers
    /\ Admit(i, p)

Reject(a, i, p) ==
    /\ Decides(a, i, p)
    /\ TurnDown(i, p)

(* The same person joins or leaves another workspace, by the same rules.     *)
JoinElsewhere(p) ==
    /\ Cardinality(Members \cap {p}) + elsewhere[p] < MaxMembers
    /\ elsewhere' = [elsewhere EXCEPT ![p] = @ + 1]
    /\ UNCHANGED <<member, invite, request>>

LeaveElsewhere(p) ==
    /\ elsewhere[p] > 0
    /\ elsewhere' = [elsewhere EXCEPT ![p] = @ - 1]
    /\ UNCHANGED <<member, invite, request>>

RowsInit ==
    /\ member = [p \in People |-> Null]
    /\ invite = [i \in Invites |-> Null]
    /\ request = [ip \in Invites \X People |-> Null]
    /\ elsewhere = [p \in People |-> 0]

Next ==
    \/ \E a \in Actors :
         \/ \E p \in People :
              \/ Remove(a, p)
              \/ \E role \in Roles : ChangeRole(a, p, role)
              \/ \E i \in Invites : Approve(a, i, p) \/ Reject(a, i, p)
         \/ \E i \in Invites :
              \/ Revoke(a, i)
              \/ \E role \in Roles : IssueInvite(a, i, role)
    \/ \E i \in Invites, p \in People : Apply(i, p)
    \/ \E p \in People : JoinElsewhere(p) \/ LeaveElsewhere(p)

(* The conjunct only spares TLC the search for a step that changes no row.   *)
AtomicSpec == RowsInit /\ [][rows' # rows /\ Next]_rows
=============================================================================
