------------------------ MODULE WorkspaceGovernance -------------------------
(***************************************************************************)
(* Membership of one shared ledger as the handlers decide it: invitations,   *)
(* applications by link, the inviter's review, role changes and removals.    *)
(* A request reads rows in one or two awaited batches and writes in one      *)
(* atomic batch whose guards repeat what it decided by; any other request    *)
(* may commit in between. A request may also stop before its batch.          *)
(***************************************************************************)
EXTENDS Naturals, FiniteSets

CONSTANTS
    Owner, People, Invites, Roles, MaxMembers, MaxInvites, MaxRequests,
    Workers,        \* slots that run one request each
    InvitationAge,  \* how long a link is open, in units of the clock
    MaxClock,       \* bound: the clock stops here
    MaxRev,         \* bound: clients edit a member while its revision is below this
    Null

ASSUME GovernanceAssumption ==
    /\ Owner \notin People /\ Null \notin People \cup {Owner}
    /\ {MaxMembers, MaxInvites, MaxRequests, MaxRev} \subseteq Nat \ {0}
    /\ {InvitationAge, MaxClock} \subseteq Nat
    /\ IsFiniteSet(People) /\ IsFiniteSet(Invites)

VARIABLES
    members,    \* members[p]: the workspace_members row of p, or Null
    invites,    \* invites[i]: the workspace_invites row, or Null
    requests,   \* requests[<<i, p>>]: the workspace_join_requests row, or Null
    elsewhere,  \* elsewhere[p]: p's active memberships of other workspaces
    clock,      \* seconds, as far as invitations tell them apart
    job         \* job[w]: the request in slot w and what it has read

tables == <<members, invites, requests, elsewhere>>
vars == <<members, invites, requests, elsewhere, clock, job>>

Actors == People \cup {Owner}

MemberRow  == [role : Roles, rev : Nat, removed : BOOLEAN]
InviteRow  == [role : Roles, status : {"pending", "accepted", "revoked"}, rev : Nat,
               by : Actors, byRev : Nat, until : Nat, to : People \cup {Null}]
RequestRow == [status : {"pending", "approved", "rejected"}, rev : Nat]

(* What of an invitation its expiry says nothing about.                      *)
LinkRow == [role : Roles, status : {"pending", "accepted", "revoked"}, rev : Nat,
            by : Actors, byRev : Nat, to : People \cup {Null}]

ASSUME NullAssumption == Null \notin MemberRow \cup InviteRow \cup RequestRow \cup LinkRow

Idle == [pc |-> "idle", op |-> "none", actor |-> Owner, now |-> 0, self |-> Null,
         i |-> Null, p |-> Null, role |-> Null, member |-> Null, invite |-> Null, request |-> Null]

Job == [pc : {"idle", "read", "checked"},
        op : {"none", "role", "remove", "invite", "revoke", "apply", "approve", "reject"},
        actor : Actors, now : Nat, self : MemberRow \cup {Null}, i : Invites \cup {Null},
        p : People \cup {Null}, role : Roles \cup {Null}, member : MemberRow \cup {Null},
        invite : InviteRow \cup {Null}, request : RequestRow \cup {Null}]

TypeOK ==
    /\ members \in [People -> MemberRow \cup {Null}]
    /\ invites \in [Invites -> InviteRow \cup {Null}]
    /\ requests \in [Invites \X People -> RequestRow \cup {Null}]
    /\ elsewhere \in [People -> Nat]
    /\ clock \in Nat
    /\ job \in [Workers -> Job]

Init ==
    /\ members = [p \in People |-> Null]
    /\ invites = [i \in Invites |-> Null]
    /\ requests = [ip \in Invites \X People |-> Null]
    /\ elsewhere = [p \in People |-> 0]
    /\ clock = 0
    /\ job = [w \in Workers |-> Idle]

-----------------------------------------------------------------------------
(* What a request reads of its actor, and what the batch repeats of it.      *)

Active(row) == row # Null /\ ~row.removed
RowOf(a) == IF a = Owner THEN Null ELSE members[a]
RevOf(a, row) == IF a = Owner THEN 1 ELSE row.rev

MayManage(a, self, role) == a # Owner => self.role = "admin" /\ role # "admin"

MemberSet == {p \in People : Active(members[p])}
Memberships(p) == Cardinality(MemberSet \cap {p}) + elsewhere[p]
PendingInvites(now) ==
    {i \in Invites : invites[i] # Null /\ invites[i].status = "pending" /\ invites[i].until >= now}
Applicants(i) == {p \in People : requests[<<i, p>>] # Null}

(* _write_guard: the acting member row, its role and revision unchanged.     *)
WriteGuard(j) == j.actor # Owner =>
    /\ Active(members[j.actor])
    /\ members[j.actor].role = j.self.role /\ members[j.actor].rev = j.self.rev

InviterAuthorized(row) ==
    IF row.by = Owner THEN row.byRev = 1
    ELSE /\ Active(members[row.by]) /\ members[row.by].role = "admin"
         /\ members[row.by].rev = row.byRev /\ row.role # "admin"

\* weakened: only the inviter is checked again, not the invitation
InviterChecksOnly(j) ==
    j.invite.by # Owner => /\ Active(members[j.invite.by])
                           /\ members[j.invite.by].role = "admin"
                           /\ members[j.invite.by].rev = j.invite.byRev

\* weakened: only the invitation is checked again, not its inviter
LinkChecksOnly(j) == invites[j.i] = j.invite /\ j.invite.status = "pending" /\ j.invite.until >= j.now

(* _invitation_checks: the invitation as it was read, still pending at the   *)
(* request's own time, and its inviter still the same admin.                 *)
InvitationChecks(j) ==
    /\ invites[j.i] = j.invite
    /\ j.invite.status = "pending" /\ j.invite.until >= j.now
    /\ j.invite.by # Owner => /\ Active(members[j.invite.by])
                              /\ members[j.invite.by].role = "admin"
                              /\ members[j.invite.by].rev = j.invite.byRev

(* canReview of a listed invitation, as its reader's own row decides it.      *)
CanReview(a, i) == invites[i].by = a /\
    IF a = Owner THEN invites[i].byRev = 1
    ELSE /\ Active(members[a]) /\ members[a].role = "admin"
         /\ members[a].rev = invites[i].byRev /\ invites[i].role # "admin"

(* _request_inbox: the applications one person is asked to decide.           *)
Inbox(a) ==
    {ip \in Invites \X People :
        LET i == ip[1] IN
        /\ invites[i] # Null /\ requests[ip] # Null
        /\ invites[i].by = a /\ i \in PendingInvites(clock) /\ requests[ip].status = "pending"
        /\ IF a = Owner THEN invites[i].byRev = 1
           ELSE /\ Active(members[a]) /\ members[a].role = "admin"
                /\ members[a].rev = invites[i].byRev /\ invites[i].role # "admin"}

Begin(op, a) == [Idle EXCEPT !.pc = "checked", !.op = op, !.actor = a, !.self = RowOf(a)]

(* _auth with scope members:write: the owner, or an active admin.            *)
Governs(a) == a # Owner => Active(members[a]) /\ members[a].role = "admin"

Start(w, j) ==
    /\ job[w] = Idle
    /\ job' = [job EXCEPT ![w] = j]
    /\ UNCHANGED <<tables, clock>>

Done(w) == job' = [job EXCEPT ![w] = Idle]

-----------------------------------------------------------------------------
(* PATCH and DELETE of a member, with the revision the client last saw.      *)

ReceiveMember(w, op, a, p, role) ==
    /\ Governs(a)
    /\ Active(members[p])
    /\ MayManage(a, RowOf(a), members[p].role)
    /\ IF op = "role" THEN role \in Roles /\ MayManage(a, RowOf(a), role) ELSE role = Null
    /\ members[p].rev < MaxRev
    /\ Start(w, [Begin(op, a) EXCEPT !.p = p, !.role = role, !.member = members[p]])

MemberFence(j) ==
    Active(members[j.p]) /\ members[j.p].role = j.member.role /\ members[j.p].rev = j.member.rev

CommitRole(w) == LET j == job[w] IN
    /\ j.pc = "checked" /\ j.op = "role"
    /\ WriteGuard(j) /\ MemberFence(j)
    /\ members' = [members EXCEPT ![j.p].role = j.role, ![j.p].rev = @ + 1]
    /\ Done(w)
    /\ UNCHANGED <<invites, requests, elsewhere, clock>>

CommitRemove(w) == LET j == job[w] IN
    /\ j.pc = "checked" /\ j.op = "remove"
    /\ WriteGuard(j) /\ MemberFence(j)
    /\ members' = [members EXCEPT ![j.p].removed = TRUE, ![j.p].rev = @ + 1]
    /\ Done(w)
    /\ UNCHANGED <<invites, requests, elsewhere, clock>>

-----------------------------------------------------------------------------
(* Issuing and revoking invitations.                                         *)

ReceiveInvite(w, a, i, role) ==
    /\ Governs(a)
    /\ MayManage(a, RowOf(a), role)
    /\ Cardinality(PendingInvites(clock)) < MaxInvites
    /\ invites[i] = Null
    /\ Start(w, [Begin("invite", a) EXCEPT !.now = clock, !.i = i, !.role = role])

CommitInvite(w) == LET j == job[w] IN
    /\ j.pc = "checked" /\ j.op = "invite"
    /\ invites[j.i] = Null          \* ids are random and do not repeat
    /\ WriteGuard(j)
    /\ Cardinality(PendingInvites(j.now)) < MaxInvites
    /\ invites' = [invites EXCEPT ![j.i] =
           [role |-> j.role, status |-> "pending", rev |-> 1, by |-> j.actor,
            byRev |-> RevOf(j.actor, j.self), until |-> j.now + InvitationAge, to |-> Null]]
    /\ Done(w)
    /\ UNCHANGED <<members, requests, elsewhere, clock>>

ReceiveRevoke(w, a, i) ==
    /\ Governs(a)
    /\ invites[i] # Null /\ invites[i].status = "pending"
    /\ MayManage(a, RowOf(a), invites[i].role)
    /\ Start(w, [Begin("revoke", a) EXCEPT !.i = i, !.invite = invites[i]])

CommitRevoke(w) == LET j == job[w] IN
    /\ j.pc = "checked" /\ j.op = "revoke"
    /\ WriteGuard(j)
    /\ invites[j.i].rev = j.invite.rev /\ invites[j.i].status = "pending"
    /\ invites' = [invites EXCEPT ![j.i].status = "revoked", ![j.i].rev = @ + 1]
    /\ Done(w)
    /\ UNCHANGED <<members, requests, elsewhere, clock>>

-----------------------------------------------------------------------------
(* An application: any signed-in person who has the link. The invitation is  *)
(* read first, everything else in a second batch.                            *)

ReceiveApply(w, p, i) ==
    /\ invites[i] # Null /\ invites[i].status = "pending" /\ invites[i].until >= clock
    /\ Start(w, [Begin("apply", p) EXCEPT !.pc = "read", !.now = clock, !.p = p, !.i = i, !.invite = invites[i]])

CheckApply(w) == LET j == job[w] IN
    /\ j.pc = "read" /\ j.op = "apply"
    /\ InviterAuthorized(j.invite)
    /\ ~Active(members[j.p])
    /\ requests[<<j.i, j.p>>] = Null
    /\ Cardinality(Applicants(j.i)) < MaxRequests
    /\ job' = [job EXCEPT ![w].pc = "checked"]
    /\ UNCHANGED <<tables, clock>>

CommitApply(w) == LET j == job[w] IN
    /\ j.pc = "checked" /\ j.op = "apply"
    /\ InvitationChecks(j)
    /\ Cardinality(Applicants(j.i)) < MaxRequests
    /\ requests[<<j.i, j.p>>] = Null
    /\ ~Active(members[j.p])
    /\ requests' = [requests EXCEPT ![<<j.i, j.p>>] = [status |-> "pending", rev |-> 1]]
    /\ Done(w)
    /\ UNCHANGED <<members, invites, elsewhere, clock>>

-----------------------------------------------------------------------------
(* The inviter's review of one application. An approval reads a second time, *)
(* to see the applicant's row and the limits, before its batch.              *)

Reviewable(a, i, p) ==
    /\ Governs(a)
    /\ invites[i] # Null /\ requests[<<i, p>>] # Null
    /\ invites[i].by = a
    /\ MayManage(a, RowOf(a), invites[i].role)
    /\ InviterAuthorized(invites[i])
    /\ invites[i].status = "pending" /\ invites[i].until >= clock
    /\ requests[<<i, p>>].status = "pending"

ReceiveReview(w, op, a, i, p) ==
    /\ Reviewable(a, i, p)
    /\ Start(w, [Begin(op, a) EXCEPT
           !.pc = IF op = "approve" THEN "read" ELSE "checked", !.now = clock,
           !.i = i, !.p = p, !.invite = invites[i], !.request = requests[<<i, p>>]])

CheckApprove(w) == LET j == job[w] IN
    /\ j.pc = "read" /\ j.op = "approve"
    /\ RowOf(j.actor) = j.self
    /\ ~Active(members[j.p])
    /\ Cardinality(MemberSet) < MaxMembers /\ Memberships(j.p) < MaxMembers
    /\ job' = [job EXCEPT ![w].pc = "checked", ![w].member = members[j.p]]
    /\ UNCHANGED <<tables, clock>>

RequestFence(j) ==
    LET r == requests[<<j.i, j.p>>] IN r # Null /\ r.status = "pending" /\ r.rev = j.request.rev

(* The limits, and the applicant's row as the second read found it.          *)
AdmissionFence(j) ==
    /\ Cardinality(MemberSet) < MaxMembers
    /\ Memberships(j.p) < MaxMembers
    /\ IF j.member = Null THEN members[j.p] = Null
       ELSE members[j.p] # Null /\ members[j.p].removed /\ members[j.p].rev = j.member.rev

CommitApprove(w) == LET j == job[w] IN
    /\ j.pc = "checked" /\ j.op = "approve"
    /\ WriteGuard(j) /\ InvitationChecks(j) /\ RequestFence(j) /\ AdmissionFence(j)
    /\ members' = [members EXCEPT ![j.p] =
           [role |-> j.invite.role, removed |-> FALSE,
            rev |-> IF j.member = Null THEN 1 ELSE j.member.rev + 1]]
    /\ invites' = [invites EXCEPT ![j.i].status = "accepted", ![j.i].rev = @ + 1, ![j.i].to = j.p]
    /\ requests' = [requests EXCEPT ![<<j.i, j.p>>] = [status |-> "approved", rev |-> @.rev + 1]]
    /\ Done(w)
    /\ UNCHANGED <<elsewhere, clock>>

CommitReject(w) == LET j == job[w] IN
    /\ j.pc = "checked" /\ j.op = "reject"
    /\ WriteGuard(j) /\ InvitationChecks(j) /\ RequestFence(j)
    /\ requests' = [requests EXCEPT ![<<j.i, j.p>>] = [status |-> "rejected", rev |-> @.rev + 1]]
    /\ Done(w)
    /\ UNCHANGED <<members, invites, elsewhere, clock>>

-----------------------------------------------------------------------------
(* The applicant's other workspaces, time, and requests that end early: a    *)
(* failed guard, a lost connection or a restart writes nothing.              *)

JoinElsewhere(p) ==
    /\ Memberships(p) < MaxMembers
    /\ elsewhere' = [elsewhere EXCEPT ![p] = @ + 1]
    /\ UNCHANGED <<members, invites, requests, clock, job>>

LeaveElsewhere(p) ==
    /\ elsewhere[p] > 0
    /\ elsewhere' = [elsewhere EXCEPT ![p] = @ - 1]
    /\ UNCHANGED <<members, invites, requests, clock, job>>

Tick == clock < MaxClock /\ clock' = clock + 1 /\ UNCHANGED <<tables, job>>

Abandon(w) == job[w] # Idle /\ Done(w) /\ UNCHANGED <<tables, clock>>

Receive(w) ==
    \/ \E a \in Actors, p \in People, role \in Roles : ReceiveMember(w, "role", a, p, role)
    \/ \E a \in Actors, p \in People : ReceiveMember(w, "remove", a, p, Null)
    \/ \E a \in Actors, i \in Invites, role \in Roles : ReceiveInvite(w, a, i, role)
    \/ \E a \in Actors, i \in Invites : ReceiveRevoke(w, a, i)
    \/ \E p \in People, i \in Invites : ReceiveApply(w, p, i)
    \/ \E op \in {"approve", "reject"}, a \in Actors, i \in Invites, p \in People :
           ReceiveReview(w, op, a, i, p)

Commit(w) ==
    \/ CommitRole(w) \/ CommitRemove(w)
    \/ CommitInvite(w) \/ CommitRevoke(w)
    \/ CommitApply(w) \/ CommitApprove(w) \/ CommitReject(w)

Next ==
    \/ \E w \in Workers : Receive(w) \/ CheckApply(w) \/ CheckApprove(w) \/ Commit(w) \/ Abandon(w)
    \/ \E p \in People : JoinElsewhere(p) \/ LeaveElsewhere(p)
    \/ Tick

Spec == Init /\ [][Next]_vars

-----------------------------------------------------------------------------
(* Properties.                                                               *)

Approved(i) == {p \in People : requests[<<i, p>>] # Null /\ requests[<<i, p>>].status = "approved"}

\* One link admits one person: an invitation is accepted exactly when one
\* application for it is approved, and it names that applicant, however many
\* reviews of it were under way (_review's batch).
OneAdmission ==
    \A i \in Invites :
        Approved(i) = IF invites[i] # Null /\ invites[i].status = "accepted" THEN {invites[i].to} ELSE {}

\* The links open at any one time are at most MAX_INVITES, although each request
\* counts them at the time it arrived.
OpenLinksBounded == Cardinality(PendingInvites(clock)) <= MaxInvites

\* Concurrent approvals, here and in the applicant's other workspaces, cannot pass
\* the limits their reads found room in (_review, the two counts of its batch).
LimitsHold ==
    /\ Cardinality(MemberSet) <= MaxMembers
    /\ \A p \in People : Memberships(p) <= MaxMembers
    /\ OpenLinksBounded

\* The inbox lists, and canReview promises, exactly the applications that a review
\* arriving now would not refuse: three separately written conditions agree.
InboxIsReviewable == \A a \in Actors :
    /\ Inbox(a) = {ip \in Invites \X People : Reviewable(a, ip[1], ip[2])}
    /\ \A ip \in Inbox(a) : CanReview(a, ip[1])

\* Members, invitations and applications agree with each other, with their limits and
\* with what each administrator is shown: one admission per link, no member too many
\* when approvals land together, an inbox of exactly what can be reviewed.
Consistent == TypeOK /\ OneAdmission /\ LimitsHold /\ InboxIsReviewable

Link(row) ==
    IF row = Null THEN Null
    ELSE [role |-> row.role, status |-> row.status, rev |-> row.rev,
          by |-> row.by, byRev |-> row.byRev, to |-> row.to]

Council == INSTANCE AtomicGovernance WITH
    Owner <- Owner, People <- People, Invites <- Invites, Roles <- Roles,
    MaxMembers <- MaxMembers, MaxRequests <- MaxRequests, Null <- Null,
    member    <- members,
    invite    <- [i \in Invites |-> Link(invites[i])],
    request   <- requests,
    elsewhere <- elsewhere

\* Governance is what a server without concurrent requests would decide: whoever
\* changes a role, removes, invites, revokes or reviews holds that authority, and
\* the inviter still stands behind the link, in the step that writes.
ImplementsAtomicGovernance == Council!AtomicSpec
=============================================================================
