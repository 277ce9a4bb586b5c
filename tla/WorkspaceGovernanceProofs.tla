---------------------- MODULE WorkspaceGovernanceProofs ----------------------
(***************************************************************************)
(* Theorems about the membership handlers, for every set of people, links,  *)
(* roles and concurrent requests and for every limit. The invariant adds to *)
(* Consistent what a request knows from its reads at each point.            *)
(***************************************************************************)
EXTENDS WorkspaceGovernance, FiniteSetTheorems, TLAPS

(* What a request in flight has read, and that its link is still the one it *)
(* read: a link keeps its role and is never deleted.                        *)
JobShape(j) ==
    /\ j.now <= clock
    /\ j.pc # "idle" => j.op # "none"
    /\ j.op \in {"role", "remove", "invite", "revoke", "approve", "reject"} /\ j.actor # Owner
         => j.self \in MemberRow
    /\ j.op \in {"role", "remove"} =>
         j.p \in People /\ j.member \in MemberRow /\ MayManage(j.actor, j.self, j.member.role)
    /\ j.op \in {"role", "invite"} => j.role \in Roles /\ MayManage(j.actor, j.self, j.role)
    /\ j.op \in {"invite", "revoke", "apply", "approve", "reject"} => j.i \in Invites
    /\ j.op \in {"revoke", "apply", "approve", "reject"} =>
         j.invite \in InviteRow /\ invites[j.i] # Null /\ invites[j.i].role = j.invite.role
    /\ j.op \in {"revoke", "approve", "reject"} => MayManage(j.actor, j.self, j.invite.role)
    /\ j.op \in {"apply", "approve", "reject"} => j.p \in People
    /\ j.op = "apply" /\ j.pc = "checked" /\ j.invite.by # Owner => j.invite.role # "admin"
    /\ j.op \in {"approve", "reject"} => j.request \in RequestRow /\ j.invite.by = j.actor

Shaped == TypeOK /\ \A w \in Workers : JobShape(job[w])
IInv == Shaped /\ OneAdmission /\ LimitsHold

-----------------------------------------------------------------------------
(* Types and shapes.                                                        *)

LEMMA IdleShape == Idle \in Job /\ (clock \in Nat => JobShape(Idle))
<1>1. Idle \in Job
    BY SMTT(30) DEF Idle, Job, Actors
<1>2. Idle.op = "none" /\ Idle.pc = "idle" /\ Idle.now = 0
    BY DEF Idle
<1> QED BY <1>1, <1>2 DEF JobShape

LEMMA BeginType ==
    ASSUME TypeOK, NEW op \in {"role", "remove", "invite", "revoke", "apply", "approve", "reject"},
           NEW a \in Actors
    PROVE  Begin(op, a) \in Job
<1>1. RowOf(a) \in MemberRow \cup {Null}
    BY DEF RowOf, TypeOK, Actors
<1> QED BY <1>1, IdleShape, ZenonT(60) DEF Begin, Job

LEMMA BeginFields ==
    ASSUME NEW op, NEW a
    PROVE  /\ Begin(op, a).pc = "checked" /\ Begin(op, a).op = op /\ Begin(op, a).actor = a
           /\ Begin(op, a).self = RowOf(a) /\ Begin(op, a).now = 0
BY DEF Begin, Idle

(* Starting a request changes no table.                                     *)
LEMMA StartShape ==
    ASSUME Shaped, NEW w \in Workers, NEW j \in Job, JobShape(j), Start(w, j)
    PROVE  Shaped'
<1>1. UNCHANGED <<members, invites, requests, elsewhere, clock>> /\ job' = [job EXCEPT ![w] = j]
    BY DEF Start, tables
<1>2. TypeOK'
    BY <1>1 DEF Shaped, TypeOK
<1>3. ASSUME NEW v \in Workers PROVE JobShape(job[v])'
  <2>1. job'[v] = IF v = w THEN j ELSE job[v]
    BY <1>1 DEF Shaped, TypeOK
  <2> QED BY <1>1, <2>1 DEF Shaped, JobShape
<1> QED BY <1>2, <1>3 DEF Shaped

(* Ending one keeps the shapes of the others as long as links keep theirs.  *)
LEMMA DoneShape ==
    ASSUME Shaped, NEW w \in Workers, Done(w), TypeOK', clock' = clock,
           \A i \in Invites : invites[i] # Null => invites'[i] # Null /\ invites'[i].role = invites[i].role
    PROVE  Shaped'
<1>1. job' = [job EXCEPT ![w] = Idle]
    BY DEF Done
<1>2. ASSUME NEW v \in Workers PROVE JobShape(job[v])'
  <2>1. job'[v] = IF v = w THEN Idle ELSE job[v]
    BY <1>1 DEF Shaped, TypeOK
  <2>2. CASE v = w
    <3>1. Idle.op = "none" /\ Idle.pc = "idle" /\ Idle.now = 0 /\ clock \in Nat
      BY DEF Idle, Shaped, TypeOK
    <3> QED BY <2>1, <2>2, <3>1 DEF JobShape
  <2>3. CASE v # w
    <3>1. job'[v] = job[v] /\ JobShape(job[v])
      BY <2>1, <2>3 DEF Shaped
    <3> QED BY <3>1 DEF JobShape
  <2> QED BY <2>2, <2>3
<1> QED BY <1>2 DEF Shaped

LEMMA DoneType == ASSUME TypeOK, NEW w \in Workers, Done(w) PROVE job' \in [Workers -> Job]
BY IdleShape DEF Done, TypeOK

-----------------------------------------------------------------------------
(* Requests that arrive, and their second reads.                            *)

LEMMA ReceiveShape == ASSUME Shaped, NEW w \in Workers, Receive(w) PROVE Shaped'
<1>0. TypeOK /\ clock \in Nat
    BY DEF Shaped, TypeOK
<1>1. ASSUME NEW a \in Actors, NEW p \in People, NEW role \in Roles, ReceiveMember(w, "role", a, p, role)
      PROVE  Shaped'
  <2> DEFINE b == Begin("role", a)
  <2>0. b \in Job /\ b.pc = "checked" /\ b.op = "role" /\ b.actor = a /\ b.self = RowOf(a) /\ b.now = 0
    BY <1>0, BeginType, BeginFields DEF Actors
  <2> HIDE DEF b
  <2> DEFINE j == [b EXCEPT !.p = p, !.role = role, !.member = members[p]]
  <2>1. members[p] \in MemberRow /\ (a # Owner => RowOf(a) \in MemberRow)
    BY <1>0, <1>1 DEF ReceiveMember, Active, Governs, RowOf, TypeOK, Actors
  <2>5. p \in People \cup {Null} /\ role \in Roles \cup {Null} /\ members[p] \in MemberRow \cup {Null}
    BY <2>1
  <2>2. j \in Job
    BY <2>0, <2>5, ZenonT(60) DEF Job
  <2>3. /\ j.op = "role" /\ j.pc = "checked" /\ j.actor = a /\ j.self = RowOf(a) /\ j.now = 0
        /\ j.p = p /\ j.role = role /\ j.member = members[p]
    BY <2>0, SMT DEF Job
  <2> HIDE DEF j
  <2>4. JobShape(j)
    BY <1>0, <1>1, <2>1, <2>3 DEF JobShape, ReceiveMember
  <2> QED BY <1>1, <2>2, <2>4, StartShape DEF ReceiveMember, j, b
<1>2. ASSUME NEW a \in Actors, NEW p \in People, ReceiveMember(w, "remove", a, p, Null) PROVE Shaped'
  <2> DEFINE b == Begin("remove", a)
  <2>0. b \in Job /\ b.pc = "checked" /\ b.op = "remove" /\ b.actor = a /\ b.self = RowOf(a) /\ b.now = 0
    BY <1>0, BeginType, BeginFields DEF Actors
  <2> HIDE DEF b
  <2> DEFINE j == [b EXCEPT !.p = p, !.role = Null, !.member = members[p]]
  <2>1. members[p] \in MemberRow /\ (a # Owner => RowOf(a) \in MemberRow)
    BY <1>0, <1>2 DEF ReceiveMember, Active, Governs, RowOf, TypeOK, Actors
  <2>5. p \in People \cup {Null} /\ Null \in Roles \cup {Null} /\ members[p] \in MemberRow \cup {Null}
    BY <2>1
  <2>2. j \in Job
    BY <2>0, <2>5, ZenonT(60) DEF Job
  <2>3. /\ j.op = "remove" /\ j.pc = "checked" /\ j.actor = a /\ j.self = RowOf(a) /\ j.now = 0
        /\ j.p = p /\ j.member = members[p]
    BY <2>0, SMT DEF Job
  <2> HIDE DEF j
  <2>4. JobShape(j)
    BY <1>0, <1>2, <2>1, <2>3 DEF JobShape, ReceiveMember
  <2> QED BY <1>2, <2>2, <2>4, StartShape DEF ReceiveMember, j, b
<1>3. ASSUME NEW a \in Actors, NEW i \in Invites, NEW role \in Roles, ReceiveInvite(w, a, i, role)
      PROVE  Shaped'
  <2> DEFINE b == Begin("invite", a)
  <2>0. b \in Job /\ b.pc = "checked" /\ b.op = "invite" /\ b.actor = a /\ b.self = RowOf(a) /\ b.now = 0
    BY <1>0, BeginType, BeginFields DEF Actors
  <2> HIDE DEF b
  <2> DEFINE j == [b EXCEPT !.now = clock, !.i = i, !.role = role]
  <2>1. a # Owner => RowOf(a) \in MemberRow
    BY <1>0, <1>3 DEF ReceiveInvite, Active, Governs, RowOf, TypeOK, Actors
  <2>5. clock \in Nat /\ i \in Invites \cup {Null} /\ role \in Roles \cup {Null}
    BY <1>0
  <2>2. j \in Job
    BY <2>0, <2>5, ZenonT(60) DEF Job
  <2>3. /\ j.op = "invite" /\ j.pc = "checked" /\ j.actor = a /\ j.self = RowOf(a) /\ j.now = clock
        /\ j.i = i /\ j.role = role
    BY <2>0, SMT DEF Job
  <2> HIDE DEF j
  <2>4. JobShape(j)
    BY <1>0, <1>3, <2>1, <2>3 DEF JobShape, ReceiveInvite
  <2> QED BY <1>3, <2>2, <2>4, StartShape DEF ReceiveInvite, j, b
<1>4. ASSUME NEW a \in Actors, NEW i \in Invites, ReceiveRevoke(w, a, i) PROVE Shaped'
  <2> DEFINE b == Begin("revoke", a)
  <2>0. b \in Job /\ b.pc = "checked" /\ b.op = "revoke" /\ b.actor = a /\ b.self = RowOf(a) /\ b.now = 0
    BY <1>0, BeginType, BeginFields DEF Actors
  <2> HIDE DEF b
  <2> DEFINE j == [b EXCEPT !.i = i, !.invite = invites[i]]
  <2>1. invites[i] \in InviteRow /\ (a # Owner => RowOf(a) \in MemberRow)
    BY <1>0, <1>4 DEF ReceiveRevoke, Active, Governs, RowOf, TypeOK, Actors
  <2>5. i \in Invites \cup {Null} /\ invites[i] \in InviteRow \cup {Null}
    BY <2>1
  <2>2. j \in Job
    BY <2>0, <2>5, ZenonT(60) DEF Job
  <2>3. /\ j.op = "revoke" /\ j.pc = "checked" /\ j.actor = a /\ j.self = RowOf(a) /\ j.now = 0
        /\ j.i = i /\ j.invite = invites[i]
    BY <2>0, SMT DEF Job
  <2> HIDE DEF j
  <2>4. JobShape(j)
    BY <1>0, <1>4, <2>1, <2>3 DEF JobShape, ReceiveRevoke
  <2> QED BY <1>4, <2>2, <2>4, StartShape DEF ReceiveRevoke, j, b
<1>5. ASSUME NEW p \in People, NEW i \in Invites, ReceiveApply(w, p, i) PROVE Shaped'
  <2> DEFINE b == Begin("apply", p)
  <2>0. b \in Job /\ b.pc = "checked" /\ b.op = "apply" /\ b.actor = p /\ b.self = RowOf(p) /\ b.now = 0
    BY <1>0, BeginType, BeginFields DEF Actors
  <2> HIDE DEF b
  <2> DEFINE j == [b EXCEPT !.pc = "read", !.now = clock, !.p = p, !.i = i, !.invite = invites[i]]
  <2>1. invites[i] \in InviteRow /\ p \in Actors
    BY <1>0, <1>5 DEF ReceiveApply, TypeOK, Actors
  <2>5. "read" \in {"idle", "read", "checked"} /\ clock \in Nat /\ p \in People \cup {Null}
        /\ i \in Invites \cup {Null} /\ invites[i] \in InviteRow \cup {Null}
    BY <1>0, <2>1
  <2>2. j \in Job
    BY <2>0, <2>5, ZenonT(60) DEF Job
  <2>3. /\ j.op = "apply" /\ j.pc = "read" /\ j.actor = p /\ j.now = clock
        /\ j.p = p /\ j.i = i /\ j.invite = invites[i]
    BY <2>0, SMT DEF Job
  <2> HIDE DEF j
  <2>4. JobShape(j)
    BY <1>0, <1>5, <2>1, <2>3 DEF JobShape, ReceiveApply
  <2> QED BY <1>5, <2>2, <2>4, StartShape DEF ReceiveApply, j, b
<1>6. ASSUME NEW op \in {"approve", "reject"}, NEW a \in Actors, NEW i \in Invites, NEW p \in People,
             ReceiveReview(w, op, a, i, p)
      PROVE  Shaped'
  <2> DEFINE b == Begin(op, a)
  <2>0. b \in Job /\ b.pc = "checked" /\ b.op = op /\ b.actor = a /\ b.self = RowOf(a) /\ b.now = 0
    BY <1>0, BeginType, BeginFields DEF Actors
  <2> HIDE DEF b
  <2> DEFINE j == [b EXCEPT
           !.pc = IF op = "approve" THEN "read" ELSE "checked", !.now = clock,
           !.i = i, !.p = p, !.invite = invites[i], !.request = requests[<<i, p>>]]
  <2>1. /\ invites[i] \in InviteRow /\ (a # Owner => RowOf(a) \in MemberRow)
        /\ requests[<<i, p>>] \in RequestRow
    BY <1>0, <1>6 DEF ReceiveReview, Reviewable, Active, Governs, RowOf, TypeOK, Actors
  <2>5. (IF op = "approve" THEN "read" ELSE "checked") \in {"idle", "read", "checked"} /\ clock \in Nat
        /\ p \in People \cup {Null} /\ i \in Invites \cup {Null} /\ invites[i] \in InviteRow \cup {Null}
        /\ requests[<<i, p>>] \in RequestRow \cup {Null}
    BY <1>0, <2>1
  <2>2. j \in Job
    BY <2>0, <2>5, ZenonT(90) DEF Job
  <2>3. /\ j.op = op /\ j.actor = a /\ j.self = RowOf(a) /\ j.now = clock
        /\ j.p = p /\ j.i = i /\ j.invite = invites[i] /\ j.request = requests[<<i, p>>]
        /\ j.pc # "idle"
    BY <2>0, SMT DEF Job
  <2> HIDE DEF j
  <2>4. JobShape(j)
    BY <1>0, <1>6, <2>1, <2>3 DEF JobShape, ReceiveReview, Reviewable
  <2> QED BY <1>6, <2>2, <2>4, StartShape DEF ReceiveReview, j, b
<1> QED BY <1>1, <1>2, <1>3, <1>4, <1>5, <1>6 DEF Receive

LEMMA CheckApplyShape == ASSUME Shaped, NEW w \in Workers, CheckApply(w) PROVE Shaped'
<1> DEFINE j == job[w]
<1>1. j \in Job /\ JobShape(j) /\ j.pc = "read" /\ j.op = "apply"
    BY DEF CheckApply, Shaped, TypeOK
<1> DEFINE k == [j EXCEPT !.pc = "checked"]
<1>2. job' = [job EXCEPT ![w] = k] /\ UNCHANGED <<members, invites, requests, elsewhere, clock>>
    BY DEF CheckApply, tables
<1>3. j.invite.by # Owner => j.invite.role # "admin"
    BY DEF CheckApply, InviterAuthorized
<1> HIDE DEF j
<1>4. "checked" \in {"idle", "read", "checked"}
    OBVIOUS
<1>5. k \in Job
    BY <1>1, <1>4, ZenonT(60) DEF Job
<1>6. /\ k.op = j.op /\ k.pc = "checked" /\ k.actor = j.actor /\ k.now = j.now /\ k.self = j.self
      /\ k.i = j.i /\ k.p = j.p /\ k.role = j.role /\ k.member = j.member /\ k.invite = j.invite
      /\ k.request = j.request
    BY <1>1, SMT DEF Job
<1> HIDE DEF k
<1>7. JobShape(k)
    BY <1>1, <1>3, <1>6 DEF JobShape
<1>8. TypeOK'
    BY <1>2, <1>5 DEF Shaped, TypeOK
<1>9. ASSUME NEW v \in Workers PROVE JobShape(job[v])'
  <2>1. job'[v] = IF v = w THEN k ELSE job[v]
    BY <1>2 DEF Shaped, TypeOK
  <2> QED BY <1>2, <1>7, <2>1 DEF Shaped, JobShape
<1> QED BY <1>8, <1>9 DEF Shaped

LEMMA CheckApproveShape == ASSUME Shaped, NEW w \in Workers, CheckApprove(w) PROVE Shaped'
<1> DEFINE j == job[w]
<1>1. j \in Job /\ JobShape(j) /\ j.pc = "read" /\ j.op = "approve" /\ j.p \in People
    BY DEF CheckApprove, Shaped, TypeOK, JobShape
<1> DEFINE k == [j EXCEPT !.pc = "checked", !.member = members[j.p]]
<1>2. job' = [job EXCEPT ![w] = k] /\ UNCHANGED <<members, invites, requests, elsewhere, clock>>
    BY DEF CheckApprove, tables
<1> HIDE DEF j
<1>4. "checked" \in {"idle", "read", "checked"} /\ members[j.p] \in MemberRow \cup {Null}
    BY <1>1 DEF Shaped, TypeOK
<1>5. k \in Job
    BY <1>1, <1>4, ZenonT(60) DEF Job
<1>6. /\ k.op = j.op /\ k.pc = "checked" /\ k.actor = j.actor /\ k.now = j.now /\ k.self = j.self
      /\ k.i = j.i /\ k.p = j.p /\ k.role = j.role /\ k.invite = j.invite /\ k.request = j.request
    BY <1>1, SMT DEF Job
<1> HIDE DEF k
<1>7. JobShape(k)
    BY <1>1, <1>6 DEF JobShape
<1>8. TypeOK'
    BY <1>2, <1>5 DEF Shaped, TypeOK
<1>9. ASSUME NEW v \in Workers PROVE JobShape(job[v])'
  <2>1. job'[v] = IF v = w THEN k ELSE job[v]
    BY <1>2 DEF Shaped, TypeOK
  <2> QED BY <1>2, <1>7, <2>1 DEF Shaped, JobShape
<1> QED BY <1>8, <1>9 DEF Shaped

-----------------------------------------------------------------------------
(* Batches: the row each one writes.                                        *)

LEMMA RoleWrites ==
    ASSUME Shaped, NEW w \in Workers, CommitRole(w)
    PROVE  LET j == job[w]  row == [members[j.p] EXCEPT !.role = j.role, !.rev = @ + 1] IN
           /\ j.p \in People /\ members[j.p] \in MemberRow /\ row \in MemberRow
           /\ row.removed = members[j.p].removed
           /\ members' = [members EXCEPT ![j.p] = row] /\ Shaped'
<1> DEFINE j == job[w]
<1>1. /\ j \in Job /\ JobShape(j) /\ j.op = "role" /\ MemberFence(j)
      /\ members' = [members EXCEPT ![j.p].role = j.role, ![j.p].rev = @ + 1]
      /\ Done(w) /\ UNCHANGED <<invites, requests, elsewhere, clock>>
    BY DEF CommitRole, Shaped, TypeOK
<1> HIDE DEF j
<1>2. j.p \in People /\ j.role \in Roles /\ members[j.p] \in MemberRow
    BY <1>1 DEF JobShape, MemberFence, Active, Shaped, TypeOK
<1> DEFINE row == [members[j.p] EXCEPT !.role = j.role, !.rev = @ + 1]
<1>3. members[j.p].rev + 1 \in Nat
    BY <1>2 DEF MemberRow
<1>4. row \in MemberRow
    BY <1>2, <1>3, ZenonT(60) DEF MemberRow
<1>5. members' = [members EXCEPT ![j.p] = row]
    BY <1>1, <1>2 DEF Shaped, TypeOK
<1>9. row.removed = members[j.p].removed
    BY <1>2 DEF MemberRow
<1> HIDE DEF row
<1>6. TypeOK'
    BY <1>1, <1>2, <1>4, <1>5, DoneType DEF Shaped, TypeOK
<1>7. Shaped'
    BY <1>1, <1>6, DoneShape
<1> QED BY <1>2, <1>4, <1>5, <1>7, <1>9 DEF j, row

LEMMA RemoveWrites ==
    ASSUME Shaped, NEW w \in Workers, CommitRemove(w)
    PROVE  LET j == job[w]  row == [members[j.p] EXCEPT !.removed = TRUE, !.rev = @ + 1] IN
           /\ j.p \in People /\ members[j.p] \in MemberRow /\ row \in MemberRow /\ row.removed
           /\ members' = [members EXCEPT ![j.p] = row] /\ Shaped'
<1> DEFINE j == job[w]
<1>1. /\ j \in Job /\ JobShape(j) /\ j.op = "remove" /\ MemberFence(j)
      /\ members' = [members EXCEPT ![j.p].removed = TRUE, ![j.p].rev = @ + 1]
      /\ Done(w) /\ UNCHANGED <<invites, requests, elsewhere, clock>>
    BY DEF CommitRemove, Shaped, TypeOK
<1> HIDE DEF j
<1>2. j.p \in People /\ members[j.p] \in MemberRow /\ TRUE \in BOOLEAN
    BY <1>1 DEF JobShape, MemberFence, Active, Shaped, TypeOK
<1> DEFINE row == [members[j.p] EXCEPT !.removed = TRUE, !.rev = @ + 1]
<1>3. members[j.p].rev + 1 \in Nat
    BY <1>2 DEF MemberRow
<1>4. row \in MemberRow
    BY <1>2, <1>3, ZenonT(60) DEF MemberRow
<1>5. members' = [members EXCEPT ![j.p] = row]
    BY <1>1, <1>2 DEF Shaped, TypeOK
<1>9. row.removed
    BY <1>2 DEF MemberRow
<1> HIDE DEF row
<1>6. TypeOK'
    BY <1>1, <1>2, <1>4, <1>5, DoneType DEF Shaped, TypeOK
<1>7. Shaped'
    BY <1>1, <1>6, DoneShape
<1> QED BY <1>2, <1>4, <1>5, <1>7, <1>9 DEF j, row

LEMMA InviteWrites ==
    ASSUME Shaped, NEW w \in Workers, CommitInvite(w)
    PROVE  LET j == job[w]
               row == [role |-> j.role, status |-> "pending", rev |-> 1, by |-> j.actor,
                       byRev |-> RevOf(j.actor, j.self), until |-> j.now + InvitationAge, to |-> Null] IN
           /\ j.i \in Invites /\ j.now \in Nat /\ j.now <= clock /\ row \in InviteRow
           /\ invites' = [invites EXCEPT ![j.i] = row] /\ Shaped'
<1> DEFINE j == job[w]
<1>1. /\ j \in Job /\ JobShape(j) /\ j.op = "invite" /\ invites[j.i] = Null
      /\ invites' = [invites EXCEPT ![j.i] =
           [role |-> j.role, status |-> "pending", rev |-> 1, by |-> j.actor,
            byRev |-> RevOf(j.actor, j.self), until |-> j.now + InvitationAge, to |-> Null]]
      /\ Done(w) /\ UNCHANGED <<members, requests, elsewhere, clock>>
    BY DEF CommitInvite, Shaped, TypeOK
<1> HIDE DEF j
<1>2. /\ j.i \in Invites /\ j.role \in Roles /\ j.actor \in Actors /\ j.now \in Nat /\ j.now <= clock
      /\ j.actor # Owner => j.self \in MemberRow
    BY <1>1 DEF JobShape, Job
<1> DEFINE row == [role |-> j.role, status |-> "pending", rev |-> 1, by |-> j.actor,
                   byRev |-> RevOf(j.actor, j.self), until |-> j.now + InvitationAge, to |-> Null]
<1>3. RevOf(j.actor, j.self) \in Nat /\ j.now + InvitationAge \in Nat
    BY <1>2, GovernanceAssumption DEF RevOf, MemberRow
<1>4. row \in InviteRow
    BY <1>2, <1>3 DEF InviteRow
<1>5. invites' = [invites EXCEPT ![j.i] = row]
    BY <1>1
<1> HIDE DEF row
<1>6. TypeOK'
    BY <1>1, <1>2, <1>4, <1>5, DoneType DEF Shaped, TypeOK
<1>7. ASSUME NEW i \in Invites, invites[i] # Null
      PROVE  invites'[i] # Null /\ invites'[i].role = invites[i].role
    BY <1>1, <1>2, <1>5, <1>7 DEF Shaped, TypeOK
<1>8. Shaped'
    BY <1>1, <1>6, <1>7, DoneShape
<1> QED BY <1>2, <1>4, <1>5, <1>8 DEF j, row

LEMMA RevokeWrites ==
    ASSUME Shaped, NEW w \in Workers, CommitRevoke(w)
    PROVE  LET j == job[w]  row == [invites[j.i] EXCEPT !.status = "revoked", !.rev = @ + 1] IN
           /\ j.i \in Invites /\ invites[j.i] \in InviteRow /\ row \in InviteRow
           /\ row.status = "revoked" /\ row.role = invites[j.i].role
           /\ invites' = [invites EXCEPT ![j.i] = row] /\ Shaped'
<1> DEFINE j == job[w]
<1>1. /\ j \in Job /\ JobShape(j) /\ j.op = "revoke"
      /\ invites' = [invites EXCEPT ![j.i].status = "revoked", ![j.i].rev = @ + 1]
      /\ Done(w) /\ UNCHANGED <<members, requests, elsewhere, clock>>
    BY DEF CommitRevoke, Shaped, TypeOK
<1> HIDE DEF j
<1>2. j.i \in Invites /\ invites[j.i] \in InviteRow /\ "revoked" \in {"pending", "accepted", "revoked"}
    BY <1>1 DEF JobShape, Shaped, TypeOK
<1> DEFINE row == [invites[j.i] EXCEPT !.status = "revoked", !.rev = @ + 1]
<1>3. invites[j.i].rev + 1 \in Nat
    BY <1>2 DEF InviteRow
<1>4. row \in InviteRow
    BY <1>2, <1>3, ZenonT(60) DEF InviteRow
<1>5. invites' = [invites EXCEPT ![j.i] = row]
    BY <1>1, <1>2 DEF Shaped, TypeOK
<1>9. row.status = "revoked" /\ row.role = invites[j.i].role
    BY <1>2 DEF InviteRow
<1>10. row # Null
    BY <1>4, NullAssumption
<1> HIDE DEF row
<1>6. TypeOK'
    BY <1>1, <1>2, <1>4, <1>5, DoneType DEF Shaped, TypeOK
<1>7. ASSUME NEW i \in Invites, invites[i] # Null
      PROVE  invites'[i] # Null /\ invites'[i].role = invites[i].role
    BY <1>1, <1>2, <1>5, <1>7, <1>9, <1>10 DEF Shaped, TypeOK
<1>8. Shaped'
    BY <1>1, <1>6, <1>7, DoneShape
<1> QED BY <1>2, <1>4, <1>5, <1>8, <1>9 DEF j, row

LEMMA ApplyWrites ==
    ASSUME Shaped, NEW w \in Workers, CommitApply(w)
    PROVE  LET j == job[w]  row == [status |-> "pending", rev |-> 1] IN
           /\ j.i \in Invites /\ j.p \in People /\ row \in RequestRow
           /\ requests' = [requests EXCEPT ![<<j.i, j.p>>] = row] /\ Shaped'
<1> DEFINE j == job[w]
<1>1. /\ j \in Job /\ JobShape(j) /\ j.op = "apply"
      /\ requests' = [requests EXCEPT ![<<j.i, j.p>>] = [status |-> "pending", rev |-> 1]]
      /\ Done(w) /\ UNCHANGED <<members, invites, elsewhere, clock>>
    BY DEF CommitApply, Shaped, TypeOK
<1> HIDE DEF j
<1>2. j.i \in Invites /\ j.p \in People
    BY <1>1 DEF JobShape
<1>3. [status |-> "pending", rev |-> 1] \in RequestRow
    BY DEF RequestRow
<1>4. TypeOK'
    BY <1>1, <1>2, <1>3, DoneType DEF Shaped, TypeOK
<1>5. Shaped'
    BY <1>1, <1>4, DoneShape
<1> QED BY <1>1, <1>2, <1>3, <1>5 DEF j

LEMMA RejectWrites ==
    ASSUME Shaped, NEW w \in Workers, CommitReject(w)
    PROVE  LET j == job[w]
               row == [status |-> "rejected", rev |-> requests[<<j.i, j.p>>].rev + 1] IN
           /\ j.i \in Invites /\ j.p \in People /\ requests[<<j.i, j.p>>] \in RequestRow
           /\ requests[<<j.i, j.p>>].status = "pending" /\ row \in RequestRow
           /\ requests' = [requests EXCEPT ![<<j.i, j.p>>] = row] /\ Shaped'
<1> DEFINE j == job[w]
<1>1. /\ j \in Job /\ JobShape(j) /\ j.op = "reject" /\ RequestFence(j)
      /\ requests' = [requests EXCEPT ![<<j.i, j.p>>] = [status |-> "rejected", rev |-> @.rev + 1]]
      /\ Done(w) /\ UNCHANGED <<members, invites, elsewhere, clock>>
    BY DEF CommitReject, Shaped, TypeOK
<1> HIDE DEF j
<1>2. /\ j.i \in Invites /\ j.p \in People /\ requests[<<j.i, j.p>>] \in RequestRow
      /\ requests[<<j.i, j.p>>].status = "pending"
    BY <1>1 DEF JobShape, RequestFence, Shaped, TypeOK
<1> DEFINE row == [status |-> "rejected", rev |-> requests[<<j.i, j.p>>].rev + 1]
<1>3. row \in RequestRow
    BY <1>2 DEF RequestRow
<1>4. requests' = [requests EXCEPT ![<<j.i, j.p>>] = row]
    BY <1>1
<1> HIDE DEF row
<1>5. TypeOK'
    BY <1>1, <1>2, <1>3, <1>4, DoneType DEF Shaped, TypeOK
<1>6. Shaped'
    BY <1>1, <1>5, DoneShape
<1> QED BY <1>2, <1>3, <1>4, <1>6 DEF j, row

(* An approval writes a member, the accepted link and the application.      *)
LEMMA ApproveWrites ==
    ASSUME Shaped, NEW w \in Workers, CommitApprove(w)
    PROVE  LET j == job[w]
               new  == [role |-> j.invite.role, removed |-> FALSE,
                        rev |-> IF j.member = Null THEN 1 ELSE j.member.rev + 1]
               link == [invites[j.i] EXCEPT !.status = "accepted", !.rev = @ + 1, !.to = j.p]
               done == [status |-> "approved", rev |-> requests[<<j.i, j.p>>].rev + 1] IN
           /\ j.i \in Invites /\ j.p \in People /\ invites[j.i] = j.invite /\ j.invite \in InviteRow
           /\ requests[<<j.i, j.p>>] \in RequestRow
           /\ new \in MemberRow
           /\ link \in InviteRow /\ link.status = "accepted" /\ link.to = j.p
           /\ link.role = invites[j.i].role /\ link.until = invites[j.i].until
           /\ done \in RequestRow
           /\ members' = [members EXCEPT ![j.p] = new]
           /\ invites' = [invites EXCEPT ![j.i] = link]
           /\ requests' = [requests EXCEPT ![<<j.i, j.p>>] = done]
           /\ Shaped'
<1> DEFINE j == job[w]
           new  == [role |-> j.invite.role, removed |-> FALSE,
                    rev |-> IF j.member = Null THEN 1 ELSE j.member.rev + 1]
           link == [invites[j.i] EXCEPT !.status = "accepted", !.rev = @ + 1, !.to = j.p]
           done == [status |-> "approved", rev |-> requests[<<j.i, j.p>>].rev + 1]
<1>1. /\ j \in Job /\ JobShape(j) /\ j.op = "approve" /\ RequestFence(j) /\ InvitationChecks(j)
      /\ members' = [members EXCEPT ![j.p] = new]
      /\ invites' = [invites EXCEPT ![j.i].status = "accepted", ![j.i].rev = @ + 1, ![j.i].to = j.p]
      /\ requests' = [requests EXCEPT ![<<j.i, j.p>>] = [status |-> "approved", rev |-> @.rev + 1]]
      /\ Done(w) /\ UNCHANGED <<elsewhere, clock>>
    BY DEF CommitApprove, Shaped, TypeOK
<1>2. j.member \in MemberRow \cup {Null}
    BY <1>1 DEF Job
<1> HIDE DEF j
<1>3. /\ j.i \in Invites /\ j.p \in People /\ invites[j.i] = j.invite /\ j.invite \in InviteRow
      /\ requests[<<j.i, j.p>>] \in RequestRow
    BY <1>1 DEF JobShape, RequestFence, InvitationChecks, Shaped, TypeOK
<1>4. new \in MemberRow
    BY <1>2, <1>3 DEF MemberRow, InviteRow
<1>5. done \in RequestRow
    BY <1>3 DEF RequestRow
<1>6. /\ invites[j.i].rev + 1 \in Nat /\ "accepted" \in {"pending", "accepted", "revoked"}
      /\ j.p \in People \cup {Null} /\ invites[j.i] \in InviteRow
    BY <1>3 DEF InviteRow
<1>7. link \in InviteRow
    BY <1>6, ZenonT(60) DEF InviteRow
<1>8. /\ link.status = "accepted" /\ link.to = j.p
      /\ link.role = invites[j.i].role /\ link.until = invites[j.i].until
    BY <1>6 DEF InviteRow
<1>9. invites' = [invites EXCEPT ![j.i] = link]
    BY <1>1, <1>3 DEF Shaped, TypeOK
<1>10. requests' = [requests EXCEPT ![<<j.i, j.p>>] = done]
    BY <1>1
<1>11. link # Null
    BY <1>7, NullAssumption
<1>12. members' = [members EXCEPT ![j.p] = new]
    BY <1>1
<1> HIDE DEF new, link, done
<1>13. TypeOK'
    BY <1>1, <1>3, <1>4, <1>5, <1>7, <1>9, <1>10, <1>12, DoneType DEF Shaped, TypeOK
<1>14. ASSUME NEW i \in Invites, invites[i] # Null
       PROVE  invites'[i] # Null /\ invites'[i].role = invites[i].role
    BY <1>3, <1>8, <1>9, <1>11, <1>14 DEF Shaped, TypeOK
<1>15. Shaped'
    BY <1>1, <1>13, <1>14, DoneShape
<1> QED BY <1>3, <1>4, <1>5, <1>7, <1>8, <1>9, <1>10, <1>12, <1>15 DEF j, new, link, done

LEMMA AbandonShape == ASSUME Shaped, NEW w \in Workers, Abandon(w) PROVE Shaped'
<1>1. UNCHANGED <<members, invites, requests, elsewhere, clock>> /\ Done(w)
    BY DEF Abandon, tables
<1>2. TypeOK'
    BY <1>1, DoneType DEF Shaped, TypeOK
<1> QED BY <1>1, <1>2, DoneShape

LEMMA ElsewhereShape ==
    ASSUME Shaped, NEW p \in People, JoinElsewhere(p) \/ LeaveElsewhere(p)
    PROVE  Shaped'
<1>1. /\ UNCHANGED <<members, invites, requests, clock, job>>
      /\ elsewhere' = [elsewhere EXCEPT ![p] = @ + 1] \/ (elsewhere[p] > 0 /\ elsewhere' = [elsewhere EXCEPT ![p] = @ - 1])
    BY DEF JoinElsewhere, LeaveElsewhere
<1>2. elsewhere' \in [People -> Nat]
    BY <1>1 DEF Shaped, TypeOK
<1>3. TypeOK'
    BY <1>1, <1>2 DEF Shaped, TypeOK
<1>4. ASSUME NEW v \in Workers PROVE JobShape(job[v])'
    BY <1>1 DEF Shaped, JobShape
<1> QED BY <1>3, <1>4 DEF Shaped

LEMMA TickShape == ASSUME Shaped, Tick PROVE Shaped'
<1>1. clock' = clock + 1 /\ UNCHANGED <<members, invites, requests, elsewhere, job>>
    BY DEF Tick, tables
<1>2. TypeOK'
    BY <1>1 DEF Shaped, TypeOK
<1>3. ASSUME NEW v \in Workers PROVE JobShape(job[v])'
  <2>1. JobShape(job[v]) /\ job[v].now \in Nat /\ clock \in Nat
    BY DEF Shaped, TypeOK, Job
  <2> QED BY <1>1, <2>1 DEF JobShape
<1> QED BY <1>2, <1>3 DEF Shaped

-----------------------------------------------------------------------------
(* One link, one admission.                                                 *)

LEMMA AdmissionKept == ASSUME Shaped, OneAdmission, [Next]_vars PROVE OneAdmission'
<1> DEFINE Holder(i) == IF invites[i] # Null /\ invites[i].status = "accepted" THEN {invites[i].to} ELSE {}
<1>0. \A i \in Invites : Approved(i) = Holder(i)
    BY DEF OneAdmission
<1>1. CASE UNCHANGED <<invites, requests>>
    BY <1>0, <1>1 DEF OneAdmission, Approved
<1>2. ASSUME NEW w \in Workers, CommitInvite(w) PROVE OneAdmission'
  <2>1. PICK i \in Invites, row \in InviteRow :
          invites[i] = Null /\ row.status = "pending" /\ invites' = [invites EXCEPT ![i] = row]
    BY <1>2, InviteWrites DEF CommitInvite
  <2>2. UNCHANGED requests
    BY <1>2 DEF CommitInvite
  <2>3. ASSUME NEW k \in Invites PROVE (Approved(k) = Holder(k))'
    <3>1. invites'[k] = IF k = i THEN row ELSE invites[k]
      BY <2>1 DEF Shaped, TypeOK
    <3> QED BY <1>0, <2>1, <2>2, <3>1 DEF Approved
  <2> QED BY <2>3 DEF OneAdmission
<1>3. ASSUME NEW w \in Workers, CommitRevoke(w) PROVE OneAdmission'
  <2> DEFINE i == job[w].i
             row == [invites[i] EXCEPT !.status = "revoked", !.rev = @ + 1]
  <2>1. /\ i \in Invites /\ invites[i].status = "pending" /\ row.status = "revoked"
        /\ invites' = [invites EXCEPT ![i] = row]
    BY <1>3, RevokeWrites DEF CommitRevoke
  <2> HIDE DEF i, row
  <2>2. UNCHANGED requests
    BY <1>3 DEF CommitRevoke
  <2>3. ASSUME NEW k \in Invites PROVE (Approved(k) = Holder(k))'
    <3>1. invites'[k] = IF k = i THEN row ELSE invites[k]
      BY <2>1 DEF Shaped, TypeOK
    <3> QED BY <1>0, <2>1, <2>2, <3>1 DEF Approved
  <2> QED BY <2>3 DEF OneAdmission
<1>4. ASSUME NEW w \in Workers, CommitApply(w) \/ CommitReject(w) PROVE OneAdmission'
  <2>1. PICK i \in Invites, p \in People, row \in RequestRow :
          /\ requests[<<i, p>>] = Null \/ requests[<<i, p>>].status # "approved"
          /\ row.status # "approved" /\ requests' = [requests EXCEPT ![<<i, p>>] = row]
    <3>1. CASE CommitApply(w)
      BY <3>1, ApplyWrites DEF CommitApply
    <3>2. CASE CommitReject(w)
      BY <3>2, RejectWrites
    <3> QED BY <1>4, <3>1, <3>2
  <2>2. UNCHANGED invites
    BY <1>4 DEF CommitApply, CommitReject
  <2>3. ASSUME NEW k \in Invites PROVE Approved(k)' = Approved(k)
    <3>1. ASSUME NEW q \in People
          PROVE  requests'[<<k, q>>] = IF k = i /\ q = p THEN row ELSE requests[<<k, q>>]
      BY <2>1 DEF Shaped, TypeOK
    <3> QED BY <2>1, <3>1 DEF Approved
  <2> QED BY <1>0, <2>2, <2>3 DEF OneAdmission
<1>5. ASSUME NEW w \in Workers, CommitApprove(w) PROVE OneAdmission'
  <2> DEFINE i == job[w].i
             p == job[w].p
             link == [invites[i] EXCEPT !.status = "accepted", !.rev = @ + 1, !.to = p]
             done == [status |-> "approved", rev |-> requests[<<i, p>>].rev + 1]
  <2>1. /\ i \in Invites /\ p \in People /\ link \in InviteRow /\ done \in RequestRow
        /\ link.status = "accepted" /\ link.to = p /\ done.status = "approved"
        /\ invites' = [invites EXCEPT ![i] = link] /\ requests' = [requests EXCEPT ![<<i, p>>] = done]
    BY <1>5, ApproveWrites
  <2>2. invites[i].status = "pending"
    BY <1>5 DEF CommitApprove, InvitationChecks
  <2> HIDE DEF i, p, link, done
  <2>3. Approved(i) = {}
    BY <1>0, <2>1, <2>2
  <2>4. link # Null /\ done # Null
    BY <2>1, NullAssumption
  <2>5. ASSUME NEW k \in Invites PROVE (Approved(k) = Holder(k))'
    <3>1. invites'[k] = IF k = i THEN link ELSE invites[k]
      BY <2>1 DEF Shaped, TypeOK
    <3>2. ASSUME NEW q \in People
          PROVE  requests'[<<k, q>>] = IF k = i /\ q = p THEN done ELSE requests[<<k, q>>]
      BY <2>1 DEF Shaped, TypeOK
    <3>3. CASE k = i
      <4>1. Approved(k)' = {p}
        BY <2>1, <2>3, <2>4, <3>2, <3>3 DEF Approved
      <4>2. Holder(k)' = {p}
        BY <2>1, <2>4, <3>1, <3>3
      <4> QED BY <4>1, <4>2
    <3>4. CASE k # i
      <4>1. Approved(k)' = Approved(k)
        BY <3>2, <3>4 DEF Approved
      <4>2. Holder(k)' = Holder(k)
        BY <3>1, <3>4
      <4> QED BY <1>0, <4>1, <4>2
    <3> QED BY <3>3, <3>4
  <2> QED BY <2>5 DEF OneAdmission
<1>6. ASSUME NEW w \in Workers,
             Receive(w) \/ CheckApply(w) \/ CheckApprove(w) \/ Abandon(w) \/ CommitRole(w) \/ CommitRemove(w)
      PROVE  UNCHANGED <<invites, requests>>
    BY <1>6 DEF Receive, ReceiveMember, ReceiveInvite, ReceiveRevoke, ReceiveApply, ReceiveReview, Start,
                CheckApply, CheckApprove, Abandon, CommitRole, CommitRemove, tables
<1>7. ASSUME (\E p \in People : JoinElsewhere(p) \/ LeaveElsewhere(p)) \/ Tick \/ UNCHANGED vars
      PROVE  UNCHANGED <<invites, requests>>
    BY <1>7 DEF JoinElsewhere, LeaveElsewhere, Tick, tables, vars
<1> QED BY <1>1, <1>2, <1>3, <1>4, <1>5, <1>6, <1>7 DEF Next, Commit

-----------------------------------------------------------------------------
(* The limits.                                                              *)

LEMMA CountsAreFinite ==
    /\ IsFiniteSet(MemberSet) /\ Cardinality(MemberSet) \in Nat
    /\ \A now : IsFiniteSet(PendingInvites(now)) /\ Cardinality(PendingInvites(now)) \in Nat
<1>1. MemberSet \in SUBSET People /\ \A now : PendingInvites(now) \in SUBSET Invites
    BY DEF MemberSet, PendingInvites
<1>2. IsFiniteSet(People) /\ IsFiniteSet(Invites)
    BY GovernanceAssumption
<1>3. \A now : IsFiniteSet(PendingInvites(now))
    BY <1>1, <1>2, FS_Subset
<1> QED BY <1>1, <1>2, <1>3, FS_Subset, FS_CardinalityType

LEMMA CountsAreFiniteNext ==
    (/\ IsFiniteSet(MemberSet) /\ Cardinality(MemberSet) \in Nat
     /\ \A now : IsFiniteSet(PendingInvites(now)) /\ Cardinality(PendingInvites(now)) \in Nat)'
BY CountsAreFinite, PTL

LEMMA MembershipsAre ==
    ASSUME NEW p \in People
    PROVE  Memberships(p) = (IF p \in MemberSet THEN 1 ELSE 0) + elsewhere[p]
<1>1. CASE p \in MemberSet
  <2>1. MemberSet \cap {p} = {p}
    BY <1>1
  <2> QED BY <1>1, <2>1, FS_Singleton DEF Memberships
<1>2. CASE p \notin MemberSet
  <2>1. MemberSet \cap {p} = {}
    BY <1>2
  <2> QED BY <1>2, <2>1, FS_EmptySet DEF Memberships
<1> QED BY <1>1, <1>2

LEMMA MembershipsAreNext ==
    (\A p \in People : Memberships(p) = (IF p \in MemberSet THEN 1 ELSE 0) + elsewhere[p])'
<1>1. \A p \in People : Memberships(p) = (IF p \in MemberSet THEN 1 ELSE 0) + elsewhere[p]
    BY MembershipsAre
<1> QED BY <1>1, PTL

(* Nobody joins and no link opens: the limits stay.                         *)
LEMMA FewerStay ==
    ASSUME TypeOK, LimitsHold, MemberSet' \subseteq MemberSet,
           \A p \in People : elsewhere'[p] <= elsewhere[p], elsewhere' \in [People -> Nat],
           PendingInvites(clock)' \subseteq PendingInvites(clock)
    PROVE  LimitsHold'
<1>1. Cardinality(MemberSet') <= Cardinality(MemberSet) /\ Cardinality(MemberSet') \in Nat
    BY CountsAreFinite, CountsAreFiniteNext, FS_Subset
<1>2. Cardinality(PendingInvites(clock)') <= Cardinality(PendingInvites(clock))
  <2>1. IsFiniteSet(PendingInvites(clock)) /\ PendingInvites(clock)' \in SUBSET PendingInvites(clock)
    BY CountsAreFinite
  <2> QED BY <2>1, FS_Subset
<1>3. Cardinality(PendingInvites(clock)') \in Nat /\ Cardinality(PendingInvites(clock)) \in Nat
  <2>1. IsFiniteSet(PendingInvites(clock)) /\ PendingInvites(clock)' \in SUBSET PendingInvites(clock)
    BY CountsAreFinite
  <2> QED BY <2>1, FS_Subset, FS_CardinalityType
<1>4. MaxMembers \in Nat /\ MaxInvites \in Nat
    BY GovernanceAssumption
<1>5. Cardinality(MemberSet)' <= MaxMembers
    BY <1>1, <1>4, CountsAreFinite DEF LimitsHold
<1>6. OpenLinksBounded'
    BY <1>2, <1>3, <1>4 DEF LimitsHold, OpenLinksBounded
<1>7. ASSUME NEW p \in People PROVE (Memberships(p) <= MaxMembers)'
  <2>1. Memberships(p) <= MaxMembers /\ elsewhere[p] \in Nat /\ elsewhere'[p] \in Nat
    BY DEF LimitsHold, TypeOK
  <2> QED BY <1>4, <2>1, MembershipsAre, MembershipsAreNext
<1> QED BY <1>5, <1>6, <1>7 DEF LimitsHold

LEMMA LimitsKept == ASSUME Shaped, LimitsHold, [Next]_vars PROVE LimitsHold'
<1>0. TypeOK /\ elsewhere \in [People -> Nat] /\ clock \in Nat
    BY DEF Shaped, TypeOK
<1>1. CASE UNCHANGED <<members, invites, elsewhere, clock>>
  <2>1. UNCHANGED <<MemberSet, PendingInvites(clock), elsewhere>>
    BY <1>1 DEF MemberSet, Active, PendingInvites
  <2> QED BY <1>0, <2>1, FewerStay
<1>2. ASSUME NEW w \in Workers, CommitRole(w) PROVE LimitsHold'
  <2> DEFINE p == job[w].p
             row == [members[p] EXCEPT !.role = job[w].role, !.rev = @ + 1]
  <2>1. /\ p \in People /\ members[p] \in MemberRow /\ row.removed = members[p].removed
        /\ members' = [members EXCEPT ![p] = row]
    BY <1>2, RoleWrites
  <2>2. UNCHANGED <<invites, elsewhere, clock>> /\ members[p] # Null
    BY <1>2, <2>1, NullAssumption DEF CommitRole
  <2> HIDE DEF p, row
  <2>3. MemberSet' \subseteq MemberSet
    BY <1>0, <2>1, <2>2 DEF MemberSet, Active, TypeOK
  <2>4. PendingInvites(clock)' = PendingInvites(clock)
    BY <2>2 DEF PendingInvites
  <2> QED BY <1>0, <2>2, <2>3, <2>4, FewerStay
<1>3. ASSUME NEW w \in Workers, CommitRemove(w) PROVE LimitsHold'
  <2> DEFINE p == job[w].p
             row == [members[p] EXCEPT !.removed = TRUE, !.rev = @ + 1]
  <2>1. p \in People /\ row.removed /\ members' = [members EXCEPT ![p] = row]
    BY <1>3, RemoveWrites
  <2>2. UNCHANGED <<invites, elsewhere, clock>>
    BY <1>3 DEF CommitRemove
  <2> HIDE DEF p, row
  <2>3. MemberSet' \subseteq MemberSet
    BY <1>0, <2>1, <2>2 DEF MemberSet, Active, TypeOK
  <2>4. PendingInvites(clock)' = PendingInvites(clock)
    BY <2>2 DEF PendingInvites
  <2> QED BY <1>0, <2>2, <2>3, <2>4, FewerStay
<1>4. ASSUME NEW w \in Workers, CommitInvite(w) PROVE LimitsHold'
  <2> DEFINE i == job[w].i
             now == job[w].now
  <2>1. PICK row \in InviteRow :
          i \in Invites /\ now \in Nat /\ now <= clock /\ invites' = [invites EXCEPT ![i] = row]
    BY <1>4, InviteWrites
  <2>2. UNCHANGED <<members, elsewhere, clock>> /\ Cardinality(PendingInvites(now)) < MaxInvites
    BY <1>4 DEF CommitInvite
  <2> HIDE DEF i, now
  <2>3. PendingInvites(clock)' \subseteq PendingInvites(now) \cup {i}
    <3>1. ASSUME NEW k \in PendingInvites(clock)', k # i PROVE k \in PendingInvites(now)
      <4>1. k \in Invites /\ invites'[k] = invites[k] /\ invites[k] # Null
            /\ invites[k].status = "pending" /\ invites[k].until >= clock
        BY <1>0, <2>1, <2>2, <3>1 DEF PendingInvites, TypeOK
      <4>2. invites[k].until \in Nat
        BY <1>0, <4>1 DEF TypeOK, InviteRow
      <4> QED BY <1>0, <2>1, <4>1, <4>2 DEF PendingInvites
    <3> QED BY <3>1
  <2>4. IsFiniteSet(PendingInvites(now) \cup {i})
        /\ Cardinality(PendingInvites(now) \cup {i}) <= Cardinality(PendingInvites(now)) + 1
        /\ Cardinality(PendingInvites(now)) \in Nat /\ Cardinality(PendingInvites(now) \cup {i}) \in Nat
    <3> DEFINE S == PendingInvites(now)
    <3>1. IsFiniteSet(S) /\ Cardinality(S) \in Nat
      BY CountsAreFinite
    <3> HIDE DEF S
    <3>2. IsFiniteSet(S \cup {i}) /\ Cardinality(S \cup {i}) = IF i \in S THEN Cardinality(S) ELSE Cardinality(S) + 1
      BY <3>1, FS_AddElement
    <3>3. Cardinality(S \cup {i}) \in Nat /\ Cardinality(S \cup {i}) <= Cardinality(S) + 1
      BY <3>1, <3>2
    <3> QED BY <3>1, <3>2, <3>3 DEF S
  <2>5. Cardinality(PendingInvites(clock)') <= Cardinality(PendingInvites(now) \cup {i})
        /\ IsFiniteSet(PendingInvites(clock)')
    BY <2>3, <2>4, FS_Subset
  <2>6. Cardinality(PendingInvites(clock)') \in Nat
    BY <2>5, FS_CardinalityType
  <2>7. OpenLinksBounded'
    BY <2>2, <2>4, <2>5, <2>6, GovernanceAssumption DEF OpenLinksBounded
  <2>8. UNCHANGED <<MemberSet, elsewhere>>
    BY <2>2 DEF MemberSet, Active
  <2>9. \A p \in People : Memberships(p)' = Memberships(p)
    BY <2>8 DEF Memberships
  <2> QED BY <2>7, <2>8, <2>9 DEF LimitsHold
<1>5. ASSUME NEW w \in Workers, CommitRevoke(w) PROVE LimitsHold'
  <2> DEFINE i == job[w].i
             row == [invites[i] EXCEPT !.status = "revoked", !.rev = @ + 1]
  <2>1. i \in Invites /\ row.status = "revoked" /\ invites' = [invites EXCEPT ![i] = row]
    BY <1>5, RevokeWrites
  <2>2. UNCHANGED <<members, elsewhere, clock>>
    BY <1>5 DEF CommitRevoke
  <2> HIDE DEF i, row
  <2>3. PendingInvites(clock)' \subseteq PendingInvites(clock)
    BY <1>0, <2>1, <2>2 DEF PendingInvites, TypeOK
  <2>4. MemberSet' = MemberSet
    BY <2>2 DEF MemberSet, Active
  <2> QED BY <1>0, <2>2, <2>3, <2>4, FewerStay
<1>6. ASSUME NEW w \in Workers, CommitApprove(w) PROVE LimitsHold'
  <2> DEFINE j == job[w]
             new == [role |-> j.invite.role, removed |-> FALSE,
                     rev |-> IF j.member = Null THEN 1 ELSE j.member.rev + 1]
             link == [invites[j.i] EXCEPT !.status = "accepted", !.rev = @ + 1, !.to = j.p]
  <2>1. /\ j.i \in Invites /\ j.p \in People /\ link.status = "accepted"
        /\ members' = [members EXCEPT ![j.p] = new] /\ invites' = [invites EXCEPT ![j.i] = link]
    BY <1>6, ApproveWrites
  <2>2. UNCHANGED <<elsewhere, clock>> /\ AdmissionFence(j)
    BY <1>6 DEF CommitApprove
  <2> HIDE DEF link, new, j
  <2>3. PendingInvites(clock)' \subseteq PendingInvites(clock)
    BY <1>0, <2>1, <2>2 DEF PendingInvites, TypeOK
  <2>4. MemberSet' \subseteq MemberSet \cup {j.p}
    BY <1>0, <2>1, <2>2 DEF MemberSet, Active, TypeOK
  <2>5. /\ Cardinality(PendingInvites(clock)') <= Cardinality(PendingInvites(clock))
        /\ Cardinality(PendingInvites(clock)') \in Nat /\ Cardinality(PendingInvites(clock)) \in Nat
    <3>1. IsFiniteSet(PendingInvites(clock)) /\ PendingInvites(clock)' \in SUBSET PendingInvites(clock)
      BY <2>3, CountsAreFinite
    <3> QED BY <3>1, FS_Subset, FS_CardinalityType
  <2>6. OpenLinksBounded'
    BY <2>5, GovernanceAssumption DEF LimitsHold, OpenLinksBounded
  <2>7. IsFiniteSet(MemberSet \cup {j.p})
        /\ Cardinality(MemberSet \cup {j.p}) <= Cardinality(MemberSet) + 1
        /\ Cardinality(MemberSet \cup {j.p}) \in Nat
    BY CountsAreFinite, FS_AddElement
  <2>8. Cardinality(MemberSet') <= Cardinality(MemberSet \cup {j.p}) /\ Cardinality(MemberSet') \in Nat
    BY <2>4, <2>7, FS_Subset, CountsAreFiniteNext
  <2>9. Cardinality(MemberSet)' <= MaxMembers
    BY <2>2, <2>7, <2>8, CountsAreFinite, GovernanceAssumption DEF AdmissionFence
  <2>10. ASSUME NEW p \in People PROVE (Memberships(p) <= MaxMembers)'
    <3>1. elsewhere[p] \in Nat /\ elsewhere'[p] = elsewhere[p] /\ MaxMembers \in Nat
      BY <1>0, <2>2, GovernanceAssumption
    <3>2. CASE p = j.p
      BY <2>2, <3>1, <3>2, MembershipsAre, MembershipsAreNext DEF AdmissionFence
    <3>3. CASE p # j.p
      <4>1. p \in MemberSet' => p \in MemberSet
        BY <2>4, <3>3
      <4>2. Memberships(p) <= MaxMembers
        BY DEF LimitsHold
      <4> QED BY <3>1, <4>1, <4>2, MembershipsAre, MembershipsAreNext
    <3> QED BY <3>2, <3>3
  <2> QED BY <2>6, <2>9, <2>10 DEF LimitsHold
<1>7. ASSUME NEW p \in People, JoinElsewhere(p) PROVE LimitsHold'
  <2>1. /\ UNCHANGED <<members, invites, clock>> /\ Memberships(p) < MaxMembers
        /\ elsewhere' = [elsewhere EXCEPT ![p] = @ + 1]
    BY <1>7 DEF JoinElsewhere
  <2>2. UNCHANGED <<MemberSet, PendingInvites(clock)>>
    BY <2>1 DEF MemberSet, Active, PendingInvites
  <2>3. ASSUME NEW q \in People PROVE (Memberships(q) <= MaxMembers)'
    <3>1. elsewhere[q] \in Nat /\ MaxMembers \in Nat /\ Memberships(q) <= MaxMembers
      BY <1>0, GovernanceAssumption DEF LimitsHold
    <3>2. elsewhere'[q] = IF q = p THEN elsewhere[q] + 1 ELSE elsewhere[q]
      BY <1>0, <2>1
    <3> QED BY <2>1, <2>2, <3>1, <3>2, MembershipsAre, MembershipsAreNext
  <2> QED BY <2>2, <2>3 DEF LimitsHold, OpenLinksBounded
<1>8. ASSUME NEW p \in People, LeaveElsewhere(p) PROVE LimitsHold'
  <2>1. /\ UNCHANGED <<members, invites, clock>> /\ elsewhere[p] > 0
        /\ elsewhere' = [elsewhere EXCEPT ![p] = @ - 1]
    BY <1>8 DEF LeaveElsewhere
  <2>2. UNCHANGED <<MemberSet, PendingInvites(clock)>>
    BY <2>1 DEF MemberSet, Active, PendingInvites
  <2>3. elsewhere' \in [People -> Nat] /\ \A q \in People : elsewhere'[q] <= elsewhere[q]
    BY <1>0, <2>1
  <2> QED BY <1>0, <2>2, <2>3, FewerStay
<1>9. ASSUME Tick PROVE LimitsHold'
  <2>1. clock' = clock + 1 /\ UNCHANGED <<members, invites, elsewhere>>
    BY <1>9 DEF Tick, tables
  <2>2. PendingInvites(clock)' \subseteq PendingInvites(clock)
    <3>1. ASSUME NEW k \in PendingInvites(clock)' PROVE k \in PendingInvites(clock)
      <4>1. k \in Invites /\ invites[k] # Null /\ invites[k].status = "pending" /\ invites[k].until >= clock + 1
        BY <2>1 DEF PendingInvites
      <4>2. invites[k].until \in Nat
        BY <1>0, <4>1 DEF TypeOK, InviteRow
      <4> QED BY <1>0, <4>1, <4>2 DEF PendingInvites
    <3> QED BY <3>1
  <2>3. MemberSet' = MemberSet
    BY <2>1 DEF MemberSet, Active
  <2> QED BY <1>0, <2>1, <2>2, <2>3, FewerStay
<1>10. ASSUME NEW w \in Workers,
              Receive(w) \/ CheckApply(w) \/ CheckApprove(w) \/ Abandon(w) \/ CommitApply(w) \/ CommitReject(w)
       PROVE  UNCHANGED <<members, invites, elsewhere, clock>>
    BY <1>10 DEF Receive, ReceiveMember, ReceiveInvite, ReceiveRevoke, ReceiveApply, ReceiveReview, Start,
                CheckApply, CheckApprove, Abandon, CommitApply, CommitReject, tables
<1>11. UNCHANGED vars => UNCHANGED <<members, invites, elsewhere, clock>>
    BY DEF vars
<1> QED BY <1>1, <1>2, <1>3, <1>4, <1>5, <1>6, <1>7, <1>8, <1>9, <1>10, <1>11 DEF Next, Commit

-----------------------------------------------------------------------------
(* The invariant.                                                           *)

LEMMA InitHolds == Init => IInv
<1> SUFFICES ASSUME Init PROVE IInv
    OBVIOUS
<1>1. TypeOK
    BY IdleShape DEF Init, TypeOK
<1>2. ASSUME NEW w \in Workers PROVE JobShape(job[w])
    BY <1>1, IdleShape DEF Init, TypeOK
<1>3. OneAdmission
    BY DEF Init, OneAdmission, Approved
<1>4. MemberSet = {} /\ PendingInvites(clock) = {}
    BY DEF Init, MemberSet, Active, PendingInvites
<1>5. MaxMembers \in Nat /\ MaxInvites \in Nat
    BY GovernanceAssumption
<1>6. ASSUME NEW p \in People PROVE Memberships(p) <= MaxMembers
    BY <1>4, <1>5, MembershipsAre DEF Init
<1>7. LimitsHold
    BY <1>4, <1>5, <1>6, FS_EmptySet DEF LimitsHold, OpenLinksBounded
<1> QED BY <1>1, <1>2, <1>3, <1>7 DEF IInv, Shaped

LEMMA StepShape == ASSUME Shaped, [Next]_vars PROVE Shaped'
<1>1. CASE UNCHANGED vars
  <2>1. UNCHANGED <<members, invites, requests, elsewhere, clock, job>>
    BY <1>1 DEF vars
  <2>2. TypeOK'
    BY <2>1 DEF Shaped, TypeOK
  <2>3. ASSUME NEW w \in Workers PROVE JobShape(job[w])'
    BY <2>1 DEF Shaped, JobShape
  <2> QED BY <2>2, <2>3 DEF Shaped
<1>2. ASSUME NEW w \in Workers, Commit(w) PROVE Shaped'
    BY <1>2, RoleWrites, RemoveWrites, InviteWrites, RevokeWrites, ApplyWrites, ApproveWrites, RejectWrites
       DEF Commit
<1>3. ASSUME NEW w \in Workers, Receive(w) \/ CheckApply(w) \/ CheckApprove(w) \/ Abandon(w) PROVE Shaped'
    BY <1>3, ReceiveShape, CheckApplyShape, CheckApproveShape, AbandonShape
<1> QED BY <1>1, <1>2, <1>3, ElsewhereShape, TickShape DEF Next

LEMMA StepKeeps == IInv /\ [Next]_vars => IInv'
BY StepShape, AdmissionKept, LimitsKept DEF IInv

(* What an administrator is shown is what a review would accept: the two    *)
(* listings and the review's own conditions, in each typed state.           *)
LEMMA InboxAgrees == TypeOK => InboxIsReviewable
<1> SUFFICES ASSUME TypeOK, NEW a \in Actors
             PROVE  /\ Inbox(a) = {ip \in Invites \X People : Reviewable(a, ip[1], ip[2])}
                    /\ \A ip \in Inbox(a) : CanReview(a, ip[1])
    BY DEF InboxIsReviewable
<1>1. ASSUME NEW i \in Invites, NEW p \in People
      PROVE  <<i, p>> \in Inbox(a) <=> Reviewable(a, i, p)
    BY DEF Inbox, Reviewable, PendingInvites, InviterAuthorized, Governs, MayManage, RowOf, Active
<1>2. \A ip \in Inbox(a) : CanReview(a, ip[1])
    BY DEF Inbox, CanReview
<1>3. \A ip \in Invites \X People : ip = <<ip[1], ip[2]>> /\ ip[1] \in Invites /\ ip[2] \in People
    OBVIOUS
<1>4. Inbox(a) \subseteq Invites \X People
    BY DEF Inbox
<1> QED BY <1>1, <1>2, <1>3, <1>4

(* In every reachable state members, links and applications agree, no limit *)
(* is passed and the inbox is exactly what can be reviewed, whatever        *)
(* requests were interleaved (_review, _invite, the fences of each batch).  *)
THEOREM GovernanceConsistent == Spec => []Consistent
<1>1. IInv => Consistent
    BY InboxAgrees DEF IInv, Shaped, Consistent
<1> QED BY InitHolds, StepKeeps, <1>1, PTL DEF Spec

-----------------------------------------------------------------------------
(* The refinement: each batch is one step of AtomicGovernance.              *)

LEMMA LinkOf ==
    ASSUME NEW row \in InviteRow
    PROVE  /\ row # Null /\ Link(row) # Null
           /\ Link(row).role = row.role /\ Link(row).status = row.status /\ Link(row).rev = row.rev
           /\ Link(row).by = row.by /\ Link(row).byRev = row.byRev /\ Link(row).to = row.to
<1>1. row # Null
    BY NullAssumption
<1>2. Link(row) = [role |-> row.role, status |-> row.status, rev |-> row.rev,
                   by |-> row.by, byRev |-> row.byRev, to |-> row.to]
    BY <1>1 DEF Link
<1>3. Link(row) \in LinkRow
    BY <1>2 DEF LinkRow, InviteRow
<1>4. Link(row) # Null
    BY <1>3, NullAssumption
<1> QED BY <1>1, <1>2, <1>4

(* A link that is settled changes its status, its revision and whom it names. *)
LEMMA LinkClosed ==
    ASSUME NEW row \in InviteRow, NEW new \in InviteRow, new.rev = row.rev + 1,
           new.role = row.role, new.by = row.by, new.byRev = row.byRev
    PROVE  Link(new) = [role |-> Link(row).role, status |-> new.status, rev |-> Link(row).rev + 1,
                        by |-> Link(row).by, byRev |-> Link(row).byRev, to |-> new.to]
<1>1. new # Null
    BY NullAssumption
<1> QED BY <1>1, LinkOf DEF Link

(* The acting person holds, when the batch writes, the authority read.      *)
LEMMA HoldsAuthority ==
    ASSUME TypeOK, NEW j \in Job, j.actor # Owner => j.self \in MemberRow, WriteGuard(j),
           NEW role, MayManage(j.actor, j.self, role)
    PROVE  Council!MayManage(j.actor, role)
BY DEF TypeOK, Job, Actors, WriteGuard, Active, MayManage, Council!MayManage, Council!IsAdmin, Council!IsMember

(* The inviter still stands behind a link the batch has checked again.      *)
LEMMA StandsBehindNow ==
    ASSUME TypeOK, NEW j \in Job, j.i \in Invites, j.invite \in InviteRow, InvitationChecks(j),
           j.invite.by # Owner => j.invite.role # "admin"
    PROVE  Council!Open(j.i) /\ Council!StandsBehind(j.i)
<1>1. invites[j.i] = j.invite /\ j.invite.status = "pending" /\ j.invite.by \in Actors
    BY DEF InvitationChecks, InviteRow
<1>2. [i \in Invites |-> Link(invites[i])][j.i] = Link(j.invite)
    BY <1>1
<1> QED BY <1>1, <1>2, LinkOf
       DEF InvitationChecks, Active, Actors, Council!Open, Council!StandsBehind, Council!IsAdmin, Council!IsMember

(* The abstract module counts with its own instance of Cardinality.        *)
LEMMA SameCount == \A S : Council!Cardinality(S) = Cardinality(S)
BY DEF Cardinality, Council!Cardinality

LEMMA SameMembers == Council!Members = MemberSet /\ \A i \in Invites : Council!RequestsOf(i) = Applicants(i)
BY DEF Council!Members, Council!IsMember, MemberSet, Active, Council!RequestsOf, Applicants

LEMMA StepImplements ==
    ASSUME Shaped, NEW w \in Workers, Commit(w)
    PROVE  Council!Next \/ UNCHANGED Council!rows
<1> DEFINE links == [i \in Invites |-> Link(invites[i])]
<1>0. TypeOK
    BY DEF Shaped
<1>j. job[w] \in Job /\ JobShape(job[w]) /\ job[w].actor \in Actors
    BY DEF Shaped, TypeOK, Job
<1>1. CASE CommitRole(w)
  <2> DEFINE j == job[w]
             row == [members[j.p] EXCEPT !.role = j.role, !.rev = @ + 1]
  <2>1. j.p \in People /\ members' = [members EXCEPT ![j.p] = row]
    BY <1>1, RoleWrites
  <2>2. /\ WriteGuard(j) /\ MemberFence(j) /\ j.op = "role" /\ j.role \in Roles
        /\ UNCHANGED <<invites, requests, elsewhere>>
    BY <1>1, <1>j DEF CommitRole, JobShape
  <2>3. MayManage(j.actor, j.self, members[j.p].role) /\ MayManage(j.actor, j.self, j.role)
        /\ (j.actor # Owner => j.self \in MemberRow)
    BY <2>2, <1>j DEF JobShape, MemberFence
  <2>4. Council!MayManage(j.actor, members[j.p].role) /\ Council!MayManage(j.actor, j.role)
    BY <1>0, <1>j, <2>2, <2>3, HoldsAuthority
  <2>5. Council!IsMember(j.p)
    BY <2>1, <2>2 DEF MemberFence, Active, Council!IsMember
  <2>6. links' = links
    BY <2>2
  <2>7. Council!ChangeRole(j.actor, j.p, j.role)
    BY <2>1, <2>2, <2>4, <2>5, <2>6 DEF Council!ChangeRole, Council!SetMember
  <2> HIDE DEF j
  <2>8. j.actor \in Council!Actors /\ j.p \in People /\ j.role \in Roles
    BY <1>j, <2>1, <2>2 DEF j, Actors, Council!Actors
  <2> QED BY <2>7, <2>8 DEF Council!Next
<1>2. CASE CommitRemove(w)
  <2> DEFINE j == job[w]
             row == [members[j.p] EXCEPT !.removed = TRUE, !.rev = @ + 1]
  <2>1. j.p \in People /\ members' = [members EXCEPT ![j.p] = row]
    BY <1>2, RemoveWrites
  <2>2. /\ WriteGuard(j) /\ MemberFence(j) /\ j.op = "remove"
        /\ UNCHANGED <<invites, requests, elsewhere>>
    BY <1>2 DEF CommitRemove
  <2>3. MayManage(j.actor, j.self, members[j.p].role) /\ (j.actor # Owner => j.self \in MemberRow)
    BY <2>2, <1>j DEF JobShape, MemberFence
  <2>4. Council!MayManage(j.actor, members[j.p].role)
    BY <1>0, <1>j, <2>2, <2>3, HoldsAuthority
  <2>5. Council!IsMember(j.p)
    BY <2>1, <2>2 DEF MemberFence, Active, Council!IsMember
  <2>6. links' = links
    BY <2>2
  <2>7. Council!Remove(j.actor, j.p)
    BY <2>1, <2>2, <2>4, <2>5, <2>6 DEF Council!Remove, Council!SetMember
  <2> HIDE DEF j
  <2>8. j.actor \in Council!Actors /\ j.p \in People
    BY <1>j, <2>1 DEF j, Actors, Council!Actors
  <2> QED BY <2>7, <2>8 DEF Council!Next
<1>3. CASE CommitInvite(w)
  <2> DEFINE j == job[w]
             row == [role |-> j.role, status |-> "pending", rev |-> 1, by |-> j.actor,
                     byRev |-> RevOf(j.actor, j.self), until |-> j.now + InvitationAge, to |-> Null]
  <2>1. j.i \in Invites /\ row \in InviteRow /\ invites' = [invites EXCEPT ![j.i] = row]
    BY <1>3, InviteWrites
  <2>2. /\ WriteGuard(j) /\ j.op = "invite" /\ invites[j.i] = Null
        /\ UNCHANGED <<members, requests, elsewhere>>
    BY <1>3 DEF CommitInvite
  <2>3. MayManage(j.actor, j.self, j.role) /\ j.role \in Roles /\ (j.actor # Owner => j.self \in MemberRow)
    BY <2>2, <1>j DEF JobShape
  <2>4. Council!MayManage(j.actor, j.role)
    BY <1>0, <1>j, <2>2, <2>3, HoldsAuthority
  <2>5. links[j.i] = Null
    BY <2>1, <2>2 DEF Link
  <2>6. RevOf(j.actor, j.self) = IF j.actor = Owner THEN 1 ELSE members[j.actor].rev
    BY <2>2 DEF RevOf, WriteGuard
  <2>7. Link(row) = Council!NewInvite(j.actor, j.role)
    <3>1. row # Null
      BY <2>1, NullAssumption
    <3> QED BY <2>6, <3>1 DEF Link, Council!NewInvite
  <2> HIDE DEF row
  <2>8. links' = [links EXCEPT ![j.i] = Council!NewInvite(j.actor, j.role)]
    <3>1. ASSUME NEW k \in Invites
          PROVE  Link(invites'[k]) = IF k = j.i THEN Link(row) ELSE Link(invites[k])
      BY <1>0, <2>1 DEF TypeOK
    <3> QED BY <2>1, <2>7, <3>1
  <2>9. Council!IssueInvite(j.actor, j.i, j.role)
    BY <2>2, <2>4, <2>5, <2>8 DEF Council!IssueInvite, Council!AddInvite
  <2> HIDE DEF j
  <2>10. j.actor \in Council!Actors /\ j.i \in Invites /\ j.role \in Roles
    BY <1>j, <2>1, <2>3 DEF j, Actors, Council!Actors
  <2> QED BY <2>9, <2>10 DEF Council!Next
<1>4. CASE CommitRevoke(w)
  <2> DEFINE j == job[w]
             row == [invites[j.i] EXCEPT !.status = "revoked", !.rev = @ + 1]
  <2>1. /\ j.i \in Invites /\ invites[j.i] \in InviteRow /\ row \in InviteRow /\ row.status = "revoked"
        /\ invites' = [invites EXCEPT ![j.i] = row]
    BY <1>4, RevokeWrites
  <2>2. /\ WriteGuard(j) /\ j.op = "revoke" /\ invites[j.i].status = "pending"
        /\ UNCHANGED <<members, requests, elsewhere>>
    BY <1>4 DEF CommitRevoke
  <2>3. MayManage(j.actor, j.self, invites[j.i].role) /\ (j.actor # Owner => j.self \in MemberRow)
    BY <2>2, <1>j DEF JobShape
  <2>4. Council!MayManage(j.actor, invites[j.i].role)
    BY <1>0, <1>j, <2>2, <2>3, HoldsAuthority
  <2>5. links[j.i] = Link(invites[j.i]) /\ Council!Open(j.i)
    BY <2>1, <2>2, LinkOf DEF Council!Open
  <2>6. row.role = invites[j.i].role /\ row.rev = invites[j.i].rev + 1 /\ row.by = invites[j.i].by
        /\ row.byRev = invites[j.i].byRev /\ row.to = invites[j.i].to
    BY <2>1 DEF InviteRow
  <2> HIDE DEF row
  <2>7. Link(row) = Council!Closed(j.i, "revoked", links[j.i].to)
    BY <2>1, <2>5, <2>6, LinkClosed, LinkOf DEF Council!Closed
  <2>8. links' = [links EXCEPT ![j.i] = Link(row)]
    <3>1. ASSUME NEW k \in Invites
          PROVE  Link(invites'[k]) = IF k = j.i THEN Link(row) ELSE Link(invites[k])
      BY <1>0, <2>1 DEF TypeOK
    <3> QED BY <2>1, <3>1
  <2>9. Council!MayManage(j.actor, links[j.i].role)
    BY <2>1, <2>4, <2>5, LinkOf
  <2>10. Council!Revoke(j.actor, j.i)
    BY <2>2, <2>5, <2>7, <2>8, <2>9 DEF Council!Revoke, Council!MarkRevoked
  <2> HIDE DEF j
  <2>11. j.actor \in Council!Actors /\ j.i \in Invites
    BY <1>j, <2>1 DEF j, Actors, Council!Actors
  <2> QED BY <2>10, <2>11 DEF Council!Next
<1>5. CASE CommitApply(w)
  <2> DEFINE j == job[w]
  <2>1. /\ j.i \in Invites /\ j.p \in People
        /\ requests' = [requests EXCEPT ![<<j.i, j.p>>] = [status |-> "pending", rev |-> 1]]
    BY <1>5, ApplyWrites
  <2>2. /\ j.op = "apply" /\ j.pc = "checked" /\ InvitationChecks(j) /\ requests[<<j.i, j.p>>] = Null
        /\ ~Active(members[j.p]) /\ Cardinality(Applicants(j.i)) < MaxRequests
        /\ UNCHANGED <<members, invites, elsewhere>>
    BY <1>5 DEF CommitApply
  <2>3. j.invite \in InviteRow /\ (j.invite.by # Owner => j.invite.role # "admin")
    BY <2>2, <1>j DEF JobShape
  <2>4. Council!Open(j.i) /\ Council!StandsBehind(j.i)
    BY <1>0, <1>j, <2>1, <2>2, <2>3, StandsBehindNow
  <2>5. ~Council!IsMember(j.p) /\ Cardinality(Council!RequestsOf(j.i)) < MaxRequests
    BY <2>1, <2>2, SameMembers DEF Active, Council!IsMember
  <2>6. links' = links
    BY <2>2
  <2>7. Council!AddRequest(j.i, j.p)
    BY <2>1, <2>2, <2>6 DEF Council!AddRequest
  <2>8. Council!Apply(j.i, j.p)
    BY <2>2, <2>4, <2>5, <2>7, SameCount DEF Council!Apply
  <2> HIDE DEF j
  <2> QED BY <2>1, <2>8 DEF Council!Next
<1>6. CASE CommitApprove(w)
  <2> DEFINE j == job[w]
             new  == [role |-> j.invite.role, removed |-> FALSE,
                      rev |-> IF j.member = Null THEN 1 ELSE j.member.rev + 1]
             row  == [invites[j.i] EXCEPT !.status = "accepted", !.rev = @ + 1, !.to = j.p]
             done == [status |-> "approved", rev |-> requests[<<j.i, j.p>>].rev + 1]
  <2>1. /\ j.i \in Invites /\ j.p \in People /\ invites[j.i] = j.invite /\ j.invite \in InviteRow
        /\ row \in InviteRow /\ row.status = "accepted" /\ row.to = j.p
        /\ members' = [members EXCEPT ![j.p] = new] /\ invites' = [invites EXCEPT ![j.i] = row]
        /\ requests' = [requests EXCEPT ![<<j.i, j.p>>] = done]
    BY <1>6, ApproveWrites
  <2>2. /\ WriteGuard(j) /\ InvitationChecks(j) /\ RequestFence(j) /\ AdmissionFence(j)
        /\ j.op = "approve" /\ UNCHANGED elsewhere
    BY <1>6 DEF CommitApprove
  <2>3. /\ MayManage(j.actor, j.self, j.invite.role) /\ (j.actor # Owner => j.self \in MemberRow)
        /\ j.invite.by = j.actor
    BY <2>2, <1>j DEF JobShape
  <2>4. Council!MayManage(j.actor, j.invite.role)
    BY <1>0, <1>j, <2>2, <2>3, HoldsAuthority
  <2>5. Council!Open(j.i) /\ Council!StandsBehind(j.i)
    BY <1>0, <1>j, <2>1, <2>2, <2>3, StandsBehindNow DEF MayManage
  <2>6. links[j.i] = Link(invites[j.i])
    BY <2>1
  <2>7. Council!Decides(j.actor, j.i, j.p)
    BY <2>1, <2>2, <2>3, <2>4, <2>5, <2>6, LinkOf DEF RequestFence, Council!Decides
  <2>8. /\ ~Council!IsMember(j.p) /\ Cardinality(Council!Members) < MaxMembers
        /\ Cardinality(Council!Members \cap {j.p}) + elsewhere[j.p] < MaxMembers
    BY <2>1, <2>2, SameMembers DEF AdmissionFence, Memberships, Council!IsMember
  <2>9. new = Council!Joined(j.p, links[j.i].role)
    BY <2>1, <2>2, <2>6, LinkOf DEF AdmissionFence, Council!Joined
  <2>10. done = Council!Reviewed(j.i, j.p, "approved")
    BY DEF Council!Reviewed
  <2>11. row.role = invites[j.i].role /\ row.rev = invites[j.i].rev + 1 /\ row.by = invites[j.i].by
         /\ row.byRev = invites[j.i].byRev
    BY <2>1 DEF InviteRow
  <2> HIDE DEF row, new, done
  <2>12. Link(row) = Council!Closed(j.i, "accepted", j.p)
    BY <2>1, <2>6, <2>11, LinkClosed, LinkOf DEF Council!Closed
  <2>13. links' = [links EXCEPT ![j.i] = Link(row)]
    <3>1. ASSUME NEW k \in Invites
          PROVE  Link(invites'[k]) = IF k = j.i THEN Link(row) ELSE Link(invites[k])
      BY <1>0, <2>1 DEF TypeOK
    <3> QED BY <2>1, <3>1
  <2>14. Council!Admit(j.i, j.p)
    BY <2>1, <2>2, <2>9, <2>10, <2>12, <2>13 DEF Council!Admit
  <2>15. Council!Approve(j.actor, j.i, j.p)
    BY <2>7, <2>8, <2>14, SameCount DEF Council!Approve
  <2> HIDE DEF j
  <2>16. j.actor \in Council!Actors /\ j.i \in Invites /\ j.p \in People
    BY <1>j, <2>1 DEF j, Actors, Council!Actors
  <2> QED BY <2>15, <2>16 DEF Council!Next
<1>7. CASE CommitReject(w)
  <2> DEFINE j == job[w]
             done == [status |-> "rejected", rev |-> requests[<<j.i, j.p>>].rev + 1]
  <2>1. j.i \in Invites /\ j.p \in People /\ requests' = [requests EXCEPT ![<<j.i, j.p>>] = done]
    BY <1>7, RejectWrites
  <2>2. /\ WriteGuard(j) /\ InvitationChecks(j) /\ RequestFence(j)
        /\ j.op = "reject" /\ UNCHANGED <<members, invites, elsewhere>>
    BY <1>7 DEF CommitReject
  <2>3. /\ MayManage(j.actor, j.self, j.invite.role) /\ (j.actor # Owner => j.self \in MemberRow)
        /\ j.invite \in InviteRow /\ invites[j.i] = j.invite /\ j.invite.by = j.actor
    BY <2>2, <1>j DEF JobShape, InvitationChecks
  <2>4. Council!MayManage(j.actor, j.invite.role)
    BY <1>0, <1>j, <2>2, <2>3, HoldsAuthority
  <2>5. Council!Open(j.i) /\ Council!StandsBehind(j.i)
    BY <1>0, <1>j, <2>1, <2>2, <2>3, StandsBehindNow DEF MayManage
  <2>6. links[j.i] = Link(invites[j.i])
    BY <2>1
  <2>7. Council!Decides(j.actor, j.i, j.p)
    BY <2>1, <2>2, <2>3, <2>4, <2>5, <2>6, LinkOf DEF RequestFence, Council!Decides
  <2>8. links' = links
    BY <2>2
  <2>9. Council!Reject(j.actor, j.i, j.p)
    BY <2>1, <2>2, <2>7, <2>8 DEF Council!Reject, Council!TurnDown, Council!Reviewed
  <2> HIDE DEF j
  <2>10. j.actor \in Council!Actors /\ j.i \in Invites /\ j.p \in People
    BY <1>j, <2>1 DEF j, Actors, Council!Actors
  <2> QED BY <2>9, <2>10 DEF Council!Next
<1> QED BY <1>1, <1>2, <1>3, <1>4, <1>5, <1>6, <1>7 DEF Commit

(* Memberships elsewhere follow the same rule; nothing else changes a row.  *)
LEMMA NextImplements ==
    ASSUME Shaped, [Next]_vars
    PROVE  Council!Next \/ UNCHANGED Council!rows
<1> DEFINE links == [i \in Invites |-> Link(invites[i])]
<1>1. ASSUME UNCHANGED <<members, invites, requests, elsewhere>> PROVE UNCHANGED Council!rows
  <2>1. links' = links
    BY <1>1
  <2> QED BY <1>1, <2>1 DEF Council!rows
<1>2. ASSUME NEW w \in Workers, Receive(w) \/ CheckApply(w) \/ CheckApprove(w) \/ Abandon(w)
      PROVE  UNCHANGED <<members, invites, requests, elsewhere>>
    BY <1>2 DEF Receive, ReceiveMember, ReceiveInvite, ReceiveRevoke, ReceiveApply, ReceiveReview, Start,
                CheckApply, CheckApprove, Abandon, tables
<1>3. ASSUME Tick \/ UNCHANGED vars PROVE UNCHANGED <<members, invites, requests, elsewhere>>
    BY <1>3 DEF Tick, tables, vars
<1>4. ASSUME NEW p \in People, JoinElsewhere(p) \/ LeaveElsewhere(p) PROVE Council!Next
  <2>1. UNCHANGED <<members, invites, requests>>
    BY <1>4 DEF JoinElsewhere, LeaveElsewhere
  <2>2. links' = links
    BY <2>1
  <2>3. CASE JoinElsewhere(p)
    <3>1. Cardinality(Council!Members \cap {p}) + elsewhere[p] < MaxMembers
      BY <2>3, SameMembers DEF JoinElsewhere, Memberships
    <3>2. Council!JoinElsewhere(p)
      BY <2>1, <2>2, <2>3, <3>1, SameCount DEF JoinElsewhere, Council!JoinElsewhere
    <3> QED BY <3>2 DEF Council!Next
  <2>4. CASE LeaveElsewhere(p)
    <3>1. Council!LeaveElsewhere(p)
      BY <2>1, <2>2, <2>4 DEF LeaveElsewhere, Council!LeaveElsewhere
    <3> QED BY <3>1 DEF Council!Next
  <2> QED BY <1>4, <2>3, <2>4
<1> QED BY <1>1, <1>2, <1>3, <1>4, StepImplements DEF Next

LEMMA InitImplements == Init => Council!RowsInit
<1> SUFFICES ASSUME Init PROVE Council!RowsInit
    OBVIOUS
<1>1. [i \in Invites |-> Link(invites[i])] = [i \in Invites |-> Null]
    BY DEF Init, Link
<1> QED BY <1>1 DEF Init, Council!RowsInit

(* Every batch that commits is a decision a server without concurrent       *)
(* requests would take on the rows as they are at that moment: the fences   *)
(* repeat enough of what the request read (_write_guard,                    *)
(* _invitation_checks and the predicates of each batch).                    *)
THEOREM GovernsAtomically == Spec => ImplementsAtomicGovernance
<1>1. IInv /\ [Next]_vars => [Council!rows' # Council!rows /\ Council!Next]_(Council!rows)
    BY NextImplements DEF IInv
<1> QED BY <1>1, InitHolds, StepKeeps, InitImplements, PTL
        DEF Spec, ImplementsAtomicGovernance, Council!AtomicSpec
=============================================================================
