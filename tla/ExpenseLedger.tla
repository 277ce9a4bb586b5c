---------------------------- MODULE ExpenseLedger ---------------------------
(***************************************************************************)
(* The expense handlers as they run: POST, PATCH and DELETE requests in     *)
(* concurrent Worker slots, each a chain of awaited D1 reads and one atomic *)
(* batch. Between two awaits any other request, and any handler of          *)
(* Administration, may commit. A request may also stop before its batch: a  *)
(* provider or quota error is returned, the client disconnects, the isolate *)
(* dies. After its batch the answer may be lost and the request sent again. *)
(***************************************************************************)
EXTENDS LedgerTables

CONSTANT Workers    \* slots that run one request each

VARIABLES
    job,        \* job[w]: the request in slot w and what it has read
    answers     \* every 201 a POST was decided by: actor, key, body, expense

vars == <<tables, job, answers>>

Idle == [pc |-> "idle", method |-> "none", cred |-> Null, key |-> Null, body |-> Null,
         id |-> Null, row |-> Null, user |-> Null, plan |-> Null, member |-> Null, evidence |-> 0,
         category |-> Null, victim |-> Null, lost |-> Null]

Job == [pc : {"idle", "read", "valid", "full", "ready", "recheck"},
        method : {"none", "POST", "PATCH", "DELETE"},
        cred : Credentials \cup {Null}, key : Keys \cup {Null}, body : Body \cup {Null},
        id : Ids \cup {Null}, row : Row \cup {Null}, user : User \cup {Null},
        plan : Plans \cup {Null}, member : Member \cup {Null}, evidence : Nat, category : Categories \cup {Null},
        victim : Ids \cup {Null}, lost : Row \cup {Null}]

Answer == [actor : Actors, key : Keys, body : Body, id : Ids]

(* The tables are well typed, and so is what the requests remember.          *)
TypeOK == TablesTypeOK /\ job \in [Workers -> Job] /\ answers \subseteq Answer

Init == TablesInit /\ job = [w \in Workers |-> Idle] /\ answers = {}

-----------------------------------------------------------------------------
(* Reads.                                                                    *)

MemberOf(c) == IF Holder[c] = Owner THEN Null ELSE member[Holder[c]]

Begin(method, c) ==
    [Idle EXCEPT !.method = method, !.cred = c, !.user = user, !.plan = EffectivePlan, !.member = MemberOf(c)]

(* _snapshot for a POST whose key is unused: credential, account, membership  *)
(* and replay row in one batch.                                              *)
ReceivePost(w, c, key, body) ==
    /\ job[w] = Idle
    /\ CanWrite(c)
    /\ body.target \in Allowed[c]
    /\ replay[<<Holder[c], key>>] = Null
    /\ job' = [job EXCEPT ![w] = [Begin("POST", c) EXCEPT !.pc = "read", !.key = key, !.body = body]]
    /\ UNCHANGED <<tables, answers>>

ReplayVisible(r) == TargetExists(r.body.target) /\ expense[r.id] # Null /\ TargetExists(expense[r.id].target)

ReplayOf(actor, key, body) ==
    /\ replay[<<actor, key>>] # Null
    /\ replay[<<actor, key>>].body = body
    /\ ReplayVisible(replay[<<actor, key>>])
    /\ answers' = answers \cup {[actor |-> actor, key |-> key, body |-> body, id |-> replay[<<actor, key>>].id]}

(* A POST whose key was used for the same body gets the stored answer.       *)
ReplayPost(w, c, key, body) ==
    /\ job[w] = Idle
    /\ CanWrite(c)
    /\ body.target \in Allowed[c]
    /\ ReplayOf(Holder[c], key, body)
    /\ UNCHANGED <<tables, job>>

(* _snapshot for PATCH and DELETE: the visible row, whose revision is the     *)
(* If-Match the client sent. A removed row ends a DELETE with 204 here.      *)
ReadRow(c, id) ==
    /\ CanWrite(c)
    /\ expense[id] # Null
    /\ TargetExists(expense[id].target)
    /\ expense[id].target \in Allowed[c]

ReceivePatch(w, c, id, body) ==
    /\ job[w] = Idle
    /\ ReadRow(c, id)
    /\ expense[id].rev < MaxRev
    /\ job' = [job EXCEPT ![w] = [Begin("PATCH", c) EXCEPT
                  !.pc = "read", !.id = id, !.row = expense[id], !.body = body]]
    /\ UNCHANGED <<tables, answers>>

ReceiveDelete(w, c, id) ==
    /\ job[w] = Idle
    /\ ReadRow(c, id)
    /\ ~expense[id].deleted
    /\ job' = [job EXCEPT ![w] = [Begin("DELETE", c) EXCEPT
                  !.pc = "ready", !.id = id, !.row = expense[id]]]
    /\ UNCHANGED <<tables, answers>>

(* A target is new when it is a POST's, or differs from the row's.           *)
NewTarget(j) == j.method = "POST" \/ j.body.target # j.row.target

SameCategory(j) == j.method = "PATCH" /\ j.row.category = j.body.category

(* The category the body names, or one that inference offers a paid plan.    *)
CategoryChoice(j) ==
    IF j.body.category = Inferred
    THEN IF j.plan \in Paid THEN Categories \ archived ELSE {}
    ELSE {j.body.category}

(* _valid_target and the category read: the evidence is the revision of the   *)
(* new target's project.                                                     *)
Validate(w) ==
    LET j == job[w] IN
    /\ j.pc = "read"
    /\ j.body.target \in Allowed[j.cred]
    /\ IF NewTarget(j) THEN TargetActive(j.body.target) ELSE TargetExists(j.body.target)
    /\ \E category \in CategoryChoice(j) :
          /\ SameCategory(j) \/ category \notin archived
          /\ job' = [job EXCEPT ![w] = [j EXCEPT
                !.pc = IF j.method = "POST" THEN "valid" ELSE "ready",
                !.category = category,
                !.evidence = IF NewTarget(j) /\ j.body.target # Shared
                             THEN project[j.body.target].rev ELSE 0]]
    /\ UNCHANGED <<tables, answers>>

(* prepare_expense_retention: the count, and then the row to retire. Over the *)
(* limit, or at it without consent, the request ends with 403.               *)
CountRecords(w) ==
    LET j == job[w]
        active == Cardinality(ActiveIds)
        limit == Cap[j.plan] IN
    /\ j.pc = "valid"
    /\ active < limit \/ (active = limit /\ j.user.auto)
    /\ job' = [job EXCEPT ![w].pc = IF active < limit THEN "ready" ELSE "full"]
    /\ UNCHANGED <<tables, answers>>

ChooseVictim(w) ==
    /\ job[w].pc = "full"
    /\ \E i \in Ids :
          /\ IsOldest(i)
          /\ expense[i].target \in Allowed[job[w].cred]
          /\ job' = [job EXCEPT ![w].pc = "ready", ![w].victim = i, ![w].lost = expense[i]]
    /\ UNCHANGED <<tables, answers>>

-----------------------------------------------------------------------------
(* The batch.                                                                *)

\* weakened: the membership row is not part of the guard
WriteGuardNoMember(j) == user = j.user /\ live[j.cred]

(* _write_guard: the exact account record, the exact membership, a live       *)
(* credential.                                                               *)
WriteGuard(j) ==
    /\ user = j.user
    /\ live[j.cred]
    /\ MemberOf(j.cred) = j.member

\* weakened: the project is trusted as it was read
TargetAsRead(j) == TRUE

TargetGuard(j) ==
    /\ TargetActive(j.body.target)
    /\ j.body.target # Shared => project[j.body.target].rev = j.evidence

\* weakened: the victim may have been edited since
RetireAnyRevision(j) ==
    j.victim # Null => IsOldest(j.victim) /\ Cardinality(ActiveIds) = Cap[j.plan]

RetirementGuard(j) ==
    j.victim # Null =>
        /\ IsOldest(j.victim)
        /\ expense[j.victim].rev = j.lost.rev
        /\ Cardinality(ActiveIds) = Cap[j.plan]

\* weakened: no primary key on the replay table
PostGuardNoKey(j) ==
    WriteGuard(j) /\ j.category \notin archived /\ TargetGuard(j) /\ RetirementGuard(j)

\* weakened: the category is trusted as it was read
PostGuardNoCategory(j) ==
    /\ WriteGuard(j)
    /\ TargetGuard(j)
    /\ RetirementGuard(j)
    /\ replay[<<Holder[j.cred], j.key>>] = Null

PostGuard(j) ==
    /\ WriteGuard(j)
    /\ j.category \notin archived
    /\ TargetGuard(j)
    /\ RetirementGuard(j)
    /\ replay[<<Holder[j.cred], j.key>>] = Null

CountAfter(j) == Cardinality(ActiveIds) + (IF j.victim = Null THEN 1 ELSE 0)

\* weakened: only the count read before the batch decides
FitsAsRead(j) == TRUE

(* The quota row is recounted after the mutations, in the same batch.        *)
Fits(j) == CountAfter(j) <= Cap[j.plan]

CommitPost(w) ==
    LET j == job[w] IN
    /\ j.pc = "ready" /\ j.method = "POST"
    /\ PostGuard(j)
    /\ Fits(j)
    /\ \E id \in Ids \ used :
          /\ RecordExpense(Holder[j.cred], j.key, j.body, j.category, id, j.victim, j.lost)
          /\ answers' = answers \cup {[actor |-> Holder[j.cred], key |-> j.key, body |-> j.body, id |-> id]}
    /\ job' = [job EXCEPT ![w] = Idle]

(* A batch that a guard aborted is not yet an answer: the handler looks for   *)
(* the replay row a concurrent duplicate may have written.                   *)
AbortPost(w) ==
    /\ job[w].pc = "ready" /\ job[w].method = "POST"
    /\ ~PostGuard(job[w])
    /\ job' = [job EXCEPT ![w].pc = "recheck"]
    /\ UNCHANGED <<tables, answers>>

ReplayAfterAbort(w) ==
    LET j == job[w] IN
    /\ j.pc = "recheck"
    /\ CanWrite(j.cred)
    /\ ReplayOf(Holder[j.cred], j.key, j.body)
    /\ job' = [job EXCEPT ![w] = Idle]
    /\ UNCHANGED tables

RowGuard(j) ==
    /\ expense[j.id] # Null
    /\ expense[j.id].rev = j.row.rev
    /\ ~expense[j.id].deleted
    /\ TargetExists(expense[j.id].target)

CategoryGuard(j) ==
    j.body.category = Inferred \/ j.category # j.row.category => j.category \notin archived

CommitPatch(w) ==
    LET j == job[w] IN
    /\ j.pc = "ready" /\ j.method = "PATCH"
    /\ WriteGuard(j)
    /\ CategoryGuard(j)
    /\ NewTarget(j) => TargetGuard(j)
    /\ RowGuard(j)
    /\ ReviseExpense(j.id, j.body, j.category, j.row)
    /\ job' = [job EXCEPT ![w] = Idle]
    /\ UNCHANGED answers

CommitDelete(w) ==
    LET j == job[w] IN
    /\ j.pc = "ready" /\ j.method = "DELETE"
    /\ WriteGuard(j)
    /\ RowGuard(j)
    /\ RemoveExpense(j.id, j.row)
    /\ job' = [job EXCEPT ![w] = Idle]
    /\ UNCHANGED answers

(* An error answer, a disconnect or a dead isolate: nothing was written.     *)
Abandon(w) ==
    /\ job[w] # Idle
    /\ job' = [job EXCEPT ![w] = Idle]
    /\ UNCHANGED <<tables, answers>>

-----------------------------------------------------------------------------
Receive(w) ==
    \E c \in Credentials :
        \/ \E key \in Keys, body \in Bodies : ReceivePost(w, c, key, body) \/ ReplayPost(w, c, key, body)
        \/ \E id \in Ids, body \in Bodies : ReceivePatch(w, c, id, body)
        \/ \E id \in Ids : ReceiveDelete(w, c, id)

Step(w) ==
    \/ Receive(w) \/ Validate(w) \/ CountRecords(w) \/ ChooseVictim(w)
    \/ CommitPost(w) \/ AbortPost(w) \/ ReplayAfterAbort(w)
    \/ CommitPatch(w) \/ CommitDelete(w) \/ Abandon(w)

Next ==
    \/ Administration /\ UNCHANGED <<job, answers>>
    \/ \E w \in Workers : Step(w)

Spec == Init /\ [][Next]_vars

-----------------------------------------------------------------------------
(* Properties.                                                               *)

(* A key sent twice with one body never leaves two expenses: whatever retries *)
(* and duplicates did, 201 answers to the same actor, key and body that name  *)
(* rows still stored name the same row. (Erasing a project forgets replays,   *)
(* and with them possibly the replay of a row that had moved elsewhere.)      *)
NoDoubleCharge ==
    \A a, b \in answers :
        /\ <<a.actor, a.key, a.body>> = <<b.actor, b.key, b.body>>
        /\ expense[a.id] # Null /\ expense[b.id] # Null
        => a.id = b.id

(* The audit trail of a stored expense is its history: one event per revision,*)
(* each starting from the image the one before it left, the last one ending   *)
(* in the row as stored; only the erasure of a project leaves gaps.           *)
Number(e) == IF e.before = Null THEN 1 ELSE e.before.rev + 1

AuditChain ==
    \A i \in Ids :
        expense[i] # Null =>
            LET mine == {e \in events : e.id = i}
                row == expense[i] IN
            /\ \A e, f \in mine : Number(e) = Number(f) => e = f
            /\ \A e, f \in mine : Number(f) = Number(e) + 1 => f.before = e.after
            /\ \A e \in mine : Number(e) <= row.rev
            /\ \A e \in mine : Number(e) = row.rev => e.after = IF row.deleted THEN Null ELSE row
            /\ \/ \A n \in 1..row.rev : \E e \in mine : Number(e) = n
               \/ \E p \in Projects : project[p].status = "gone"

(* Nothing of an erased project is left or comes back, though requests that   *)
(* read it may still be in flight, and no replay or event outlives its row.   *)
ErasureComplete ==
    /\ \A p \in Projects :
          project[p].status = "gone" =>
              /\ \A i \in Ids : ~Holds(p, expense[i])
              /\ \A e \in events : ~Holds(p, e.before) /\ ~Holds(p, e.after)
              /\ \A k \in Actors \X Keys : ~ErasedReplay(p, replay[k])
    /\ \A e \in events : expense[e.id] # Null
    /\ \A k \in Actors \X Keys : replay[k] # Null => expense[replay[k].id] # Null

(* What a request read of a row is still that row if the revision still       *)
(* matches: the revision alone may stand for the whole row in a guard.        *)
Coherent(row, i) ==
    i # Null /\ row # Null /\ expense[i] # Null /\ expense[i].rev = row.rev => expense[i] = row

SnapshotsCoherent ==
    \A w \in Workers : Coherent(job[w].row, job[w].id) /\ Coherent(job[w].lost, job[w].victim)

(* The active records never grow past the limit of the plan on record, or of   *)
(* the free one that took its place when its period ended, however many       *)
(* creations passed their own count before any of them committed.            *)
NeverGrowsPastLimit ==
    [][Cardinality(ActiveIds') > Cardinality(ActiveIds) =>
          \E plan \in {user.plan, EffectivePlan} : Cardinality(ActiveIds') <= Cap[plan]]_vars

(* Every write happens as if it were the only request: with the authority, the *)
(* target, the category, the row and the room it needs at the moment it lands.*)
Atomic == INSTANCE AtomicLedger WITH
    Members <- Members, Owner <- Owner, Credentials <- Credentials, Holder <- Holder,
    Allowed <- Allowed, KeyRevision <- KeyRevision, Plans <- Plans, Paid <- Paid, Free <- Free,
    Cap <- Cap, Projects <- Projects, Shared <- Shared, Categories <- Categories,
    Inferred <- Inferred, Days <- Days, Ids <- Ids, Keys <- Keys, Bodies <- Bodies,
    MaxRev <- MaxRev, AdminRev <- AdminRev, MaxPeriod <- MaxPeriod, Null <- Null,
    user <- user, lapsed <- lapsed, live <- live, member <- member, project <- project,
    archived <- archived, expense <- expense, events <- events, replay <- replay, used <- used

ImplementsAtomicLedger == Atomic!AtomicSpec

StepsAreAtomic == [][Atomic!Next]_tables
=============================================================================
