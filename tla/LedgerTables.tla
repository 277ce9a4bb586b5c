---------------------------- MODULE LedgerTables ----------------------------
(***************************************************************************)
(* The D1 tables one workspace's expense ledger lives in, the authority     *)
(* that every handler re-checks inside its atomic batch, and the commits of *)
(* the neighbouring handlers (account, projects, categories, members,       *)
(* credentials, billing) that an expense request may race with.             *)
(*                                                                          *)
(* A D1 batch is one atomic step: a failed guard row aborts all of it.      *)
(* Amount, currency, purpose, note, quantity and unit are payload nothing   *)
(* below depends on; a body is told apart by its target, category and day.  *)
(***************************************************************************)
EXTENDS Naturals, FiniteSets

CONSTANTS
    Members,        \* actors that are members of the workspace
    Owner,          \* the actor that owns the workspace
    Credentials,    \* browser sessions and API keys
    Holder,         \* the actor a credential belongs to
    Allowed,        \* the targets a credential may touch
    KeyRevision,    \* membership revision an API key is bound to, 0 for a session
    Plans, Paid,    \* commercial plans, and those with category inference
    Free,           \* the plan in force when a paid period has ended
    Cap,            \* the active-record limit of a plan
    Projects, Shared,
    Categories, Inferred,   \* Inferred: the body leaves its category to inference
    Days,           \* values of occurredOn, as ordered numbers
    Ids,            \* expense identities, ordered as the TEXT ids are
    Keys,           \* Idempotency-Key values
    Bodies,         \* request bodies the clients send
    MaxRev,         \* bound: no expense is revised past it
    AdminRev,       \* bound: no account, member or project is revised past it
    MaxPeriod,      \* bound: billing periods of an account
    Null            \* SQL NULL, an absent row

Actors  == Members \cup {Owner}
Targets == Projects \cup {Shared}
Roles   == {"admin", "editor", "viewer", "removed"}

Body  == [target: Targets, category: Categories \cup {Inferred}, day: Days]
Row   == [target: Targets, category: Categories, day: Days, rev: Nat, deleted: BOOLEAN]
Event == [id: Ids, before: Row \cup {Null}, after: Row \cup {Null}]

ASSUME ActorAssumption ==
    /\ Owner \notin Members
    /\ Holder \in [Credentials -> Actors]
    /\ Allowed \in [Credentials -> SUBSET Targets]
    /\ KeyRevision \in [Credentials -> Nat]
ASSUME PlanAssumption   == Paid \subseteq Plans /\ Free \in Plans /\ Cap \in [Plans -> Nat]
ASSUME TargetAssumption == Shared \notin Projects /\ Inferred \notin Categories
ASSUME IdAssumption     == Ids \subseteq Nat /\ Days \subseteq Nat /\ IsFiniteSet(Ids)
ASSUME BodyAssumption   == Bodies \subseteq Body
ASSUME BoundAssumption  == {MaxRev, AdminRev, MaxPeriod} \subseteq Nat
ASSUME NullAssumption   == Null \notin Row /\ Null \notin [body: Body, id: Ids] /\ Null \notin Ids

VARIABLES
    user,       \* the owner's account record: plan and its billing period, retention
                \* preference and its revision
    lapsed,     \* the period of the recorded plan has ended by the clock
    live,       \* live[c]: the session is not deleted, the key not revoked (expiry is
                \* judged by the request's own clock, so it cannot pass in between)
    member,     \* workspace_members: role and revision
    project,    \* ledger_projects: status and revision, "gone" once erased
    archived,   \* the categories with archived_at set
    expense,    \* expenses
    events,     \* expense_events
    replay,     \* expense_create_idempotency, by actor and key
    used        \* the expense ids ever issued: a uuid does not repeat

tables == <<user, lapsed, live, member, project, archived, expense, events, replay, used>>

User    == [plan: Plans, period: Nat, auto: BOOLEAN, autoRev: Nat]
Member  == [role: Roles, rev: Nat]
Project == [status: {"active", "archived", "gone"}, rev: Nat]
Replay  == [body: Body, id: Ids]

(* Every row has its declared type.                                         *)
TablesTypeOK ==
    /\ user \in User
    /\ lapsed \in BOOLEAN
    /\ live \in [Credentials -> BOOLEAN]
    /\ member \in [Members -> Member]
    /\ project \in [Projects -> Project]
    /\ archived \subseteq Categories
    /\ expense \in [Ids -> Row \cup {Null}]
    /\ events \subseteq Event
    /\ replay \in [Actors \X Keys -> Replay \cup {Null}]
    /\ used \subseteq Ids

(* A workspace after its owner signed up, made its projects and categories   *)
(* and let the members in as editors, before the first expense.              *)
TablesInit ==
    /\ user \in [plan: Plans, period: {1}, auto: {FALSE}, autoRev: {1}]
    /\ lapsed = FALSE
    /\ live = [c \in Credentials |-> TRUE]
    /\ member = [m \in Members |-> [role |-> "editor", rev |-> 1]]
    /\ project = [p \in Projects |-> [status |-> "active", rev |-> 1]]
    /\ archived = {}
    /\ expense = [i \in Ids |-> Null]
    /\ events = {}
    /\ replay = [k \in Actors \X Keys |-> Null]
    /\ used = {}

-----------------------------------------------------------------------------
(* Authority. A member writes expenses as an admin or editor, and a key of a *)
(* member only while the membership still has the revision it is bound to.   *)

CanWrite(c) ==
    /\ live[c]
    /\ Holder[c] # Owner =>
          /\ member[Holder[c]].role \in {"admin", "editor"}
          /\ KeyRevision[c] \in {0, member[Holder[c]].rev}

TargetExists(t) == t # Shared => project[t].status # "gone"
TargetActive(t) == t # Shared => project[t].status = "active"

(* Retention and capacity work on the active rows: not removed, and visible. *)

ActiveIds == {i \in Ids : expense[i] # Null /\ ~expense[i].deleted /\ TargetExists(expense[i].target)}

Older(i, j) ==
    \/ expense[i].day < expense[j].day
    \/ expense[i].day = expense[j].day /\ i < j

IsOldest(i) == i \in ActiveIds /\ \A j \in ActiveIds \ {i} : Older(i, j)

(* effective_user_plan: a lapsed period needs no write to the account record.  *)
EffectivePlan == IF lapsed THEN Free ELSE user.plan

(* What a batch leaves behind. Retiring a row is a soft delete with its own   *)
(* event; `victim` is Null when there was room.                              *)

Removed(row) == [row EXCEPT !.deleted = TRUE, !.rev = @ + 1]

NewRow(body, category) ==
    [target |-> body.target, category |-> category, day |-> body.day, rev |-> 1, deleted |-> FALSE]

\* weakened: an edit keeps the revision
EditedInPlace(row, body, category) ==
    [row EXCEPT !.target = body.target, !.category = category, !.day = body.day]

Edited(row, body, category) ==
    [row EXCEPT !.target = body.target, !.category = category, !.day = body.day, !.rev = @ + 1]

(* The row changes of the two financial batches. `image` and `lost` are the   *)
(* before images the handler read earlier and writes into the audit events.   *)

RetiredRow(victim, i) == IF i = victim THEN Removed(expense[i]) ELSE expense[i]

RetireEvent(victim, lost) ==
    IF victim = Null THEN {} ELSE {[id |-> victim, before |-> lost, after |-> Null]}

RecordExpense(actor, key, body, category, id, victim, lost) ==
    LET row == NewRow(body, category) IN
    /\ expense' = [i \in Ids |-> IF i = id THEN row ELSE RetiredRow(victim, i)]
    /\ events' = events \cup RetireEvent(victim, lost)
                        \cup {[id |-> id, before |-> Null, after |-> row]}
    /\ replay' = [replay EXCEPT ![<<actor, key>>] = [body |-> body, id |-> id]]
    /\ used' = used \cup {id}
    /\ UNCHANGED <<user, lapsed, live, member, project, archived>>

ReviseExpense(id, body, category, image) ==
    /\ expense' = [expense EXCEPT ![id] = Edited(@, body, category)]
    /\ events' = events \cup {[id |-> id, before |-> image, after |-> Edited(image, body, category)]}
    /\ UNCHANGED <<user, lapsed, live, member, project, archived, replay, used>>

RemoveExpense(id, image) ==
    /\ expense' = [expense EXCEPT ![id] = Removed(@)]
    /\ events' = events \cup {[id |-> id, before |-> image, after |-> Null]}
    /\ UNCHANGED <<user, lapsed, live, member, project, archived, replay, used>>

-----------------------------------------------------------------------------
(* The commits of the other handlers.                                        *)

SetRetention(choice) ==
    /\ user.auto # choice
    /\ user.autoRev < AdminRev
    /\ user' = [user EXCEPT !.auto = choice, !.autoRev = @ + 1]
    /\ UNCHANGED <<lapsed, live, member, project, archived, expense, events, replay, used>>

ChangePlan(plan) ==
    /\ user.period < MaxPeriod
    /\ user' = [user EXCEPT !.plan = plan, !.period = @ + 1]
    /\ lapsed' = FALSE
    /\ UNCHANGED <<live, member, project, archived, expense, events, replay, used>>

PlanLapses ==
    /\ user.plan # Free
    /\ ~lapsed
    /\ lapsed' = TRUE
    /\ UNCHANGED <<user, live, member, project, archived, expense, events, replay, used>>

RevokeCredential(c) ==
    /\ live[c]
    /\ live' = [live EXCEPT ![c] = FALSE]
    /\ UNCHANGED <<user, lapsed, member, project, archived, expense, events, replay, used>>

ChangeMember(m, role) ==
    /\ member[m].rev < AdminRev
    /\ member[m].role # role
    /\ member' = [member EXCEPT ![m] = [role |-> role, rev |-> @.rev + 1]]
    /\ UNCHANGED <<user, lapsed, live, project, archived, expense, events, replay, used>>

PatchProject(p, status) ==
    /\ project[p].status # "gone"
    /\ project[p].rev < AdminRev
    /\ project' = [project EXCEPT ![p] = [status |-> status, rev |-> @.rev + 1]]
    /\ UNCHANGED <<user, lapsed, live, member, archived, expense, events, replay, used>>

ArchiveCategory(c) ==
    /\ c \notin archived
    /\ archived' = archived \cup {c}
    /\ UNCHANGED <<user, lapsed, live, member, project, expense, events, replay, used>>

(* The closed erasure recipe: rows of the project, replays that answered for  *)
(* it or for one of its rows, and every event that shows it.                  *)
Holds(p, row)  == row # Null /\ row.target = p
RowsOf(p)      == {i \in Ids : Holds(p, expense[i])}
EventsOf(p)    == {e \in events : e.id \in RowsOf(p) \/ Holds(p, e.before) \/ Holds(p, e.after)}
ErasedReplay(p, r) == r # Null /\ (r.id \in RowsOf(p) \/ r.body.target = p)

EraseProject(p) ==
    /\ project[p].status # "gone"
    /\ project' = [project EXCEPT ![p].status = "gone"]
    /\ expense' = [i \in Ids |-> IF i \in RowsOf(p) THEN Null ELSE expense[i]]
    /\ events' = events \ EventsOf(p)
    /\ replay' = [k \in Actors \X Keys |-> IF ErasedReplay(p, replay[k]) THEN Null ELSE replay[k]]
    /\ UNCHANGED <<user, lapsed, live, member, archived, used>>

Administration ==
    \/ \E choice \in BOOLEAN : SetRetention(choice)
    \/ \E plan \in Plans : ChangePlan(plan)
    \/ PlanLapses
    \/ \E c \in Credentials : RevokeCredential(c)
    \/ \E m \in Members, role \in Roles : ChangeMember(m, role)
    \/ \E p \in Projects, status \in {"active", "archived"} : PatchProject(p, status)
    \/ \E c \in Categories : ArchiveCategory(c)
    \/ \E p \in Projects : EraseProject(p)
=============================================================================
