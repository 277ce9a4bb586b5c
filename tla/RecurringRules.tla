--------------------------- MODULE RecurringRules ---------------------------
(***************************************************************************)
(* Recurring expense rules: the HTTP management of a rule, the hourly tick  *)
(* that turns due occurrences into expenses, and the ledger of a rule's     *)
(* periods they share. Every handler is a chain of awaited reads and atomic *)
(* D1 batches; between two of them any other handler may commit, the day    *)
(* may change, and the handler may die.                                     *)
(*                                                                          *)
(* A day is a number. A schedule falls on one day of every period of        *)
(* `every` days; the calendar's own irregularities are not modelled here.   *)
(* What an expense costs is payload; its row is known by the occurrence.    *)
(***************************************************************************)
EXTENDS Naturals, FiniteSets

CONSTANTS
    Workers, Ticker,    \* slots that run one request each, and the hourly tick's
    Rules,              \* rule identities, ordered as their ids are
    Grants,             \* an actor, or an actor's API key, that may grant a rule
    Projects, Shared,
    Categories,
    Drafts,             \* what clients send: schedule, target, category
    Horizon,            \* the last day of the calendar
    MaxRules,           \* MAX_RULES_PER_OWNER
    MaxTickRules,       \* MAX_TICK_RULES
    MaxTickOccurrences, \* MAX_TICK_OCCURRENCES
    MaxPerRule,         \* occurrences of one rule in one tick
    MaxPending,         \* MAX_PENDING_OCCURRENCES
    MaxDay,             \* bound: the last day that comes
    MaxRev,             \* bound: no client changes a rule past it
    GrantRev,           \* bound: no grant is revised past it
    ProjectRev,         \* bound: no project is revised past it
    Null

Days    == 1..Horizon
Targets == Projects \cup {Shared}

Schedule == [every: Nat \ {0}, at: Nat, start: Days, end: Days \cup {Null}]
Draft    == [sched: Schedule, target: Targets, category: Categories]
Period   == [every: Nat \ {0}, number: Nat]

Status == {"active", "paused", "blocked", "completed", "canceled"}
Codes  == {"legacy", "denied"}  \* blocked_code: one an old release left, or any other

Row == [status: Status, rev: Nat, next: Days \cup {Null}, by: Grants, code: Codes \cup {Null},
        sched: Schedule, target: Targets, category: Categories]
Occurrence == [rule: Rules, period: Period, on: Days]
Failure    == [rule: Rules, period: Period, on: Days, category: Categories]

ASSUME DayAssumption     == Horizon \in Nat \ {0} /\ MaxDay \in Days
ASSUME LimitAssumption   ==
    /\ {MaxRules, MaxTickRules, MaxTickOccurrences, MaxPerRule, MaxPending, MaxRev, GrantRev, ProjectRev} \subseteq Nat
    /\ MaxPending # 0
ASSUME RuleAssumption    == Rules \subseteq Nat /\ Ticker \notin Workers
ASSUME TargetAssumption  == Shared \notin Projects
ASSUME DraftAssumption   == Drafts \subseteq Draft
ASSUME NullAssumption    == Null \notin Row /\ Null \notin Nat /\ Null \notin Codes

VARIABLES
    today,      \* the local day
    rule,       \* expense_recurring_rules
    used,       \* the rules ever created, by their creation key
    occurrence, \* expense_recurring_occurrences, each with its expense
    pending,    \* expense_recurring_pending
    grant,      \* grant[g]: may write expenses, and the revision of that
    project,    \* ledger_projects
    archived,   \* the categories with archived_at set
    limit,      \* what the plan says to one more expense
    job         \* job[w]: the handler in slot w and what it has read

tables == <<rule, used, occurrence, pending>>
around == <<today, grant, project, archived, limit>>
vars   == <<tables, around, job>>

Slots == Workers \cup {Ticker}

(* `want` is what a request would store or post, `failure` what a retry posts; *)
(* `queue`, `done` and `turn` are the tick's.                                *)
Idle == [pc |-> "idle", op |-> "none", rule |-> Null, row |-> Null, by |-> Null, grant |-> Null,
         now |-> 0, want |-> Null, evidence |-> 0, failed |-> FALSE, failure |-> Null,
         queue |-> {}, done |-> 0, turn |-> 0]

Job == [pc: {"idle", "read", "prepare", "commit", "fallback",
             "settle", "advance", "authorize", "reopen", "generate", "block", "weigh", "defer"},
        op: {"none", "create", "edit", "resume", "pause", "cancel", "retry", "tick"},
        rule: Rules \cup {Null}, row: Row \cup {Null}, by: Grants \cup {Null},
        grant: [rev: Nat, ok: BOOLEAN] \cup {Null},
        now: Nat, want: Draft \cup {Null}, evidence: Nat, failed: BOOLEAN, failure: Failure \cup {Null},
        queue: SUBSET [rule: Rules, row: Row], done: Nat, turn: Nat]

(* Every row, and everything a handler remembers, has its declared type.     *)
TypeOK ==
    /\ today \in 1..MaxDay
    /\ rule \in [Rules -> Row \cup {Null}]
    /\ used \subseteq Rules
    /\ occurrence \subseteq Occurrence
    /\ pending \subseteq Failure
    /\ grant \in [Grants -> [rev: Nat, ok: BOOLEAN]]
    /\ project \in [Projects -> [status: {"active", "archived", "gone"}, rev: Nat]]
    /\ archived \subseteq Categories
    /\ limit \in {"none", "capacity", "writes"}
    /\ job \in [Slots -> Job]

-----------------------------------------------------------------------------
(* The calendar.                                                             *)

First(days) == IF days = {} THEN Null ELSE CHOOSE d \in days : \A e \in days : d <= e

Falls(s, d) == (d - 1) % s.every = s.at

InRange(s, d) == d >= s.start /\ (s.end # Null => d <= s.end)

PeriodKey(s, d) == [every |-> s.every, number |-> (d - 1) \div s.every]

NextOccurrence(s, from) == First({d \in Days : d >= from /\ Falls(s, d) /\ InRange(s, d)})

(* The exact start day of a schedule may differ from the day it falls on; it  *)
(* consumes the period it lies in.                                           *)
AfterPeriod(s, d) ==
    First({e \in Days : e > d /\ Falls(s, e) /\ InRange(s, e) /\ PeriodKey(s, e) # PeriodKey(s, d)})

FutureOccurrence(s, now) == NextOccurrence(s, now + 1)

FutureAfterInitial(s, now) ==
    First({d \in Days : d > now /\ Falls(s, d) /\ InRange(s, d) /\ PeriodKey(s, d) # PeriodKey(s, s.start)})

-----------------------------------------------------------------------------
(* Rows. A rule an old release left blocked for capacity may exist at first. *)

Visible(t)      == t # Shared => project[t].status # "gone"
ActiveTarget(t) == t # Shared => project[t].status = "active"
Revision(t)     == IF t = Shared THEN 0 ELSE project[t].rev

Charged(r, p)  == \E o \in occurrence : o.rule = r /\ o.period = p
Deferred(r, p) == \E f \in pending : f.rule = r /\ f.period = p
PendingOf(r)   == {f \in pending : f.rule = r}

LegacyRow(g, draft) ==
    [status |-> "blocked", rev |-> 1, next |-> draft.sched.start, by |-> g, code |-> "legacy",
     sched |-> draft.sched, target |-> draft.target, category |-> draft.category]

Init ==
    /\ today = 1
    /\ \/ rule = [r \in Rules |-> Null] /\ used = {}
       \/ \E r \in Rules, g \in Grants, draft \in Drafts :
             rule = [[q \in Rules |-> Null] EXCEPT ![r] = LegacyRow(g, draft)] /\ used = {r}
    /\ occurrence = {} /\ pending = {}
    /\ grant = [g \in Grants |-> [rev |-> 1, ok |-> TRUE]]
    /\ project = [p \in Projects |-> [status |-> "active", rev |-> 1]]
    /\ archived = {}
    /\ limit = "none"
    /\ job = [w \in Slots |-> Idle]

-----------------------------------------------------------------------------
(* Requests.                                                                 *)

Uncanceled == {r \in Rules : rule[r] # Null /\ rule[r].status # "canceled" /\ Visible(rule[r].target)}

Template(row) == [sched |-> row.sched, target |-> row.target, category |-> row.category]

(* _snapshot: the rule row, whose revision is the If-Match the client sent,   *)
(* and the caller's authority.                                               *)
Begin(op, g, r, pc, want) ==
    [Idle EXCEPT !.op = op, !.by = g, !.grant = grant[g], !.now = today,
                 !.rule = r, !.row = rule[r], !.pc = pc, !.want = want]

Readable(w, g, r) ==
    /\ job[w] = Idle
    /\ grant[g].ok
    /\ rule[r] # Null
    /\ Visible(rule[r].target)
    /\ rule[r].status # "canceled"
    /\ rule[r].rev < MaxRev

(* A key that was used gets the stored answer and changes nothing.           *)
ReceiveCreate(w, g, r, draft) ==
    /\ job[w] = Idle
    /\ grant[g].ok
    /\ r \notin used
    /\ job' = [job EXCEPT ![w] = Begin("create", g, r, "read", draft)]
    /\ UNCHANGED <<tables, around>>

ReceiveEdit(w, g, r, draft) ==
    /\ Readable(w, g, r)
    /\ draft.target = rule[r].target
    /\ job' = [job EXCEPT ![w] = Begin("edit", g, r, "read", draft)]
    /\ UNCHANGED <<tables, around>>

ReceiveResume(w, g, r) ==
    /\ Readable(w, g, r)
    /\ job' = [job EXCEPT ![w] = Begin("resume", g, r, "read", Template(rule[r]))]
    /\ UNCHANGED <<tables, around>>

ReceiveStop(w, g, r, op) ==
    /\ Readable(w, g, r)
    /\ job' = [job EXCEPT ![w] = Begin(op, g, r, "commit", Null)]
    /\ UNCHANGED <<tables, around>>

(* A retry posts the frozen template of one retained failure.                *)
ReceiveRetry(w, g, r) ==
    /\ Readable(w, g, r)
    /\ \E f \in PendingOf(r) :
          job' = [job EXCEPT ![w] = [Begin("retry", g, r, "read",
                    [Template(rule[r]) EXCEPT !.category = f.category]) EXCEPT !.failure = f]]
    /\ UNCHANGED <<tables, around>>

(* A rule that starts today or earlier records its start as an expense.      *)
Initial(j) == j.op = "create" /\ j.want.sched.start <= j.now

Charging(j) == (Initial(j) \/ j.op = "retry") /\ ~j.failed

Validate(w) ==
    LET j == job[w] IN
    /\ j.pc = "read"
    /\ ActiveTarget(j.want.target)
    /\ j.want.category \notin archived
    /\ j.op = "create" => Cardinality(Uncanceled) < MaxRules
    /\ job' = [job EXCEPT ![w].pc = IF Charging(j) THEN "prepare" ELSE "commit",
                          ![w].evidence = Revision(j.want.target)]
    /\ UNCHANGED <<tables, around>>

(* prepare_expense_retention: a creation without room for its first expense   *)
(* will retain it as a failure, a retry without room ends with 403.          *)
Prepare(w) ==
    LET j == job[w] IN
    /\ j.pc = "prepare"
    /\ j.op = "create" \/ limit # "capacity"
    /\ job' = [job EXCEPT ![w].pc = "commit", ![w].failed = (limit = "capacity")]
    /\ UNCHANGED <<tables, around>>

\* weakened: the rule is written over whatever happened since
RuleGuardAnyRevision(j) == rule[j.rule] # Null /\ Visible(rule[j.rule].target)

RuleGuard(j) ==
    /\ rule[j.rule] # Null
    /\ rule[j.rule].rev = j.row.rev
    /\ Visible(rule[j.rule].target)

PlanGuard(j) ==
    /\ grant[j.by] = j.grant
    /\ j.want.category \notin archived
    /\ ActiveTarget(j.want.target)
    /\ Revision(j.want.target) = j.evidence

StatusOf(next) == IF next = Null THEN "completed" ELSE "active"

NewRule(j) ==
    LET next == IF Initial(j) THEN FutureAfterInitial(j.want.sched, j.now) ELSE j.want.sched.start IN
    [status |-> StatusOf(next), rev |-> 1, next |-> next, by |-> j.by, code |-> Null,
     sched |-> j.want.sched, target |-> j.want.target, category |-> j.want.category]

StartPeriod(s) == PeriodKey(s, s.start)

\* weakened: the fallback batch keeps the financial commands
StoreRuleAndExpense(j, failed) ==
    LET s == j.want.sched IN
    /\ j.rule \notin used
    /\ used' = used \cup {j.rule}
    /\ rule' = [rule EXCEPT ![j.rule] = NewRule(j)]
    /\ occurrence' = occurrence \cup
          {o \in {[rule |-> j.rule, period |-> StartPeriod(s), on |-> s.start]} : Initial(j)}
    /\ pending' = pending \cup
          {f \in {[rule |-> j.rule, period |-> StartPeriod(s), on |-> s.start, category |-> j.want.category]} :
             Initial(j) /\ failed}

StoreRule(j, failed) ==
    LET s == j.want.sched IN
    /\ j.rule \notin used
    /\ used' = used \cup {j.rule}
    /\ rule' = [rule EXCEPT ![j.rule] = NewRule(j)]
    /\ occurrence' = occurrence \cup
          {o \in {[rule |-> j.rule, period |-> StartPeriod(s), on |-> s.start]} : Initial(j) /\ ~failed}
    /\ pending' = pending \cup
          {f \in {[rule |-> j.rule, period |-> StartPeriod(s), on |-> s.start, category |-> j.want.category]} :
             Initial(j) /\ failed}

CommitCreate(w) ==
    LET j == job[w] IN
    /\ j.pc = "commit" /\ j.op = "create"
    /\ limit # "writes"
    /\ limit = "capacity" => ~Charging(j)
    /\ PlanGuard(j)
    /\ StoreRule(j, j.failed)
    /\ job' = [job EXCEPT ![w] = Idle]
    /\ UNCHANGED around

(* The last free record went to another expense since Prepare.               *)
RefuseCreate(w) ==
    LET j == job[w] IN
    /\ j.pc = "commit" /\ j.op = "create"
    /\ limit = "capacity" /\ Charging(j)
    /\ job' = [job EXCEPT ![w].pc = "fallback"]
    /\ UNCHANGED <<tables, around>>

CommitFallback(w) ==
    LET j == job[w] IN
    /\ j.pc = "fallback"
    /\ limit # "writes"
    /\ PlanGuard(j)
    /\ StoreRule(j, TRUE)
    /\ job' = [job EXCEPT ![w] = Idle]
    /\ UNCHANGED around

(* An edit of a paused or blocked rule leaves it so; a resume does not.      *)
Replanned(j) ==
    LET next == FutureOccurrence(j.want.sched, j.now)
        kept == j.op = "edit" /\ j.row.status \in {"paused", "blocked"} IN
    [status |-> IF kept THEN j.row.status ELSE StatusOf(next), rev |-> j.row.rev + 1, next |-> next,
     by |-> j.by, code |-> IF kept /\ j.row.status = "blocked" THEN j.row.code ELSE Null,
     sched |-> j.want.sched, target |-> j.want.target, category |-> j.want.category]

CommitPlan(w) ==
    LET j == job[w] IN
    /\ j.pc = "commit" /\ j.op \in {"edit", "resume"}
    /\ limit # "writes"
    /\ PlanGuard(j)
    /\ RuleGuard(j)
    /\ rule' = [rule EXCEPT ![j.rule] = Replanned(j)]
    /\ job' = [job EXCEPT ![w] = Idle]
    /\ UNCHANGED <<used, occurrence, pending, around>>

(* Stopping a rule needs authority and the rule as read, but no allowance.   *)
CommitStop(w) ==
    LET j == job[w]
        status == IF j.op = "pause" THEN "paused" ELSE "canceled" IN
    /\ j.pc = "commit" /\ j.op \in {"pause", "cancel"}
    /\ grant[j.by] = j.grant
    /\ RuleGuard(j)
    /\ rule' = [rule EXCEPT ![j.rule] = [rule[j.rule] EXCEPT !.status = status, !.code = Null, !.rev = @ + 1]]
    /\ job' = [job EXCEPT ![w] = Idle]
    /\ UNCHANGED <<used, occurrence, pending, around>>

(* The expense, its occurrence and the removal of the failure are one batch. *)
CommitRetry(w) ==
    LET j == job[w] IN
    /\ j.pc = "commit" /\ j.op = "retry"
    /\ limit = "none"
    /\ PlanGuard(j)
    /\ RuleGuard(j)
    /\ j.failure \in pending
    /\ ~Charged(j.rule, j.failure.period)
    /\ occurrence' = occurrence \cup {[rule |-> j.rule, period |-> j.failure.period, on |-> j.failure.on]}
    /\ pending' = pending \ {j.failure}
    /\ rule' = [rule EXCEPT ![j.rule].rev = @ + 1]
    /\ job' = [job EXCEPT ![w] = Idle]
    /\ UNCHANGED <<used, around>>

(* An error answer, a guard that aborted the batch, a disconnect, a dead      *)
(* isolate: nothing is written, and a tick gives up the rest of its queue.   *)
Abandon(w) ==
    /\ job[w] # Idle
    /\ job' = [job EXCEPT ![w] = Idle]
    /\ UNCHANGED <<tables, around>>

-----------------------------------------------------------------------------
(* The tick.                                                                 *)

tick == job[Ticker]

\* weakened: only what fell due before this day
DueBefore(row, now) == row.next # Null /\ row.next < now

Due(row, now) == row.next # Null /\ row.next <= now

Found ==
    {r \in Rules :
        /\ rule[r] # Null
        /\ rule[r].status = "active" \/ (rule[r].status = "blocked" /\ rule[r].code = "legacy")
        /\ Due(rule[r], today)
        /\ Visible(rule[r].target)}

(* ORDER BY next_run_at, id.                                                 *)
Before(e, f) == e.row.next < f.row.next \/ (e.row.next = f.row.next /\ e.rule < f.rule)

(* The next rule of the queue, if the tick may still handle an occurrence.   *)
TakeNext(j) ==
    IF j.queue = {} \/ j.done >= MaxTickOccurrences THEN Idle
    ELSE LET head == CHOOSE e \in j.queue : \A f \in j.queue \ {e} : Before(e, f) IN
         [Idle EXCEPT !.op = "tick", !.now = j.now, !.done = j.done, !.queue = j.queue \ {head},
                      !.rule = head.rule, !.row = head.row, !.by = head.row.by,
                      !.pc = IF head.row.status = "blocked" THEN "authorize" ELSE "settle"]

(* What follows one handled occurrence that left the rule as row.            *)
Proceed(j, row) ==
    IF /\ row.status = "active" /\ Due(row, j.now)
       /\ j.done + 1 < MaxTickOccurrences /\ j.turn + 1 < MaxPerRule
    THEN [j EXCEPT !.pc = "settle", !.row = row, !.grant = Null, !.evidence = 0, !.failed = FALSE,
                   !.done = @ + 1, !.turn = @ + 1]
    ELSE TakeNext([j EXCEPT !.done = @ + 1])

StartTick ==
    LET found  == {[rule |-> r, row |-> rule[r]] : r \in Found}
        queue  == {e \in found : Cardinality({f \in found : Before(f, e)}) < MaxTickRules} IN
    /\ tick = Idle
    /\ queue # {}
    /\ job' = [job EXCEPT ![Ticker] = TakeNext([Idle EXCEPT !.now = today, !.queue = queue])]
    /\ UNCHANGED <<tables, around>>

ThisPeriod(row) == PeriodKey(row.sched, row.next)

(* A rule of a project erased meanwhile is dropped; a period that was already *)
(* settled is not charged again.                                             *)
Settle ==
    /\ tick.pc = "settle"
    /\ job' = [job EXCEPT ![Ticker] =
          IF ~Visible(tick.row.target) THEN TakeNext(tick)
          ELSE [tick EXCEPT !.pc =
                  IF Charged(tick.rule, ThisPeriod(tick.row)) \/ Deferred(tick.rule, ThisPeriod(tick.row))
                  THEN "advance" ELSE "authorize"]]
    /\ UNCHANGED <<tables, around>>

(* The row once its period is dealt with.                                    *)
Advanced(row) ==
    LET next == AfterPeriod(row.sched, row.next) IN
    [row EXCEPT !.status = StatusOf(next), !.rev = @ + 1, !.next = next, !.code = Null]

MoveOn(row) ==
    /\ rule' = [rule EXCEPT ![tick.rule] = row]
    /\ job' = [job EXCEPT ![Ticker] = Proceed(tick, row)]

MaintenanceGuard ==
    /\ RuleGuard(tick)
    /\ tick.row.status = "active" => rule[tick.rule].status = "active"

Advance ==
    /\ tick.pc = "advance"
    /\ MaintenanceGuard
    /\ MoveOn(Advanced(tick.row))
    /\ UNCHANGED <<used, occurrence, pending, around>>

(* scheduled_authority and _validate_template, then the room for one expense. *)
Granted(row, by) == grant[by].ok /\ ActiveTarget(row.target) /\ row.category \notin archived

WithAuthority(pc) ==
    [tick EXCEPT !.pc = pc, !.grant = grant[tick.by], !.evidence = Revision(tick.row.target)]

Authorize ==
    /\ tick.pc = "authorize"
    /\ Granted(tick.row, tick.by)
    /\ job' = [job EXCEPT ![Ticker] = WithAuthority(
          IF tick.row.status = "blocked" THEN "reopen"
          ELSE IF limit = "capacity" THEN "weigh" ELSE "generate")]
    /\ UNCHANGED <<tables, around>>

(* Denied, or GitHub did not answer for a project.                           *)
Deny ==
    /\ tick.pc = "authorize"
    /\ ~Granted(tick.row, tick.by) \/ tick.row.target # Shared
    /\ job' = [job EXCEPT ![Ticker].pc = "block"]
    /\ UNCHANGED <<tables, around>>

Block ==
    LET row == [tick.row EXCEPT !.status = "blocked", !.rev = @ + 1, !.code = "denied"] IN
    /\ tick.pc = "block"
    /\ MaintenanceGuard
    /\ MoveOn(row)
    /\ UNCHANGED <<used, occurrence, pending, around>>

\* weakened: the grant is trusted as it was read
ScheduleGuardNoGrant(j) == RuleGuard(j) /\ rule[j.rule].by = j.by /\ rule[j.rule].status = j.row.status

(* _schedule_guard: the granting actor's exact authority, and the rule.      *)
ScheduleGuard(j) ==
    /\ RuleGuard(j)
    /\ rule[j.rule].by = j.by
    /\ rule[j.rule].status = j.row.status
    /\ j.row.status = "blocked" => rule[j.rule].code = j.row.code
    /\ grant[j.by] = j.grant

TemplateGuard(j) ==
    /\ j.row.category \notin archived
    /\ ActiveTarget(j.row.target)
    /\ Revision(j.row.target) = j.evidence

ReopenGuard   == ScheduleGuard(tick) /\ TemplateGuard(tick)
GenerateGuard == ScheduleGuard(tick) /\ TemplateGuard(tick) /\ ~Charged(tick.rule, ThisPeriod(tick.row))
DeferGuard    ==
    /\ ScheduleGuard(tick)
    /\ tick.failed => /\ Cardinality(PendingOf(tick.rule)) < MaxPending
                      /\ ~Charged(tick.rule, ThisPeriod(tick.row)) /\ ~Deferred(tick.rule, ThisPeriod(tick.row))

(* A rule an old release blocked for want of room is opened again, and goes   *)
(* through the same tick.                                                    *)
Reopen ==
    LET row == [tick.row EXCEPT !.status = "active", !.rev = @ + 1, !.code = Null] IN
    /\ tick.pc = "reopen"
    /\ ReopenGuard
    /\ rule' = [rule EXCEPT ![tick.rule] = row]
    /\ job' = [job EXCEPT ![Ticker] = [tick EXCEPT !.pc = "settle", !.row = row, !.grant = Null, !.evidence = 0]]
    /\ UNCHANGED <<used, occurrence, pending, around>>

(* The expense, its occurrence and the rule's next date are one batch.       *)
Generate ==
    LET row == tick.row IN
    /\ tick.pc = "generate"
    /\ limit = "none"
    /\ GenerateGuard
    /\ occurrence' = occurrence \cup {[rule |-> tick.rule, period |-> ThisPeriod(row), on |-> row.next]}
    /\ MoveOn(Advanced(row))
    /\ UNCHANGED <<used, pending, around>>

(* The plan refuses the batch: for want of room the occurrence is retained or *)
(* discarded, for want of writes the rule is blocked.                        *)
RefuseGenerate ==
    /\ tick.pc = "generate"
    /\ limit # "none"
    /\ job' = [job EXCEPT ![Ticker].pc = IF limit = "capacity" THEN "weigh" ELSE "block"]
    /\ UNCHANGED <<tables, around>>

\* weakened: a full list keeps one failure less than it may
WeighTooStrictly ==
    /\ tick.pc = "weigh"
    /\ job' = [job EXCEPT ![Ticker].pc = "defer",
                  ![Ticker].failed = Cardinality(PendingOf(tick.rule)) + 1 < MaxPending]
    /\ UNCHANGED <<tables, around>>

(* _defer_capacity: the first failures are kept, later ones are not.         *)
Weigh ==
    /\ tick.pc = "weigh"
    /\ job' = [job EXCEPT ![Ticker].pc = "defer",
                  ![Ticker].failed = /\ ~Deferred(tick.rule, ThisPeriod(tick.row))
                                     /\ Cardinality(PendingOf(tick.rule)) < MaxPending]
    /\ UNCHANGED <<tables, around>>

\* weakened: the newest failure replaces those retained
DeferReplacing ==
    LET row == tick.row
        failure == [rule |-> tick.rule, period |-> ThisPeriod(row), on |-> row.next, category |-> row.category] IN
    /\ tick.pc = "defer"
    /\ ScheduleGuard(tick)
    /\ pending' = (pending \ PendingOf(tick.rule)) \cup {failure}
    /\ MoveOn(Advanced(row))
    /\ UNCHANGED <<used, occurrence, around>>

Defer ==
    LET row == tick.row
        failure == [rule |-> tick.rule, period |-> ThisPeriod(row), on |-> row.next, category |-> row.category] IN
    /\ tick.pc = "defer"
    /\ DeferGuard
    /\ pending' = pending \cup {f \in {failure} : tick.failed}
    /\ MoveOn(Advanced(row))
    /\ UNCHANGED <<used, occurrence, around>>

(* A guard that no longer holds aborts the batch, and the tick with it.      *)
AbortTick ==
    /\ \/ tick.pc \in {"advance", "block"} /\ ~MaintenanceGuard
       \/ tick.pc = "reopen" /\ ~ReopenGuard
       \/ tick.pc = "generate" /\ ~GenerateGuard
       \/ tick.pc = "defer" /\ ~DeferGuard
    /\ job' = [job EXCEPT ![Ticker] = Idle]
    /\ UNCHANGED <<tables, around>>

-----------------------------------------------------------------------------
(* What happens around the rules.                                            *)

NextDay ==
    /\ today < MaxDay
    /\ today' = today + 1
    /\ UNCHANGED <<tables, grant, project, archived, limit, job>>

(* A membership, a key or an account record changes.                         *)
ChangeGrant(g) ==
    /\ grant[g].rev < GrantRev
    /\ \E ok \in BOOLEAN : grant' = [grant EXCEPT ![g] = [rev |-> @.rev + 1, ok |-> ok]]
    /\ UNCHANGED <<tables, today, project, archived, limit, job>>

PatchProject(p) ==
    /\ project[p].status # "gone"
    /\ project[p].rev < ProjectRev
    /\ \E status \in {"active", "archived"} :
          project' = [project EXCEPT ![p] = [status |-> status, rev |-> @.rev + 1]]
    /\ UNCHANGED <<tables, today, grant, archived, limit, job>>

EraseProject(p) ==
    LET erased == {r \in Rules : rule[r] # Null /\ rule[r].target = p} IN
    /\ project[p].status # "gone"
    /\ project' = [project EXCEPT ![p].status = "gone"]
    /\ rule' = [r \in Rules |-> IF r \in erased THEN Null ELSE rule[r]]
    /\ occurrence' = {o \in occurrence : o.rule \notin erased}
    /\ pending' = {f \in pending : f.rule \notin erased}
    /\ UNCHANGED <<used, today, grant, archived, limit, job>>

ArchiveCategory(c) ==
    /\ archived' = archived \cup {c}
    /\ UNCHANGED <<tables, today, grant, project, limit, job>>

(* Other writes of the workspace take up, or free, records and allowance.    *)
ChangeLimit ==
    /\ limit' \in {"none", "capacity", "writes"}
    /\ UNCHANGED <<tables, today, grant, project, archived, job>>

-----------------------------------------------------------------------------
Receive(w) ==
    \E g \in Grants, r \in Rules :
        \/ \E draft \in Drafts : ReceiveCreate(w, g, r, draft) \/ ReceiveEdit(w, g, r, draft)
        \/ ReceiveResume(w, g, r) \/ ReceiveRetry(w, g, r)
        \/ \E op \in {"pause", "cancel"} : ReceiveStop(w, g, r, op)

Request(w) ==
    \/ Receive(w) \/ Validate(w) \/ Prepare(w)
    \/ CommitCreate(w) \/ RefuseCreate(w) \/ CommitFallback(w)
    \/ CommitPlan(w) \/ CommitStop(w) \/ CommitRetry(w)

Read  == StartTick \/ Settle \/ Authorize \/ Deny \/ RefuseGenerate \/ Weigh
Write == Advance \/ Block \/ Reopen \/ Generate \/ Defer

Tick == Read \/ Write \/ AbortTick

Around ==
    \/ NextDay \/ ChangeLimit
    \/ \E g \in Grants : ChangeGrant(g)
    \/ \E p \in Projects : PatchProject(p) \/ EraseProject(p)
    \/ \E c \in Categories : ArchiveCategory(c)

Next ==
    \/ \E w \in Workers : Request(w)
    \/ Tick \/ Around
    \/ \E w \in Slots : Abandon(w)

Spec == Init /\ [][Next]_vars

-----------------------------------------------------------------------------
(* Properties.                                                               *)

(* A period of a rule is charged at most once or waits as one retained        *)
(* failure, never both, and never for a rule that is gone; no more than       *)
(* MaxPending failures wait for one rule.                                    *)
OneFate ==
    /\ \A o, q \in occurrence : o.rule = q.rule /\ o.period = q.period => o = q
    /\ \A f, h \in pending : f.rule = h.rule /\ f.period = h.period => f = h
    /\ \A f \in pending : ~Charged(f.rule, f.period)
    /\ \A x \in occurrence \cup pending : rule[x.rule] # Null
    /\ \A r \in Rules : Cardinality(PendingOf(r)) <= MaxPending

(* The rules and the ledger of their periods are as they should be: typed, and  *)
(* with one fate for each period.                                            *)
Consistent == TypeOK /\ OneFate

(* A rule is only ever due on its exact start or on a day its schedule falls  *)
(* on, whatever it was edited, resumed, deferred or blocked into.            *)
OnDate(row) == row.next # Null => row.next = row.sched.start \/ Falls(row.sched, row.next)
OnSchedule  == \A r \in Rules : rule[r] # Null => OnDate(rule[r])

(* The tick never steps over a period that should have been charged: when it  *)
(* moves a rule's date, the old date's period is charged or retained, or was  *)
(* discarded because MaxPending failures are retained already.               *)
Ticked == job'[Ticker] # job[Ticker]

NothingSkipped ==
    [][\A r \in Rules :
        Ticked /\ rule[r] # Null /\ rule'[r] # Null /\ rule'[r].next # rule[r].next =>
            \/ \E x \in occurrence' \cup pending' : x.rule = r /\ x.period = ThisPeriod(rule[r])
            \/ Cardinality(PendingOf(r)) >= MaxPending]_vars

(* Money is only recorded by consent in force at that moment: the tick charges *)
(* an active rule that is due, of an actor who may still write, to an active  *)
(* target and category, and no more for a retry than one retained failure of a *)
(* rule that was not canceled.                                               *)
ChargedWithConsent ==
    [][\A o \in occurrence' \ occurrence :
        LET row == rule[o.rule] IN
        IF Ticked
        THEN /\ row # Null /\ row.status = "active" /\ row.next = o.on /\ o.on <= today
             /\ grant[row.by].ok /\ ActiveTarget(row.target) /\ row.category \notin archived
        ELSE row # Null => row.status # "canceled" /\ Deferred(o.rule, o.period)]_vars

(* A canceled rule never changes, charges or gains a failure again, whatever   *)
(* read it before it was canceled; it can only go with its project.          *)
CancelIsFinal ==
    [][\A r \in Rules :
        rule[r] # Null /\ rule[r].status = "canceled" =>
            \/ rule'[r] = Null
            \/ /\ rule'[r] = rule[r]
               /\ \A x \in (occurrence' \cup pending') \ (occurrence \cup pending) : x.rule # r]_vars

(* A retained failure stays until its expense is recorded or its project goes: *)
(* later failures, edits and cancellation never replace it.                  *)
RetainedUntilPosted ==
    [][\A f \in pending \ pending' :
        rule'[f.rule] = Null \/ \E o \in occurrence' : o.rule = f.rule /\ o.period = f.period]_vars

(* A due date is dealt with: charged, retained, discarded, blocked or stopped, *)
(* though a tick handles few rules and may be killed.                        *)
DueIsHandled ==
    \A r \in Rules, d \in 1..MaxDay :
        (rule[r] # Null /\ rule[r].status = "active" /\ rule[r].next = d /\ d <= today)
            ~> ~(rule[r] # Null /\ rule[r].status = "active" /\ rule[r].next = d)

(* The documented limit: at most MaxRules uncanceled rules in a workspace.    *)
RuleLimit == Cardinality(Uncanceled) <= MaxRules
=============================================================================
