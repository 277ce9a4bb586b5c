# A formal model of pullwise-server

pullwise-server is the Python backend of a shared expense ledger. It runs on
Cloudflare Workers with a D1 (SQLite) database. This directory holds TLA+ modules
translated from its source, the TLC runs that check them on small instances, and
proofs, checked by the TLA+ proof system, of the properties that matter most.

The server has one execution pattern, and almost everything below follows from
it. A handler is a chain of awaited reads, provider calls and pure computation,
and ends in **one atomic D1 batch**. The batch repeats, as *guard rows*
(`INSERT INTO d1_command_guard(ok) VALUES(CASE WHEN ... THEN 1 ELSE 0 END)`), the
conditions the handler decided by; a guard row that is 0 violates a CHECK and
rolls the whole batch back. Between two awaits any other handler may commit. So
each model has a *job* record per running handler, with what it has read so far,
one action per await, and one action per batch; the question is always whether
the guards repeat enough of what was read.

## 1. Inventory

Paths are under `src/pullwise_server/` unless they say otherwise.

| Component | State it keeps | Operations | What makes it correct |
|---|---|---|---|
| Expenses `cloudflare_ledger_expenses.py` | `expenses`, `expense_events`, `expense_create_idempotency` | POST (idempotent), PATCH and DELETE (If-Match) | a retried creation charges once; the audit trail is the history; every write is authorised when it lands |
| Retention `cloudflare_expense_retention.py` | preference in the account record | preference, choice of the oldest row and its soft removal inside the creating batch | only the oldest active row, only with consent, only at the limit |
| Plan limits `cloudflare_plan_limits.py` | `ledger_plan_usage` | every business batch recounts and meters itself | records never grow past the plan; windows roll over without losing counts |
| Recurring rules `cloudflare_ledger_recurring.py` | `expense_recurring_rules`, `_occurrences`, `_pending` | create, edit, resume, pause, cancel, retry; hourly tick | each period has one fate; nothing due is skipped or starves; no charge without consent in force |
| Recurrence calendar `ledger_recurrence_calendar.py` | none | next, following and future occurrence, period key, due instant | no drift, no period twice |
| Recurring notifications `cloudflare_recurring_notifications.py` | `notification_state` of a pending row | claim, send, settle, inbox | neither lost nor sent twice after a settled send |
| Projects, categories `cloudflare_ledger_api.py`, `cloudflare_ledger_categories.py`, `cloudflare_project_repositories.py` | `ledger_projects`, `expense_categories`, repository links | create, patch, archive, link | revision-checked edits; archived ones take no new expense |
| Project erasure `cloudflare_project_erasure.py` | all ledger tables | one closed recipe of deletions | nothing of the project is left or comes back |
| Authentication `cloudflare_principal.py`, `cloudflare_ledger_auth.py` | sessions, `api_keys`, account records | authority of a request | exact re-check in the batch |
| Workspaces `cloudflare_workspaces.py` | members, invites, join requests | invite, accept, two reviews, role change, removal | one approval makes one member; limits hold under races |
| API keys `cloudflare_api_key_write.py` | `api_keys` | create, revoke | revocation is immediate and never blocked by quota |
| Account billing `account_cycle_rules.py`, `billing_account_rules.py` | account record | effective plan, reduction of billing events | a late event does not regress a newer state |
| Webhooks `cloudflare_creem_handler.py`, `cloudflare_webhook_receipts.py`, `cloudflare_account_adapter.py` | receipts, account record | receive, park, settle | each event settles once |
| Billing mutations `cloudflare_billing_mutations.py` | upgrade claim in the account record | claim before a chargeable request | no second charge after a lost answer |
| GitHub identity `cloudflare_github_refresh.py` and its HTTP shell | encrypted token record | claim, exchange, publish | a one-use refresh token is neither lost nor used twice |
| Email login `cloudflare_email_auth.py` | challenges, sessions | request, verify | single use, bounded attempts, newest code only |
| State records `cloudflare_state_records.py` | `app_state` | compare-and-set of JSON records | no lost update |
| Preview coordinator `cloudflare_validation_budget.py`, `cloudflare_preview_budget.py`, `src/cloudflare/server/src/entry.py` | budget journal, product lock | tickets, metered batches, recovery, hourly trigger | what was spent stays accounted after a crash |
| Suggestions, review `cloudflare_ledger_suggestions.py`, `cloudflare_ledger_review.py`, `cloudflare_jev_gateway.py` | suggestion budget and events | category inference | reserved before the provider call |
| Reports, export, activity `cloudflare_ledger_api.py`, `cloudflare_ledger_activity.py` | none of their own | paged reads, the CSV stream, the activity walk | a walk returns every row that was there all along, once; each page is served under the authority in force |
| HTTP contract, catalogue, scripts | none of their own | routing, limits, formatting, operator tools | |

How they interact: everything meets in D1. An expense request reads the account
record (plan, retention preference), the membership row, the credential, the
target project and the category, and may wait seconds for a provider between
those reads and its batch; all of the other handlers write those rows. The tick
writes expenses on behalf of the person who last saved a rule, possibly long
after. Project erasure deletes from every table that the other handlers hold
snapshots of.

The hard behaviours, each at its line, are the `hazards` of `PROJECT.json`.

## 2. Modules

| Module | Role |
|---|---|
| `LedgerTables` | the tables of one workspace, authority, the three financial batches as operators, and the *Administration*: the commits of the neighbouring handlers |
| `ExpenseLedger` | the expense handlers as they run, step by step, in concurrent slots; implements `AtomicLedger` |
| `RecurringRules`, `RecurringNotifications` | rule management requests and the hourly tick; over them, how a retained failure is told |
| `RecurrenceCalendar`, `AccountCycles` | the calendar of schedules and the billing cycles of an account, as functions |
| `RecurringDates` | rules, their calendar and the cycles together: what each assumes of the others |
| `WorkspaceGovernance` | invitations, applications, reviews, roles; implements `AtomicGovernance` |
| `PlanUsage` | the usage row of an account and the allowances every business batch is held to |
| `ProjectLifecycle` | projects, repository links and erasure, over `PlanUsage`; implements `RepositoryHomes` |
| `JevReview` | the model's review of a saved expense and its suggestions for a draft, over `PlanUsage` |
| `Categories` | categories of a ledger |
| `LedgerAccess` | who may read a ledger, paged reads, exports, API keys |
| `RateLimits` | the two admission counters of the coordinator |
| `Billing` | one account and its payment provider |
| `Identity` | sign-in, links and token rotation; implements `IdentityRegistry` |
| `BudgetJournal` | the coordinator of the preview deployment; implements `ReservedUse` |
| `...Proofs` | theorems about the module of that name for all constants; `RecurringRulesProofs` also about `RecurringNotifications`, `RecurringDates` and the calendar, `ProjectLifecycleProofs` also about `PlanUsage` |
| `ReadersAndReviewsProofs` | theorems about `LedgerAccess`, `JevReview`, `RateLimits` and `Categories` |
| `MC...` + `.cfg` | small instances for TLC |

`PROJECT.json` maps each definition to the source lines it translates. A
definition under a comment `\* weakened: ...` is a plausible mistake in the
definition that follows it; no specification uses it. Substituting it
breaks the property `PROJECT.json` pairs it with, which shows the
property depends on that code.

Composition. `RecurringNotifications` extends `RecurringRules`: every step of a rule's
handler is one of its steps, and a handler that has retained a failure tells it before
it goes on. `ProjectLifecycle` and `JevReview` extend `PlanUsage`: their batches are
`PlanUsage` batches with more in them, so the usage row is counted over
real projects and real reservations. `ExpenseLedger` extends `LedgerTables`, whose
Administration stands for the other handlers that write the same tables.
`MCReadersAndReviews` puts `JevReview`, `LedgerAccess`, `RateLimits` and `Categories`
side by side; they share no variable and each behaviour explores one of them.

### ExpenseLedger

State: `user` (plan, period, retention preference), `lapsed` (the clock has passed
the paid period), `live` credentials, `member` rows, `project` rows, `archived`
categories, `expense` rows, `events`, `replay` rows, `used` ids; `job[w]` for each
running request; `answers`, a history of the 201 answers.

One request goes through: `ReceivePost/Patch/Delete` (`_snapshot`, one batch of
reads) → `Validate` (`_valid_target`, category or its inference) → for a POST
`CountRecords` and `ChooseVictim` (`prepare_expense_retention`) → `CommitPost`,
`CommitPatch` or `CommitDelete` (the batch with `WriteGuard`, `TargetGuard`,
`CategoryGuard`, `RowGuard`, `RetirementGuard`, and the recount `Fits`). A batch
aborted by a guard leads a POST to `AbortPost` and `ReplayAfterAbort`, the lookup
of a concurrent duplicate's answer. `Abandon` is every error answer, disconnect
and dead isolate: nothing was written. A lost answer followed by a retry is a
second `ReceivePost` or `ReplayPost` with the same key and body.

Abstractions. Amounts, currency, notes and units are payload. An expense is told
apart by target, category and day. The retention order `occurred_on, created_at,
id` is day, then id: ids are chosen freely, so every tie-break occurs. A
credential is a session or an API key with its targets and the membership
revision it is bound to. The plan in force is read once per request; expiry by
the clock may come between (`lapsed`). Ids are uuids and do not repeat (`used`).

### RecurringRules

State: `rule` rows, `used` (creation keys, a UNIQUE column), `occurrence`,
`pending`; around them `today`, `grant` (the granting person's account,
membership and key folded into "may write" and a revision, because the batch
guards compare them exactly), `project`, `archived`, and `limit`: what the plan
answers to one more expense: nothing, a *capacity* code, or a *write allowance*
code. `limit` changes freely, since any expense of the workspace changes it.

Requests: `Receive*` → `Validate` → `Prepare` (only when an expense is to be
written) → `CommitCreate`, `CommitPlan` (edit, resume), `CommitRetry`; pause and
cancel go straight to `CommitStop` and need no allowance. A creation whose
financial batch is refused for capacity goes through `RefuseCreate` and
`CommitFallback`. The tick: `StartTick` (the bounded scan) → per occurrence
`Settle` (already charged or retained?) → `Advance`, or `Authorize`/`Deny` →
`Generate`, `Block`, or `Weigh` and `Defer`; a row that a release before the
pending table blocked for capacity goes `Authorize` → `Reopen` first. A failed
guard raises out of the whole tick (`AbortTick`).

Abstractions. Days are numbers; a schedule falls on one day of every period of
`every` days, and its start may be any other day of its first period, as in the
code. A draft is schedule, target and category. Several reads that the code does
back to back, each repeated by its own guard, are one step (`Authorize`). The
rows with `revision = 2^53-1`, which the tick skips, are left out. Preview runs
everything under one product lock, local and production builds run requests
concurrently, and the tests of the tick change rows between its reads and its batch; the
model allows all of it, which includes each of them.

### RecurringNotifications

Over the rules: `notice[f]` (`notification_state`, recipient and `created_at` of a retained failure),
`readers`, `note[w]` (what a handler is telling), `mailed` (history). `Tell` is the
chain of `cloudflare_recurring_notifications.py`: read, claim (a guarded batch), mail, settle. A
claim whose owner died stays `sending`: it is in the inbox and never mailed again.
`Kill` is a worker that dies at any of these points. The records a claim compares count as one revision,
that of the actor's grant. A gateway that is not configured, or an address that
is not verified, is one that did not send.

`Inbox` is the page the handler answers with: of the rows that await the actor, in this workspace and
elsewhere, the `MaxNotifications` (100) that come first by `created_at`, rule and period, with
`HasMore` and no cursor. So a failure may be out of sight, and `ToldOnce` does not say otherwise: it says that
a retained failure that was not mailed is on the page, or the page is full, every row of it is older, and the answer
says that there are more, as `docs/planning/recurring-expenses-project-links.md:112` promises. The rows other
workspaces hold for the actor, or its other keys, are any subset of the constant `Foreign` at each
reading. A day stands for the instant of `created_at`; the key of a period is compared by number. A row whose owner's
record cannot be read, which the handler leaves off its page, and the wording are left out.

### RecurrenceCalendar and AccountCycles

Every function of `ledger_recurrence_calendar.py` over proleptic ordinals:
`next_occurrence`, `following_occurrence`, `future_occurrence`, `period_key`,
`due_timestamp`; and `account_cycle_rules.py`: the plan in force and the monthly cycle that the
counters belong to. `RecurringRules` assumes only that a schedule falls on one day
of each of its periods; `EachPeriodOnce` states that of real dates. A zone has one clock change.
Instants of accounts are half days, their finer time of day is left out. They lie between the epoch and the last
date there is, a cycle is looked at while the month after it has a date (before 30 November 9999), and a preview
grant lasts 31 days at most, as its parser demands. The loop at the end of `monthly_cycle_bounds` has no counterpart: `CyclesAreOpen`
shows that it never runs. `RecurringDates` joins rules, calendar and cycles in `DatesNeverDrift`.

### WorkspaceGovernance

State: `members`, `invites`, `requests` (applications), `elsewhere` (memberships of
other workspaces, because the per-person limit counts them), `clock`, `job[w]`. `Receive` reads, and
`CheckApply` and `CheckApprove` read again, what `cloudflare_workspaces.py` reads before its batch; `Commit` is
the batch of invite, revoke, apply, reject, approve (`_review` 470-570), change of
role, remove and leave, with its fences. `AtomicGovernance` says the same of one moment:
every condition holds of the rows as they are when they change.
Left out: creating, renaming and listing workspaces, invitations that older
releases addressed to one person, the maximum revision 2^53-1 and the account and
credential conjuncts of the fences (`LedgerTables` and `LedgerAccess` have those).

### PlanUsage, ProjectLifecycle, JevReview, Categories

`PlanUsage`: `usage` (the `ledger_plan_usage` row), `account`, `clock`, the counts
`projects` and `records`, and histories `charged[t]` and `reserved[m]`. `Receive` →
`Inspect` (the read that refuses early) → `Commit` (the UPSERT with its CHECKs).
`Kinds` says which kinds of batch are metered, recounted or exempt (revocation, pausing,
canceling and removing members); the exempt routes are described there and
have no action each. A request carries the time it arrived at however late it commits.

`ProjectLifecycle`: `row[id]` (revision, anchor, status), `bound` (the links), `held`,
`activity`, `gone`. Requests create, patch (links and status), erase, or record an expense: one read,
GitHub's answer (any subset of the repositories: an organization may take access away at any time), one
batch with `FINAL_GUARD`. Erasure confirms counts and revision and deletes from every table. Names, URLs and
organizations are left out; authority is in `ExpenseLedger` and `LedgerAccess`.

`JevReview`: read the expense (`ReadSource`, a review) or the draft (`ReadDraft`, a suggestion, also the one
that follows an expense's batch), reserve (`Price`, `Reserve`: a batch of its own), `Ask`
the provider, read again, `Publish` the hints in a fenced batch; people decide them. Ordinary
requests change the expense, its possible duplicate and the category at any point. A review is fenced on its expense,
category and duplicate, a suggestion on its duplicate only: its category is compared when it is decided.
A run of it starts with the one project of its expense. A review with Jev disabled, which asks no provider
and reserves nothing, is left out.

`Categories`: create, rename, archive, remove, with the unique index on names in use.
Colors and authority are left out.

### LedgerAccess and RateLimits

`LedgerAccess`: one host, one member, one API key. A call reads its credential,
the account, the membership, with an await in between, then reads all of them again in the batch
that returns the page. Lists go by cursor, the CSV export streams pages, the
activity log walks events under a retention window. Others write between any two
steps. One call at a time is enough: reads do not disturb each other. Header and
cookie parsing, filters, sums, the hiding of fields and keys of the member's own ledger are not modelled.

`RateLimits`: `PreviewRateLimiter` and `EmailRateLimiter` with the time a call
carries, in any order; limits and windows are scaled. A credential's bucket is that of
the source it comes from: one credential from two sources, and `Retry-After`, are left out.

### Billing

State: the `account` record, its `authority` (entitlement row with its dirty flag),
`receipt` and `parked` (webhook receipts), the provider's `log`, and `job[h]`. Handlers: `Deliver`
(late, again, in any order) → record, settle, refresh; `Checkout`, `Cancel`,
`Resume`, `Upgrade`, `Grant`, each a read, a provider call whose answer may be lost or a refusal, a
guarded write, and for the upgrade a claim before and its restoration after.
`Crash` ends a handler anywhere. One account; trialing counts as active and
unpaid as past due; the billing interval is part of the product. Events with the
same `created` tie in arrival order. The look-up of a receipt is one step with its recording. `reconcile_pending_for_owner`
and `stage_account_write` are called by no route and left out.

### BudgetJournal

State: `journal` (the Durable Object's row), `run` and `call` (the request that
holds the lock and its database call), `stray` (a call D1 still runs after its
request gave up), `db`, `deploy`, and histories in `truth`. The coordinator prepares,
begins (reserves), plans, calls and finishes; `Execute` is D1, which may retry, overrun or answer late
(`Abandon`, `RunLate`); `Restart` loses `run`; `ManualStop` is the operator. Eight schema
upgrades share one pattern and the constant rows say how they differ; initialization and clear are two more
one-use cases. The lock is held by a product request, a health check, the hourly tick or the operator's grant (`Jobs`);
the last two never initialize or upgrade (`Attending`). Every reason to stop in `cloudflare_preview_budget.py` is one of `Reasons`.
Writes are counted like reads and never given back, so they are left out;
the integrity checks of a record are `verified`; `VALIDATION_BUSY`, the bounded queue in front of the lock, finite plans
that no route reaches, and `migrate_product_state_records` are not modelled; `reconcile_schema_reads`, called before
each request, finds nothing left to do, since the constructor has already resumed that stop; journals below version 11 count as not typed.

### Identity

State: `app` (users, sessions, challenges, and the records that name who owns a
GitHub id or an email), `accounts`, GitHub's side of a grant, the mails, and
`req[p]`. Requests: GitHub login, link, install callback, email request and
verification, and a use of a token that may rotate it (claim, exchange, publish, recovery, `cloudflare_github_refresh.py`).
A request may die between any two steps; other writers of the user's record are `WriteUser`.
A random identifier is the number of the request that drew it. Sessions do not expire by time,
grants without a refresh token are left out, an access token may expire at any time. How many wrong guesses
concurrent requests may make is not a property; that a challenge counts no further than its limit is.

## 3. Runs

| Run | Instance | Shows |
|---|---|---|
| `expense_erasure` | owner with a session and a shared-pool API key, 2 slots, 2 ids, 1 key, 1 project; revisions ≤ 2; a limit of 2, so nothing is retired and no plan changes (`expense_retirement` has both) | `NoDoubleCharge`, `ErasureComplete`, `SnapshotsCoherent`, and that the handlers implement `AtomicLedger` |
| `expense_retirement` | a member with an API key, 2 plans (limits 1 and 2), starts at the limit; 3 ids, 2 keys, 2 slots | `AuditChain`, `NeverGrowsPastLimit`, and `StepsAreAtomic`: only the row that is oldest at that moment is retired, with its image |
| `recurring_requests` | 2 request slots and the tick on one rule whose start is not its usual day, 4 days, 1 retained failure (2.7 M states) | `Consistent` (each period has one fate), `NothingSkipped`, `CancelIsFinal`, `RetainedUntilPosted` |
| `recurring_liveness` | 2 daily rules, ticks of one rule each, grants change, ticks and tellings may be killed; a page of 2 notifications and up to 4 of another workspace; real dates, zones and cycles | `DueIsHandled`, `ChargedWithConsent`, `NoticesReach`, `DatesNeverDrift` |
| `recurring_rule_limit` | 2 creations, limit 1 | **violation** of a documented limit, see below |
| `workspaces` | 2 people, 2 links, 2 slots, limits of 1 member and 1 open link (0.4 M states) | `Consistent`, and that the handlers implement `AtomicGovernance` |
| `projects` | 2 projects, 2 repositories, 2 slots, 3 requests, 2 months of 2 minutes (0.3 M states) | `LifeConsistent`, `CountersExact`, `WithinAllowance`, and that the handlers implement `RepositoryHomes` |
| `jev_review` | five parts, one per behaviour: a review or a suggestion and a request; a reader against 1 edit and 1 change of access; each rate limiter with 4 calls; 2 editors of 2 categories (4.7 M states) | `ReviewsHold`, `WalksComplete`, `ServedWithAuthority`, `RatesHold`, `CategoriesHold` |
| `billing` | 2 subscriptions, 2 handlers, 2 events, 2 requests and crashes together (0.4 M states) | `Consistent`, `CleanProjection`, `ClaimKept`, `EventuallySettled` |
| `billing_upgrade` | 1 subscription, 4 events | **violation** of a comment, see below |
| `budget` | journals of versions 6 and 11 and a fresh one, 2 calls a request, 3 requests, 1 restart (1.3 M states) | `JournalIsTrue`, `NothingAfterUnknown`, `LockIsReleased`, and that the coordinator implements `ReservedUse` |
| `identity` | 1 GitHub id, 1 email, 3 requests (1.1 M states) | `Consistent`, `GrantStillWorks`, `SentAndUsedOnce`, `NothingLost`, `RevokedStaysOut`, and that sign-in implements `IdentityRegistry` |

Why these bounds are enough to meet the interesting cases: every race in this
code is between one handler's reads and another's batch, so two slots (and the
tick) give every pair; a third party is always available as a step of the
surroundings (Administration, `Elsewhere`, `Environment`, `WriteUser`). Two ids and two days
give every order of the retention choice, three ids let a third creation meet a
full ledger. Limits of one are reached by the first commit and passed by the
second if a guard were missing. Names that begin with `Max`, and `AdminRev`, `GrantRev` and `ProjectRev`, that are not
limits of the code, only stop counters from growing; a revision bound of 2 already lets a snapshot
go stale and a bound of 3 lets it go stale twice. `MaxRules`, `MaxTickRules`,
`MaxTickOccurrences`, `MaxPerRule`, `MaxPending`, `MaxNotifications`, `MaxMembers`, `MaxInvites`, `MaxRequests` of the
workspaces, `MaxParked`, `MaxAttempts`, `PageSize`, `Window`, `RateRows` and `MailRows` are limits of
the code made small so that they are reached. A read page of several rows is not reached, and the
activity log's retention, which takes at most 16 rows a time, takes all that are due in the model.

`recurring_requests` has the constraint `OneChange`: of an authority, a project and
a category, one changes in a behaviour (each may be the one). `workspaces` has `Bound` (one
membership elsewhere, two applications), `jev_review` has `OneEvent`. Symmetry of slots, and of
projects and repositories, is used only in runs that check no liveness.
Deadlock checking is off: once the counters are at their bounds and every request
has ended there may be nothing left to do.

Fairness is used by three runs.

- `NoticeFairSpec` (`recurring_liveness`): the hourly trigger keeps coming and a tick in
  progress goes on, the mail included, which the gateway bounds in time; and from some time on ticks are no longer killed from
  outside. Nothing is assumed of clients, administrators or the limit, which may
  change for ever. Ticks that abort because a guard failed are not excluded: they
  are tried again, and `DueIsHandled` holds because each abort needs a change of a row.
- `Fairness` (`billing`): a handler goes on (weak), and the provider
  delivers an event again until its last delivery was answered (strong, as Creem documents and
  the handler's 5xx answers rely on).
- `FairSpec` (`budget`): the event loop goes on with the request that holds the lock,
  and a D1 call is answered or times out. Restarts and the operator owe nothing.

### Findings

`docs/planning/recurring-expenses-project-links.md:89` says "there are at most 100
uncanceled rules per workspace". `cloudflare_ledger_recurring.py:280-284` counts
them before the batch, and neither a guard in the batch nor a trigger or
constraint in the migrations repeats the count. `recurring_rule_limit` shows two
creations that both counted below the limit and both committed. (The record
limit, by contrast, is recounted in the batch, and the pending limit has a guard
and a trigger.)

`cloudflare_billing_mutations.py:159` says of an upgrade "A lost response remains
pending; retrying it must not charge a second time.", and keeps a `billingChange`
claim for it. Settling an event of a failing status clears that claim whatever it was claimed for
(`billing_account_rules.py:249`). `billing_upgrade`: the provider emits a `past_due` and then an
`active` event; before either is delivered the account upgrades and the upgrade
is carried out; the late `past_due` event clears the claim, the late `active` event
restores the status, and a retry sends the provider a second upgrade.

## 4. Proofs

Every theorem below holds for every value of the constants that meets the named
assumptions of its module (identities are finite sets or numbers, `Null` is none of them,
limits are natural numbers); no bound on slots, ids, revisions or requests of a
run is used beyond the guards that name it. Each proof has the same shape: an inductive invariant `IInv`, a lemma per
action for it, and the theorem by `PTL`. Each property is also checked by TLC on the run that lists it.

**`ExpenseLedgerProofs`** (of `ExpenseLedger!Spec`):

- `TypeCorrect`: `TypeOK`. It needs `JobShape`: a request at a given program counter
  has read what that point of the handler relies on (a POST in its batch has a
  key and a category, a chosen victim comes with its image). `Shaped` joins them.
- `SnapshotsAreCoherent`: `SnapshotsCoherent`. A revision identifies the row. The
  invariant `Dated` says that a row a request remembers exists still or is gone
  for good, that its revision is not ahead of the stored one, and that equal revisions mean
  equal rows; it holds because every write advances the revision of the row it
  changes (`RowsAdvance`) and an erased id is never issued again (`Stored`).
- `NeverChargesTwice`: `NoDoubleCharge`. The invariant `Settled` says that every
  answer is still backed by its replay row, or its expense is gone, or the target
  its body names has been erased, and then no request can use that body again.
  The last case is the reason the invariant needs more than the replay table: an
  expense that moved to another project outlives the erasure of the project it
  was created for, its replay does not.
- `ErasureIsComplete`: `ErasureComplete`. A batch can only store a row of a project that
  is active (`TargetGuard`) or that the stored row is already in, and audit images
  are stored rows (by `SnapshotsCoherent`), so nothing of an erased project returns.
- `WritesAreAtomic`: `StepsAreAtomic`, and `ImplementsLedger`: `ImplementsAtomicLedger`. `Informed`
  says that the account a request has read is the account as it is, or has an older period
  or an older revision of the preference, which its batch compares; with `Dated` that makes
  authority, target, consent and victim those of the moment of the batch. One lemma per
  action names the abstract step, or shows that there is none.
- `StaysWithinLimit`: `NeverGrowsPastLimit`. The batch counts again, with the plan that was read: the
  bound is the limit of the account's own plan or of the plan that is left when its paid
  period lapses, since a request may read the plan right before the lapse.
- `AuditIsComplete`: `AuditChain`. The events of an expense are a chain of images, each the
  successor of the one before, and the last is the stored row.

**`BudgetJournalProofs`** (of `BudgetJournal!Spec`, for journals of every version
4 to 12): `JournalStaysTrue` (`JournalIsTrue`), `UnknownIsFinal`
(`NothingAfterUnknown`), `KeepsReservedUse` (`ImplementsReservedUse`). The invariant
joins `TypeOK`, `LockInv` (which fields of `run` and `call` mean something at each
program counter), `PlanInv` (a one-use case is marked before its write is sent, and at which schema and cardinality it
runs), `ReserveInv` (what a call may still read is within what was set aside for it), `KnownInv` (schema and verified cardinality
are those of D1 whenever no call is out) and `OnceInv`.

**`WorkspaceGovernanceProofs`**: `GovernanceConsistent` (`Consistent`) and
`GovernsAtomically` (`ImplementsAtomicGovernance`). The invariant is `Shaped` (types, and
what the rows of an invitation and its applications say of each other), `OneAdmission` and
`LimitsHold`; `JobShape` says what a request has read at its counter. One lemma per batch shows it to be the
abstract step of its name, from the fences of the batch and `JobShape`.

**`RecurringRulesProofs`**: `RulesConsistent` (`Consistent`), `TickSkipsNothing`
(`NothingSkipped`), `ChargesNeedConsent` (`ChargedWithConsent`), `CanceledStays`
(`CancelIsFinal`), `FailuresAreRetained` (`RetainedUntilPosted`). The invariant is
`TypeOK`, created once, one fate per period, finitely many retained failures, and `RequestShape` and `TickShape`:
what a request or the tick remembers of a rule is a row that was stored, and an equal revision means an equal
row. `StepIs` classifies every step by the one table change it may make, and the four action properties follow from it.
`NoticesAreTold` (`NoticesReach`, of `NoticeSpec`) rests on the same invariant: a failure that was retained once is
`Known` for good, as pending, charged or gone with its rule, and is never retained again (`Forward`, of every
step of the rules). So a mail, a claim or a settlement is about the failure it was about when it was read, one
handler at most is sending it, and a claim that finds the revision it read finds a recipient who may read. That the
inbox is full before a row is out of sight is `OldestFillThePage`: in a finite set of rows in one order (`RowsAreOrdered`) the number of
older rows is an injection into 0 to n - 1, so it is onto, and exactly `MaxNotifications` rows have fewer older ones than that.
`RulesFallOnDates` (`OnSchedule`, the part of `DatesNeverDrift` that is about the rules) needs of the calendar only that
each of its functions returns a day of a set it chose from. `DatesStayOnSchedule` is the whole of it, of `NoticeSpec`:

- The calendar: `FirstIsFound` (`NextIsFirst`), `PeriodIsChargedOnce` (`EachPeriodOnce`), `PlansGoOn` (`FutureSkipsConsumed`),
  for every schedule that `schedule_input` accepts and every date up to 31 December 9999. The bounds of years and months come
  from the formula of `Date` (a year has 365 or 366 days, a month ends where the next begins), which
  makes `Year`, `Month` and `Day` unique. Periods are numbered from the year 0; the days grow with them
  (`PeriodsAdvance`), a schedule falls on exactly one day of each (`FallsOnOneDay`), and two days lie in one
  period exactly when `period_key` says so (`KeysTellPeriods`; of weeks because the year of a week's Thursday does not go back).
- `DueIsFirst` (`DueIsEarliest`), for every pair of offsets and every instant of the change. The search in a gap is a recursive function (`BisectFinds`): a table shows that there is one, and
  the shortest interval from which it missed the instant would contain a shorter one.
- The cycles: `CyclesAreOpen` (`CycleIsOpen`), `CyclesCoverTime` (`CyclesTile`), `CycleDaysStay`
  (`CyclesKeepTheirDay`), for every account and instant above. A *turn* of an anchor is the instant a number of months after it; turns follow each
  other, each lies in its own month, and an instant is between one turn and the next (`CycleFound`). So
  the first reset that `monthly_cycle_bounds` computes is always ahead, and every case of `quota_cycle_for_user` is two turns of one anchor,
  cut at the limit.

**`ProjectLifecycleProofs`** (of `PlanUsage!PlanSpec` and `ProjectLifecycle!LifeSpec`):
`UsageIsExact`, `CountersStayExact` (`CountersExact`), `UsageIsWithin`,
`BatchesWithinAllowance` (`WithinAllowance`), `ProjectsConsistent` (`LifeConsistent`), `ProjectsImplementHomes`
(`ImplementsHomes`). `PlanInv` says that the usage row sums the batches of its
minute and month, that no request comes from the future, and that nothing is charged before there is a row; `LifeInv` adds that a
repository has one home, that records are the sum of what projects hold, and `AskShape`: a
patch that read the stored revision has read the repositories now bound. Creation, patch and
erasure then map to `Open`, `Relink` and `Erase`, and every other step changes no home.

**`BillingProofs`** (of `Billing!Spec`, whose fairness it does not use): `AccountAgrees`
(`Consistent`), `EntitlementIsClean` (`CleanProjection`), `ClaimsAreKept` (`ClaimKept`). Beside
what every event and request may carry, the invariant says that the provider's log is in order of time
(`LogOrdered`), that no account, stored or read, is ahead of it (`NotAhead`), that what was heard of the
current subscription is no newer than the account's mark (`Heard`), and that the state stored is that of an
event heard unless one of them is still to come (`Told`, `Echo`): a request that writes what
it asked for before its event arrives leaves the event to confirm it. The proof corrected
`ClaimKept`: the claim of a former subscription does give way to one of the current
(`cloudflare_billing_mutations.py:118`), which the run is too small to meet.

**`IdentityProofs`** (of `Identity!Spec`, for any number of people and requests): `OneOwnerEach`
(`Consistent`), `GrantsStillWork` (`GrantStillWorks`), `MailsAndCodes` (`SentAndUsedOnce`), `WritesStay`
(`NothingLost`), `SignedOutStaysOut` (`RevokedStaysOut`), `IdentitiesImplementRegistry`
(`ImplementsRegistry`). `Owners` is the heart of the invariant: an identity that a user carries leads
back to that user, by its record or, without one, by the legacy identifier; and the records name users that
carry it. With it: sessions belong to accounts (`Signed`), what is numbered by a
request was made by it (`Fresh`), what each request has read (`Reads`), a state or code is held, stored or
spent (`StatesOnce`, `CodesOnce`), a grant is carried by one user and sent by the request whose claim the
user has (`Grants`), and after each code that was sent either the challenge still keeps the next one back or
it was used (`Spaced`). Two assumptions on the constants come from the code: identities are not 0, and
`2 * SendInterval <= CodeAge` (60 and 600 seconds), since a code that expired sooner would be swept
and another sent. The proof corrected `MailSpacing`: a
second mail may follow within the interval when a code was used in between, which takes four requests.

**`ReadersAndReviewsProofs`**: `CategoriesAreSound` (`CategoriesHold`), `ReviewsAreSound` (`ReviewsHold`),
`RatesAreSound` (`RatesHold`), `WalksAreComplete` (`WalksComplete`), `ReadersAreAuthorized` (`ServedWithAuthority`).

- Categories: a request holds a row that is the stored one or an earlier revision of it, a creation holds an id
  nobody else holds, and so the name looked up before the batch is looked up again by the index.
- Reviews: what was asked of the provider in a month, with the request now under way, is within what was
  reserved of it; a hint is checked in its own batch against the rows it is about.
- Rates: the tally of a window is that of its row while the row lasts, and a row is only forgotten or swept when the
  limiter's own clock, which no late call turns back, has left its window; the row of an address also lasts
  the minute that keeps the next mail back. Proving it replaced an ambiguous case in `Bumped`.
- Readers: `WalkHeld` says that the cursor separates what was listed from what is still to come, by the rank
  of each row in its list (the id in the list, day and id in the export, hour and id in the
  activity), so a page adds exactly the rows between two cursors, for a walk of any length. `AuthHeld` says what
  was decided about a reader at each counter; the batch compares it again with the rows, and equal rows decide
  equally. Two assumptions were missing from `LedgerAccess` and are now stated: a guest may be an editor (as the
  member of `AccessInit` is), and the absence of an event is not an event.

What stays with TLC: liveness (`DueIsHandled`, `EventuallySettled`, `LockIsReleased`),
because the prover does not handle fairness and ENABLED. Every invariant and every action property that a passing run
checks, and every refinement, is a theorem. No module that is proved about declares a recursive operator; the one recursive
function is the search of `due_timestamp`.

## 5. Not modelled

Formatting and parsing, HTTP limits, the cryptography of signatures and tokens,
e-mail and provider wire formats, the billing catalogue, and operator scripts. Time within a day appears only
where the code decides by it (lapse of a plan, due instants). What each module leaves out of
its component is said with the module above and in `PROJECT.json`.

## 6. Plan

The modules planned are written, and every safety property that a passing run checks is
proved of its specification for all constants. What is left, most valuable first:

1. That the counters `PlanUsage` charges are those the expense batches count by rows (`Fits` of `LedgerTables`).
2. Zones whose clock changes more than once between the two readings of a midnight, and times of day finer than a half day.
3. The parts marked *partly* in `PROJECT.json`, each where its note says what is left out.
