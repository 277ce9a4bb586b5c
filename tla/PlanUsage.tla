----------------------------- MODULE PlanUsage -----------------------------
(***************************************************************************)
(* The commercial allowances of one account: PlanLimitedD1 reads the usage  *)
(* row before a business batch, refuses what it can see is too much, and    *)
(* appends one UPSERT whose CHECK constraints decide again inside the batch. *)
(* A request carries the time it arrived at, however late it commits.        *)
(***************************************************************************)
EXTENDS Integers, FiniteSets

CONSTANTS
    Workers,
    Allowance,        \* Allowance[plan]: its entry of the policy
    MinutesPerMonth,  \* a month is this many minutes (its length does not matter)
    JevCost,          \* JEV_RESERVATION_MICROUSD, in the unit of Allowance[_].jev
    Ends,             \* the minutes a paid period may end at; 0, never paid
    MaxMinute,        \* bound: the clock stops here
    MaxRows,          \* bound: projects and expenses that may exist
    Null

Plans == {"free", "paid"}

ASSUME PlanAssumption ==
    /\ Allowance \in [Plans -> [projects : Nat, records : Nat, minute : Nat, month : Nat, jev : Nat]]
    /\ Allowance["free"].jev = 0    \* parse_policy: Jev requires a paid plan
    /\ {MinutesPerMonth, JevCost} \subseteq Nat \ {0} /\ {MaxMinute, MaxRows} \subseteq Nat /\ Ends \subseteq Nat

VARIABLES
    account,    \* the stored user: when its paid period ends, and the Jev preference
    usage,      \* the ledger_plan_usage row, or Null
    projects,   \* rows of ledger_projects, archived ones too
    records,    \* active expenses
    clock,      \* minutes
    job,        \* job[w]: the request in slot w
    charged,    \* history: charged[m], the batches charged to minute m
    reserved    \* history: reserved[k], the model calls reserved in month k

tables == <<account, usage, projects, records>>
history == <<charged, reserved>>
planVars == <<tables, clock, job, history>>

Minutes == 0..MaxMinute
MonthOf(t) == t \div MinutesPerMonth
Months == {MonthOf(t) : t \in Minutes}

Kinds == {"project", "expense", "remove", "edit", "reserve"}
Account == [until : Nat, jev : BOOLEAN]
Usage == [projects : Nat, records : Nat, month : Nat, writes : Nat, minute : Nat,
          minuteWrites : Nat, jev : Nat]
Idle == [pc |-> "idle", kind |-> "edit", now |-> 0, account |-> [until |-> 0, jev |-> TRUE],
         minuteSeen |-> 0, monthSeen |-> 0]
Job == [pc : {"idle", "read", "priced"}, kind : Kinds, now : Minutes, account : Account,
        minuteSeen : Nat, monthSeen : Nat]

ASSUME UsageAssumption == Null \notin Usage

PlanTypeOK ==
    /\ account \in Account /\ usage \in Usage \cup {Null}
    /\ projects \in Nat /\ records \in Nat
    /\ clock \in Minutes /\ job \in [Workers -> Job]
    /\ charged \in [Minutes -> Nat] /\ reserved \in [Months -> Nat]

(* Accounts older than the usage table come with rows it has not counted.    *)
PlanInit ==
    /\ account \in [until : Ends, jev : {TRUE}]
    /\ usage = Null
    /\ \E legacy \in 0..1 : projects = legacy /\ records = legacy
    /\ clock = 0
    /\ job = [w \in Workers |-> Idle]
    /\ charged = [m \in Minutes |-> 0] /\ reserved = [k \in Months |-> 0]

(* effective_user_plan: a paid period that has ended counts as free.         *)
PlanOf(a, t) == IF t < a.until THEN "paid" ELSE "free"
Limits(j) == Allowance[PlanOf(j.account, j.now)]

Adds(j, kind) == IF j.kind = kind THEN 1 ELSE 0
Write(j) == IF j.kind = "reserve" THEN 0 ELSE 1
JevDelta(j) == Adds(j, "reserve") * JevCost
RecordDelta(j) == Adds(j, "expense") - Adds(j, "remove")

Larger(a, b) == IF a < b THEN b ELSE a
(* The batches of a month, one by one.                                       *)
BatchesIn(f, k) == UNION {{m} \X (1..f[m]) : m \in {m \in Minutes : MonthOf(m) = k}}
Total(f, k) == Cardinality(BatchesIn(f, k))

-----------------------------------------------------------------------------
(* Before the batch: the row as it is read, and the denials it allows.       *)

Receive(w, kind) ==
    /\ job[w].pc = "idle"
    /\ job' = [job EXCEPT ![w] = [Idle EXCEPT !.pc = "read", !.kind = kind, !.now = clock, !.account = account]]
    /\ UNCHANGED <<tables, clock, history>>

SeenIn(j, window) ==
    IF usage = Null THEN 0
    ELSE IF window = "minute" THEN (IF usage.minute = j.now THEN usage.minuteWrites ELSE 0)
    ELSE IF usage.month = MonthOf(j.now) THEN usage.writes ELSE 0

Admissible(j) ==
    /\ usage # Null => MonthOf(j.now) >= usage.month /\ j.now >= usage.minute
    /\ j.kind = "reserve" => PlanOf(j.account, j.now) = "paid"
    /\ j.kind = "project" =>
           (IF usage = Null THEN projects ELSE usage.projects) + 1 <= Limits(j).projects
    /\ j.kind = "expense" => records + 1 <= Limits(j).records
    /\ Write(j) = 1 => /\ SeenIn(j, "minute") + 1 <= Limits(j).minute
                       /\ SeenIn(j, "month") + 1 <= Limits(j).month
    /\ j.kind = "reserve" =>
           /\ JevCost <= Limits(j).jev
           /\ usage # Null => (usage.month = MonthOf(j.now) => usage.jev + JevCost <= Limits(j).jev)

Inspect(w) ==
    /\ job[w].pc = "read"
    /\ Admissible(job[w])
    /\ job' = [job EXCEPT ![w].pc = "priced", ![w].minuteSeen = SeenIn(job[w], "minute"),
                          ![w].monthSeen = SeenIn(job[w], "month")]
    /\ UNCHANGED <<tables, clock, history>>

-----------------------------------------------------------------------------
(* The batch: the account fence, the domain statements and the counter.      *)

(* _USAGE_SQL, evaluated after the domain statements of the batch.           *)
Upsert(j) ==
    LET u == usage
        sameMonth == u # Null /\ u.month = MonthOf(j.now)
        sameMinute == u # Null /\ u.minute = j.now IN
    [projects |-> (IF u = Null THEN projects ELSE u.projects) + Adds(j, "project"),
     records |-> records + RecordDelta(j),
     month |-> MonthOf(j.now), minute |-> j.now,
     writes |-> (IF sameMonth THEN u.writes ELSE 0) + Write(j),
     minuteWrites |-> (IF sameMinute THEN u.minuteWrites ELSE 0) + Write(j),
     jev |-> (IF sameMonth THEN u.jev ELSE 0) + JevDelta(j)]

(* The CHECK constraints of ledger_plan_usage: the clock, then the limits.   *)
ClockFence(j, new) == usage # Null => new.month >= usage.month /\ new.minute >= usage.minute

LimitChecks(j, new) ==
    /\ j.kind = "project" => new.projects <= Limits(j).projects
    /\ j.kind = "expense" => new.records <= Limits(j).records
    /\ new.minuteWrites <= IF Write(j) = 1 THEN Limits(j).minute ELSE Larger(Limits(j).minute, j.minuteSeen)
    /\ new.writes <= IF Write(j) = 1 THEN Limits(j).month ELSE Larger(Limits(j).month, j.monthSeen)
    /\ j.kind = "reserve" => Limits(j).jev > 0 /\ new.jev <= Limits(j).jev

Checks(j, new) == ClockFence(j, new) /\ LimitChecks(j, new)

Bounded(j) ==
    /\ j.kind = "project" => projects < MaxRows
    /\ j.kind = "expense" => records < MaxRows

(* The batch's own guards: an expense is removed while it is there.          *)
DomainFence(j) == Bounded(j) /\ (j.kind = "remove" => records > 0)

Commit(w) == LET j == job[w] IN
    /\ j.pc = "priced"
    /\ account = j.account
    /\ DomainFence(j)
    /\ Checks(j, Upsert(j))
    /\ usage' = Upsert(j)
    /\ projects' = projects + Adds(j, "project")
    /\ records' = records + RecordDelta(j)
    /\ charged' = [charged EXCEPT ![j.now] = @ + Write(j)]
    /\ reserved' = [reserved EXCEPT ![MonthOf(j.now)] = @ + Adds(j, "reserve")]
    /\ job' = [job EXCEPT ![w] = Idle]
    /\ UNCHANGED <<account, clock>>

(* A denial, a failed fence or CHECK, or a lost request: nothing is written. *)
Abandon(w) ==
    /\ job[w].pc # "idle"
    /\ job' = [job EXCEPT ![w] = Idle]
    /\ UNCHANGED <<tables, clock, history>>

-----------------------------------------------------------------------------
(* Billing and the Jev preference rewrite the user record; time passes.      *)

ChangePlan(until) ==
    /\ account' = [account EXCEPT !.until = until]
    /\ UNCHANGED <<usage, projects, records, clock, job, history>>

SetJev(enabled) ==
    /\ PlanOf(account, clock) = "paid" /\ enabled # account.jev
    /\ account' = [account EXCEPT !.jev = enabled]
    /\ UNCHANGED <<usage, projects, records, clock, job, history>>

Tick ==
    /\ clock < MaxMinute
    /\ clock' = clock + 1
    /\ UNCHANGED <<tables, job, history>>

Environment ==
    \/ \E until \in Ends \ {account.until} : ChangePlan(until)
    \/ \E enabled \in BOOLEAN : SetJev(enabled)
    \/ Tick

PlanNext ==
    \/ \E w \in Workers : (\E kind \in Kinds : Receive(w, kind)) \/ Inspect(w) \/ Commit(w) \/ Abandon(w)
    \/ Environment

PlanSpec == PlanInit /\ [][PlanNext]_planVars

-----------------------------------------------------------------------------
(* Properties.                                                               *)

\* The usage shown to the account (capacity_usage_payload) is what its batches left,
\* before the first counted one as after it, and in a month with no batch yet.
ShownUsage == [
    projects |-> IF usage = Null THEN projects ELSE usage.projects,
    jev |-> IF usage = Null THEN 0 ELSE IF usage.month = MonthOf(clock) THEN usage.jev ELSE 0]

UsageShownIsTrue ==
    /\ usage # Null => usage.month <= MonthOf(clock)
    /\ ShownUsage = [projects |-> projects, jev |-> reserved[MonthOf(clock)] * JevCost]

\* The counters of the usage row are exactly what was committed: writes of its
\* minute and month, calls reserved in its month, projects ever created and active
\* expenses, whatever was read before, and however late a request commits; and
\* that is what the account is shown.
CountersExact ==
    /\ usage # Null =>
         /\ usage.minuteWrites = charged[usage.minute]
         /\ usage.writes = Total(charged, usage.month)
         /\ usage.jev = reserved[usage.month] * JevCost
         /\ usage.projects = projects /\ usage.records = records
    /\ UsageShownIsTrue

\* What a batch adds is within the plan the account has in that very batch at the
\* request's time, although several requests found room for it (_batch).
WithinAllowance == [][usage' # usage =>
    LET t == usage'.minute
        limit == Allowance[PlanOf(account, t)] IN
    /\ charged'[t] > charged[t] =>
           charged'[t] <= limit.minute /\ Total(charged', MonthOf(t)) <= limit.month
    /\ projects' > projects => projects' <= limit.projects
    /\ records' > records => records' <= limit.records
    /\ reserved' # reserved => reserved'[MonthOf(t)] * JevCost <= limit.jev]_planVars
=============================================================================
