--------------------------- MODULE AccountCycles ----------------------------
(***************************************************************************)
(* The plan an account has and the cycle its monthly counters belong to, as  *)
(* account_cycle_rules computes them when an account is projected onto its   *)
(* entitlement row. An instant counts half days: the date twice over, plus   *)
(* one after noon, which stands for the time of day a cycle begins at.       *)
(***************************************************************************)
EXTENDS RecurrenceCalendar

CONSTANTS
    Accounts,  \* account records looked at
    Instants   \* instants looked at

DateOf(t) == t \div 2
InstantOf(n, half) == 2 * n + half

(* What of an account decides: the plan its billing entitles it to, free     *)
(* unless the subscription is active, trialing or canceling; the bounds of   *)
(* the paid period; the last billing event; its creation; a preview grant.   *)
(* Its instants lie after the epoch, in years a date can have, and it is      *)
(* looked at while the month that follows still has a date.                  *)
Recorded == InstantOf(Date(1970, 1, 1), 1)..InstantOf(LastDate, 1)
Looked   == InstantOf(Date(1970, 1, 1), 1)..InstantOf(Date(9999, 11, 29), 1)

(* parse_preview_plan_grant_request: a grant lasts 31 days at most.          *)
GrantOK(g) ==
    /\ {g.startsAt, g.expiresAt} \subseteq Recorded
    /\ g.startsAt < g.expiresAt /\ g.expiresAt - g.startsAt <= 2 * 31

AccountOK(a) ==
    /\ a.plan \in {"free", "pro", "max"}
    /\ {a.start, a.end, a.seen, a.created} \ {None} \subseteq Recorded
    /\ a.grant # None => GrantOK(a.grant)

ASSUME AccountAssumption == (\A a \in Accounts : AccountOK(a)) /\ Instants \subseteq Looked

add_months_utc(t, months) ==
    LET n     == DateOf(t)
        month == MonthShift(Year(n), Month(n), months) IN
    InstantOf(MonthDay(month[1], month[2], Day(n)), t % 2)

Bounds(anchor, months) ==
    [start |-> add_months_utc(anchor, months), until |-> add_months_utc(anchor, months + 1)]

\* Only asked of an anchor that is past.
monthly_cycle_bounds(anchor, t) ==
    LET months == (Year(DateOf(t)) - Year(DateOf(anchor))) * 12 + Month(DateOf(t)) - Month(DateOf(anchor)) IN
    Bounds(anchor, IF add_months_utc(anchor, months) > t THEN months - 1 ELSE months)

CalendarMonth(t) ==
    LET first == InstantOf(DateOf(t) - Day(DateOf(t)) + 1, 0) IN Bounds(first, 0)

billing_user_plan(a, t) ==
    IF (a.start # None /\ a.start > t) \/ (a.end # None /\ a.end <= t) THEN "free" ELSE a.plan

HasGrant(a, t) == a.grant # None /\ a.grant.startsAt <= t /\ t < a.grant.expiresAt

effective_user_plan(a, t) == IF HasGrant(a, t) THEN "max" ELSE billing_user_plan(a, t)

\* A grant of what is paid for anyway leaves the paid cycle alone.
OnGrant(a, t) == HasGrant(a, t) /\ billing_user_plan(a, t) # "max"

FirstOf(a, b) == IF a # None THEN a ELSE b

Anchor(a, t) ==
    IF OnGrant(a, t) THEN a.grant.startsAt
    ELSE IF effective_user_plan(a, t) # "free"
         THEN IF a.start # None THEN a.start
              ELSE IF a.end # None THEN add_months_utc(a.end, -1)
              ELSE FirstOf(a.seen, a.created)
    ELSE IF a.end # None /\ a.end <= t THEN a.end ELSE a.created

\* The end a cycle may not pass: the grant's, or the paid period's.
Limit(a, t) ==
    IF OnGrant(a, t) THEN a.grant.expiresAt
    ELSE IF effective_user_plan(a, t) # "free" THEN a.end ELSE None

Anchored(a, t) == Anchor(a, t) # None /\ Anchor(a, t) <= t

quota_cycle_for_user(a, t) ==
    IF ~Anchored(a, t) THEN CalendarMonth(t)
    ELSE LET c == monthly_cycle_bounds(Anchor(a, t), t) IN
         [c EXCEPT !.until = Least({c.until, Limit(a, t)} \ {None})]

-----------------------------------------------------------------------------
(* Properties.                                                               *)

\* Whatever an account looks like, its cycle has begun and is not over, so that its
\* projection is never refused as expired; and no cycle outlasts the longest month.
CycleIsOpen == \A a \in Accounts, t \in Instants :
    LET c == quota_cycle_for_user(a, t) IN c.start <= t /\ t < c.until /\ c.until - c.start <= 2 * 31

\* While the reason for a cycle stands, what it is counted from and the end it may not
\* pass, its counters are not reset within it, and the next one begins the instant it
\* ends. The end of a paid period begins one as well.
CyclesTile == \A a \in Accounts, t \in Instants :
    LET c    == quota_cycle_for_user(a, t)
        next == quota_cycle_for_user(a, t + 1) IN
    /\ Anchored(a, t) /\ Anchor(a, t) = Anchor(a, t + 1) =>
           IF t + 1 < c.until THEN next.start = c.start /\ (Limit(a, t) = Limit(a, t + 1) => next = c)
           ELSE Limit(a, t) = Limit(a, t + 1) => next.start = c.until
    /\ a.end = t + 1 /\ ~OnGrant(a, a.end) => next.start = a.end

\* Cycles begin on the anchor's day and time of day, or on the last day of a month too
\* short for it: a short month moves no later cycle.
CyclesKeepTheirDay == \A a \in Accounts, t \in Instants :
    Anchored(a, t) =>
        LET start  == quota_cycle_for_user(a, t).start
            day    == Day(DateOf(Anchor(a, t)))
            length == MonthLength(Year(DateOf(start)), Month(DateOf(start))) IN
        /\ start % 2 = Anchor(a, t) % 2
        /\ Day(DateOf(start)) = IF day < length THEN day ELSE length

CyclesHold == CycleIsOpen /\ CyclesTile /\ CyclesKeepTheirDay
=============================================================================
