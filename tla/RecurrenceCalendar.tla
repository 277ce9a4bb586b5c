------------------------- MODULE RecurrenceCalendar -------------------------
(***************************************************************************)
(* The dates of a recurring schedule, as ledger_recurrence_calendar computes *)
(* them. A date is its proleptic Gregorian ordinal (day 1 is a Monday), as   *)
(* datetime.date.toordinal numbers it; None is a date that does not exist.   *)
(*                                                                          *)
(* RecurringRules only assumes of all this that a schedule falls on one day  *)
(* of each of its periods; EachPeriodOnce is where that comes from.          *)
(***************************************************************************)
EXTENDS Integers

CONSTANTS
    Schedules,  \* the schedules looked at
    Window,     \* the dates looked at
    Zones,      \* clock changes: offsets before and after, and the instant
    Midnights,  \* local midnights looked at in those zones
    None

\* datetime.date.

Leap(y) == y % 4 = 0 /\ (y % 100 # 0 \/ y % 400 = 0)

MonthLength(y, m) ==
    IF m = 2 THEN (IF Leap(y) THEN 29 ELSE 28) ELSE IF m \in {4, 6, 9, 11} THEN 30 ELSE 31

MonthStart == <<0, 31, 59, 90, 120, 151, 181, 212, 243, 273, 304, 334>>

Date(y, m, d) ==
    365 * (y - 1) + (y - 1) \div 4 - (y - 1) \div 100 + (y - 1) \div 400
        + MonthStart[m] + (IF m > 2 /\ Leap(y) THEN 1 ELSE 0) + d

LastDate == Date(9999, 12, 31)

Year(n) == LET low == (400 * n) \div 146097 IN
    CHOOSE y \in low..low + 2 : Date(y, 1, 1) <= n /\ n < Date(y + 1, 1, 1)
Month(n)   == CHOOSE m \in 1..12 : LET first == Date(Year(n), m, 1) IN
                  first <= n /\ n < first + MonthLength(Year(n), m)
Day(n)     == n - Date(Year(n), Month(n), 1) + 1
Weekday(n) == 1 + ((n - 1) % 7)

\* isocalendar: a week belongs to the year of its Thursday.
IsoWeek(n) == LET thursday == n - Weekday(n) + 4 IN
    <<Year(thursday), (thursday - Date(Year(thursday), 1, 1)) \div 7 + 1>>

-----------------------------------------------------------------------------
(* What schedule_input accepts: the selectors of its frequency.              *)
Selectors ==
    [frequency : {"weekly"}, weekday : 1..7]
    \cup [frequency : {"monthly"}, day : 1..31]
    \cup [frequency : {"quarterly"}, quarterMonth : 1..3, day : 1..31]
    \cup [frequency : {"yearly"}, month : 1..12, day : 1..31]

ScheduleInput(s) ==
    /\ s.select \in Selectors
    /\ s.start \in 1..LastDate /\ (s.end # None => s.end \in s.start..LastDate)

ASSUME CalendarAssumption ==
    /\ None \notin Int
    /\ \A s \in Schedules : ScheduleInput(s)
    /\ Window \subseteq 1..LastDate /\ Midnights \subseteq Int
    /\ \A z \in Zones : {z.before, z.after, z.at} \subseteq Int

Existing(n) == IF n > LastDate THEN None ELSE n

(* A short month ends early; years past 9999 do not exist.                   *)
MonthDay(y, m, d) ==
    IF y > 9999 THEN None
    ELSE Date(y, m, IF d < MonthLength(y, m) THEN d ELSE MonthLength(y, m))

MonthShift(y, m, step) == LET value == y * 12 + m - 1 + step IN <<value \div 12, 1 + (value % 12)>>

\* The month of the period of n that the schedule falls in, and its length.
MonthIn(select, n) ==
    CASE select.frequency = "monthly" -> Month(n)
      [] select.frequency = "quarterly" -> ((Month(n) - 1) \div 3) * 3 + select.quarterMonth
      [] select.frequency = "yearly" -> select.month
Step(select) == [monthly |-> 1, quarterly |-> 3, yearly |-> 12][select.frequency]

\* weakened: the months are counted from the clamped date
MonthDayFrom(select, current) ==
    LET first == MonthDay(Year(current), MonthIn(select, current), select.day)
        later == MonthShift(Year(current), MonthIn(select, current), Step(select)) IN
    IF first >= current THEN first ELSE MonthDay(later[1], later[2], Day(first))

FirstMonthDay(select, current) ==
    LET first == MonthDay(Year(current), MonthIn(select, current), select.day)
        later == MonthShift(Year(current), MonthIn(select, current), Step(select)) IN
    IF first >= current THEN first ELSE MonthDay(later[1], later[2], select.day)

next_occurrence(s, from) ==
    LET current == IF from < s.start THEN s.start ELSE from
        result  == IF current > LastDate THEN None
                   ELSE IF s.select.frequency = "weekly"
                   THEN Existing(current + ((s.select.weekday - Weekday(current)) % 7))
                   ELSE FirstMonthDay(s.select, current) IN
    IF result # None /\ s.end # None /\ result > s.end THEN None ELSE result

period_key(s, n) ==
    CASE s.select.frequency = "weekly"    -> IsoWeek(n)
      [] s.select.frequency = "monthly"   -> <<Year(n), Month(n)>>
      [] s.select.frequency = "quarterly" -> <<Year(n), (Month(n) - 1) \div 3 + 1>>
      [] s.select.frequency = "yearly"    -> <<Year(n)>>

\* The occurrence itself, unless its period is the one of consumed.
OutOf(s, consumed, n) ==
    IF n # None /\ period_key(s, n) = period_key(s, consumed) THEN next_occurrence(s, n + 1) ELSE n

following_occurrence(s, n) == OutOf(s, n, next_occurrence(s, n + 1))

future_occurrence(s, now, consumed) ==
    LET result == next_occurrence(s, now + 1) IN
    IF consumed # None /\ result # None /\ period_key(s, result) = period_key(s, consumed)
    THEN following_occurrence(s, result) ELSE result

-----------------------------------------------------------------------------
(* The instant a local day begins, in a zone whose clock changes once.       *)

Local(z, t) == t + IF t < z.at THEN z.before ELSE z.after

\* datetime's two readings of a wall time, fold 0 and fold 1.
Readings(z, wall) ==
    LET early == wall - z.before
        late  == wall - z.after IN
    IF (early < z.at) = (late >= z.at) THEN {early, late}
    ELSE IF early < z.at THEN {early} ELSE {late}

Least(S) == CHOOSE n \in S : \A m \in S : n <= m

(* The search halves low + 1 .. high until one instant is left.              *)
Bisect(z, wall, from, to) ==
    LET Search[p \in (from..to) \X (from..to)] ==
            LET low    == p[1]
                high   == p[2]
                middle == (low + high) \div 2 IN
            IF high - low <= 1 THEN high
            ELSE IF Local(z, middle) >= wall THEN Search[<<low, middle>>] ELSE Search[<<middle, high>>]
    IN Search[<<from, to>>]

due_timestamp(z, wall) ==
    LET readings == Readings(z, wall)
        valid    == {t \in readings : Local(z, t) = wall} IN
    IF valid # {} THEN Least(valid)
    ELSE LET low == Least(readings) IN Bisect(z, wall, low, CHOOSE t \in readings : t # low)

-----------------------------------------------------------------------------
(* Properties.                                                               *)

\* Falling on a date, by the schedule alone.
Falls_on(select, n) ==
    CASE select.frequency = "weekly" -> Weekday(n) = select.weekday
      [] OTHER ->
           /\ select.frequency = "quarterly" => 1 + ((Month(n) - 1) % 3) = select.quarterMonth
           /\ select.frequency = "yearly" => Month(n) = select.month
           /\ Day(n) = IF select.day < MonthLength(Year(n), Month(n))
                       THEN select.day ELSE MonthLength(Year(n), Month(n))

Over(s, n) == n > LastDate \/ (s.end # None /\ n > s.end)

\* next_occurrence is the first date from a day on that the schedule falls on, short
\* months, leap days, the schedule's ends and the end of time included.
NextIsFirst == \A s \in Schedules, n \in Window :
    next_occurrence(s, n) =
        IF Over(s, n) THEN None
        ELSE IF n >= s.start /\ Falls_on(s.select, n) THEN n ELSE next_occurrence(s, n + 1)

\* Periods counted from the beginning of time, without reference to their keys.
PeriodIndex(select, n) ==
    CASE select.frequency = "weekly"    -> (n - 1) \div 7
      [] select.frequency = "monthly"   -> Year(n) * 12 + Month(n)
      [] select.frequency = "quarterly" -> Year(n) * 4 + (Month(n) - 1) \div 3
      [] select.frequency = "yearly"    -> Year(n)

\* Each period is charged once and none is skipped: what follows an occurrence, or an
\* exact start day the schedule does not fall on, lies in the very next period, unless
\* the schedule is over by then; and two days share a key only within one period.
EachPeriodOnce == \A s \in Schedules, n \in Window :
    /\ n < LastDate =>
          (period_key(s, n) = period_key(s, n + 1)) = (PeriodIndex(s.select, n) = PeriodIndex(s.select, n + 1))
    /\ (n = s.start \/ (n > s.start /\ Falls_on(s.select, n))) /\ ~Over(s, n) =>
          LET next == following_occurrence(s, n) IN
          IF next # None
          THEN Falls_on(s.select, next) /\ PeriodIndex(s.select, next) = PeriodIndex(s.select, n) + 1
          ELSE \A k \in n + 1 .. n + 731 :
                  Falls_on(s.select, k) /\ PeriodIndex(s.select, k) = PeriodIndex(s.select, n) + 1 => Over(s, k)

\* A plan made while the start's period is consumed goes on in the very next period,
\* and later on at the first date that is left.
FutureSkipsConsumed == \A s \in Schedules, n \in Window :
    s.start <= n =>
        future_occurrence(s, n, s.start) =
            IF PeriodIndex(s.select, n) = PeriodIndex(s.select, s.start)
            THEN following_occurrence(s, s.start) ELSE next_occurrence(s, n + 1)

\* A day's occurrence is due at its first instant, when the clock shows midnight for
\* the first time or, if midnight is skipped, the first time after it.
DueIsEarliest == \A z \in Zones, wall \in Midnights :
    LET due == due_timestamp(z, wall) IN
    Local(z, due) >= wall /\ \A t \in z.at - 100 .. due - 1 : Local(z, t) < wall

\* The calendar keeps its promises to the rules.
CalendarHolds == NextIsFirst /\ EachPeriodOnce /\ FutureSkipsConsumed /\ DueIsEarliest
=============================================================================
