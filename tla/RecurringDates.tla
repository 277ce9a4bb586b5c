--------------------------- MODULE RecurringDates ---------------------------
(***************************************************************************)
(* Recurring rules on the real calendar: the rules assume of their schedules *)
(* that one falls on one day of each of its periods, and the counters that   *)
(* bound what is charged are reset with the cycles of an account.            *)
(***************************************************************************)
EXTENDS RecurringNotifications, AccountCycles

\* A rule is only ever due on its exact start or on a day its schedule falls on: the
\* days from which, on the real calendar, the next period is found without a drift. Nor
\* do the cycles of an account's counters, which are counted on the same calendar.
DatesNeverDrift ==
    /\ OnSchedule
    /\ CalendarHolds /\ CyclesHold
=============================================================================
