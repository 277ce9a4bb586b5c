---------------------- MODULE MCRecurringNotifications ----------------------
(***************************************************************************)
(* Two rules for a project that may be erased, with their notifications;     *)
(* and the calendar, looked at over a leap year and its ISO weeks, a century *)
(* that is no leap year, a year that begins on the last day its number can   *)
(* be guessed from, and the last months there are. The cycles of accounts    *)
(* are looked at around the ends of the first months of two years, one of    *)
(* them a leap year.                                                         *)
(***************************************************************************)
EXTENDS RecurringDates, TLC

CONSTANTS ana, p1, c1, w1

Later == [sched |-> [every |-> 1, at |-> 0, start |-> 2, end |-> 4], target |-> p1, category |-> c1]
ProjectDrafts == {Later}

\* Rows of another workspace, older and newer than those of the two rules.
ForeignRows == {[at |-> day, rule |-> number, period |-> [every |-> 1, number |-> 1]] : day \in {1, 2}, number \in {0, 3}}

Dates == Date(2023, 12, 20)..Date(2025, 1, 10) \cup Date(2100, 2, 20)..Date(2101, 1, 10)
            \cup Date(2303, 12, 20)..Date(2304, 3, 10) \cup Date(9999, 9, 20)..LastDate
Picks == [frequency : {"weekly"}, weekday : {1, 4, 7}]
    \cup [frequency : {"monthly"}, day : {1, 29, 30, 31}]
    \cup [frequency : {"quarterly"}, quarterMonth : {2, 3}, day : {1, 31}]
    \cup [frequency : {"yearly"}, month : {2, 12}, day : {1, 29, 31}]
Plans == [select : Picks, start : {Date(2024, 1, 30), Date(9999, 10, 31)}, end : {None}]
    \cup [select : Picks, start : {Date(2024, 2, 29)}, end : {Date(2024, 9, 30)}]

\* Hours: offsets of a zone around a clock change, forwards, backwards and by a day.
Clocks == [before : {-10, 0, 2}, after : {-11, 0, 1, 3, 14}, at : 20..30]
Hours  == 0..72

Moments == {InstantOf(Date(2024, 1, 31), 1), InstantOf(Date(2024, 2, 29), 0), InstantOf(Date(2025, 1, 30), 1)}
Ends    == {None, InstantOf(Date(2024, 3, 31), 0), InstantOf(Date(2025, 3, 31), 1)}
Gifts   == {None, [startsAt |-> InstantOf(Date(2024, 1, 31), 0), expiresAt |-> InstantOf(Date(2024, 3, 2), 0)]}
Record(plan, start, end, gift) ==
    [plan |-> plan, start |-> start, end |-> end, grant |-> gift,
     seen |-> IF plan = "max" THEN None ELSE InstantOf(Date(2024, 1, 30), 0),
     created |-> IF end = None /\ gift = None THEN None ELSE InstantOf(Date(2023, 12, 31), 1)]
AccountRecords ==
    {Record(plan, start, end, gift) : plan \in {"free", "pro"}, start \in Moments \cup {None}, end \in Ends, gift \in {None}}
    \cup {Record(plan, start, end, gift) :
              plan \in {"free", "pro", "max"}, start \in {None}, end \in Ends, gift \in Gifts}
CloseTo(y, m, d) == InstantOf(Date(y, m, d) - 4, 0)..InstantOf(Date(y, m, d) + 2, 1)
HalfDays == UNION {CloseTo(y, m, 1) : y \in {2024, 2025}, m \in 2..4}
=============================================================================
