------------------------ MODULE RecurringRulesProofs ------------------------
(***************************************************************************)
(* Theorems about recurring rules and what is told of their failures, for    *)
(* every set of rules, grants, projects and drafts, every limit and every   *)
(* number of concurrent requests. The invariant says what a handler still   *)
(* knows of a rule it read earlier: its row, as long as the revision is     *)
(* unchanged, and what became of the period the tick is about to charge; and *)
(* what was claimed and mailed about a failure it is telling.               *)
(*                                                                          *)
(* The last part is about the calendar the rules' dates and the accounts'    *)
(* cycles are counted on. Months and periods are numbered from the year 0;   *)
(* a schedule falls on one day of each period (FallsOnOneDay), the days grow  *)
(* with the periods, and every function of dates is one of those two facts.  *)
(***************************************************************************)
EXTENDS RecurringDates, FiniteSetTheorems, WellFoundedInduction, TLAPS

(* A row read earlier is older than the rule's row, or is that row; and a   *)
(* rule that is gone is not created again.                                  *)
Remembered(r, row) ==
    /\ r \in used /\ row \in Row
    /\ rule[r] # Null => row.rev <= rule[r].rev /\ (row.rev = rule[r].rev => row = rule[r])

RequestShape(j) ==
    /\ j.pc \in {"idle", "read", "prepare", "commit", "fallback"}
    /\ j.pc # "idle" => j.op \in {"create", "edit", "resume", "pause", "cancel", "retry"} /\ j.by \in Grants
    /\ j.pc \in {"read", "prepare"} => j.op \in {"create", "edit", "resume", "retry"}
    /\ j.pc = "fallback" => j.op = "create"
    /\ j.op # "none" => j.rule \in Rules
    /\ j.op \in {"create", "edit", "resume", "retry"} => j.want \in Draft
    /\ j.op \in {"edit", "resume", "pause", "cancel", "retry"} =>
         Remembered(j.rule, j.row) /\ j.row.status # "canceled"
    /\ j.op = "retry" => j.failure \in Failure /\ j.failure.rule = j.rule

(* What the tick takes up was due and is handled once.                      *)
Ready(row, now) == row.next \in Days /\ row.next <= now /\ row.status \in {"active", "blocked"}

QueueShape(queue, now) ==
    /\ queue \subseteq [rule : Rules, row : Row]
    /\ \A e \in queue : Remembered(e.rule, e.row) /\ Ready(e.row, now)
    /\ \A e, f \in queue : e.rule = f.rule => e = f

Dealt(r, row) == Charged(r, ThisPeriod(row)) \/ Deferred(r, ThisPeriod(row))
Full(r)       == Cardinality(PendingOf(r)) >= MaxPending

TickShape(j) ==
    /\ j.pc \in {"idle", "settle", "advance", "authorize", "reopen", "generate", "block", "weigh", "defer"}
    /\ j.now <= today
    /\ QueueShape(j.queue, j.now)
    /\ j.pc # "idle" =>
         j.rule \in Rules /\ Remembered(j.rule, j.row) /\ Ready(j.row, j.now) /\ j.by = j.row.by
    /\ j.pc \in {"settle", "advance", "generate", "weigh", "defer"} => j.row.status = "active"
    /\ j.pc = "advance" /\ rule[j.rule] # Null => Dealt(j.rule, j.row)
    /\ j.pc \in {"authorize", "generate", "weigh", "defer"} /\ j.row.status = "active"
         => ~Deferred(j.rule, ThisPeriod(j.row))
    /\ j.pc = "generate" => j.grant \in [rev : Nat, ok : BOOLEAN] /\ j.grant.ok
    /\ j.pc = "defer" /\ ~j.failed /\ rule[j.rule] = j.row => Full(j.rule)

CreatedOnce == \A r \in Rules : rule[r] # Null => r \in used

IInv ==
    /\ TypeOK /\ CreatedOnce /\ OneFate
    /\ IsFiniteSet(pending)
    /\ \A w \in Workers : RequestShape(job[w])
    /\ TickShape(tick)

-----------------------------------------------------------------------------
(* The calendar and the order of the queue.                                 *)

LEMMA LeastNatural ==
    ASSUME NEW T, T \subseteq Nat, T # {}
    PROVE  \E x \in T : \A y \in T : x <= y
<1>1. PICK x \in T : \A y \in T : ~ (<<y, x>> \in OpToRel(<, Nat))
    BY NatLessThanWellFounded, WFMin
<1>2. \A y \in T : ~(y < x)
    BY <1>1 DEF OpToRel
<1> QED BY <1>2

LEMMA FirstDay == ASSUME NEW T, T \subseteq Days PROVE First(T) \in Days \cup {Null} /\ (T # {} => First(T) \in T)
<1>1. T \subseteq Nat
    BY DayAssumption DEF Days
<1>2. CASE T = {}
    BY <1>2 DEF First
<1>3. CASE T # {}
  <2>1. \E d \in T : \A e \in T : d <= e
    BY <1>1, <1>3, LeastNatural
  <2> QED BY <1>3, <2>1 DEF First
<1> QED BY <1>2, <1>3

LEMMA DatesAreDays ==
    /\ \A s, d : AfterPeriod(s, d) \in Days \cup {Null}
    /\ \A s, d : FutureOccurrence(s, d) \in Days \cup {Null}
    /\ \A s, d : FutureAfterInitial(s, d) \in Days \cup {Null}
BY FirstDay DEF AfterPeriod, FutureOccurrence, NextOccurrence, FutureAfterInitial

LEMMA KeyIsPeriod == ASSUME NEW s \in Schedule, NEW d \in Days PROVE PeriodKey(s, d) \in Period
<1>1. s.every \in Nat \ {0} /\ d - 1 \in Nat
    BY DayAssumption DEF Schedule, Days
<1>2. \A a \in Nat, b \in Nat \ {0} : a \div b \in Nat
    OBVIOUS
<1> QED BY <1>1, <1>2 DEF PeriodKey, Period

(* The first of a queue exists: no rule is in it twice.                     *)
LEMMA HeadExists ==
    ASSUME NEW queue, NEW now, QueueShape(queue, now), queue # {}
    PROVE  LET head == CHOOSE e \in queue : \A f \in queue \ {e} : Before(e, f) IN head \in queue
<1>1. \A e \in queue : e.row.next \in Nat /\ e.rule \in Nat
  <2>1. \A e \in queue : e.row.next \in Days
    BY DEF QueueShape, Ready
  <2>2. \A e \in queue : e.rule \in Rules
    BY DEF QueueShape
    <2>3. Days \subseteq Nat /\ Rules \subseteq Nat
    BY RuleAssumption, DayAssumption DEF Days
  <2> QED BY <2>1, <2>2, <2>3
<1> DEFINE dates == {e.row.next : e \in queue}
<1>2. PICK d \in dates : \A c \in dates : d <= c
    BY <1>1, LeastNatural
<1> DEFINE early == {e \in queue : e.row.next = d}
           ids == {e.rule : e \in early}
<1>3. ids # {} /\ ids \subseteq Nat
    BY <1>1, <1>2
<1>4. PICK i \in ids : \A k \in ids : i <= k
    BY <1>3, LeastNatural
<1>5. PICK e \in queue : e.row.next = d /\ e.rule = i
    BY <1>4
<1>6. ASSUME NEW f \in queue \ {e} PROVE Before(e, f)
  <2>1. f.rule # e.rule /\ d <= f.row.next
    BY <1>2, <1>6 DEF QueueShape
  <2>2. CASE f.row.next = d
    <3>1. i <= f.rule
      BY <1>4, <2>2
    <3> QED BY <1>1, <1>5, <2>1, <2>2, <3>1 DEF Before
  <2>3. CASE f.row.next # d
    BY <1>1, <1>5, <2>1, <2>3 DEF Before
  <2> QED BY <2>2, <2>3
<1> QED BY <1>6

-----------------------------------------------------------------------------
(* Rows that batches store.                                                 *)

LEMMA RowFields ==
    ASSUME NEW row \in Row
    PROVE  /\ row # Null /\ row.rev \in Nat /\ row.status \in Status /\ row.by \in Grants
           /\ row.next \in Days \cup {Null} /\ row.sched \in Schedule /\ row.target \in Targets
           /\ row.category \in Categories /\ row.code \in Codes \cup {Null}
BY NullAssumption DEF Row

LEMMA TemplateIsDraft == ASSUME NEW row \in Row PROVE Template(row) \in Draft
BY DEF Template, Draft, Row

LEMMA NewRuleIsRow ==
    ASSUME NEW j, j.want \in Draft, j.by \in Grants
    PROVE  NewRule(j) \in Row /\ NewRule(j).rev = 1
<1>1. FutureAfterInitial(j.want.sched, j.now) \in Days \cup {Null} /\ j.want.sched.start \in Days
    BY DatesAreDays DEF Draft, Schedule
<1>2. \A next : StatusOf(next) \in Status
    BY DEF StatusOf, Status
<1> QED BY <1>1, <1>2 DEF NewRule, Row, Draft

LEMMA ReplannedIsRow ==
    ASSUME NEW j, j.want \in Draft, j.by \in Grants, j.row \in Row
    PROVE  Replanned(j) \in Row /\ Replanned(j).rev = j.row.rev + 1
<1>1. FutureOccurrence(j.want.sched, j.now) \in Days \cup {Null}
    BY DatesAreDays
<1>2. \A next : StatusOf(next) \in Status
    BY DEF StatusOf, Status
<1> QED BY <1>1, <1>2 DEF Replanned, Row, Draft

LEMMA AdvancedRow ==
    ASSUME NEW row \in Row
    PROVE  /\ Advanced(row) \in Row /\ Advanced(row).rev = row.rev + 1 /\ Advanced(row).by = row.by
           /\ Advanced(row).next = AfterPeriod(row.sched, row.next)
           /\ Advanced(row).sched = row.sched
           /\ Advanced(row).status = StatusOf(AfterPeriod(row.sched, row.next))
<1> DEFINE next == AfterPeriod(row.sched, row.next)
<1>1. /\ next \in Days \cup {Null} /\ StatusOf(next) \in Status /\ Null \in Codes \cup {Null}
      /\ row.rev + 1 \in Nat
    BY DatesAreDays, RowFields DEF StatusOf, Status
<1> HIDE DEF next
<1>2. [row EXCEPT !.status = StatusOf(next), !.rev = @ + 1, !.next = next, !.code = Null] \in Row
    BY <1>1, Zenon DEF Row
<1>3. LET new == [row EXCEPT !.status = StatusOf(next), !.rev = @ + 1, !.next = next, !.code = Null] IN
      new.rev = row.rev + 1 /\ new.by = row.by /\ new.next = next /\ new.sched = row.sched
      /\ new.status = StatusOf(next)
    BY DEF Row
<1> QED BY <1>2, <1>3 DEF Advanced, next

LEMMA BlockedRow ==
    ASSUME NEW row \in Row
    PROVE  LET new == [row EXCEPT !.status = "blocked", !.rev = @ + 1, !.code = "denied"] IN
           /\ new \in Row /\ new.rev = row.rev + 1 /\ new.by = row.by /\ new.next = row.next
           /\ new.sched = row.sched /\ new.status = "blocked"
<1>1. "blocked" \in Status /\ "denied" \in Codes \cup {Null} /\ row.rev + 1 \in Nat
    BY RowFields DEF Status, Codes
<1>2. [row EXCEPT !.status = "blocked", !.rev = @ + 1, !.code = "denied"] \in Row
    BY <1>1, Zenon DEF Row
<1> QED BY <1>2 DEF Row

LEMMA ReopenedRow ==
    ASSUME NEW row \in Row
    PROVE  LET new == [row EXCEPT !.status = "active", !.rev = @ + 1, !.code = Null] IN
           /\ new \in Row /\ new.rev = row.rev + 1 /\ new.by = row.by /\ new.next = row.next
           /\ new.sched = row.sched /\ new.status = "active"
<1>1. "active" \in Status /\ Null \in Codes \cup {Null} /\ row.rev + 1 \in Nat
    BY RowFields DEF Status
<1>2. [row EXCEPT !.status = "active", !.rev = @ + 1, !.code = Null] \in Row
    BY <1>1, Zenon DEF Row
<1> QED BY <1>2 DEF Row

LEMMA StoppedRow ==
    ASSUME NEW row \in Row, NEW status \in Status
    PROVE  LET new == [row EXCEPT !.status = status, !.code = Null, !.rev = @ + 1] IN
           new \in Row /\ new.rev = row.rev + 1 /\ new.next = row.next
<1>1. Null \in Codes \cup {Null} /\ row.rev + 1 \in Nat
    BY RowFields
<1>2. [row EXCEPT !.status = status, !.code = Null, !.rev = @ + 1] \in Row
    BY <1>1, Zenon DEF Row
<1> QED BY <1>2 DEF Row

LEMMA RevisedRow ==
    ASSUME NEW row \in Row
    PROVE  LET new == [row EXCEPT !.rev = @ + 1] IN
           new \in Row /\ new.rev = row.rev + 1 /\ new.next = row.next
<1>1. row.rev + 1 \in Nat
    BY RowFields
<1>2. [row EXCEPT !.rev = @ + 1] \in Row
    BY <1>1, Zenon DEF Row
<1> QED BY <1>2 DEF Row

-----------------------------------------------------------------------------
(* Handlers at rest, and the tick's next rule.                              *)

Pcs == {"idle", "read", "prepare", "commit", "fallback",
        "settle", "advance", "authorize", "reopen", "generate", "block", "weigh", "defer"}
Ops == {"none", "create", "edit", "resume", "pause", "cancel", "retry", "tick"}

LEMMA JobIs ==
    Job = [pc: Pcs, op: Ops, rule: Rules \cup {Null}, row: Row \cup {Null}, by: Grants \cup {Null},
           grant: [rev: Nat, ok: BOOLEAN] \cup {Null},
           now: Nat, want: Draft \cup {Null}, evidence: Nat, failed: BOOLEAN, failure: Failure \cup {Null},
           queue: SUBSET [rule: Rules, row: Row], done: Nat, turn: Nat]
BY DEF Job, Pcs, Ops

LEMMA IdleJob ==
    /\ Idle \in Job /\ Idle.pc = "idle" /\ Idle.op = "none" /\ Idle.now = 0 /\ Idle.queue = {}
    /\ Idle.done = 0 /\ Idle.turn = 0
BY SMTT(30) DEF Idle, Job

LEMMA IdleRequest == RequestShape(Idle)
BY IdleJob DEF RequestShape

LEMMA IdleTick == today \in Nat => TickShape(Idle)
<1>1. \A now : QueueShape({}, now)
    BY DEF QueueShape
<1> QED BY <1>1, IdleJob DEF TickShape

LEMMA TakenShape ==
    today \in Nat =>
      \A j \in Job : QueueShape(j.queue, j.now) /\ j.now <= today =>
          TakeNext(j) \in Job /\ TickShape(TakeNext(j)) /\ TakeNext(j).pc \in {"idle", "authorize", "settle"}
<1> SUFFICES ASSUME today \in Nat, NEW j \in Job, QueueShape(j.queue, j.now), j.now <= today
             PROVE  TakeNext(j) \in Job /\ TickShape(TakeNext(j))
                    /\ TakeNext(j).pc \in {"idle", "authorize", "settle"}
    OBVIOUS
<1>1. CASE j.queue = {} \/ j.done >= MaxTickOccurrences
    BY <1>1, IdleJob, IdleTick DEF TakeNext
<1>2. CASE ~(j.queue = {} \/ j.done >= MaxTickOccurrences)
  <2> DEFINE head == CHOOSE e \in j.queue : \A f \in j.queue \ {e} : Before(e, f)
  <2>1. head \in j.queue
    BY <1>2, HeadExists
  <2> DEFINE pc == IF head.row.status = "blocked" THEN "authorize" ELSE "settle"
  <2>2. TakeNext(j) = [Idle EXCEPT !.op = "tick", !.now = j.now, !.done = j.done, !.queue = j.queue \ {head},
                      !.rule = head.rule, !.row = head.row, !.by = head.row.by, !.pc = pc]
    BY <1>2 DEF TakeNext
  <2> HIDE DEF head
  <2>3. head.rule \in Rules /\ head.row \in Row /\ Remembered(head.rule, head.row) /\ Ready(head.row, j.now)
    BY <2>1 DEF QueueShape, Remembered
  <2>4. /\ "tick" \in Ops /\ j.now \in Nat /\ j.done \in Nat /\ j.queue \ {head} \in SUBSET [rule : Rules, row : Row]
        /\ head.rule \in Rules \cup {Null} /\ head.row \in Row \cup {Null} /\ head.row.by \in Grants \cup {Null}
    BY <2>3, RowFields DEF Job, Ops
  <2>5. pc \in Pcs
    BY DEF Pcs
  <2>6. \/ pc = "authorize" /\ head.row.status = "blocked"
        \/ pc = "settle" /\ head.row.status = "active"
    BY <2>3 DEF Ready
  <2> HIDE DEF pc
  <2> DEFINE k == [Idle EXCEPT !.op = "tick", !.now = j.now, !.done = j.done, !.queue = j.queue \ {head},
                      !.rule = head.rule, !.row = head.row, !.by = head.row.by, !.pc = pc]
  <2>7. k \in Job
    BY <2>4, <2>5, IdleJob, JobIs, ZenonT(120)
  <2>8. /\ k.pc = pc /\ k.now = j.now /\ k.queue = j.queue \ {head}
        /\ k.rule = head.rule /\ k.row = head.row /\ k.by = head.row.by
    BY IdleJob, SMT DEF Job
  <2> HIDE DEF k
  <2>9. QueueShape(k.queue, k.now)
    BY <2>8 DEF QueueShape
  <2>10. TickShape(k)
    BY <2>3, <2>6, <2>8, <2>9 DEF TickShape
  <2> QED BY <2>2, <2>6, <2>7, <2>8, <2>10 DEF k
<1> QED BY <1>1, <1>2

LEMMA TakenShapeNext ==
    (today \in Nat =>
      \A j \in Job : QueueShape(j.queue, j.now) /\ j.now <= today =>
          TakeNext(j) \in Job /\ TickShape(TakeNext(j)) /\ TakeNext(j).pc \in {"idle", "authorize", "settle"})'
BY TakenShape, PTL

(* After one occurrence the tick stays with the rule or takes the next.     *)
LEMMA ProceedShape ==
    today \in Nat =>
      \A j \in Job, row \in Row :
          /\ QueueShape(j.queue, j.now) /\ j.now <= today
          /\ j.rule \in Rules /\ Remembered(j.rule, row) /\ row.by = j.by
          => /\ Proceed(j, row) \in Job /\ TickShape(Proceed(j, row))
             /\ Proceed(j, row).pc \in {"idle", "authorize", "settle"}
<1> SUFFICES ASSUME today \in Nat, NEW j \in Job, NEW row \in Row,
                    QueueShape(j.queue, j.now), j.now <= today,
                    j.rule \in Rules, Remembered(j.rule, row), row.by = j.by
             PROVE  /\ Proceed(j, row) \in Job /\ TickShape(Proceed(j, row))
                    /\ Proceed(j, row).pc \in {"idle", "authorize", "settle"}
    OBVIOUS
<1>0. j.done + 1 \in Nat /\ j.turn + 1 \in Nat
    BY DEF Job
<1>1. CASE /\ row.status = "active" /\ Due(row, j.now)
           /\ j.done + 1 < MaxTickOccurrences /\ j.turn + 1 < MaxPerRule
  <2> DEFINE k == [j EXCEPT !.pc = "settle", !.row = row, !.grant = Null, !.evidence = 0, !.failed = FALSE,
                            !.done = @ + 1, !.turn = @ + 1]
  <2>1. Proceed(j, row) = k
    BY <1>1 DEF Proceed
  <2>2. /\ "settle" \in Pcs /\ row \in Row \cup {Null} /\ Null \in [rev: Nat, ok: BOOLEAN] \cup {Null} /\ 0 \in Nat
        /\ FALSE \in BOOLEAN
    BY DEF Pcs
  <2>3. k \in Job
    BY <1>0, <2>2, JobIs, ZenonT(120)
  <2>4. /\ k.pc = "settle" /\ k.row = row /\ k.rule = j.rule /\ k.by = j.by /\ k.now = j.now /\ k.queue = j.queue
    BY SMT DEF Job
  <2> HIDE DEF k
  <2>5. Ready(row, j.now)
    BY <1>1, RowFields DEF Ready, Due
  <2>6. TickShape(k)
    BY <1>1, <2>4, <2>5 DEF TickShape
  <2> QED BY <2>1, <2>3, <2>4, <2>6
<1>2. CASE ~(/\ row.status = "active" /\ Due(row, j.now)
             /\ j.done + 1 < MaxTickOccurrences /\ j.turn + 1 < MaxPerRule)
  <2> DEFINE k == [j EXCEPT !.done = @ + 1]
  <2>1. Proceed(j, row) = TakeNext(k)
    BY <1>2 DEF Proceed
  <2>2. k \in Job
    BY <1>0, Zenon DEF Job
  <2>3. k.queue = j.queue /\ k.now = j.now
    BY SMT DEF Job
  <2> HIDE DEF k
  <2> QED BY <2>1, <2>2, <2>3, TakenShape
<1> QED BY <1>1, <1>2

LEMMA ProceedShapeNext ==
    (today \in Nat =>
      \A j \in Job, row \in Row :
          /\ QueueShape(j.queue, j.now) /\ j.now <= today
          /\ j.rule \in Rules /\ Remembered(j.rule, row) /\ row.by = j.by
          => /\ Proceed(j, row) \in Job /\ TickShape(Proceed(j, row))
             /\ Proceed(j, row).pc \in {"idle", "authorize", "settle"})'
BY ProceedShape, PTL

-----------------------------------------------------------------------------
(* What survives the steps of others: rows only move on or go, a period     *)
(* dealt with stays so, and no failure is added to a rule that exists.      *)

Moves ==
    /\ used \subseteq used'
    /\ \A r \in used :
         \/ rule'[r] = Null
         \/ rule[r] # Null /\ (rule'[r] = rule[r] \/ rule'[r].rev > rule[r].rev)

Calm ==
    /\ Moves /\ today <= today'
    /\ \A r \in used : rule'[r] # Null =>
         \A p : Charged(r, p) \/ Deferred(r, p) => Charged(r, p)' \/ Deferred(r, p)'
    /\ \A r \in used : PendingOf(r)' \subseteq PendingOf(r)
    /\ \A r \in used : rule[r] # Null /\ rule'[r] = rule[r] => PendingOf(r)' = PendingOf(r)

LEMMA RuleRows == TypeOK => \A r \in Rules : rule[r] # Null => rule[r] \in Row /\ rule[r].rev \in Nat
BY RowFields DEF TypeOK

LEMMA RuleRowsNext == (TypeOK => \A r \in Rules : rule[r] # Null => rule[r] \in Row /\ rule[r].rev \in Nat)'
BY RuleRows, PTL

LEMMA RememberedStays ==
    ASSUME TypeOK, TypeOK', Moves, NEW r, NEW row, Remembered(r, row)
    PROVE  Remembered(r, row)'
<1>1. r \in used /\ r \in Rules /\ row \in Row /\ row.rev \in Nat
    BY RowFields DEF Remembered, TypeOK
<1>2. rule[r] # Null => rule[r].rev \in Nat
    BY <1>1, RuleRows
<1>3. rule'[r] # Null => rule'[r].rev \in Nat
    BY <1>1, RuleRowsNext
<1> QED BY <1>1, <1>2, <1>3 DEF Remembered, Moves

LEMMA RequestStays == ASSUME TypeOK, TypeOK', Moves, NEW j, RequestShape(j) PROVE RequestShape(j)'
<1>1. Remembered(j.rule, j.row) => Remembered(j.rule, j.row)'
    BY RememberedStays
<1> QED BY <1>1 DEF RequestShape

LEMMA QueueStays ==
    ASSUME TypeOK, TypeOK', Moves, NEW queue, NEW now, QueueShape(queue, now)
    PROVE  QueueShape(queue, now)'
<1>1. \A e \in queue : Remembered(e.rule, e.row)'
    BY RememberedStays DEF QueueShape
<1> QED BY <1>1 DEF QueueShape

LEMMA DeferredOf == \A r, p : Deferred(r, p) <=> \E f \in PendingOf(r) : f.period = p
BY DEF Deferred, PendingOf

LEMMA DeferredOfNext == (\A r, p : Deferred(r, p) <=> \E f \in PendingOf(r) : f.period = p)'
BY DeferredOf, PTL

LEMMA TickStays ==
    ASSUME TypeOK, TypeOK', Calm, NEW j, TickShape(j), j.now \in Nat
    PROVE  TickShape(j)'
<1>1. j.now <= today'
  <2>1. today \in Nat /\ today' \in Nat /\ today <= today' /\ j.now <= today
    BY DayAssumption DEF TypeOK, Calm, TickShape, Days
  <2> QED BY <2>1
<1>2. QueueShape(j.queue, j.now)'
    BY QueueStays DEF Calm, TickShape
<1>3. CASE j.pc = "idle"
    BY <1>1, <1>2, <1>3 DEF TickShape
<1>4. CASE j.pc # "idle"
  <2>1. Remembered(j.rule, j.row) /\ Remembered(j.rule, j.row)' /\ j.rule \in used /\ j.rule \in Rules
    BY <1>4, RememberedStays DEF Calm, TickShape, Remembered
  <2>2. rule'[j.rule] # Null /\ Dealt(j.rule, j.row) => Dealt(j.rule, j.row)'
    BY <2>1 DEF Calm, Dealt
  <2>3. rule'[j.rule] # Null => rule[j.rule] # Null
    BY <2>1 DEF Calm, Moves
  <2>4. ~Deferred(j.rule, ThisPeriod(j.row)) => ~Deferred(j.rule, ThisPeriod(j.row))'
    BY <2>1, DeferredOf, DeferredOfNext DEF Calm
  <2>5. rule'[j.rule] = j.row => rule[j.rule] = j.row /\ Full(j.rule)' = Full(j.rule)
    <3>1. SUFFICES ASSUME rule'[j.rule] = j.row PROVE rule[j.rule] = j.row /\ Full(j.rule)' = Full(j.rule)
      OBVIOUS
    <3>2. j.row \in Row /\ j.row # Null /\ j.row.rev \in Nat
      BY <2>1, RowFields DEF Remembered
    <3>3. rule[j.rule] # Null /\ rule[j.rule].rev \in Nat
      BY <2>1, <2>3, <3>1, <3>2, RuleRows
    <3>4. rule'[j.rule] = rule[j.rule]
      BY <2>1, <3>1, <3>2, <3>3 DEF Calm, Moves, Remembered
    <3>5. PendingOf(j.rule)' = PendingOf(j.rule)
      BY <2>1, <3>3, <3>4 DEF Calm
    <3> QED BY <3>1, <3>4, <3>5 DEF Full
  <2> QED BY <1>1, <1>2, <1>4, <2>1, <2>2, <2>3, <2>4, <2>5 DEF TickShape
<1> QED BY <1>3, <1>4

(* Steps that leave the tables alone.                                       *)
LEMMA QuietCalm ==
    ASSUME TypeOK, UNCHANGED tables, today <= today'
    PROVE  Calm
<1>1. UNCHANGED <<rule, used, occurrence, pending>>
    BY DEF tables
<1>2. \A r \in used : r \in Rules
    BY DEF TypeOK
<1>3. \A r : PendingOf(r)' = PendingOf(r)
    BY <1>1 DEF PendingOf
<1>4. \A r, p : (Charged(r, p)' <=> Charged(r, p)) /\ (Deferred(r, p)' <=> Deferred(r, p))
    BY <1>1 DEF Charged, Deferred
<1>5. Moves
    BY <1>1 DEF Moves
<1> QED BY <1>3, <1>4, <1>5 DEF Calm

LEMMA QuietKeeps ==
    ASSUME CreatedOnce, OneFate, IsFiniteSet(pending), UNCHANGED tables
    PROVE  CreatedOnce' /\ OneFate' /\ IsFiniteSet(pending)'
<1>1. UNCHANGED <<rule, used, occurrence, pending>>
    BY DEF tables
<1>2. \A r : PendingOf(r)' = PendingOf(r)
    BY <1>1 DEF PendingOf
<1>3. \A r, p : Charged(r, p)' <=> Charged(r, p)
    BY <1>1 DEF Charged
<1> QED BY <1>1, <1>2, <1>3 DEF CreatedOnce, OneFate

(* A step of one request.                                                   *)
LEMMA RequestStep ==
    ASSUME IInv, TypeOK', Calm, CreatedOnce', OneFate', IsFiniteSet(pending)',
           NEW w \in Workers, NEW k, job' = [job EXCEPT ![w] = k], RequestShape(k)
    PROVE  IInv'
<1>1. w \in Slots /\ Ticker \in Slots /\ w # Ticker /\ job \in [Slots -> Job]
    BY RuleAssumption DEF Slots, IInv, TypeOK
<1>2. job'[Ticker] = job[Ticker]
    BY <1>1
<1>3. TickShape(tick)'
  <2>1. TickShape(tick) /\ tick.now \in Nat
    BY <1>1 DEF IInv, tick, Job
  <2>2. TickShape(job[Ticker])
    BY <2>1 DEF tick
  <2> HIDE DEF TickShape
  <2>3. ASSUME NEW j, j = job[Ticker] PROVE TickShape(j)'
    BY <2>1, <2>2, <2>3, TickStays DEF IInv, tick
  <2>4. tick' = job[Ticker]
    BY <1>2 DEF tick
  <2> QED BY <2>3, <2>4
<1>4. ASSUME NEW v \in Workers PROVE RequestShape(job[v])'
  <2>1. v \in Slots /\ job'[v] = IF v = w THEN k ELSE job[v]
    BY <1>1 DEF Slots
  <2>2. RequestShape(job'[v])
    BY <2>1 DEF IInv
  <2>3. ASSUME NEW j, RequestShape(j) PROVE RequestShape(j)'
    BY <2>3, RequestStays DEF IInv, Calm
  <2> QED BY <2>1, <2>2, <2>3 DEF IInv
<1> QED BY <1>3, <1>4 DEF IInv

(* A step of one request that only reads.                                   *)
LEMMA QuietRequest ==
    ASSUME IInv, UNCHANGED <<tables, around>>,
           NEW w \in Workers, NEW k \in Job, job' = [job EXCEPT ![w] = k], RequestShape(k)
    PROVE  IInv'
<1>1. TypeOK'
  <2>1. job' \in [Slots -> Job]
    BY DEF IInv, TypeOK, Slots
  <2> QED BY <2>1 DEF IInv, TypeOK, tables, around
<1>2. today <= today'
    BY DayAssumption DEF IInv, TypeOK, around, Days
<1> QED BY <1>1, <1>2, QuietCalm, QuietKeeps, RequestStep DEF IInv

(* A step of the tick.                                                      *)
LEMMA TickTurn ==
    ASSUME IInv, TypeOK', Moves, CreatedOnce', OneFate', IsFiniteSet(pending)',
           NEW k, job' = [job EXCEPT ![Ticker] = k], TickShape(k)'
    PROVE  IInv'
<1>1. Ticker \notin Workers /\ job \in [Slots -> Job] /\ Ticker \in Slots
    BY RuleAssumption DEF IInv, TypeOK, Slots
<1>2. job'[Ticker] = k
    BY <1>1
<1>3. TickShape(tick)'
    BY <1>2 DEF tick
<1>4. ASSUME NEW v \in Workers PROVE RequestShape(job[v])'
  <2>1. job'[v] = job[v]
    BY <1>1 DEF Slots
  <2>2. RequestShape(job[v])
    BY DEF IInv
  <2>3. ASSUME NEW j, RequestShape(j) PROVE RequestShape(j)'
    BY <2>3, RequestStays DEF IInv
  <2> QED BY <2>1, <2>2, <2>3
<1> QED BY <1>3, <1>4 DEF IInv

LEMMA QuietTick ==
    ASSUME IInv, UNCHANGED <<tables, around>>, NEW k \in Job, job' = [job EXCEPT ![Ticker] = k],
           TickShape(k)
    PROVE  IInv'
<1>1. TypeOK'
  <2>1. job' \in [Slots -> Job]
    BY DEF IInv, TypeOK, Slots
  <2> QED BY <2>1 DEF IInv, TypeOK, tables, around
<1>2. today <= today'
    BY DayAssumption DEF IInv, TypeOK, around, Days
<1>3. Calm /\ Moves
    BY <1>2, QuietCalm DEF IInv, Calm
<1>4. k.now \in Nat
    BY DEF Job
<1>5. TickShape(k)'
  <2>1. ASSUME NEW j, TickShape(j), j.now \in Nat PROVE TickShape(j)'
    BY <1>1, <1>3, <2>1, TickStays DEF IInv
  <2> QED BY <1>4, <2>1
<1> QED BY <1>1, <1>3, <1>5, QuietKeeps, TickTurn DEF IInv

(* A step of the surroundings.                                              *)
LEMMA AroundStep ==
    ASSUME IInv, TypeOK', Calm, CreatedOnce', OneFate', IsFiniteSet(pending)', UNCHANGED job
    PROVE  IInv'
<1>1. TickShape(tick)'
  <2>1. TickShape(job[Ticker]) /\ job[Ticker].now \in Nat
    BY DEF IInv, tick, TypeOK, Job, Slots
  <2>2. ASSUME NEW j, TickShape(j), j.now \in Nat PROVE TickShape(j)'
    BY <2>2, TickStays DEF IInv
  <2> QED BY <2>1, <2>2 DEF tick
<1>2. ASSUME NEW v \in Workers PROVE RequestShape(job[v])'
  <2>1. RequestShape(job[v])
    BY DEF IInv
  <2>2. ASSUME NEW j, RequestShape(j) PROVE RequestShape(j)'
    BY <2>2, RequestStays DEF IInv, Calm
  <2> QED BY <2>1, <2>2
<1> QED BY <1>1, <1>2 DEF IInv

-----------------------------------------------------------------------------
(* What a batch does to the tables.                                         *)

LEMMA RowMoves ==
    ASSUME IInv, NEW r \in Rules, rule[r] # Null, NEW row \in Row, row.rev > rule[r].rev,
           rule' = [rule EXCEPT ![r] = row], used' = used
    PROVE  Moves /\ CreatedOnce' /\ rule' \in [Rules -> Row \cup {Null}]
<1>1. rule \in [Rules -> Row \cup {Null}] /\ used \subseteq Rules /\ CreatedOnce
    BY DEF IInv, TypeOK
<1>2. rule' \in [Rules -> Row \cup {Null}]
    BY <1>1
<1>3. Moves
    BY <1>1 DEF Moves
<1>4. CreatedOnce'
    BY <1>1 DEF CreatedOnce
<1> QED BY <1>2, <1>3, <1>4

(* Only a rule's row changes.                                               *)
LEMMA RowStored ==
    ASSUME IInv, NEW r \in Rules, rule[r] # Null, NEW row \in Row, row.rev > rule[r].rev,
           rule' = [rule EXCEPT ![r] = row], UNCHANGED <<used, occurrence, pending, around>>
    PROVE  /\ Calm /\ CreatedOnce' /\ OneFate' /\ IsFiniteSet(pending)'
           /\ rule' \in [Rules -> Row \cup {Null}]
<1>1. Moves /\ CreatedOnce' /\ rule' \in [Rules -> Row \cup {Null}]
    BY RowMoves
<1>2. \A q : PendingOf(q)' = PendingOf(q)
    BY DEF PendingOf
<1>3. \A q, p : (Charged(q, p)' <=> Charged(q, p)) /\ (Deferred(q, p)' <=> Deferred(q, p))
    BY DEF Charged, Deferred
<1>4. today <= today'
    BY DayAssumption DEF IInv, TypeOK, around, Days
<1>5. \A q \in used : q \in Rules
    BY DEF IInv, TypeOK
<1>6. Calm
    BY <1>1, <1>2, <1>3, <1>4, <1>5 DEF Calm
<1>7. \A q \in Rules : rule[q] # Null => rule'[q] # Null
    BY RowFields DEF IInv, TypeOK
<1>8. OneFate'
  <2>1. \A x \in occurrence \cup pending : x.rule \in Rules
    BY DEF IInv, TypeOK, Occurrence, Failure
  <2> QED BY <1>2, <1>3, <1>7, <2>1 DEF IInv, OneFate
<1> QED BY <1>1, <1>6, <1>8 DEF IInv

-----------------------------------------------------------------------------
(* Requests that only read.                                                 *)

LEMMA BegunJob ==
    ASSUME TypeOK, CreatedOnce, NEW op \in Ops, NEW g \in Grants, NEW r \in Rules, NEW pc \in Pcs,
           NEW want \in Draft \cup {Null}
    PROVE  LET k == Begin(op, g, r, pc, want) IN
           /\ k \in Job /\ k.op = op /\ k.by = g /\ k.rule = r /\ k.row = rule[r] /\ k.pc = pc /\ k.want = want
           /\ rule[r] # Null => Remembered(r, k.row)
<1> DEFINE k == [Idle EXCEPT !.op = op, !.by = g, !.grant = grant[g], !.now = today,
                             !.rule = r, !.row = rule[r], !.pc = pc, !.want = want]
<1>1. /\ g \in Grants \cup {Null} /\ grant[g] \in [rev: Nat, ok: BOOLEAN] \cup {Null} /\ today \in Nat
      /\ r \in Rules \cup {Null} /\ rule[r] \in Row \cup {Null}
    BY DayAssumption DEF TypeOK, Days
<1>2. k \in Job
    BY <1>1, IdleJob, JobIs, ZenonT(120)
<1>3. k.op = op /\ k.by = g /\ k.rule = r /\ k.row = rule[r] /\ k.pc = pc /\ k.want = want
    BY IdleJob, SMT DEF Job
<1>4. rule[r] # Null => Remembered(r, rule[r])
    BY <1>1, RowFields DEF Remembered, CreatedOnce
<1> HIDE DEF k
<1>5. k = Begin(op, g, r, pc, want)
    BY DEF k, Begin
<1> QED BY <1>2, <1>3, <1>4, <1>5

LEMMA ReceiveKeeps == ASSUME IInv, NEW w \in Workers, Receive(w) PROVE IInv'
<1>0. TypeOK /\ CreatedOnce
    BY DEF IInv
<1>1. PICK g \in Grants, r \in Rules :
        \/ \E draft \in Drafts : ReceiveCreate(w, g, r, draft) \/ ReceiveEdit(w, g, r, draft)
        \/ ReceiveResume(w, g, r) \/ ReceiveRetry(w, g, r)
        \/ \E op \in {"pause", "cancel"} : ReceiveStop(w, g, r, op)
    BY DEF Receive
<1>2. CASE \E draft \in Drafts : ReceiveCreate(w, g, r, draft)
  <2>1. PICK draft \in Drafts : ReceiveCreate(w, g, r, draft)
    BY <1>2
  <2>2. draft \in Draft \cup {Null} /\ draft \in Draft /\ "create" \in Ops /\ "read" \in Pcs
    BY DraftAssumption DEF Ops, Pcs
  <2> DEFINE k == Begin("create", g, r, "read", draft)
  <2>3. k \in Job /\ k.op = "create" /\ k.by = g /\ k.rule = r /\ k.pc = "read" /\ k.want = draft
    BY <1>0, <2>2, BegunJob
  <2>4. job' = [job EXCEPT ![w] = k] /\ UNCHANGED <<tables, around>>
    BY <2>1 DEF ReceiveCreate
  <2> HIDE DEF k
  <2>5. RequestShape(k)
    BY <2>2, <2>3 DEF RequestShape
  <2> QED BY <2>3, <2>4, <2>5, QuietRequest
<1>3. CASE \E draft \in Drafts : ReceiveEdit(w, g, r, draft)
  <2>1. PICK draft \in Drafts : ReceiveEdit(w, g, r, draft)
    BY <1>3
  <2>2. draft \in Draft \cup {Null} /\ draft \in Draft /\ "edit" \in Ops /\ "read" \in Pcs
    BY DraftAssumption DEF Ops, Pcs
  <2> DEFINE k == Begin("edit", g, r, "read", draft)
  <2>3. /\ k \in Job /\ k.op = "edit" /\ k.by = g /\ k.rule = r /\ k.pc = "read" /\ k.want = draft
        /\ k.row = rule[r] /\ (rule[r] # Null => Remembered(r, k.row))
    BY <1>0, <2>2, BegunJob
  <2>4. /\ job' = [job EXCEPT ![w] = k] /\ UNCHANGED <<tables, around>>
        /\ rule[r] # Null /\ rule[r].status # "canceled"
    BY <2>1 DEF ReceiveEdit, Readable
  <2> HIDE DEF k
  <2>5. RequestShape(k)
    BY <2>2, <2>3, <2>4 DEF RequestShape
  <2> QED BY <2>3, <2>4, <2>5, QuietRequest
<1>4. CASE ReceiveResume(w, g, r)
  <2> DEFINE want == Template(rule[r])
             k == Begin("resume", g, r, "read", want)
  <2>1. /\ job' = [job EXCEPT ![w] = k] /\ UNCHANGED <<tables, around>>
        /\ rule[r] # Null /\ rule[r].status # "canceled"
    BY <1>4 DEF ReceiveResume, Readable
  <2>2. want \in Draft \cup {Null} /\ want \in Draft /\ "resume" \in Ops /\ "read" \in Pcs
    BY <1>0, <2>1, RuleRows, TemplateIsDraft DEF Ops, Pcs
  <2> HIDE DEF want
  <2>3. /\ k \in Job /\ k.op = "resume" /\ k.by = g /\ k.rule = r /\ k.pc = "read" /\ k.want = want
        /\ k.row = rule[r] /\ (rule[r] # Null => Remembered(r, k.row))
    BY <1>0, <2>2, BegunJob
  <2> HIDE DEF k
  <2>5. RequestShape(k)
    BY <2>1, <2>2, <2>3 DEF RequestShape
  <2> QED BY <2>1, <2>3, <2>5, QuietRequest
<1>5. CASE ReceiveRetry(w, g, r)
  <2>1. PICK f \in PendingOf(r) :
          job' = [job EXCEPT ![w] = [Begin("retry", g, r, "read",
                    [Template(rule[r]) EXCEPT !.category = f.category]) EXCEPT !.failure = f]]
    BY <1>5 DEF ReceiveRetry
  <2>2. UNCHANGED <<tables, around>> /\ rule[r] # Null /\ rule[r].status # "canceled"
    BY <1>5 DEF ReceiveRetry, Readable
  <2>3. f \in Failure /\ f.rule = r /\ f.category \in Categories
    BY <1>0 DEF PendingOf, TypeOK, Failure
  <2> DEFINE want == [Template(rule[r]) EXCEPT !.category = f.category]
  <2>4. want \in Draft
    <3>1. Template(rule[r]) \in Draft
      BY <1>0, <2>2, RuleRows, TemplateIsDraft
    <3> QED BY <2>3, <3>1 DEF Draft
  <2>5. want \in Draft \cup {Null} /\ "retry" \in Ops /\ "read" \in Pcs
    BY <2>4 DEF Ops, Pcs
  <2> HIDE DEF want
  <2> DEFINE b == Begin("retry", g, r, "read", want)
  <2>6. /\ b \in Job /\ b.op = "retry" /\ b.by = g /\ b.rule = r /\ b.pc = "read" /\ b.want = want
        /\ b.row = rule[r] /\ (rule[r] # Null => Remembered(r, b.row))
    BY <1>0, <2>5, BegunJob
  <2> HIDE DEF b
  <2> DEFINE k == [b EXCEPT !.failure = f]
  <2>7. k \in Job
    <3>1. f \in Failure \cup {Null}
      BY <2>3
    <3> QED BY <2>6, <3>1, JobIs, ZenonT(60)
  <2>8. /\ k.op = b.op /\ k.by = b.by /\ k.rule = b.rule /\ k.pc = b.pc /\ k.want = b.want
        /\ k.row = b.row /\ k.failure = f
    BY <2>6, SMT DEF Job
  <2>9. job' = [job EXCEPT ![w] = k]
    BY <2>1 DEF b, want
  <2> HIDE DEF k
  <2>10. RequestShape(k)
    BY <2>2, <2>3, <2>4, <2>6, <2>8 DEF RequestShape
  <2> QED BY <2>2, <2>7, <2>9, <2>10, QuietRequest
<1>6. CASE \E op \in {"pause", "cancel"} : ReceiveStop(w, g, r, op)
  <2>1. PICK op \in {"pause", "cancel"} : ReceiveStop(w, g, r, op)
    BY <1>6
  <2>2. Null \in Draft \cup {Null} /\ op \in Ops /\ "commit" \in Pcs
    BY DEF Ops, Pcs
  <2> DEFINE k == Begin(op, g, r, "commit", Null)
  <2>3. /\ k \in Job /\ k.op = op /\ k.by = g /\ k.rule = r /\ k.pc = "commit"
        /\ k.row = rule[r] /\ (rule[r] # Null => Remembered(r, k.row))
    BY <1>0, <2>2, BegunJob
  <2>4. /\ job' = [job EXCEPT ![w] = k] /\ UNCHANGED <<tables, around>>
        /\ rule[r] # Null /\ rule[r].status # "canceled"
    BY <2>1 DEF ReceiveStop, Readable
  <2> HIDE DEF k
  <2>5. RequestShape(k)
    BY <2>1, <2>3, <2>4 DEF RequestShape
  <2> QED BY <2>3, <2>4, <2>5, QuietRequest
<1> QED BY <1>1, <1>2, <1>3, <1>4, <1>5, <1>6

(* A request that goes on remembers what it read.                           *)
LEMMA RequestGoesOn ==
    ASSUME NEW j \in Job, RequestShape(j), j.pc # "idle", NEW k, NEW pc \in {"prepare", "commit", "fallback"},
           k.pc = pc, k.op = j.op, k.by = j.by, k.rule = j.rule, k.want = j.want, k.row = j.row,
           k.failure = j.failure,
           pc = "prepare" => j.op \in {"create", "edit", "resume", "retry"}, pc = "fallback" => j.op = "create"
    PROVE  RequestShape(k)
BY DEF RequestShape

LEMMA ReadsKeep ==
    ASSUME IInv, NEW w \in Workers, Validate(w) \/ Prepare(w) \/ RefuseCreate(w)
    PROVE  IInv'
<1> DEFINE j == job[w]
<1>0. /\ j \in Job /\ RequestShape(j) /\ TypeOK
    BY DEF IInv, TypeOK, Slots
<1>1. CASE Validate(w)
  <2> DEFINE pc == IF Charging(j) THEN "prepare" ELSE "commit"
             k == [j EXCEPT !.pc = pc, !.evidence = Revision(j.want.target)]
  <2>1. j.pc = "read" /\ UNCHANGED <<tables, around>> /\ job' = [job EXCEPT ![w] = k]
    BY <1>0, <1>1 DEF Validate, TypeOK, Slots
  <2>2. pc \in {"prepare", "commit"} /\ pc \in Pcs
    BY DEF Pcs
  <2>3. j.op \in {"create", "edit", "resume", "retry"} /\ j.want \in Draft
    BY <1>0, <2>1 DEF RequestShape
  <2>4. Revision(j.want.target) \in Nat
    BY <1>0, <2>3, TargetAssumption DEF Revision, Draft, Targets, TypeOK
  <2> HIDE DEF j, pc
  <2>5. k \in Job
    BY <1>0, <2>2, <2>4, JobIs, ZenonT(60)
  <2>6. /\ k.pc = pc /\ k.op = j.op /\ k.by = j.by /\ k.rule = j.rule /\ k.want = j.want /\ k.row = j.row
        /\ k.failure = j.failure
    BY <1>0, SMT DEF Job
  <2> HIDE DEF k
  <2>7. RequestShape(k)
    BY <1>0, <2>1, <2>2, <2>3, <2>6, RequestGoesOn
  <2> QED BY <2>1, <2>5, <2>7, QuietRequest
<1>2. CASE Prepare(w)
  <2> DEFINE failed == (limit = "capacity")
             k == [j EXCEPT !.pc = "commit", !.failed = failed]
  <2>1. j.pc = "prepare" /\ UNCHANGED <<tables, around>> /\ job' = [job EXCEPT ![w] = k]
    BY <1>0, <1>2 DEF Prepare, TypeOK, Slots
  <2>2. "commit" \in Pcs /\ failed \in BOOLEAN
    BY DEF Pcs
  <2> HIDE DEF j, failed
  <2>5. k \in Job
    BY <1>0, <2>2, JobIs, ZenonT(60)
  <2>6. /\ k.pc = "commit" /\ k.op = j.op /\ k.by = j.by /\ k.rule = j.rule /\ k.want = j.want /\ k.row = j.row
        /\ k.failure = j.failure
    BY <1>0, SMT DEF Job
  <2> HIDE DEF k
  <2>7. RequestShape(k)
    BY <1>0, <2>1, <2>2, <2>6, RequestGoesOn
  <2> QED BY <2>1, <2>5, <2>7, QuietRequest
<1>3. CASE RefuseCreate(w)
  <2> DEFINE k == [j EXCEPT !.pc = "fallback"]
  <2>1. j.pc = "commit" /\ j.op = "create" /\ UNCHANGED <<tables, around>> /\ job' = [job EXCEPT ![w] = k]
    BY <1>0, <1>3 DEF RefuseCreate, TypeOK, Slots
  <2>2. "fallback" \in Pcs
    BY DEF Pcs
  <2> HIDE DEF j
  <2>5. k \in Job
    BY <1>0, <2>2, JobIs, ZenonT(60)
  <2>6. /\ k.pc = "fallback" /\ k.op = j.op /\ k.by = j.by /\ k.rule = j.rule /\ k.want = j.want
        /\ k.row = j.row /\ k.failure = j.failure
    BY <1>0, SMT DEF Job
  <2> HIDE DEF k
  <2>7. RequestShape(k)
    BY <1>0, <2>1, <2>2, <2>6, RequestGoesOn
  <2> QED BY <2>1, <2>5, <2>7, QuietRequest
<1> QED BY <1>1, <1>2, <1>3

LEMMA AbandonKeeps == ASSUME IInv, NEW w \in Slots, Abandon(w) PROVE IInv'
<1>1. job' = [job EXCEPT ![w] = Idle] /\ UNCHANGED <<tables, around>>
    BY DEF Abandon
<1>2. CASE w \in Workers
    BY <1>1, <1>2, IdleJob, IdleRequest, QuietRequest
<1>3. CASE w = Ticker
  <2>1. today \in Nat
    BY DayAssumption DEF IInv, TypeOK, Days
  <2> QED BY <1>1, <1>3, <2>1, IdleJob, IdleTick, QuietTick
<1> QED BY <1>2, <1>3 DEF Slots

-----------------------------------------------------------------------------
(* Batches of requests.                                                     *)

LEMMA PendingFinite == ASSUME IsFiniteSet(pending), NEW r PROVE IsFiniteSet(PendingOf(r))
BY FS_Subset DEF PendingOf

LEMMA PendingFiniteNext == (IsFiniteSet(pending) => \A r : IsFiniteSet(PendingOf(r)))'
<1>1. IsFiniteSet(pending) => \A r : IsFiniteSet(PendingOf(r))
    BY PendingFinite
<1> QED BY <1>1, PTL

LEMMA StoreKeeps ==
    ASSUME IInv, NEW w \in Workers, NEW failed \in BOOLEAN,
           job[w].want \in Draft, job[w].by \in Grants, job[w].rule \in Rules,
           StoreRule(job[w], failed), job' = [job EXCEPT ![w] = Idle], UNCHANGED around
    PROVE  IInv'
<1> DEFINE j == job[w]
           r == j.rule
           s == j.want.sched
           x == [rule |-> r, period |-> StartPeriod(s), on |-> s.start]
           y == [rule |-> r, period |-> StartPeriod(s), on |-> s.start, category |-> j.want.category]
           O == {o \in {x} : Initial(j) /\ ~failed}
           P == {f \in {y} : Initial(j) /\ failed}
<1>1. /\ r \notin used /\ used' = used \cup {r} /\ rule' = [rule EXCEPT ![r] = NewRule(j)]
      /\ occurrence' = occurrence \cup O /\ pending' = pending \cup P
    BY DEF StoreRule
<1>2. /\ TypeOK /\ CreatedOnce /\ OneFate /\ IsFiniteSet(pending) /\ r \in Rules
      /\ s \in Schedule /\ s.start \in Days /\ j.want.category \in Categories
    BY DEF IInv, Draft, Schedule
<1>3. NewRule(j) \in Row /\ NewRule(j) # Null
    BY NewRuleIsRow, NullAssumption
<1>4. x \in Occurrence /\ y \in Failure
  <2>1. StartPeriod(s) \in Period
    BY <1>2, KeyIsPeriod DEF StartPeriod
  <2> QED BY <1>2, <2>1 DEF Occurrence, Failure
<1>5. O \subseteq {x} /\ P \subseteq {y} /\ (O = {} \/ P = {})
    OBVIOUS
<1>6. x.rule = r /\ y.rule = r /\ y.period = x.period
    OBVIOUS
<1> HIDE DEF O, P, x, y, s, r, j
<1>7. rule[r] = Null /\ \A z \in occurrence \cup pending : z.rule # r
    BY <1>1, <1>2 DEF CreatedOnce, OneFate
<1>8. rule' \in [Rules -> Row \cup {Null}] /\ rule'[r] # Null /\ \A q \in Rules \ {r} : rule'[q] = rule[q]
    BY <1>1, <1>2, <1>3 DEF TypeOK
<1>9. \A q : q # r => PendingOf(q)' = PendingOf(q)
    BY <1>1, <1>5, <1>6 DEF PendingOf
<1>10. TypeOK'
  <2>1. job' \in [Slots -> Job]
    BY <1>2, IdleJob DEF TypeOK, Slots
  <2>2. occurrence' \subseteq Occurrence /\ pending' \subseteq Failure /\ used' \subseteq Rules
    BY <1>1, <1>2, <1>4, <1>5 DEF TypeOK
  <2> QED BY <1>2, <1>8, <2>1, <2>2 DEF TypeOK, around
<1>11. \A q \in used : q # r /\ q \in Rules
    BY <1>1, <1>2 DEF TypeOK
<1>12. Calm
  <2>1. today <= today'
    BY <1>2, DayAssumption DEF TypeOK, around, Days
  <2>2. Moves
    BY <1>1, <1>8, <1>11 DEF Moves
  <2>3. \A q, p : Charged(q, p) \/ Deferred(q, p) => Charged(q, p)' \/ Deferred(q, p)'
    BY <1>1 DEF Charged, Deferred
  <2> QED BY <1>9, <1>11, <2>1, <2>2, <2>3 DEF Calm
<1>13. CreatedOnce'
    BY <1>1, <1>2, <1>8 DEF CreatedOnce
<1>14. IsFiniteSet(pending)'
  <2>1. IsFiniteSet(P)
    BY <1>5, FS_Singleton, FS_Subset
  <2> QED BY <1>1, <1>2, <2>1, FS_Union
<1>15. OneFate'
  <2>1. \A o, q \in occurrence' : o.rule = q.rule /\ o.period = q.period => o = q
    BY <1>1, <1>2, <1>5, <1>6, <1>7 DEF OneFate
  <2>2. \A f, h \in pending' : f.rule = h.rule /\ f.period = h.period => f = h
    BY <1>1, <1>2, <1>5, <1>6, <1>7 DEF OneFate
  <2>3. \A f \in pending' : ~Charged(f.rule, f.period)'
    <3>1. \A f \in pending' : \A o \in occurrence' : ~(o.rule = f.rule /\ o.period = f.period)
      BY <1>1, <1>2, <1>5, <1>6, <1>7 DEF OneFate, Charged
    <3> QED BY <3>1 DEF Charged
  <2>4. \A z \in occurrence' \cup pending' : rule'[z.rule] # Null
    <3>1. \A z \in occurrence \cup pending : z.rule \in Rules \ {r} /\ rule[z.rule] # Null
      BY <1>2, <1>7 DEF OneFate, TypeOK, Occurrence, Failure
    <3>2. \A z \in O \cup P : z.rule = r
      BY <1>5, <1>6
    <3> QED BY <1>1, <1>8, <3>1, <3>2
  <2>5. \A q \in Rules : Cardinality(PendingOf(q)') <= MaxPending
    <3>1. ASSUME NEW q \in Rules, q # r PROVE Cardinality(PendingOf(q)') <= MaxPending
      <4>1. PendingOf(q)' = PendingOf(q)
        BY <1>9, <3>1
      <4>2. Cardinality(PendingOf(q)) <= MaxPending
        BY <1>2 DEF OneFate
      <4> QED BY <4>1, <4>2
    <3>2. ASSUME NEW q \in Rules, q = r PROVE Cardinality(PendingOf(q)') <= MaxPending
      <4>0. \A f \in pending' : f.rule = q => f = y
        BY <1>1, <1>5, <1>7, <3>2
      <4>1. PendingOf(q)' \subseteq {y}
        BY <4>0 DEF PendingOf
      <4>2. IsFiniteSet({y}) /\ Cardinality({y}) = 1
        BY FS_Singleton
      <4>3. IsFiniteSet(PendingOf(q)') /\ Cardinality(PendingOf(q)') <= Cardinality({y})
        BY <4>1, <4>2, FS_Subset
      <4>5. Cardinality(PendingOf(q)') \in Nat
        BY <4>3, FS_CardinalityType
      <4>4. MaxPending \in Nat /\ MaxPending # 0
        BY LimitAssumption
      <4> QED BY <4>2, <4>3, <4>4, <4>5
    <3> QED BY <3>1, <3>2
  <2>6. (\A q \in Rules : Cardinality(PendingOf(q)) <= MaxPending)'
    BY <2>5
  <2> QED BY <2>1, <2>2, <2>3, <2>4, <2>6 DEF OneFate
<1> QED BY <1>10, <1>12, <1>13, <1>14, <1>15, IdleRequest, RequestStep

LEMMA CreateKeeps == ASSUME IInv, NEW w \in Workers, CommitCreate(w) \/ CommitFallback(w) PROVE IInv'
<1>0. RequestShape(job[w]) /\ job[w] \in Job
    BY DEF IInv, TypeOK, Slots
<1>1. job[w].op = "create"
    BY <1>0 DEF CommitCreate, CommitFallback, RequestShape
<1>2. job[w].want \in Draft /\ job[w].by \in Grants /\ job[w].rule \in Rules
    BY <1>0, <1>1 DEF CommitCreate, CommitFallback, RequestShape
<1>3. CASE CommitCreate(w)
  <2>1. job[w].failed \in BOOLEAN
    BY <1>0 DEF Job
  <2> QED BY <1>2, <1>3, <2>1, StoreKeeps DEF CommitCreate
<1>4. CASE CommitFallback(w)
    BY <1>2, <1>4, StoreKeeps DEF CommitFallback
<1> QED BY <1>3, <1>4

(* A batch that only stores the row of the rule it read.                    *)
LEMMA StoredKeeps ==
    ASSUME IInv, NEW w \in Workers, NEW r \in Rules, rule[r] # Null,
           NEW row \in Row, row.rev = rule[r].rev + 1, rule' = [rule EXCEPT ![r] = row],
           UNCHANGED <<used, occurrence, pending, around>>, job' = [job EXCEPT ![w] = Idle]
    PROVE  IInv'
<1>1. row.rev > rule[r].rev
    BY RuleRows DEF IInv
<1>2. /\ Calm /\ CreatedOnce' /\ OneFate' /\ IsFiniteSet(pending)'
      /\ rule' \in [Rules -> Row \cup {Null}]
    BY <1>1, RowStored
<1>3. job' \in [Slots -> Job]
    BY IdleJob DEF IInv, TypeOK, Slots
<1>4. TypeOK'
    BY <1>2, <1>3 DEF IInv, TypeOK, around
<1> QED BY <1>2, <1>4, IdleRequest, RequestStep

LEMMA PlanKeeps == ASSUME IInv, NEW w \in Workers, CommitPlan(w) PROVE IInv'
<1> DEFINE j == job[w]
<1>1. RequestShape(j)
    BY DEF IInv
<1>2. /\ j.pc = "commit" /\ j.op \in {"edit", "resume"} /\ rule[j.rule] # Null /\ rule[j.rule].rev = j.row.rev
      /\ rule' = [rule EXCEPT ![j.rule] = Replanned(j)] /\ job' = [job EXCEPT ![w] = Idle]
      /\ UNCHANGED <<used, occurrence, pending, around>>
    BY DEF CommitPlan, RuleGuard
<1> HIDE DEF j
<1>3. j.want \in Draft /\ j.by \in Grants /\ j.row \in Row /\ j.rule \in Rules
    BY <1>1, <1>2 DEF RequestShape, Remembered
<1>4. Replanned(j) \in Row /\ Replanned(j).rev = j.row.rev + 1
    BY <1>3, ReplannedIsRow
<1> QED BY <1>2, <1>3, <1>4, StoredKeeps

LEMMA StopKeeps == ASSUME IInv, NEW w \in Workers, CommitStop(w) PROVE IInv'
<1> DEFINE j == job[w]
           status == IF j.op = "pause" THEN "paused" ELSE "canceled"
           row == [rule[j.rule] EXCEPT !.status = status, !.code = Null, !.rev = @ + 1]
<1>1. RequestShape(j)
    BY DEF IInv
<1>2. /\ j.pc = "commit" /\ j.op \in {"pause", "cancel"} /\ rule[j.rule] # Null
      /\ job' = [job EXCEPT ![w] = Idle] /\ UNCHANGED <<used, occurrence, pending, around>>
    BY DEF CommitStop, RuleGuard
<1>6. rule' = [rule EXCEPT ![j.rule] = row]
    BY Zenon DEF CommitStop
<1>3. j.rule \in Rules /\ status \in Status
    BY <1>1, <1>2 DEF RequestShape, Status
<1> HIDE DEF status, j
<1>4. rule[j.rule] \in Row
    BY <1>2, <1>3, RuleRows DEF IInv
<1>5. row \in Row /\ row.rev = rule[j.rule].rev + 1
    BY <1>3, <1>4, StoppedRow
<1> HIDE DEF row
<1> QED BY <1>2, <1>3, <1>5, <1>6, StoredKeeps

LEMMA RetryKeeps == ASSUME IInv, NEW w \in Workers, CommitRetry(w) PROVE IInv'
<1> DEFINE j == job[w]
           r == j.rule
           f == j.failure
           x == [rule |-> r, period |-> f.period, on |-> f.on]
           row == [rule[r] EXCEPT !.rev = @ + 1]
<1>1. /\ TypeOK /\ CreatedOnce /\ OneFate /\ IsFiniteSet(pending) /\ RequestShape(j)
    BY DEF IInv
<1>2. /\ j.pc = "commit" /\ j.op = "retry" /\ rule[r] # Null /\ f \in pending /\ ~Charged(r, f.period)
      /\ occurrence' = occurrence \cup {x} /\ pending' = pending \ {f}
      /\ UNCHANGED <<used, around>> /\ job' = [job EXCEPT ![w] = Idle]
    BY DEF CommitRetry, RuleGuard
<1>3. rule' = [rule EXCEPT ![r] = row]
    BY DEF CommitRetry
<1>4. r \in Rules /\ f \in Failure /\ f.rule = r
    BY <1>1, <1>2 DEF RequestShape
<1>5. rule[r] \in Row /\ rule[r].rev \in Nat
    BY <1>1, <1>2, <1>4, RuleRows
<1>6. row \in Row /\ row.rev = rule[r].rev + 1
    BY <1>5, RevisedRow
<1>7. x \in Occurrence /\ x.rule = r /\ x.period = f.period
    BY <1>4 DEF Failure, Occurrence
<1> HIDE DEF j, r, f, x, row
<1>8. row.rev > rule[r].rev
    BY <1>5, <1>6
<1>9. Moves /\ CreatedOnce' /\ rule' \in [Rules -> Row \cup {Null}]
    BY <1>2, <1>3, <1>4, <1>6, <1>8, RowMoves
<1>10. TypeOK'
  <2>1. job' \in [Slots -> Job]
    BY <1>1, <1>2, IdleJob DEF TypeOK, Slots
  <2>2. occurrence' \subseteq Occurrence /\ pending' \subseteq Failure
    BY <1>1, <1>2, <1>7 DEF TypeOK
  <2> QED BY <1>1, <1>2, <1>9, <2>1, <2>2 DEF TypeOK, around
<1>11. Calm
  <2>1. today <= today'
    BY <1>1, <1>2, DayAssumption DEF TypeOK, around, Days
  <2>2. ASSUME NEW q, NEW p, Charged(q, p) \/ Deferred(q, p) PROVE Charged(q, p)' \/ Deferred(q, p)'
    <3>1. CASE Charged(q, p)
      BY <1>2, <3>1 DEF Charged
    <3>2. CASE Deferred(q, p)
      <4>1. PICK h \in pending : h.rule = q /\ h.period = p
        BY <3>2 DEF Deferred
      <4>2. CASE h = f
        BY <1>2, <1>4, <1>7, <4>1, <4>2 DEF Charged
      <4>3. CASE h # f
        BY <1>2, <4>1, <4>3 DEF Deferred
      <4> QED BY <4>2, <4>3
    <3> QED BY <2>2, <3>1, <3>2
  <2>3. \A q : PendingOf(q)' \subseteq PendingOf(q)
    BY <1>2 DEF PendingOf
  <2>4. \A q : q # r => PendingOf(q)' = PendingOf(q)
    BY <1>2, <1>4 DEF PendingOf
  <2>5. rule'[r] # rule[r]
    BY <1>1, <1>3, <1>4, <1>5, <1>6 DEF TypeOK
  <2> QED BY <1>9, <2>1, <2>2, <2>3, <2>4, <2>5 DEF Calm
<1>12. IsFiniteSet(pending)'
    BY <1>1, <1>2, FS_Subset
<1>13. OneFate'
  <2>1. \A o, q \in occurrence' : o.rule = q.rule /\ o.period = q.period => o = q
    BY <1>1, <1>2, <1>7 DEF OneFate, Charged
  <2>2. \A g, h \in pending' : g.rule = h.rule /\ g.period = h.period => g = h
    BY <1>1, <1>2 DEF OneFate
  <2>3. \A g \in pending' : ~Charged(g.rule, g.period)'
    <3>1. \A g \in pending' : \A o \in occurrence' : ~(o.rule = g.rule /\ o.period = g.period)
      BY <1>1, <1>2, <1>4, <1>7 DEF OneFate, Charged
    <3> QED BY <3>1 DEF Charged
  <2>4. \A z \in occurrence' \cup pending' : rule'[z.rule] # Null
    <3>1. \A z \in occurrence \cup pending : z.rule \in Rules /\ rule[z.rule] # Null
      BY <1>1 DEF OneFate, TypeOK, Occurrence, Failure
    <3>2. \A q \in Rules : rule[q] # Null => rule'[q] # Null
      BY <1>1, <1>3, <1>6, NullAssumption DEF TypeOK
    <3> QED BY <1>2, <1>4, <1>7, <3>1, <3>2
  <2>5. ASSUME NEW q \in Rules PROVE Cardinality(PendingOf(q)') <= MaxPending
    <3>1. PendingOf(q)' \subseteq PendingOf(q)
      BY <1>2 DEF PendingOf
    <3>2. IsFiniteSet(PendingOf(q)) /\ Cardinality(PendingOf(q)) <= MaxPending
      BY <1>1, PendingFinite DEF OneFate
    <3>3. IsFiniteSet(PendingOf(q)') /\ Cardinality(PendingOf(q)') <= Cardinality(PendingOf(q))
      BY <3>1, <3>2, FS_Subset
    <3>4. Cardinality(PendingOf(q)') \in Nat /\ Cardinality(PendingOf(q)) \in Nat /\ MaxPending \in Nat
      BY <3>2, <3>3, FS_CardinalityType, LimitAssumption
    <3> QED BY <3>2, <3>3, <3>4
  <2> QED BY <2>1, <2>2, <2>3, <2>4, <2>5 DEF OneFate
<1> QED BY <1>2, <1>9, <1>10, <1>11, <1>12, <1>13, IdleRequest, RequestStep

-----------------------------------------------------------------------------
(* The surroundings.                                                        *)

LEMMA EraseKeeps == ASSUME IInv, NEW p \in Projects, EraseProject(p) PROVE IInv'
<1> DEFINE erased == {r \in Rules : rule[r] # Null /\ rule[r].target = p}
<1>1. /\ TypeOK /\ CreatedOnce /\ OneFate /\ IsFiniteSet(pending)
    BY DEF IInv
<1>2. /\ project' = [project EXCEPT ![p].status = "gone"]
      /\ rule' = [r \in Rules |-> IF r \in erased THEN Null ELSE rule[r]]
      /\ occurrence' = {o \in occurrence : o.rule \notin erased}
      /\ pending' = {f \in pending : f.rule \notin erased}
      /\ UNCHANGED <<used, today, grant, archived, limit, job>>
    BY DEF EraseProject
<1> HIDE DEF erased
<1>3. TypeOK'
  <2>1. project' \in [Projects -> [status: {"active", "archived", "gone"}, rev: Nat]]
    BY <1>1, <1>2 DEF TypeOK
  <2>2. rule' \in [Rules -> Row \cup {Null}]
    BY <1>1, <1>2 DEF TypeOK
  <2> QED BY <1>1, <1>2, <2>1, <2>2 DEF TypeOK
<1>4. Calm
  <2>1. today <= today'
    BY <1>1, <1>2, DayAssumption DEF TypeOK, Days
  <2>2. \A r \in used : r \in Rules
    BY <1>1 DEF TypeOK
  <2>3. Moves
    BY <1>1, <1>2, <2>2 DEF Moves
  <2>4. \A r : r \notin erased => PendingOf(r)' = PendingOf(r)
    BY <1>2 DEF PendingOf
  <2>5. \A r : PendingOf(r)' \subseteq PendingOf(r)
    BY <1>2 DEF PendingOf
  <2>6. \A r, q : r \notin erased /\ (Charged(r, q) \/ Deferred(r, q)) => Charged(r, q)' \/ Deferred(r, q)'
    BY <1>2 DEF Charged, Deferred
  <2>7. \A r \in used : r \in erased => rule'[r] = Null
    BY <1>2, <2>2
  <2>8. \A r \in used : rule[r] # Null /\ rule'[r] = rule[r] => r \notin erased
    BY <2>7
  <2> QED BY <2>1, <2>3, <2>4, <2>5, <2>6, <2>7, <2>8 DEF Calm
<1>5. CreatedOnce'
    BY <1>1, <1>2 DEF CreatedOnce
<1>6. IsFiniteSet(pending)'
    BY <1>1, <1>2, FS_Subset
<1>7. OneFate'
  <2>1. \A o, q \in occurrence' : o.rule = q.rule /\ o.period = q.period => o = q
    BY <1>1, <1>2 DEF OneFate
  <2>2. \A g, h \in pending' : g.rule = h.rule /\ g.period = h.period => g = h
    BY <1>1, <1>2 DEF OneFate
  <2>3. \A g \in pending' : ~Charged(g.rule, g.period)'
    BY <1>1, <1>2 DEF OneFate, Charged
  <2>4. \A z \in occurrence' \cup pending' : rule'[z.rule] # Null
    <3>1. \A z \in occurrence \cup pending : z.rule \in Rules /\ rule[z.rule] # Null
      BY <1>1 DEF OneFate, TypeOK, Occurrence, Failure
    <3> QED BY <1>2, <3>1
  <2>5. ASSUME NEW q \in Rules PROVE Cardinality(PendingOf(q)') <= MaxPending
    <3>1. PendingOf(q)' \subseteq PendingOf(q)
      BY <1>2 DEF PendingOf
    <3>2. IsFiniteSet(PendingOf(q)) /\ Cardinality(PendingOf(q)) <= MaxPending
      BY <1>1, PendingFinite DEF OneFate
    <3>3. IsFiniteSet(PendingOf(q)') /\ Cardinality(PendingOf(q)') <= Cardinality(PendingOf(q))
      BY <3>1, <3>2, FS_Subset
    <3>4. Cardinality(PendingOf(q)') \in Nat /\ Cardinality(PendingOf(q)) \in Nat /\ MaxPending \in Nat
      BY <3>2, <3>3, FS_CardinalityType, LimitAssumption
    <3> QED BY <3>2, <3>3, <3>4
  <2> QED BY <2>1, <2>2, <2>3, <2>4, <2>5 DEF OneFate
<1> QED BY <1>2, <1>3, <1>4, <1>5, <1>6, <1>7, AroundStep

LEMMA AroundKeeps == ASSUME IInv, Around PROVE IInv'
<1>0. TypeOK
    BY DEF IInv
<1>1. ASSUME TypeOK', UNCHANGED <<tables, job>>, today <= today' PROVE IInv'
  <2>1. CreatedOnce' /\ OneFate' /\ IsFiniteSet(pending)'
    BY <1>1, QuietKeeps DEF IInv
  <2>2. Calm
    BY <1>0, <1>1, QuietCalm
  <2> QED BY <1>1, <2>1, <2>2, AroundStep
<1>2. UNCHANGED today => today <= today'
    BY <1>0, DayAssumption DEF TypeOK, Days
<1>3. CASE NextDay
  <2>1. today \in 1..MaxDay /\ today < MaxDay /\ today' = today + 1 /\ MaxDay \in Nat
    BY <1>0, <1>3, DayAssumption DEF NextDay, TypeOK, Days
  <2>2. today' \in 1..MaxDay /\ today <= today'
    BY <2>1
  <2>3. UNCHANGED <<tables, grant, project, archived, limit, job>>
    BY <1>3 DEF NextDay
  <2>4. TypeOK'
    BY <1>0, <2>2, <2>3 DEF TypeOK, tables
  <2> QED BY <1>1, <2>2, <2>3, <2>4
<1>4. CASE ChangeLimit
  <2>1. TypeOK'
    BY <1>0, <1>4 DEF ChangeLimit, TypeOK, tables
  <2> QED BY <1>1, <1>2, <1>4, <2>1 DEF ChangeLimit
<1>5. ASSUME NEW g \in Grants, ChangeGrant(g) PROVE IInv'
  <2>1. PICK ok \in BOOLEAN : grant' = [grant EXCEPT ![g] = [rev |-> @.rev + 1, ok |-> ok]]
    BY <1>5 DEF ChangeGrant
  <2>2. grant' \in [Grants -> [rev: Nat, ok: BOOLEAN]]
    BY <1>0, <2>1 DEF TypeOK
  <2>3. TypeOK'
    BY <1>0, <1>5, <2>2 DEF ChangeGrant, TypeOK, tables
  <2> QED BY <1>1, <1>2, <1>5, <2>3 DEF ChangeGrant
<1>6. ASSUME NEW p \in Projects, PatchProject(p) PROVE IInv'
  <2>1. PICK status \in {"active", "archived"} :
          project' = [project EXCEPT ![p] = [status |-> status, rev |-> @.rev + 1]]
    BY <1>6 DEF PatchProject
  <2>2. project' \in [Projects -> [status: {"active", "archived", "gone"}, rev: Nat]]
    BY <1>0, <2>1 DEF TypeOK
  <2>3. TypeOK'
    BY <1>0, <1>6, <2>2 DEF PatchProject, TypeOK, tables
  <2> QED BY <1>1, <1>2, <1>6, <2>3 DEF PatchProject
<1>7. ASSUME NEW c \in Categories, ArchiveCategory(c) PROVE IInv'
  <2>1. TypeOK'
    BY <1>0, <1>7 DEF ArchiveCategory, TypeOK, tables
  <2> QED BY <1>1, <1>2, <1>7, <2>1 DEF ArchiveCategory
<1> QED BY <1>3, <1>4, <1>5, <1>6, <1>7, EraseKeeps DEF Around

-----------------------------------------------------------------------------
(* The tick: steps that only read.                                          *)

LEMMA TickIs ==
    ASSUME IInv
    PROVE  /\ tick = job[Ticker] /\ tick \in Job /\ TickShape(tick) /\ tick.now \in Nat /\ today \in Nat
           /\ Ticker \in Slots /\ job \in [Slots -> Job]
BY DayAssumption DEF IInv, tick, TypeOK, Slots, Job, Days

LEMMA StartKeeps == ASSUME IInv, StartTick PROVE IInv'
<1> DEFINE found == {[rule |-> r, row |-> rule[r]] : r \in Found}
           queue == {e \in found : Cardinality({f \in found : Before(f, e)}) < MaxTickRules}
           j == [Idle EXCEPT !.now = today, !.queue = queue]
<1>1. job' = [job EXCEPT ![Ticker] = TakeNext(j)] /\ UNCHANGED <<tables, around>>
    BY DEF StartTick
<1>2. TypeOK /\ CreatedOnce /\ today \in Nat
    BY TickIs DEF IInv
<1>3. QueueShape(queue, today)
  <2>1. ASSUME NEW r \in Found
        PROVE  r \in Rules /\ rule[r] \in Row /\ Remembered(r, rule[r]) /\ Ready(rule[r], today)
    <3>1. r \in Rules /\ rule[r] # Null /\ rule[r].status \in {"active", "blocked"} /\ Due(rule[r], today)
      BY DEF Found
    <3>2. rule[r] \in Row /\ rule[r].next \in Days \cup {Null} /\ rule[r].rev \in Nat
      BY <1>2, <3>1, RuleRows, RowFields
    <3>3. Ready(rule[r], today)
      BY <3>1, <3>2 DEF Ready, Due
    <3>4. Remembered(r, rule[r])
      BY <1>2, <3>1, <3>2 DEF Remembered, CreatedOnce
    <3> QED BY <3>1, <3>2, <3>3, <3>4
  <2>2. \A e \in found : /\ e \in [rule : Rules, row : Row] /\ e = [rule |-> e.rule, row |-> rule[e.rule]]
                         /\ Remembered(e.rule, e.row) /\ Ready(e.row, today)
    BY <2>1
  <2>3. queue \subseteq found
    OBVIOUS
  <2> HIDE DEF found, queue
  <2>4. \A e, f \in queue : e.rule = f.rule => e = f
    BY <2>2, <2>3
  <2>5. queue \subseteq [rule : Rules, row : Row] /\ \A e \in queue : Remembered(e.rule, e.row) /\ Ready(e.row, today)
    BY <2>2, <2>3
  <2> QED BY <2>4, <2>5 DEF QueueShape
<1>4. queue \in SUBSET [rule : Rules, row : Row]
    BY <1>3 DEF QueueShape
<1> HIDE DEF queue
<1>5. j \in Job
    BY <1>2, <1>4, IdleJob, JobIs, ZenonT(60)
<1>6. j.now = today /\ j.queue = queue
    BY IdleJob, SMT DEF Job
<1> HIDE DEF j
<1>7. TakeNext(j) \in Job /\ TickShape(TakeNext(j))
  <2>1. QueueShape(j.queue, j.now) /\ j.now <= today
    BY <1>2, <1>3, <1>6
  <2> QED BY <1>2, <1>5, <2>1, TakenShape
<1> QED BY <1>1, <1>7, QuietTick

LEMMA SettleKeeps == ASSUME IInv, Settle PROVE IInv'
<1> DEFINE p == ThisPeriod(tick.row)
           pc == IF Charged(tick.rule, p) \/ Deferred(tick.rule, p) THEN "advance" ELSE "authorize"
           k == [tick EXCEPT !.pc = pc]
<1>1. tick.pc = "settle" /\ UNCHANGED <<tables, around>>
    BY DEF Settle
<1>2. CASE ~Visible(tick.row.target)
  <2>1. job' = [job EXCEPT ![Ticker] = TakeNext(tick)]
    BY <1>2 DEF Settle
  <2>2. QueueShape(tick.queue, tick.now) /\ tick.now <= today
    BY TickIs DEF TickShape
  <2>3. TakeNext(tick) \in Job /\ TickShape(TakeNext(tick))
    BY <2>2, TickIs, TakenShape
  <2> QED BY <1>1, <2>1, <2>3, QuietTick
<1>3. CASE Visible(tick.row.target)
  <2>1. job' = [job EXCEPT ![Ticker] = k]
    BY <1>3 DEF Settle
  <2>2. pc \in {"advance", "authorize"} /\ pc \in Pcs
    BY DEF Pcs
  <2>3. pc = "advance" => Dealt(tick.rule, tick.row)
    BY DEF Dealt
  <2>4. pc = "authorize" => ~Deferred(tick.rule, ThisPeriod(tick.row))
    OBVIOUS
  <2> HIDE DEF pc
  <2>5. k \in Job
    BY <2>2, TickIs, JobIs, ZenonT(60)
  <2>6. k.pc = pc /\ k.now = tick.now /\ k.queue = tick.queue /\ k.rule = tick.rule /\ k.row = tick.row /\ k.by = tick.by
    BY TickIs, SMT DEF Job
  <2> HIDE DEF k
  <2>7. TickShape(k)
    BY <1>1, <2>2, <2>3, <2>4, <2>6, TickIs DEF TickShape
  <2> QED BY <1>1, <2>1, <2>5, <2>7, QuietTick
<1> QED BY <1>2, <1>3

LEMMA AuthorizeKeeps == ASSUME IInv, Authorize PROVE IInv'
<1> DEFINE pc == IF tick.row.status = "blocked" THEN "reopen"
                 ELSE IF limit = "capacity" THEN "weigh" ELSE "generate"
           evidence == Revision(tick.row.target)
           k == [tick EXCEPT !.pc = pc, !.grant = grant[tick.by], !.evidence = evidence]
<1>1. /\ tick.pc = "authorize" /\ UNCHANGED <<tables, around>> /\ grant[tick.by].ok
      /\ job' = [job EXCEPT ![Ticker] = k]
    BY DEF Authorize, Granted, WithAuthority
<1>2. /\ tick.rule \in Rules /\ tick.row \in Row /\ tick.row.status \in {"active", "blocked"}
      /\ tick.by \in Grants
    BY <1>1, TickIs, RowFields DEF TickShape, Remembered, Ready
<1>3. /\ pc \in {"reopen", "weigh", "generate"} /\ pc \in Pcs
      /\ pc # "reopen" => tick.row.status = "active"
    BY <1>2 DEF Pcs
<1>4. evidence \in Nat
    BY <1>2, TargetAssumption, RowFields DEF Revision, Targets, TypeOK, IInv
<1>5. grant[tick.by] \in [rev: Nat, ok: BOOLEAN]
    BY <1>2 DEF IInv, TypeOK
<1> HIDE DEF pc, evidence
<1>6. k \in Job
  <2>1. grant[tick.by] \in [rev: Nat, ok: BOOLEAN] \cup {Null}
    BY <1>5
  <2> QED BY <1>3, <1>4, <2>1, TickIs, JobIs, ZenonT(60)
<1>7. /\ k.pc = pc /\ k.now = tick.now /\ k.queue = tick.queue /\ k.rule = tick.rule /\ k.row = tick.row
      /\ k.by = tick.by /\ k.grant = grant[tick.by]
    BY TickIs, SMT DEF Job
<1> HIDE DEF k
<1>8. TickShape(k)
    BY <1>1, <1>3, <1>5, <1>7, TickIs DEF TickShape
<1> QED BY <1>1, <1>6, <1>8, QuietTick

LEMMA DenyKeeps == ASSUME IInv, Deny PROVE IInv'
<1> DEFINE k == [tick EXCEPT !.pc = "block"]
<1>1. tick.pc = "authorize" /\ UNCHANGED <<tables, around>> /\ job' = [job EXCEPT ![Ticker] = k]
    BY TickIs DEF Deny
<1>2. "block" \in Pcs
    BY DEF Pcs
<1>6. k \in Job
    BY <1>2, TickIs, JobIs, ZenonT(60)
<1>7. k.pc = "block" /\ k.now = tick.now /\ k.queue = tick.queue /\ k.rule = tick.rule /\ k.row = tick.row /\ k.by = tick.by
    BY TickIs, SMT DEF Job
<1> HIDE DEF k
<1>8. TickShape(k)
    BY <1>1, <1>7, TickIs DEF TickShape
<1> QED BY <1>1, <1>6, <1>8, QuietTick

LEMMA RefuseKeeps == ASSUME IInv, RefuseGenerate PROVE IInv'
<1> DEFINE pc == IF limit = "capacity" THEN "weigh" ELSE "block"
           k == [tick EXCEPT !.pc = pc]
<1>1. tick.pc = "generate" /\ UNCHANGED <<tables, around>> /\ job' = [job EXCEPT ![Ticker] = k]
    BY TickIs DEF RefuseGenerate
<1>2. pc \in {"weigh", "block"} /\ pc \in Pcs
    BY DEF Pcs
<1> HIDE DEF pc
<1>6. k \in Job
    BY <1>2, TickIs, JobIs, ZenonT(60)
<1>7. k.pc = pc /\ k.now = tick.now /\ k.queue = tick.queue /\ k.rule = tick.rule /\ k.row = tick.row /\ k.by = tick.by
    BY TickIs, SMT DEF Job
<1> HIDE DEF k
<1>8. TickShape(k)
    BY <1>1, <1>2, <1>7, TickIs DEF TickShape
<1> QED BY <1>1, <1>6, <1>8, QuietTick

LEMMA WeighKeeps == ASSUME IInv, Weigh PROVE IInv'
<1> DEFINE failed == ~Deferred(tick.rule, ThisPeriod(tick.row)) /\ Cardinality(PendingOf(tick.rule)) < MaxPending
           k == [tick EXCEPT !.pc = "defer", !.failed = failed]
<1>1. tick.pc = "weigh" /\ UNCHANGED <<tables, around>> /\ job' = [job EXCEPT ![Ticker] = k]
    BY TickIs DEF Weigh
<1>2. "defer" \in Pcs /\ failed \in BOOLEAN
    BY DEF Pcs
<1>3. ~failed => Full(tick.rule)
  <2>1. ~Deferred(tick.rule, ThisPeriod(tick.row))
    BY <1>1, TickIs DEF TickShape
  <2>2. Cardinality(PendingOf(tick.rule)) \in Nat /\ MaxPending \in Nat
    BY PendingFinite, FS_CardinalityType, LimitAssumption DEF IInv
  <2> QED BY <2>1, <2>2 DEF Full
<1> HIDE DEF failed
<1>6. k \in Job
    BY <1>2, TickIs, JobIs, ZenonT(60)
<1>7. /\ k.pc = "defer" /\ k.failed = failed /\ k.now = tick.now /\ k.queue = tick.queue /\ k.rule = tick.rule
      /\ k.row = tick.row /\ k.by = tick.by
    BY TickIs, SMT DEF Job
<1> HIDE DEF k
<1>8. TickShape(k)
    BY <1>1, <1>3, <1>7, TickIs DEF TickShape
<1> QED BY <1>1, <1>6, <1>8, QuietTick

LEMMA AbortKeeps == ASSUME IInv, AbortTick PROVE IInv'
BY TickIs, IdleJob, IdleTick, QuietTick DEF AbortTick

-----------------------------------------------------------------------------
(* The tick: batches. The rule is still the one the tick read.              *)

LEMMA CurrentRow ==
    ASSUME IInv, tick.pc # "idle", RuleGuard(tick)
    PROVE  /\ tick.rule \in Rules /\ tick.rule \in used /\ tick.row \in Row /\ rule[tick.rule] = tick.row
           /\ rule[tick.rule] # Null /\ tick.row.rev \in Nat /\ tick.row.next \in Days /\ tick.row.next <= tick.now
           /\ tick.by = tick.row.by /\ tick.row.sched \in Schedule /\ ThisPeriod(tick.row) \in Period
           /\ QueueShape(tick.queue, tick.now) /\ tick.now <= today
<1>1. /\ tick.rule \in Rules /\ tick.rule \in used /\ tick.row \in Row /\ rule[tick.rule] = tick.row
      /\ rule[tick.rule] # Null /\ tick.row.next \in Days /\ tick.row.next <= tick.now /\ tick.by = tick.row.by
      /\ QueueShape(tick.queue, tick.now) /\ tick.now <= today
    BY TickIs DEF TickShape, Ready, Remembered, RuleGuard
<1>2. tick.row.rev \in Nat /\ tick.row.sched \in Schedule
    BY <1>1, RowFields
<1>3. ThisPeriod(tick.row) \in Period
    BY <1>1, <1>2, KeyIsPeriod DEF ThisPeriod
<1> QED BY <1>1, <1>2, <1>3

LEMMA ProceedJob ==
    ASSUME today \in Nat, NEW j \in Job, NEW row \in Row, QueueShape(j.queue, j.now), j.now <= today
    PROVE  Proceed(j, row) \in Job
<1>0. j.done + 1 \in Nat /\ j.turn + 1 \in Nat
    BY DEF Job
<1>1. CASE /\ row.status = "active" /\ Due(row, j.now)
           /\ j.done + 1 < MaxTickOccurrences /\ j.turn + 1 < MaxPerRule
  <2> DEFINE k == [j EXCEPT !.pc = "settle", !.row = row, !.grant = Null, !.evidence = 0, !.failed = FALSE,
                            !.done = @ + 1, !.turn = @ + 1]
  <2>1. Proceed(j, row) = k
    BY <1>1 DEF Proceed
  <2>2. /\ "settle" \in Pcs /\ row \in Row \cup {Null} /\ Null \in [rev: Nat, ok: BOOLEAN] \cup {Null} /\ 0 \in Nat
        /\ FALSE \in BOOLEAN
    BY DEF Pcs
  <2>3. k \in Job
    BY <1>0, <2>2, JobIs, ZenonT(120)
  <2> QED BY <2>1, <2>3
<1>2. CASE ~(/\ row.status = "active" /\ Due(row, j.now)
             /\ j.done + 1 < MaxTickOccurrences /\ j.turn + 1 < MaxPerRule)
  <2> DEFINE k == [j EXCEPT !.done = @ + 1]
  <2>1. Proceed(j, row) = TakeNext(k)
    BY <1>2 DEF Proceed
  <2>2. k \in Job
    BY <1>0, Zenon DEF Job
  <2>3. k.queue = j.queue /\ k.now = j.now
    BY SMT DEF Job
  <2> HIDE DEF k
  <2> QED BY <2>1, <2>2, <2>3, TakenShape
<1> QED BY <1>1, <1>2

(* The types, and the rule just stored, after a batch of the tick.          *)
LEMMA Stored ==
    ASSUME IInv, tick.pc # "idle", RuleGuard(tick), NEW row \in Row, row.rev = tick.row.rev + 1,
           rule' = [rule EXCEPT ![tick.rule] = row], UNCHANGED <<used, around>>,
           occurrence' \subseteq Occurrence, pending' \subseteq Failure,
           NEW k \in Job, job' = [job EXCEPT ![Ticker] = k]
    PROVE  TypeOK' /\ Moves /\ CreatedOnce' /\ \A r : r = tick.rule => Remembered(r, row)'
<1>1. row.rev > rule[tick.rule].rev
    BY CurrentRow
<1>2. Moves /\ CreatedOnce' /\ rule' \in [Rules -> Row \cup {Null}]
    BY <1>1, CurrentRow, RowMoves
<1>3. job' \in [Slots -> Job]
    BY TickIs
<1>4. TypeOK'
    BY <1>2, <1>3 DEF IInv, TypeOK, around
<1>5. ASSUME NEW r, r = tick.rule PROVE Remembered(r, row)'
  <2>1. rule'[r] = row /\ row.rev \in Nat /\ r \in used'
    BY <1>5, CurrentRow, RowFields DEF IInv, TypeOK
  <2> QED BY <2>1 DEF Remembered
<1> QED BY <1>2, <1>4, <1>5

LEMMA MovedOn ==
    ASSUME IInv, tick.pc # "idle", RuleGuard(tick), NEW row \in Row, row.rev = tick.row.rev + 1,
           row.by = tick.row.by, MoveOn(row), UNCHANGED <<used, around>>,
           occurrence' \subseteq Occurrence, pending' \subseteq Failure, OneFate', IsFiniteSet(pending)'
    PROVE  IInv' /\ job'[Ticker].pc \in {"idle", "authorize", "settle"}
<1>1. rule' = [rule EXCEPT ![tick.rule] = row] /\ job' = [job EXCEPT ![Ticker] = Proceed(tick, row)]
    BY DEF MoveOn
<1>2. Proceed(tick, row) \in Job
    BY TickIs, CurrentRow, ProceedJob
<1>3. TypeOK' /\ Moves /\ CreatedOnce' /\ \A r : r = tick.rule => Remembered(r, row)'
    BY <1>1, <1>2, Stored
<1>4. ASSUME NEW j, j = tick
      PROVE  TickShape(Proceed(j, row))' /\ Proceed(j, row).pc \in {"idle", "authorize", "settle"}
  <2>1. j \in Job /\ j.now <= today /\ QueueShape(j.queue, j.now) /\ j.rule = tick.rule /\ j.by = row.by /\ j.rule \in Rules
    BY <1>4, TickIs, CurrentRow
  <2>2. QueueShape(j.queue, j.now)'
    BY <1>3, <2>1, QueueStays DEF IInv
  <2>3. today' = today /\ today' \in Nat /\ j.now <= today'
    BY <2>1, TickIs DEF around
  <2>4. Remembered(j.rule, row)'
    BY <1>3, <2>1
  <2> QED BY <2>1, <2>2, <2>3, <2>4, ProceedShapeNext
<1>5. ASSUME NEW k, k = Proceed(tick, row) PROVE IInv' /\ k.pc \in {"idle", "authorize", "settle"}
  <2>1. TickShape(k)' /\ k.pc \in {"idle", "authorize", "settle"}
    <3>1. PICK j : j = tick
      OBVIOUS
    <3>2. k = Proceed(j, row)
      BY <1>5, <3>1
    <3> QED BY <1>4, <3>1, <3>2
  <2>2. job' = [job EXCEPT ![Ticker] = k]
    BY <1>1, <1>5
  <2> QED BY <1>3, <2>1, <2>2, TickTurn
<1>6. job'[Ticker] = Proceed(tick, row)
    BY <1>1, TickIs
<1> QED BY <1>5, <1>6

LEMMA AdvanceKeeps == ASSUME IInv, Advance PROVE IInv' /\ Ticked
<1>1. /\ tick.pc = "advance" /\ RuleGuard(tick) /\ MoveOn(Advanced(tick.row))
      /\ UNCHANGED <<used, occurrence, pending, around>>
    BY DEF Advance, MaintenanceGuard
<1>2. Advanced(tick.row) \in Row /\ Advanced(tick.row).rev = tick.row.rev + 1 /\ Advanced(tick.row).by = tick.row.by
    BY <1>1, CurrentRow, AdvancedRow
<1>3. OneFate' /\ IsFiniteSet(pending)'
  <2>1. rule' = [rule EXCEPT ![tick.rule] = Advanced(tick.row)] /\ Advanced(tick.row).rev > rule[tick.rule].rev
    BY <1>1, <1>2, CurrentRow DEF MoveOn
  <2> QED BY <1>1, <1>2, <2>1, CurrentRow, RowStored
<1>4. IInv' /\ job'[Ticker].pc \in {"idle", "authorize", "settle"}
    BY <1>1, <1>2, <1>3, MovedOn DEF IInv, TypeOK
<1> QED BY <1>1, <1>4 DEF Ticked, tick

LEMMA BlockKeeps == ASSUME IInv, Block PROVE IInv' /\ Ticked
<1> DEFINE row == [tick.row EXCEPT !.status = "blocked", !.rev = @ + 1, !.code = "denied"]
<1>1. /\ tick.pc = "block" /\ RuleGuard(tick) /\ MoveOn(row)
      /\ UNCHANGED <<used, occurrence, pending, around>>
    BY DEF Block, MaintenanceGuard
<1>2. row \in Row /\ row.rev = tick.row.rev + 1 /\ row.by = tick.row.by
    BY <1>1, CurrentRow, BlockedRow
<1> HIDE DEF row
<1>3. OneFate' /\ IsFiniteSet(pending)'
  <2>1. rule' = [rule EXCEPT ![tick.rule] = row] /\ row.rev > rule[tick.rule].rev
    BY <1>1, <1>2, CurrentRow DEF MoveOn
  <2> QED BY <1>1, <1>2, <2>1, CurrentRow, RowStored
<1>4. IInv' /\ job'[Ticker].pc \in {"idle", "authorize", "settle"}
    BY <1>1, <1>2, <1>3, MovedOn DEF IInv, TypeOK
<1> QED BY <1>1, <1>4 DEF Ticked, tick

LEMMA ReopenKeeps == ASSUME IInv, Reopen PROVE IInv' /\ Ticked
<1>0. PICK row : row = [tick.row EXCEPT !.status = "active", !.rev = @ + 1, !.code = Null]
    OBVIOUS
<1> DEFINE k == [tick EXCEPT !.pc = "settle", !.row = row, !.grant = Null, !.evidence = 0]
<1>1. /\ tick.pc = "reopen" /\ RuleGuard(tick) /\ rule' = [rule EXCEPT ![tick.rule] = row]
      /\ job' = [job EXCEPT ![Ticker] = k] /\ UNCHANGED <<used, occurrence, pending, around>>
    BY <1>0 DEF Reopen, ReopenGuard, ScheduleGuard
<1>2. row \in Row /\ row.rev = tick.row.rev + 1 /\ row.by = tick.row.by /\ row.next = tick.row.next /\ row.status = "active"
    BY <1>0, <1>1, CurrentRow, ReopenedRow
<1>3. OneFate' /\ IsFiniteSet(pending)'
  <2>1. row.rev > rule[tick.rule].rev
    BY <1>2, CurrentRow, <1>1
  <2> QED BY <1>1, <1>2, <2>1, CurrentRow, RowStored
<1>4. k \in Job
  <2>1. /\ "settle" \in Pcs /\ row \in Row \cup {Null} /\ Null \in [rev: Nat, ok: BOOLEAN] \cup {Null} /\ 0 \in Nat
    BY <1>2 DEF Pcs
  <2> QED BY <2>1, TickIs, JobIs, ZenonT(60)
<1>5. k.pc = "settle" /\ k.row = row /\ k.rule = tick.rule /\ k.by = tick.by /\ k.now = tick.now /\ k.queue = tick.queue
    BY TickIs, SMT DEF Job
<1> HIDE DEF k
<1>6. TypeOK' /\ Moves /\ CreatedOnce' /\ \A r : r = tick.rule => Remembered(r, row)'
    BY <1>1, <1>2, <1>4, Stored DEF IInv, TypeOK
<1>7. ASSUME NEW j, j = k PROVE TickShape(j)'
  <2>1. j.pc = "settle" /\ j.row = row /\ j.rule \in Rules /\ j.by = row.by /\ j.now <= today
        /\ QueueShape(j.queue, j.now) /\ j.rule = tick.rule /\ Ready(row, j.now)
    BY <1>1, <1>2, <1>5, <1>7, CurrentRow DEF Ready
  <2>2. QueueShape(j.queue, j.now)'
    BY <1>6, <2>1, QueueStays DEF IInv
  <2>3. Remembered(j.rule, row)' /\ Remembered(j.rule, j.row)'
    BY <1>6, <2>1
  <2>4. j.now <= today'
    BY <1>1, <2>1 DEF around
  <2>5. Ready(j.row, j.now)' /\ j.row.status = "active"
    BY <1>2, <2>1 DEF Ready
  <2> QED BY <2>1, <2>2, <2>3, <2>4, <2>5 DEF TickShape
<1>8. IInv'
  <2>1. PICK j : j = k
    OBVIOUS
  <2>2. job' = [job EXCEPT ![Ticker] = j] /\ TickShape(j)'
    BY <1>1, <1>7, <2>1
  <2> QED BY <1>3, <1>6, <2>2, TickTurn
<1>9. job'[Ticker] = k
    BY <1>1, TickIs
<1> QED BY <1>1, <1>5, <1>8, <1>9 DEF Ticked, tick

LEMMA GenerateKeeps == ASSUME IInv, Generate PROVE IInv' /\ Ticked
<1> DEFINE r == tick.rule
           p == ThisPeriod(tick.row)
           x == [rule |-> r, period |-> p, on |-> tick.row.next]
<1>1. /\ tick.pc = "generate" /\ RuleGuard(tick) /\ ~Charged(r, p) /\ MoveOn(Advanced(tick.row))
      /\ occurrence' = occurrence \cup {x} /\ UNCHANGED <<used, pending, around>>
    BY DEF Generate, GenerateGuard, ScheduleGuard
<1>2. Advanced(tick.row) \in Row /\ Advanced(tick.row).rev = tick.row.rev + 1 /\ Advanced(tick.row).by = tick.row.by
    BY <1>1, CurrentRow, AdvancedRow
<1>3. ~Deferred(r, p)
    BY <1>1, TickIs DEF TickShape
<1>4. /\ TypeOK /\ OneFate /\ r \in Rules /\ rule[r] # Null
      /\ x \in Occurrence /\ x.rule = r /\ x.period = p
      /\ rule' = [rule EXCEPT ![r] = Advanced(tick.row)]
    BY <1>1, CurrentRow DEF IInv, Occurrence, MoveOn
<1> HIDE DEF r, p, x
<1>5. OneFate'
  <2>1. \A o, q \in occurrence' : o.rule = q.rule /\ o.period = q.period => o = q
    BY <1>1, <1>4 DEF OneFate, Charged
  <2>2. \A f, h \in pending' : f.rule = h.rule /\ f.period = h.period => f = h
    BY <1>1, <1>4 DEF OneFate
  <2>3. \A f \in pending' : ~Charged(f.rule, f.period)'
    <3>1. \A f \in pending' : \A o \in occurrence' : ~(o.rule = f.rule /\ o.period = f.period)
      BY <1>1, <1>3, <1>4 DEF OneFate, Charged, Deferred
    <3> QED BY <3>1 DEF Charged
  <2>4. \A z \in occurrence' \cup pending' : rule'[z.rule] # Null
    <3>1. \A z \in occurrence \cup pending : z.rule \in Rules /\ rule[z.rule] # Null
      BY <1>4 DEF OneFate, TypeOK, Occurrence, Failure
    <3>2. \A q \in Rules : rule[q] # Null => rule'[q] # Null
      BY <1>2, <1>4, NullAssumption DEF TypeOK
    <3> QED BY <1>1, <1>4, <3>1, <3>2
  <2>5. ASSUME NEW q \in Rules PROVE Cardinality(PendingOf(q)') <= MaxPending
    <3>1. PendingOf(q)' = PendingOf(q)
      BY <1>1 DEF PendingOf
    <3>2. Cardinality(PendingOf(q)) <= MaxPending
      BY <1>4 DEF OneFate
    <3> QED BY <3>1, <3>2
  <2> QED BY <2>1, <2>2, <2>3, <2>4, <2>5 DEF OneFate
<1>6. occurrence' \subseteq Occurrence /\ pending' \subseteq Failure /\ IsFiniteSet(pending)'
    BY <1>1, <1>4 DEF IInv, TypeOK
<1>7. IInv' /\ job'[Ticker].pc \in {"idle", "authorize", "settle"}
    BY <1>1, <1>2, <1>5, <1>6, MovedOn
<1> QED BY <1>1, <1>7 DEF Ticked, tick

LEMMA DeferKeeps == ASSUME IInv, Defer PROVE IInv' /\ Ticked
<1> DEFINE r == tick.rule
           p == ThisPeriod(tick.row)
           y == [rule |-> r, period |-> p, on |-> tick.row.next, category |-> tick.row.category]
           P == {f \in {y} : tick.failed}
<1>1. /\ tick.pc = "defer" /\ RuleGuard(tick) /\ MoveOn(Advanced(tick.row))
      /\ pending' = pending \cup P /\ UNCHANGED <<used, occurrence, around>>
      /\ tick.failed => Cardinality(PendingOf(r)) < MaxPending /\ ~Charged(r, p) /\ ~Deferred(r, p)
    BY DEF Defer, DeferGuard, ScheduleGuard
<1>2. Advanced(tick.row) \in Row /\ Advanced(tick.row).rev = tick.row.rev + 1 /\ Advanced(tick.row).by = tick.row.by
    BY <1>1, CurrentRow, AdvancedRow
<1>3. P = {} \/ (P = {y} /\ Cardinality(PendingOf(r)) < MaxPending /\ ~Charged(r, p) /\ ~Deferred(r, p))
    BY <1>1
<1>4. /\ TypeOK /\ OneFate /\ IsFiniteSet(pending) /\ r \in Rules /\ rule[r] # Null
      /\ y \in Failure /\ y.rule = r /\ y.period = p
      /\ rule' = [rule EXCEPT ![r] = Advanced(tick.row)]
    BY <1>1, CurrentRow, RowFields DEF IInv, Failure, MoveOn
<1> HIDE DEF r, p, y, P
<1>5. IsFiniteSet(pending)'
  <2>1. IsFiniteSet(P)
    BY <1>3, FS_Singleton, FS_EmptySet
  <2> QED BY <1>1, <1>4, <2>1, FS_Union
<1>6. OneFate'
  <2>1. \A o, q \in occurrence' : o.rule = q.rule /\ o.period = q.period => o = q
    BY <1>1, <1>4 DEF OneFate
  <2>2. \A f, h \in pending' : f.rule = h.rule /\ f.period = h.period => f = h
    BY <1>1, <1>3, <1>4 DEF OneFate, Deferred
  <2>3. \A f \in pending' : ~Charged(f.rule, f.period)'
    <3>1. \A f \in pending' : \A o \in occurrence' : ~(o.rule = f.rule /\ o.period = f.period)
      BY <1>1, <1>3, <1>4 DEF OneFate, Charged
    <3> QED BY <3>1 DEF Charged
  <2>4. \A z \in occurrence' \cup pending' : rule'[z.rule] # Null
    <3>1. \A z \in occurrence \cup pending : z.rule \in Rules /\ rule[z.rule] # Null
      BY <1>4 DEF OneFate, TypeOK, Occurrence, Failure
    <3>2. \A q \in Rules : rule[q] # Null => rule'[q] # Null
      BY <1>2, <1>4, NullAssumption DEF TypeOK
    <3> QED BY <1>1, <1>3, <1>4, <3>1, <3>2
  <2>5. ASSUME NEW q \in Rules PROVE Cardinality(PendingOf(q)') <= MaxPending
    <3>0. IsFiniteSet(PendingOf(q)) /\ Cardinality(PendingOf(q)) <= MaxPending
      BY <1>4, PendingFinite DEF OneFate
    <3>1. CASE q # r \/ P = {}
      <4>1. PendingOf(q)' = PendingOf(q)
        BY <1>1, <1>3, <1>4, <3>1 DEF PendingOf
      <4> QED BY <3>0, <4>1
    <3>2. CASE q = r /\ P # {}
      <4>1. PendingOf(q)' = PendingOf(q) \cup {y}
        BY <1>1, <1>3, <1>4, <3>2 DEF PendingOf
      <4>2. Cardinality(PendingOf(q)) < MaxPending
        BY <1>3, <3>2
      <4>3. y \notin PendingOf(q)
        BY <1>3, <1>4, <3>2 DEF PendingOf, Deferred
      <4>4. Cardinality(PendingOf(q) \cup {y}) = Cardinality(PendingOf(q)) + 1
        BY <3>0, <4>3, FS_AddElement
      <4>5. Cardinality(PendingOf(q)) \in Nat /\ MaxPending \in Nat
        BY <3>0, FS_CardinalityType, LimitAssumption
      <4>6. Cardinality(PendingOf(q)) + 1 <= MaxPending
        BY <4>2, <4>5
      <4> QED BY <4>1, <4>4, <4>6
    <3> QED BY <3>1, <3>2
  <2> QED BY <2>1, <2>2, <2>3, <2>4, <2>5 DEF OneFate
<1>7. occurrence' \subseteq Occurrence /\ pending' \subseteq Failure
    BY <1>1, <1>3, <1>4 DEF TypeOK
<1>8. IInv' /\ job'[Ticker].pc \in {"idle", "authorize", "settle"}
    BY <1>1, <1>2, <1>5, <1>6, <1>7, MovedOn
<1> QED BY <1>1, <1>8 DEF Ticked, tick

-----------------------------------------------------------------------------
(* The invariant is inductive.                                              *)

LEMMA RequestKeeps == ASSUME IInv, NEW w \in Workers, Request(w) PROVE IInv'
BY ReceiveKeeps, ReadsKeep, CreateKeeps, PlanKeeps, StopKeeps, RetryKeeps DEF Request

LEMMA TickKeeps == ASSUME IInv, Tick PROVE IInv'
BY StartKeeps, SettleKeeps, AuthorizeKeeps, DenyKeeps, RefuseKeeps, WeighKeeps, AbortKeeps,
   AdvanceKeeps, BlockKeeps, ReopenKeeps, GenerateKeeps, DeferKeeps DEF Tick, Read, Write

LEMMA StutterKeeps == ASSUME IInv, UNCHANGED vars PROVE IInv'
<1>1. TypeOK' /\ today <= today' /\ UNCHANGED tables /\ UNCHANGED job
    BY DayAssumption DEF vars, tables, around, IInv, TypeOK, Days
<1> QED BY <1>1, QuietCalm, QuietKeeps, AroundStep DEF IInv

LEMMA StepKeeps == IInv /\ [Next]_vars => IInv'
BY RequestKeeps, TickKeeps, AroundKeeps, AbandonKeeps, StutterKeeps DEF Next

LEMMA InitHolds == Init => IInv
<1> SUFFICES ASSUME Init PROVE IInv
    OBVIOUS
<1>1. TypeOK /\ CreatedOnce
  <2>1. job \in [Slots -> Job]
    BY IdleJob DEF Init
  <2>2. today \in 1..MaxDay
    BY DayAssumption DEF Init, Days
  <2>3. rule \in [Rules -> Row \cup {Null}] /\ used \subseteq Rules /\ CreatedOnce
    <3>1. CASE rule = [r \in Rules |-> Null] /\ used = {}
      BY <3>1 DEF CreatedOnce
    <3>2. ASSUME NEW r \in Rules, NEW g \in Grants, NEW draft \in Drafts,
                 rule = [[q \in Rules |-> Null] EXCEPT ![r] = LegacyRow(g, draft)], used = {r}
          PROVE  rule \in [Rules -> Row \cup {Null}] /\ used \subseteq Rules /\ CreatedOnce
      <4>1. LegacyRow(g, draft) \in Row
        BY DraftAssumption DEF LegacyRow, Row, Draft, Schedule, Status, Codes
      <4> QED BY <3>2, <4>1 DEF CreatedOnce
    <3> QED BY <3>1, <3>2 DEF Init
  <2> QED BY <2>1, <2>2, <2>3 DEF Init, TypeOK
<1>2. OneFate /\ IsFiniteSet(pending)
  <2>1. pending = {} /\ occurrence = {}
    BY DEF Init
  <2>2. \A r : PendingOf(r) = {}
    BY <2>1 DEF PendingOf
  <2>3. Cardinality({}) = 0 /\ MaxPending \in Nat
    BY FS_EmptySet, LimitAssumption
  <2> QED BY <2>1, <2>2, <2>3, FS_EmptySet DEF OneFate
<1>3. \A w \in Workers : RequestShape(job[w])
    BY IdleRequest DEF Init, Slots
<1>4. TickShape(tick)
  <2>1. tick = Idle /\ today \in Nat
    BY DEF Init, tick, Slots
  <2> QED BY <2>1, IdleTick
<1> QED BY <1>1, <1>2, <1>3, <1>4 DEF IInv

LEMMA AlwaysIInv == Spec => []IInv
BY InitHolds, StepKeeps, PTL DEF Spec

(* Every table and handler is typed, and every period of every rule has at    *)
(* most one fate (an expense, or one retained failure of a rule that exists,  *)
(* MaxPending of them at most), however requests, ticks, project erasures and *)
(* crashes interleave.                                                        *)
THEOREM RulesConsistent == Spec => []Consistent
<1>1. IInv => Consistent
    BY DEF IInv, Consistent
<1> QED BY <1>1, AlwaysIInv, PTL

-----------------------------------------------------------------------------
(* What a step may do to the rules and their periods.                       *)

OnlyRow(r) ==
    /\ \A q \in Rules \ {r} : rule'[q] = rule[q]
    /\ \A o \in occurrence' \ occurrence : o.rule = r
    /\ \A f \in pending' \ pending : f.rule = r

StepCreates(r) == ~Ticked /\ OnlyRow(r) /\ rule[r] = Null /\ pending \subseteq pending'

StepManages(r) ==
    /\ ~Ticked /\ OnlyRow(r) /\ rule[r] # Null /\ rule[r].status # "canceled"
    /\ UNCHANGED <<occurrence, pending>>

StepPosts(r) ==
    /\ ~Ticked /\ OnlyRow(r) /\ rule[r] # Null /\ rule[r].status # "canceled"
    /\ \E f \in pending :
          /\ f.rule = r /\ pending' = pending \ {f}
          /\ \E o \in occurrence' :
                o.rule = r /\ o.period = f.period /\ occurrence' = occurrence \cup {o}

StepErases ==
    /\ ~Ticked
    /\ \A r \in Rules : rule'[r] = Null \/ rule'[r] = rule[r]
    /\ occurrence' \subseteq occurrence /\ pending' \subseteq pending
    /\ \A f \in pending \ pending' : rule'[f.rule] = Null

Consented(o) ==
    LET row == rule[o.rule] IN
    /\ row # Null /\ row.status = "active" /\ row.next = o.on /\ o.on <= today
    /\ grant[row.by].ok /\ ActiveTarget(row.target) /\ row.category \notin archived

StepTicks(r) ==
    /\ Ticked /\ OnlyRow(r) /\ rule[r] # Null /\ rule[r].status \in {"active", "blocked"}
    /\ pending \subseteq pending'
    /\ \A o \in occurrence' \ occurrence : Consented(o)
    /\ \/ rule'[r].next = rule[r].next
       \/ \E x \in occurrence' \cup pending' : x.rule = r /\ x.period = ThisPeriod(rule[r])
       \/ Full(r)

LEMMA QuietOther == ASSUME IInv, NEW w \in Workers, NEW k, job' = [job EXCEPT ![w] = k] PROVE ~Ticked
BY RuleAssumption DEF Ticked, IInv, TypeOK, Slots

LEMMA CreateIs ==
    ASSUME IInv, NEW w \in Workers, CommitCreate(w) \/ CommitFallback(w)
    PROVE  \E r \in Rules : StepCreates(r)
<1> DEFINE j == job[w]
<1>1. RequestShape(j) /\ j.op = "create" /\ j.rule \in Rules
    BY DEF IInv, CommitCreate, CommitFallback, RequestShape
<1>2. \E failed \in {j.failed, TRUE} : StoreRule(j, failed)
    BY DEF CommitCreate, CommitFallback
<1>3. /\ j.rule \notin used /\ rule' = [rule EXCEPT ![j.rule] = NewRule(j)]
      /\ occurrence \subseteq occurrence' /\ \A o \in occurrence' \ occurrence : o.rule = j.rule
      /\ pending \subseteq pending' /\ \A f \in pending' \ pending : f.rule = j.rule
    BY <1>2 DEF StoreRule
<1>4. ~Ticked
    BY QuietOther DEF CommitCreate, CommitFallback
<1> HIDE DEF j
<1>5. OnlyRow(j.rule) /\ rule[j.rule] = Null
    BY <1>1, <1>3 DEF OnlyRow, IInv, TypeOK, CreatedOnce
<1> QED BY <1>1, <1>3, <1>4, <1>5 DEF StepCreates

(* The rule a request read is not canceled while its revision is unchanged. *)
LEMMA StillOpen ==
    ASSUME IInv, NEW w \in Workers, job[w].op \in {"edit", "resume", "pause", "cancel", "retry"},
           RuleGuard(job[w])
    PROVE  job[w].rule \in Rules /\ rule[job[w].rule] # Null /\ rule[job[w].rule].status # "canceled"
BY DEF IInv, RequestShape, Remembered, RuleGuard

LEMMA ManageIs ==
    ASSUME IInv, NEW w \in Workers, CommitPlan(w) \/ CommitStop(w)
    PROVE  \E r \in Rules : StepManages(r)
<1> DEFINE r == job[w].rule
<1>1. job[w].op \in {"edit", "resume", "pause", "cancel", "retry"} /\ RuleGuard(job[w]) /\ UNCHANGED <<occurrence, pending>>
    BY DEF CommitPlan, CommitStop
<1>2. r \in Rules /\ rule[r] # Null /\ rule[r].status # "canceled"
    BY <1>1, StillOpen
<1>3. ~Ticked
    BY QuietOther DEF CommitPlan, CommitStop
<1>4. PICK row : rule' = [rule EXCEPT ![r] = row]
    BY Zenon DEF CommitPlan, CommitStop
<1> HIDE DEF r
<1>5. OnlyRow(r)
    BY <1>1, <1>2, <1>4 DEF OnlyRow, IInv, TypeOK
<1> QED BY <1>1, <1>2, <1>3, <1>5 DEF StepManages

LEMMA RetryIs == ASSUME IInv, NEW w \in Workers, CommitRetry(w) PROVE \E r \in Rules : StepPosts(r)
<1> DEFINE r == job[w].rule
           f == job[w].failure
           x == [rule |-> r, period |-> f.period, on |-> f.on]
<1>1. /\ job[w].pc = "commit" /\ job[w].op = "retry" /\ RuleGuard(job[w]) /\ f \in pending
      /\ occurrence' = occurrence \cup {x} /\ pending' = pending \ {f}
    BY DEF CommitRetry
<1>2. r \in Rules /\ rule[r] # Null /\ rule[r].status # "canceled"
    BY <1>1, StillOpen
<1>3. ~Ticked
    BY QuietOther DEF CommitRetry
<1>4. rule' = [rule EXCEPT ![r].rev = @ + 1]
    BY DEF CommitRetry
<1>5. f.rule = r
    BY <1>1 DEF IInv, RequestShape
<1>6. x.rule = r /\ x.period = f.period
    OBVIOUS
<1> HIDE DEF r, f, x
<1>7. OnlyRow(r)
    BY <1>1, <1>2, <1>4, <1>6 DEF OnlyRow, IInv, TypeOK
<1> QED BY <1>1, <1>2, <1>3, <1>5, <1>6, <1>7 DEF StepPosts

LEMMA EraseIs == ASSUME IInv, NEW p \in Projects, EraseProject(p) PROVE StepErases
<1>1. ~Ticked
    BY DEF EraseProject, Ticked
<1>2. \A x \in pending : x.rule \in Rules
    BY DEF IInv, TypeOK, Failure
<1> QED BY <1>1, <1>2 DEF EraseProject, StepErases

LEMMA TickIsFor ==
    ASSUME IInv, tick.pc # "idle", RuleGuard(tick), Ticked, NEW row, rule' = [rule EXCEPT ![tick.rule] = row],
           pending \subseteq pending',
           \A o \in occurrence' \ occurrence : o.rule = tick.rule /\ Consented(o),
           \A f \in pending' \ pending : f.rule = tick.rule,
           \/ row.next = tick.row.next
           \/ \E x \in occurrence' \cup pending' : x.rule = tick.rule /\ x.period = ThisPeriod(tick.row)
           \/ Full(tick.rule)
    PROVE  \E r \in Rules : StepTicks(r)
<1>1. tick.rule \in Rules /\ rule[tick.rule] = tick.row /\ rule[tick.rule] # Null
      /\ tick.row.status \in {"active", "blocked"}
    BY CurrentRow, TickIs DEF TickShape, Ready
<1>2. OnlyRow(tick.rule) /\ rule'[tick.rule] = row
    BY <1>1 DEF OnlyRow, IInv, TypeOK
<1> QED BY <1>1, <1>2 DEF StepTicks

LEMMA WriteIs == ASSUME IInv, Write PROVE \E r \in Rules : StepTicks(r)
<1>1. CASE Advance
  <2>1. /\ tick.pc = "advance" /\ RuleGuard(tick) /\ rule' = [rule EXCEPT ![tick.rule] = Advanced(tick.row)]
        /\ UNCHANGED <<occurrence, pending>>
    BY <1>1 DEF Advance, MaintenanceGuard, MoveOn
  <2>2. Dealt(tick.rule, tick.row)
    BY <2>1, TickIs DEF TickShape, RuleGuard
  <2>3. \E x \in occurrence' \cup pending' : x.rule = tick.rule /\ x.period = ThisPeriod(tick.row)
    BY <2>1, <2>2 DEF Dealt, Charged, Deferred
  <2> QED BY <1>1, <2>1, <2>3, AdvanceKeeps, TickIsFor
<1>2. CASE Block
  <2> DEFINE row == [tick.row EXCEPT !.status = "blocked", !.rev = @ + 1, !.code = "denied"]
  <2>1. /\ tick.pc = "block" /\ RuleGuard(tick) /\ rule' = [rule EXCEPT ![tick.rule] = row]
        /\ UNCHANGED <<occurrence, pending>>
    BY <1>2 DEF Block, MaintenanceGuard, MoveOn
  <2>2. row.next = tick.row.next
    BY <2>1, CurrentRow, BlockedRow
  <2> QED BY <1>2, <2>1, <2>2, BlockKeeps, TickIsFor
<1>3. CASE Reopen
  <2> DEFINE row == [tick.row EXCEPT !.status = "active", !.rev = @ + 1, !.code = Null]
  <2>1. /\ tick.pc = "reopen" /\ RuleGuard(tick) /\ rule' = [rule EXCEPT ![tick.rule] = row]
        /\ UNCHANGED <<occurrence, pending>>
    BY <1>3 DEF Reopen, ReopenGuard, ScheduleGuard
  <2>2. row.next = tick.row.next
    BY <2>1, CurrentRow, ReopenedRow
  <2> QED BY <1>3, <2>1, <2>2, ReopenKeeps, TickIsFor
<1>4. CASE Generate
  <2> DEFINE x == [rule |-> tick.rule, period |-> ThisPeriod(tick.row), on |-> tick.row.next]
  <2>1. /\ tick.pc = "generate" /\ RuleGuard(tick) /\ rule' = [rule EXCEPT ![tick.rule] = Advanced(tick.row)]
        /\ occurrence' = occurrence \cup {x} /\ UNCHANGED pending
        /\ grant[tick.by] = tick.grant /\ tick.row.category \notin archived /\ ActiveTarget(tick.row.target)
    BY <1>4 DEF Generate, GenerateGuard, ScheduleGuard, TemplateGuard, MoveOn
  <2>2. tick.row.status = "active" /\ tick.grant.ok
    BY <2>1, TickIs DEF TickShape
  <2>3. x.rule = tick.rule /\ x.period = ThisPeriod(tick.row) /\ x.on = tick.row.next
    OBVIOUS
  <2>4. Consented(x)
    <3>1. /\ rule[tick.rule] = tick.row /\ rule[tick.rule] # Null /\ tick.by = tick.row.by
      BY <2>1, CurrentRow
    <3>2. tick.row.next <= today
      <4>1. tick.row.next \in Nat /\ tick.row.next <= tick.now /\ tick.now <= today /\ tick.now \in Nat /\ today \in Nat
        BY <2>1, CurrentRow, TickIs, DayAssumption DEF Days
      <4> QED BY <4>1
    <3> HIDE DEF x
    <3> QED BY <2>1, <2>2, <2>3, <3>1, <3>2 DEF Consented
  <2> HIDE DEF x
  <2> QED BY <1>4, <2>1, <2>3, <2>4, GenerateKeeps, TickIsFor
<1>5. CASE Defer
  <2> DEFINE y == [rule |-> tick.rule, period |-> ThisPeriod(tick.row), on |-> tick.row.next,
                   category |-> tick.row.category]
  <2>1. /\ tick.pc = "defer" /\ RuleGuard(tick) /\ rule' = [rule EXCEPT ![tick.rule] = Advanced(tick.row)]
        /\ pending' = pending \cup {f \in {y} : tick.failed} /\ UNCHANGED occurrence
    BY <1>5 DEF Defer, DeferGuard, ScheduleGuard, MoveOn
  <2>2. y.rule = tick.rule /\ y.period = ThisPeriod(tick.row)
    OBVIOUS
  <2>3. ~tick.failed => Full(tick.rule)
    BY <2>1, TickIs, CurrentRow DEF TickShape
  <2> HIDE DEF y
  <2>4. \/ \E x \in occurrence' \cup pending' : x.rule = tick.rule /\ x.period = ThisPeriod(tick.row)
        \/ Full(tick.rule)
    BY <2>1, <2>2, <2>3
  <2> QED BY <1>5, <2>1, <2>2, <2>4, DeferKeeps, TickIsFor
<1> QED BY <1>1, <1>2, <1>3, <1>4, <1>5 DEF Write

LEMMA StepIs ==
    ASSUME IInv, [Next]_vars
    PROVE  \/ UNCHANGED tables
           \/ StepErases
           \/ \E r \in Rules : StepCreates(r) \/ StepManages(r) \/ StepPosts(r) \/ StepTicks(r)
<1>1. ASSUME NEW w \in Workers, Request(w)
      PROVE  UNCHANGED tables \/ \E r \in Rules : StepCreates(r) \/ StepManages(r) \/ StepPosts(r)
  <2>1. CASE Receive(w)
    BY <2>1 DEF Receive, ReceiveCreate, ReceiveEdit, ReceiveResume, ReceiveRetry, ReceiveStop
  <2>2. CASE Validate(w) \/ Prepare(w) \/ RefuseCreate(w)
    BY <2>2 DEF Validate, Prepare, RefuseCreate
  <2> QED BY <1>1, <2>1, <2>2, CreateIs, ManageIs, RetryIs DEF Request
<1>2. CASE Tick
  <2>1. Read \/ AbortTick => UNCHANGED tables
    BY DEF Read, AbortTick, StartTick, Settle, Authorize, Deny, RefuseGenerate, Weigh
  <2> QED BY <1>2, <2>1, WriteIs DEF Tick
<1>3. CASE Around
  <2>1. NextDay \/ ChangeLimit => UNCHANGED tables
    BY DEF NextDay, ChangeLimit
  <2>2. \A g \in Grants : ChangeGrant(g) => UNCHANGED tables
    BY DEF ChangeGrant
  <2>3. \A p \in Projects : PatchProject(p) => UNCHANGED tables
    BY DEF PatchProject
  <2>4. \A c \in Categories : ArchiveCategory(c) => UNCHANGED tables
    BY DEF ArchiveCategory
  <2> QED BY <1>3, <2>1, <2>2, <2>3, <2>4, EraseIs DEF Around
<1>4. ASSUME NEW w \in Slots, Abandon(w) PROVE UNCHANGED tables
    BY <1>4 DEF Abandon
<1>5. CASE UNCHANGED vars
    BY <1>5 DEF vars
<1> QED BY <1>1, <1>2, <1>3, <1>4, <1>5 DEF Next

-----------------------------------------------------------------------------
(* Action properties.                                                       *)

(* The tick never moves the date of a rule past a period that is neither       *)
(* charged nor retained, unless MaxPending failures of the rule are retained: *)
(* whatever it read before its batch.                                         *)
THEOREM TickSkipsNothing == Spec => NothingSkipped
<1>1. ASSUME IInv, [Next]_vars, NEW r \in Rules, Ticked, rule[r] # Null, rule'[r] # Null,
             rule'[r].next # rule[r].next
      PROVE  \/ \E x \in occurrence' \cup pending' : x.rule = r /\ x.period = ThisPeriod(rule[r])
             \/ Cardinality(PendingOf(r)) >= MaxPending
  <2>1. ~UNCHANGED tables
    BY <1>1 DEF tables
  <2>2. PICK q \in Rules : StepTicks(q)
    BY <1>1, <2>1, StepIs DEF StepErases, StepCreates, StepManages, StepPosts
  <2>3. q = r
    BY <1>1, <2>2 DEF StepTicks, OnlyRow
  <2> QED BY <1>1, <2>2, <2>3 DEF StepTicks, Full
<1>2. IInv /\ [Next]_vars =>
        [\A r \in Rules :
           Ticked /\ rule[r] # Null /\ rule'[r] # Null /\ rule'[r].next # rule[r].next =>
             \/ \E x \in occurrence' \cup pending' : x.rule = r /\ x.period = ThisPeriod(rule[r])
             \/ Cardinality(PendingOf(r)) >= MaxPending]_vars
    BY <1>1
<1> QED BY <1>2, AlwaysIInv, PTL DEF Spec, NothingSkipped

(* An expense is recorded only by consent in force in that very step: for the  *)
(* tick, an active rule on its due date with its grant, target and category as *)
(* they must be; for a request, a rule it creates or a retained failure of a   *)
(* rule that is not canceled.                                                 *)
THEOREM ChargesNeedConsent == Spec => ChargedWithConsent
<1>1. ASSUME IInv, [Next]_vars, NEW o \in occurrence' \ occurrence
      PROVE  LET row == rule[o.rule] IN
             IF Ticked
             THEN /\ row # Null /\ row.status = "active" /\ row.next = o.on /\ o.on <= today
                  /\ grant[row.by].ok /\ ActiveTarget(row.target) /\ row.category \notin archived
             ELSE row # Null => row.status # "canceled" /\ Deferred(o.rule, o.period)
  <2>1. ~UNCHANGED tables /\ ~StepErases
    BY DEF tables, StepErases
  <2>2. PICK r \in Rules : StepCreates(r) \/ StepManages(r) \/ StepPosts(r) \/ StepTicks(r)
    BY <1>1, <2>1, StepIs
  <2>3. CASE StepCreates(r)
    BY <2>3 DEF StepCreates, OnlyRow
  <2>4. CASE StepManages(r)
    BY <2>4 DEF StepManages
  <2>5. CASE StepPosts(r)
    BY <2>5 DEF StepPosts, OnlyRow, Deferred
  <2>6. CASE StepTicks(r)
    BY <2>6 DEF StepTicks, Consented
  <2> QED BY <2>2, <2>3, <2>4, <2>5, <2>6
<1>2. IInv /\ [Next]_vars =>
        [\A o \in occurrence' \ occurrence :
           LET row == rule[o.rule] IN
           IF Ticked
           THEN /\ row # Null /\ row.status = "active" /\ row.next = o.on /\ o.on <= today
                /\ grant[row.by].ok /\ ActiveTarget(row.target) /\ row.category \notin archived
           ELSE row # Null => row.status # "canceled" /\ Deferred(o.rule, o.period)]_vars
    BY <1>1
<1> QED BY <1>2, AlwaysIInv, PTL DEF Spec, ChargedWithConsent

(* A canceled rule never changes or gains a charge or a failure again, though  *)
(* handlers read it before it was canceled; it can only go with its project.  *)
THEOREM CanceledStays == Spec => CancelIsFinal
<1>1. ASSUME IInv, [Next]_vars, NEW r \in Rules, rule[r] # Null, rule[r].status = "canceled"
      PROVE  \/ rule'[r] = Null
             \/ /\ rule'[r] = rule[r]
                /\ \A x \in (occurrence' \cup pending') \ (occurrence \cup pending) : x.rule # r
  <2>1. CASE UNCHANGED tables
    BY <2>1 DEF tables
  <2>2. CASE StepErases
    BY <2>2 DEF StepErases
  <2>3. ASSUME NEW q \in Rules, StepCreates(q) \/ StepManages(q) \/ StepPosts(q) \/ StepTicks(q)
        PROVE  q # r /\ OnlyRow(q)
    BY <1>1, <2>3 DEF StepCreates, StepManages, StepPosts, StepTicks
  <2>4. ASSUME NEW q \in Rules, q # r, OnlyRow(q)
        PROVE  /\ rule'[r] = rule[r]
               /\ \A x \in (occurrence' \cup pending') \ (occurrence \cup pending) : x.rule # r
    BY <2>4 DEF OnlyRow
  <2> QED BY <1>1, <2>1, <2>2, <2>3, <2>4, StepIs
<1>2. IInv /\ [Next]_vars =>
        [\A r \in Rules :
           rule[r] # Null /\ rule[r].status = "canceled" =>
             \/ rule'[r] = Null
             \/ /\ rule'[r] = rule[r]
                /\ \A x \in (occurrence' \cup pending') \ (occurrence \cup pending) : x.rule # r]_vars
    BY <1>1
<1> QED BY <1>2, AlwaysIInv, PTL DEF Spec, CancelIsFinal

(* A retained failure leaves only with the expense of its period, or with its  *)
(* rule when the project is erased.                                           *)
THEOREM FailuresAreRetained == Spec => RetainedUntilPosted
<1>1. ASSUME IInv, [Next]_vars, NEW f \in pending \ pending'
      PROVE  rule'[f.rule] = Null \/ \E o \in occurrence' : o.rule = f.rule /\ o.period = f.period
  <2>1. ~UNCHANGED tables
    BY DEF tables
  <2>2. CASE StepErases
    BY <2>2 DEF StepErases
  <2>3. ASSUME NEW r \in Rules, StepCreates(r) \/ StepManages(r) \/ StepPosts(r) \/ StepTicks(r)
        PROVE  \E o \in occurrence' : o.rule = f.rule /\ o.period = f.period
    BY <2>3 DEF StepCreates, StepManages, StepPosts, StepTicks
  <2> QED BY <1>1, <2>1, <2>2, <2>3, StepIs
<1>2. IInv /\ [Next]_vars =>
        [\A f \in pending \ pending' :
           rule'[f.rule] = Null \/ \E o \in occurrence' : o.rule = f.rule /\ o.period = f.period]_vars
    BY <1>1
<1> QED BY <1>2, AlwaysIInv, PTL DEF Spec, RetainedUntilPosted

-----------------------------------------------------------------------------
(* Dates.                                                                    *)

LEMMA FirstFalls ==
    ASSUME NEW s, NEW T, T \subseteq Days, \A d \in T : Falls(s, d), First(T) # Null
    PROVE  Falls(s, First(T))
BY FirstDay DEF First

LEMMA DatesFall ==
    ASSUME NEW s, NEW d
    PROVE  /\ FutureOccurrence(s, d) # Null => Falls(s, FutureOccurrence(s, d))
           /\ FutureAfterInitial(s, d) # Null => Falls(s, FutureAfterInitial(s, d))
           /\ AfterPeriod(s, d) # Null => Falls(s, AfterPeriod(s, d))
<1>1. FutureOccurrence(s, d) # Null => Falls(s, FutureOccurrence(s, d))
  <2> DEFINE T == {e \in Days : e >= d + 1 /\ Falls(s, e) /\ InRange(s, e)}
  <2>1. FutureOccurrence(s, d) = First(T) /\ T \subseteq Days /\ \A e \in T : Falls(s, e)
    BY DEF FutureOccurrence, NextOccurrence
  <2> HIDE DEF T
  <2> QED BY <2>1, FirstFalls
<1>2. FutureAfterInitial(s, d) # Null => Falls(s, FutureAfterInitial(s, d))
  <2> DEFINE T == {e \in Days : e > d /\ Falls(s, e) /\ InRange(s, e) /\ PeriodKey(s, e) # PeriodKey(s, s.start)}
  <2>1. FutureAfterInitial(s, d) = First(T) /\ T \subseteq Days /\ \A e \in T : Falls(s, e)
    BY DEF FutureAfterInitial
  <2> HIDE DEF T
  <2> QED BY <2>1, FirstFalls
<1>3. AfterPeriod(s, d) # Null => Falls(s, AfterPeriod(s, d))
  <2> DEFINE T == {e \in Days : e > d /\ Falls(s, e) /\ InRange(s, e) /\ PeriodKey(s, e) # PeriodKey(s, d)}
  <2>1. AfterPeriod(s, d) = First(T) /\ T \subseteq Days /\ \A e \in T : Falls(s, e)
    BY DEF AfterPeriod
  <2> HIDE DEF T
  <2> QED BY <2>1, FirstFalls
<1> QED BY <1>1, <1>2, <1>3

(* One row is written, and the new one is on a date of its schedule.         *)
LEMMA RowOnDate ==
    ASSUME IInv, OnSchedule, NEW r \in Rules, NEW row, rule' = [rule EXCEPT ![r] = row], OnDate(row)
    PROVE  OnSchedule'
<1>1. \A q \in Rules : rule'[q] = IF q = r THEN row ELSE rule[q]
    BY DEF IInv, TypeOK
<1> QED BY <1>1 DEF OnSchedule, OnDate

LEMMA RequestOnDate == ASSUME IInv, OnSchedule, NEW w \in Workers, Request(w) PROVE OnSchedule'
<1> DEFINE j == job[w]
<1>1. CASE Receive(w) \/ Validate(w) \/ Prepare(w) \/ RefuseCreate(w)
  <2>1. UNCHANGED rule
    BY <1>1 DEF Receive, ReceiveCreate, ReceiveEdit, ReceiveResume, ReceiveRetry, ReceiveStop,
                Validate, Prepare, RefuseCreate, tables
  <2> QED BY <2>1 DEF OnSchedule, OnDate
<1>2. CASE CommitCreate(w) \/ CommitFallback(w)
  <2>1. RequestShape(j) /\ j.rule \in Rules
    BY <1>2 DEF IInv, RequestShape, CommitCreate, CommitFallback
  <2>2. rule' = [rule EXCEPT ![j.rule] = NewRule(j)]
    BY <1>2 DEF CommitCreate, CommitFallback, StoreRule
  <2>3. OnDate(NewRule(j))
    <3> HIDE DEF j
    <3> QED BY DatesFall DEF NewRule, OnDate
  <2> HIDE DEF j
  <2> QED BY <2>1, <2>2, <2>3, RowOnDate
<1>3. CASE CommitPlan(w)
  <2>1. RequestShape(j) /\ j.rule \in Rules /\ rule' = [rule EXCEPT ![j.rule] = Replanned(j)]
    BY <1>3 DEF IInv, RequestShape, CommitPlan
  <2>2. OnDate(Replanned(j))
    <3> HIDE DEF j
    <3> QED BY DatesFall DEF Replanned, OnDate
  <2> HIDE DEF j
  <2> QED BY <2>1, <2>2, RowOnDate
<1>4. CASE CommitStop(w) \/ CommitRetry(w)
  <2>1. j.rule \in Rules /\ rule[j.rule] \in Row /\ OnDate(rule[j.rule])
    BY <1>4, StillOpen, RuleRows DEF IInv, CommitStop, CommitRetry, OnSchedule
  <2>2. CASE CommitStop(w)
    <3> DEFINE status == IF j.op = "pause" THEN "paused" ELSE "canceled"
               row == [rule[j.rule] EXCEPT !.status = status, !.code = Null, !.rev = @ + 1]
    <3>1. rule' = [rule EXCEPT ![j.rule] = row]
      BY <2>2 DEF CommitStop
    <3>2. row.next = rule[j.rule].next /\ row.sched = rule[j.rule].sched
      BY <2>1 DEF Row
    <3>3. OnDate(row)
      BY <2>1, <3>2 DEF OnDate
    <3> HIDE DEF row, j
    <3> QED BY <2>1, <3>1, <3>3, RowOnDate
  <2>3. CASE CommitRetry(w)
    <3> DEFINE row == [rule[j.rule] EXCEPT !.rev = @ + 1]
    <3>1. rule' = [rule EXCEPT ![j.rule] = row]
      BY <2>1, <2>3 DEF CommitRetry, IInv, TypeOK
    <3>2. row.next = rule[j.rule].next /\ row.sched = rule[j.rule].sched
      BY <2>1 DEF Row
    <3>3. OnDate(row)
      BY <2>1, <3>2 DEF OnDate
    <3> HIDE DEF row, j
    <3> QED BY <2>1, <3>1, <3>3, RowOnDate
  <2> QED BY <1>4, <2>2, <2>3
<1> QED BY <1>1, <1>2, <1>3, <1>4 DEF Request

LEMMA TickOnDate == ASSUME IInv, OnSchedule, Tick PROVE OnSchedule'
<1>1. CASE Read \/ AbortTick
  <2>1. UNCHANGED rule
    BY <1>1 DEF Read, AbortTick, StartTick, Settle, Authorize, Deny, RefuseGenerate, Weigh, tables
  <2> QED BY <2>1 DEF OnSchedule, OnDate
<1>2. CASE Write
  <2>1. tick.pc # "idle" /\ RuleGuard(tick)
    BY <1>2 DEF Write, Advance, Block, Reopen, Generate, Defer, MaintenanceGuard, ReopenGuard,
                GenerateGuard, DeferGuard, ScheduleGuard
  <2>2. tick.rule \in Rules /\ tick.row \in Row /\ OnDate(tick.row)
    BY <2>1, CurrentRow DEF OnSchedule
  <2>3. CASE Advance \/ Generate \/ Defer
    <3>1. rule' = [rule EXCEPT ![tick.rule] = Advanced(tick.row)]
      BY <2>3 DEF Advance, Generate, Defer, MoveOn
    <3>2. OnDate(Advanced(tick.row))
      BY <2>2, AdvancedRow, DatesFall DEF OnDate
    <3> QED BY <2>2, <3>1, <3>2, RowOnDate
  <2>4. CASE Block
    <3> DEFINE row == [tick.row EXCEPT !.status = "blocked", !.rev = @ + 1, !.code = "denied"]
    <3>1. rule' = [rule EXCEPT ![tick.rule] = row]
      BY <2>4 DEF Block, MoveOn
    <3>2. OnDate(row)
      BY <2>2, BlockedRow DEF OnDate
    <3> HIDE DEF row
    <3> QED BY <2>2, <3>1, <3>2, RowOnDate
  <2>5. CASE Reopen
    <3> DEFINE row == [tick.row EXCEPT !.status = "active", !.rev = @ + 1, !.code = Null]
    <3>1. rule' = [rule EXCEPT ![tick.rule] = row]
      BY <2>5 DEF Reopen
    <3>2. OnDate(row)
      BY <2>2, ReopenedRow DEF OnDate
    <3> HIDE DEF row
    <3> QED BY <2>2, <3>1, <3>2, RowOnDate
  <2> QED BY <1>2, <2>3, <2>4, <2>5 DEF Write
<1> QED BY <1>1, <1>2 DEF Tick

LEMMA AroundOnDate == ASSUME IInv, OnSchedule, Around PROVE OnSchedule'
<1>1. \A r \in Rules : rule'[r] = rule[r] \/ rule'[r] = Null
  <2>1. ASSUME NEW p \in Projects, EraseProject(p) PROVE \A r \in Rules : rule'[r] = rule[r] \/ rule'[r] = Null
    BY <2>1 DEF EraseProject
  <2>2. (\A p \in Projects : ~EraseProject(p)) => UNCHANGED rule
    BY DEF Around, NextDay, ChangeLimit, ChangeGrant, PatchProject, ArchiveCategory, tables
  <2> QED BY <2>1, <2>2
<1> QED BY <1>1 DEF OnSchedule, OnDate

LEMMA InitOnDate == Init => OnSchedule
<1> SUFFICES ASSUME Init, NEW r \in Rules, rule[r] # Null PROVE OnDate(rule[r])
    BY DEF OnSchedule
<1>1. PICK q \in Rules, g \in Grants, draft \in Drafts : rule = [[x \in Rules |-> Null] EXCEPT ![q] = LegacyRow(g, draft)]
    BY DEF Init
<1>2. rule[r] = LegacyRow(g, draft)
    BY <1>1
<1> QED BY <1>2 DEF LegacyRow, OnDate

(* Whatever a rule went through, its next date is its exact start or a day its *)
(* schedule falls on: editing, resuming, advancing and deferring never drift  *)
(* (ledger_recurrence_calendar's next dates, stored by each batch).          *)
THEOREM RulesFallOnDates == Spec => []OnSchedule
<1>1. IInv /\ OnSchedule /\ [Next]_vars => OnSchedule'
  <2> SUFFICES ASSUME IInv, OnSchedule, [Next]_vars PROVE OnSchedule'
    OBVIOUS
  <2>1. ASSUME NEW w \in Slots, Abandon(w) PROVE OnSchedule'
    BY <2>1 DEF Abandon, tables, OnSchedule, OnDate
  <2>2. CASE UNCHANGED vars
    BY <2>2 DEF vars, tables, OnSchedule, OnDate
  <2> QED BY <2>1, <2>2, RequestOnDate, TickOnDate, AroundOnDate DEF Next
<1> QED BY <1>1, InitOnDate, AlwaysIInv, PTL DEF Spec

-----------------------------------------------------------------------------
(* Notices. A failure that was retained once is never retained again, so     *)
(* what was claimed or mailed about it stays claimed or mailed.              *)

Known(f) ==
    /\ f \in Failure /\ f.rule \in used
    /\ f \in pending \/ rule[f.rule] = Null \/ Charged(f.rule, f.period)

Note == [pc : {"quiet", "read", "claim", "send", "settle"}, failure : Failure \cup {Null}, rev : Nat,
         delivery : {"email", "inbox", Null}]

NoteHeld(n) ==
    /\ n.pc # "quiet" => Known(n.failure)
    /\ n.pc = "claim" /\ n.failure \in pending =>
         LET to == notice[n.failure].to IN
         n.rev <= grant[to].rev /\ (n.rev = grant[to].rev => to \in readers)
    /\ n.pc \in {"send", "settle"} /\ n.failure \in pending => notice[n.failure].state # "pending"
    /\ n.pc = "send" => n.failure \notin DOMAIN mailed
    /\ n.pc = "settle" => n.delivery \in {"email", "inbox"}
    /\ n.pc = "settle" /\ n.delivery = "email" => n.failure \in DOMAIN mailed

MailHeld ==
    /\ \A f \in DOMAIN mailed : /\ mailed[f] = 1 /\ Known(f)
                                /\ f \in pending => notice[f].state # "pending"
    /\ \A f \in pending : notice[f].state = "email" => f \in DOMAIN mailed

NoticeInv ==
    /\ IInv
    /\ notice \in [pending -> Notice]
    /\ readers \subseteq Grants
    /\ note \in [Slots -> Note]
    /\ \A w \in Slots : NoteHeld(note[w])
    /\ \A v, w \in Slots : note[v].pc = "send" /\ note[w].pc = "send" /\ note[v].failure = note[w].failure => v = w
    /\ MailHeld

(* What a step of the rules does to failures that were known, and to grants. *)
Forward ==
    /\ \A f : Known(f) => Known(f)'
    /\ \A f \in pending' : Known(f)'
    /\ \A f \in pending' : Known(f) => f \in pending
    /\ \A g \in Grants : grant'[g] = grant[g] \/ grant[g].rev < grant'[g].rev

(* It follows from what the step does to the tables.                        *)
Succeeds ==
    /\ used \subseteq used'
    /\ \A r \in used : rule[r] = Null => rule'[r] = Null
    /\ \A o \in occurrence \ occurrence' : rule'[o.rule] = Null
    /\ \A f \in pending \ pending' : rule'[f.rule] = Null \/ \E o \in occurrence' : o.rule = f.rule /\ o.period = f.period
    /\ \A f \in pending' \ pending : f.rule \notin used \/ (rule[f.rule] # Null /\ ~Charged(f.rule, f.period))

LEMMA SucceedsForward ==
    ASSUME IInv, IInv', Succeeds, \A g \in Grants : grant'[g] = grant[g] \/ grant[g].rev < grant'[g].rev
    PROVE  Forward
<1>1. ASSUME NEW f, Known(f) PROVE Known(f)'
  <2>1. f \in Failure /\ f.rule \in used /\ f.rule \in used'
    BY <1>1 DEF Known, Succeeds
  <2>2. f \in pending => f \in pending' \/ rule'[f.rule] = Null \/ Charged(f.rule, f.period)'
    BY DEF Succeeds, Charged
  <2>3. rule[f.rule] = Null => rule'[f.rule] = Null
    BY <2>1 DEF Succeeds
  <2>4. Charged(f.rule, f.period) => Charged(f.rule, f.period)' \/ rule'[f.rule] = Null
    BY DEF Succeeds, Charged
  <2> QED BY <1>1, <2>1, <2>2, <2>3, <2>4 DEF Known
<1>2. ASSUME NEW f \in pending' PROVE Known(f)'
  <2>1. f \in Failure /\ rule'[f.rule] # Null
    BY <1>2 DEF IInv, TypeOK, OneFate
  <2>2. f.rule \in used'
    BY <2>1 DEF IInv, CreatedOnce, Failure
  <2> QED BY <1>2, <2>1, <2>2 DEF Known
<1>3. ASSUME NEW f \in pending', Known(f) PROVE f \in pending
    BY <1>3 DEF Known, Succeeds
<1> QED BY <1>1, <1>2, <1>3 DEF Forward

LEMMA SameTablesSucceed == ASSUME UNCHANGED tables PROVE Succeeds
BY DEF tables, Succeeds

LEMMA RequestSucceeds ==
    ASSUME IInv, NEW w \in Workers, Request(w)
    PROVE  Succeeds /\ UNCHANGED grant /\ \A f \in pending' \ pending : job[w].by \in Grants
<1>1. CASE Receive(w) \/ Validate(w) \/ Prepare(w) \/ RefuseCreate(w)
  <2>1. UNCHANGED <<tables, around>>
    BY <1>1 DEF Receive, ReceiveCreate, ReceiveEdit, ReceiveResume, ReceiveRetry, ReceiveStop,
                Validate, Prepare, RefuseCreate
  <2> QED BY <2>1, SameTablesSucceed DEF tables, around
<1>2. CASE CommitCreate(w) \/ CommitFallback(w)
  <2> DEFINE j == job[w]
  <2>1. j.by \in Grants
    BY <1>2 DEF IInv, RequestShape, CommitCreate, CommitFallback
  <2>2. PICK failed : StoreRule(j, failed) /\ UNCHANGED around
    BY <1>2 DEF CommitCreate, CommitFallback
  <2>3. /\ j.rule \notin used /\ used' = used \cup {j.rule} /\ rule' = [rule EXCEPT ![j.rule] = NewRule(j)]
        /\ occurrence \subseteq occurrence' /\ pending \subseteq pending'
        /\ \A f \in pending' \ pending : f.rule = j.rule
    BY <2>2 DEF StoreRule
  <2> HIDE DEF j
  <2>4. \A r \in used : rule'[r] = rule[r]
    BY <2>3 DEF IInv, TypeOK
  <2>5. UNCHANGED grant
    BY <2>2 DEF around
  <2>6. Succeeds
    BY <2>3, <2>4 DEF Succeeds
  <2> QED BY <2>1, <2>5, <2>6 DEF j
<1>3. CASE CommitPlan(w) \/ CommitStop(w) \/ CommitRetry(w)
  <2>1. UNCHANGED <<used, around>>
    BY <1>3 DEF CommitPlan, CommitStop, CommitRetry
  <2>2. PICK r \in Rules : StepManages(r) \/ StepPosts(r)
    BY <1>3, ManageIs, RetryIs
  <2>3. /\ rule[r] # Null /\ OnlyRow(r) /\ occurrence \subseteq occurrence' /\ pending' \subseteq pending
        /\ \A f \in pending \ pending' : \E o \in occurrence' : o.rule = f.rule /\ o.period = f.period
    BY <2>2 DEF StepManages, StepPosts
  <2>4. \A q \in used : rule[q] = Null => rule'[q] = Null
    BY <2>3 DEF OnlyRow, IInv, TypeOK
  <2>5. Succeeds
    BY <2>1, <2>3, <2>4 DEF Succeeds
  <2> QED BY <2>1, <2>3, <2>5 DEF around
<1> QED BY <1>1, <1>2, <1>3 DEF Request

LEMMA TickSucceeds ==
    ASSUME IInv, Tick
    PROVE  Succeeds /\ UNCHANGED grant /\ \A f \in pending' \ pending : tick.by \in Grants
<1>1. CASE Read \/ AbortTick
  <2>1. UNCHANGED <<tables, around>>
    BY <1>1 DEF Read, AbortTick, StartTick, Settle, Authorize, Deny, RefuseGenerate, Weigh
  <2> QED BY <2>1, SameTablesSucceed DEF tables, around
<1>2. CASE Write
  <2>1. UNCHANGED <<used, around>> /\ occurrence \subseteq occurrence'
    BY <1>2 DEF Write, Advance, Block, Reopen, Generate, Defer
  <2>2. PICK r \in Rules : StepTicks(r)
    BY <1>2, WriteIs
  <2>3. pending \subseteq pending' /\ \A q \in used : rule[q] = Null => rule'[q] = Null
    BY <2>2 DEF StepTicks, OnlyRow, IInv, TypeOK
  <2>4. ASSUME NEW f \in pending' \ pending
        PROVE  rule[f.rule] # Null /\ ~Charged(f.rule, f.period) /\ tick.by \in Grants
    <3>1. CASE Defer
      <4> DEFINE y == [rule |-> tick.rule, period |-> ThisPeriod(tick.row), on |-> tick.row.next,
                       category |-> tick.row.category]
      <4>1. f = y /\ tick.failed /\ tick.pc = "defer" /\ DeferGuard
        BY <2>4, <3>1 DEF Defer
      <4>2. y.rule = tick.rule /\ y.period = ThisPeriod(tick.row)
        OBVIOUS
      <4> HIDE DEF y
      <4>3. rule[tick.rule] # Null /\ ~Charged(tick.rule, ThisPeriod(tick.row))
        BY <4>1 DEF DeferGuard, ScheduleGuard, RuleGuard
      <4>4. tick.row \in Row /\ tick.by = tick.row.by
        BY <4>1, TickIs DEF TickShape, Remembered
      <4>5. tick.by \in Grants
        BY <4>4, RowFields
      <4> QED BY <4>1, <4>2, <4>3, <4>5
    <3> QED BY <1>2, <2>4, <3>1 DEF Write, Advance, Block, Reopen, Generate
  <2>5. Succeeds
    BY <2>1, <2>3, <2>4 DEF Succeeds
  <2> QED BY <2>1, <2>4, <2>5 DEF around
<1> QED BY <1>1, <1>2 DEF Tick

LEMMA AroundSucceeds ==
    ASSUME IInv, Around
    PROVE  /\ Succeeds /\ pending' \subseteq pending
           /\ \A g \in Grants : grant'[g] = grant[g] \/ grant[g].rev < grant'[g].rev
<1>1. CASE NextDay \/ ChangeLimit \/ (\E p \in Projects : PatchProject(p)) \/ (\E c \in Categories : ArchiveCategory(c))
  <2>1. UNCHANGED <<tables, grant>>
    BY <1>1 DEF NextDay, ChangeLimit, PatchProject, ArchiveCategory
  <2> QED BY <2>1, SameTablesSucceed DEF tables
<1>2. ASSUME NEW g \in Grants, ChangeGrant(g)
      PROVE  /\ UNCHANGED tables
             /\ \A h \in Grants : grant'[h] = grant[h] \/ grant[h].rev < grant'[h].rev
  <2>1. PICK ok \in BOOLEAN : grant' = [grant EXCEPT ![g] = [rev |-> @.rev + 1, ok |-> ok]]
    BY <1>2 DEF ChangeGrant
  <2>2. grant \in [Grants -> [rev: Nat, ok: BOOLEAN]]
    BY DEF IInv, TypeOK
  <2>3. \A h \in Grants : grant[h].rev \in Nat
    BY <2>2
  <2>4. grant'[g].rev = grant[g].rev + 1 /\ \A h \in Grants \ {g} : grant'[h] = grant[h]
    BY <2>1, <2>2
  <2>5. grant[g].rev < grant'[g].rev
    BY <2>3, <2>4
  <2> QED BY <1>2, <2>4, <2>5 DEF ChangeGrant
<1>3. ASSUME NEW p \in Projects, EraseProject(p)
      PROVE  Succeeds /\ pending' \subseteq pending /\ UNCHANGED grant
  <2> DEFINE erased == {r \in Rules : rule[r] # Null /\ rule[r].target = p}
  <2>1. /\ rule' = [r \in Rules |-> IF r \in erased THEN Null ELSE rule[r]]
        /\ occurrence' = {o \in occurrence : o.rule \notin erased}
        /\ pending' = {f \in pending : f.rule \notin erased}
        /\ UNCHANGED <<used, grant>>
    BY <1>3 DEF EraseProject
  <2>2. used \subseteq Rules /\ erased \subseteq Rules
    BY DEF IInv, TypeOK
  <2> HIDE DEF erased
  <2>3. Succeeds
    BY <2>1, <2>2 DEF Succeeds
  <2> QED BY <2>1, <2>3
<1>4. UNCHANGED tables => Succeeds /\ pending' \subseteq pending
    BY SameTablesSucceed DEF tables
<1> QED BY <1>1, <1>2, <1>3, <1>4 DEF Around

(* A step of others keeps what was told as it was: it adds failures nobody   *)
(* has told, and starts or ends the telling of some.                        *)
NotesFollow ==
    /\ notice' \in [pending' -> Notice]
    /\ \A f \in pending' \cap pending : notice'[f] = notice[f]
    /\ \A f \in pending' \ pending : notice'[f].state = "pending"
    /\ UNCHANGED mailed
    /\ readers' \subseteq Grants
    /\ \A g \in readers : grant'[g] = grant[g] => g \in readers'
    /\ note' \in [Slots -> Note]
    /\ \A w \in Slots : \/ note'[w] = note[w] \/ note'[w] = Quiet
                        \/ note'[w].pc = "read" /\ note'[w].failure \in pending'

LEMMA QuietNote == Quiet \in Note /\ Quiet.pc = "quiet" /\ NoteHeld(Quiet)
<1>1. Quiet \in Note /\ Quiet.pc = "quiet"
    BY DEF Quiet, Note
<1> HIDE DEF Quiet
<1> QED BY <1>1 DEF NoteHeld

LEMMA NoteStays ==
    ASSUME NoticeInv, IInv', Forward, NotesFollow, NEW n \in Note, NoteHeld(n)
    PROVE  NoteHeld(n)'
<1>1. n.pc # "quiet" => Known(n.failure) /\ Known(n.failure)'
    BY DEF NoteHeld, Forward
<1>2. ASSUME n.pc # "quiet", n.failure \in pending'
      PROVE  n.failure \in pending /\ notice'[n.failure] = notice[n.failure]
             /\ notice[n.failure].to \in Grants
    BY <1>1, <1>2 DEF Forward, NotesFollow, NoticeInv, Notice
<1>3. ASSUME n.pc = "claim", n.failure \in pending'
      PROVE  LET to == notice'[n.failure].to IN
             n.rev <= grant'[to].rev /\ (n.rev = grant'[to].rev => to \in readers')
  <2> DEFINE to == notice[n.failure].to
  <2>1. n.failure \in pending /\ notice'[n.failure] = notice[n.failure] /\ to \in Grants
    BY <1>2, <1>3
  <2>2. n.rev <= grant[to].rev /\ (n.rev = grant[to].rev => to \in readers)
    BY <1>3, <2>1 DEF NoteHeld
  <2>3. grant[to].rev \in Nat /\ grant'[to].rev \in Nat /\ n.rev \in Nat
    BY <2>1 DEF NoticeInv, IInv, TypeOK, Note
  <2>4. grant'[to] = grant[to] \/ grant[to].rev < grant'[to].rev
    BY <2>1 DEF Forward
  <2>5. grant'[to] = grant[to] /\ to \in readers => to \in readers'
    BY DEF NotesFollow
  <2> HIDE DEF to
  <2>6. n.rev <= grant'[to].rev /\ (n.rev = grant'[to].rev => to \in readers')
    BY <2>2, <2>3, <2>4, <2>5
  <2> QED BY <2>1, <2>6 DEF to
<1>4. UNCHANGED mailed
    BY DEF NotesFollow
<1> QED BY <1>1, <1>2, <1>3, <1>4 DEF NoteHeld

LEMMA NotesStay == ASSUME NoticeInv, IInv', Forward, NotesFollow PROVE NoticeInv'
<1>1. ASSUME NEW w \in Slots PROVE NoteHeld(note[w])'
  <2>1. note[w] \in Note /\ NoteHeld(note[w]) /\ note'[w] \in Note
    BY DEF NoticeInv, NotesFollow
  <2>2. CASE note'[w] = note[w]
    <3> DEFINE n == note[w]
    <3>1. \A m \in Note : NoteHeld(m) => NoteHeld(m)'
      BY NoteStays
    <3> QED BY <2>1, <2>2, <3>1 DEF NoteHeld
  <2>3. CASE note'[w] = Quiet
    BY <2>3, QuietNote DEF NoteHeld
  <2>4. CASE note'[w].pc = "read" /\ note'[w].failure \in pending'
    BY <2>4 DEF NoteHeld, Forward
  <2> QED BY <2>2, <2>3, <2>4 DEF NotesFollow
<1>2. ASSUME NEW v \in Slots, NEW w \in Slots, note'[v].pc = "send", note'[w].pc = "send",
             note'[v].failure = note'[w].failure
      PROVE  v = w
  <2>1. \A x \in Slots : note'[x].pc = "send" => note'[x] = note[x]
    BY QuietNote DEF NotesFollow
  <2> QED BY <1>2, <2>1 DEF NoticeInv
<1>3. MailHeld'
  <2>1. UNCHANGED mailed
    BY DEF NotesFollow
  <2>2. ASSUME NEW f \in DOMAIN mailed PROVE mailed[f] = 1 /\ Known(f)' /\ (f \in pending' => notice'[f].state # "pending")
    <3>1. mailed[f] = 1 /\ Known(f) /\ (f \in pending => notice[f].state # "pending")
      BY DEF NoticeInv, MailHeld
    <3> QED BY <3>1 DEF Forward, NotesFollow
  <2>3. ASSUME NEW f \in pending', notice'[f].state = "email" PROVE f \in DOMAIN mailed
    BY <2>3 DEF NotesFollow, NoticeInv, MailHeld
  <2> QED BY <2>1, <2>2, <2>3 DEF MailHeld
<1> QED BY <1>1, <1>2, <1>3 DEF NoticeInv, NotesFollow

-----------------------------------------------------------------------------
(* The steps that tell nothing.                                             *)

LEMMA HandleFollows == ASSUME NoticeInv, NEW w \in Slots, Handle(w) PROVE IInv' /\ Forward /\ NotesFollow
<1>0. IInv
    BY DEF NoticeInv
<1>1. IInv' /\ Succeeds /\ UNCHANGED grant /\ \A f \in pending' \ pending : job[w].by \in Grants
  <2>1. CASE w = Ticker
    BY <1>0, <2>1, TickKeeps, TickSucceeds DEF Handle, tick
  <2>2. CASE w \in Workers
    BY <1>0, <2>2, RequestKeeps, RequestSucceeds, RuleAssumption DEF Handle
  <2> QED BY <2>1, <2>2 DEF Slots
<1>2. Forward
    BY <1>0, <1>1, SucceedsForward
<1>3. /\ notice' \in [pending' -> Notice]
      /\ \A f \in pending' \cap pending : notice'[f] = notice[f]
      /\ \A f \in pending' \ pending : notice'[f].state = "pending"
  <2> DEFINE new == [state |-> "pending", to |-> job[w].by, at |-> job[w].now]
  <2>1. notice' = Noticed(w) /\ notice \in [pending -> Notice]
    BY DEF Handle, NoticeInv
  <2>2. notice' = [f \in pending' |-> IF f \in pending THEN notice[f] ELSE new]
    BY <2>1 DEF Noticed
  <2>3. job[w].now \in Nat
    BY <1>0 DEF IInv, TypeOK, Job
  <2>4. new.state = "pending" /\ \A f \in pending' \ pending : new \in Notice
    BY <1>1, <2>3 DEF Notice, NoticeState
  <2> HIDE DEF new
  <2> QED BY <2>1, <2>2, <2>4
<1>4. /\ note' \in [Slots -> Note]
      /\ \A v \in Slots : \/ note'[v] = note[v] \/ note'[v] = Quiet
                          \/ note'[v].pc = "read" /\ note'[v].failure \in pending'
  <2> DEFINE added == pending' \ pending
             first == CHOOSE f \in added : TRUE
             begun == [Quiet EXCEPT !.pc = "read", !.failure = first]
  <2>1. note \in [Slots -> Note] /\ note' = [note EXCEPT ![w] = IF added = {} THEN Quiet ELSE begun]
    BY DEF Handle, NoticeInv
  <2>2. added # {} => first \in pending'
    OBVIOUS
  <2>3. first \in pending' => first \in Failure
    BY <1>1 DEF IInv, TypeOK
  <2>4. begun.pc = "read" /\ begun.failure = first /\ (first \in Failure => begun \in Note)
    BY DEF Quiet, Note
  <2> HIDE DEF added, first, begun
  <2> QED BY <2>1, <2>2, <2>3, <2>4, QuietNote
<1>5. UNCHANGED <<readers, mailed>> /\ readers \subseteq Grants
    BY DEF Handle, NoticeInv
<1> QED BY <1>1, <1>2, <1>3, <1>4, <1>5 DEF NotesFollow

LEMMA KillFollows == ASSUME NoticeInv, NEW w \in Slots, Kill(w) PROVE IInv' /\ Forward /\ NotesFollow
<1>0. IInv /\ UNCHANGED <<tables, around, notice, readers, mailed>>
    BY DEF NoticeInv, Kill
<1>1. IInv'
  <2>1. CASE job[w] # Idle
    BY <1>0, <2>1, AbandonKeeps DEF Abandon, Kill
  <2>2. CASE job[w] = Idle
    <3>1. UNCHANGED job
      BY <2>2 DEF Kill, NoticeInv, IInv, TypeOK
    <3> QED BY <1>0, <3>1, StutterKeeps DEF vars
  <2> QED BY <2>1, <2>2
<1>2. Forward
    BY <1>0, <1>1, SameTablesSucceed, SucceedsForward DEF around
<1>3. note' = [note EXCEPT ![w] = Quiet] /\ note \in [Slots -> Note]
    BY DEF Kill, NoticeInv
<1>4. note' \in [Slots -> Note] /\ \A v \in Slots : note'[v] = note[v] \/ note'[v] = Quiet
    BY <1>3, QuietNote
<1>5. UNCHANGED <<pending, grant>>
    BY <1>0 DEF tables, around
<1> QED BY <1>0, <1>1, <1>2, <1>4, <1>5 DEF NotesFollow, NoticeInv

LEMMA ElsewhereFollows == ASSUME NoticeInv, Elsewhere PROVE IInv' /\ Forward /\ NotesFollow
<1>0. IInv /\ Around
    BY DEF NoticeInv, Elsewhere
<1>1. IInv' /\ pending' \subseteq pending
    BY <1>0, AroundKeeps, AroundSucceeds
<1>2. Forward
    BY <1>0, <1>1, AroundSucceeds, SucceedsForward
<1>3. /\ notice' \in [pending' -> Notice]
      /\ \A f \in pending' : notice'[f] = notice[f]
    BY <1>1 DEF Elsewhere, Kept, NoticeInv
<1>4. readers' \subseteq Grants /\ \A g \in readers : grant'[g] = grant[g] => g \in readers'
    BY DEF Elsewhere, ReadersAfter, NoticeInv
<1>5. UNCHANGED <<note, mailed>> /\ note \in [Slots -> Note]
    BY DEF Elsewhere, NoticeInv
<1> QED BY <1>1, <1>2, <1>3, <1>4, <1>5 DEF NotesFollow

(* While something is told the rules stay as they are.                      *)
LEMMA SameFollows ==
    ASSUME NoticeInv, UNCHANGED <<vars, notice, readers, mailed>>,
           note' \in [Slots -> Note], \A w \in Slots : note'[w] = note[w] \/ note'[w] = Quiet
    PROVE  IInv' /\ Forward /\ NotesFollow
<1>1. IInv /\ IInv'
    BY StutterKeeps DEF NoticeInv
<1>2. UNCHANGED <<tables, pending, grant>>
    BY DEF vars, tables, around
<1>3. Forward
    BY <1>1, <1>2, SameTablesSucceed, SucceedsForward
<1> QED BY <1>1, <1>2, <1>3 DEF NotesFollow, NoticeInv

-----------------------------------------------------------------------------
(* notify_recurring_failure.                                                 *)

(* While something is told the rules stay as they are, and so does all that  *)
(* is known of failures.                                                    *)
LEMMA TellingKeeps ==
    ASSUME NoticeInv, NEW w \in Slots, NEW pc, Telling(w, pc)
    PROVE  /\ IInv' /\ UNCHANGED <<pending, grant, readers>>
           /\ \A f : Known(f)' <=> Known(f)
<1>1. UNCHANGED <<vars, readers>>
    BY DEF Telling
<1>2. UNCHANGED <<used, rule, occurrence, pending, grant>>
    BY <1>1 DEF vars, tables, around
<1>3. IInv'
    BY <1>1, StutterKeeps DEF NoticeInv
<1>4. \A f : Charged(f.rule, f.period)' <=> Charged(f.rule, f.period)
    BY <1>2 DEF Charged
<1> QED BY <1>1, <1>2, <1>3, <1>4 DEF Known

(* One note changes: the others must agree with the notices as they now are. *)
LEMMA NoteKeeps ==
    ASSUME NoticeInv, IInv', UNCHANGED <<pending, readers>>,
           notice' \in [pending -> Notice],
           NEW w \in Slots, NEW n \in Note, note' = [note EXCEPT ![w] = n], NoteHeld(n)',
           \A v \in Slots \ {w} : NoteHeld(note[v])',
           n.pc = "send" => \A v \in Slots \ {w} : ~(note[v].pc = "send" /\ note[v].failure = n.failure),
           MailHeld'
    PROVE  NoticeInv'
<1>1. note' \in [Slots -> Note] /\ note'[w] = n /\ \A v \in Slots \ {w} : note'[v] = note[v]
    BY DEF NoticeInv
<1>2. ASSUME NEW v \in Slots PROVE NoteHeld(note[v])'
    BY <1>1 DEF NoteHeld
<1>3. ASSUME NEW u \in Slots, NEW v \in Slots, note'[u].pc = "send", note'[v].pc = "send",
             note'[u].failure = note'[v].failure
      PROVE  u = v
    BY <1>1, <1>3 DEF NoticeInv
<1> QED BY <1>1, <1>2, <1>3 DEF NoticeInv

LEMMA ReadNoticeKeeps == ASSUME NoticeInv, NEW w \in Slots, ReadNotice(w) PROVE NoticeInv' /\ UNCHANGED notice
<1> DEFINE f == note[w].failure
           claim == [note[w] EXCEPT !.pc = "claim", !.rev = grant[notice[f].to].rev]
           found == f \in pending /\ notice[f].state = "pending" /\ Told(f) /\ notice[f].to \in readers
<1>1. /\ Telling(w, "read") /\ UNCHANGED <<notice, mailed>>
      /\ note' = [note EXCEPT ![w] = IF found THEN claim ELSE Quiet]
    BY DEF ReadNotice
<1>2. CASE ~found
  <2>1. note' = [note EXCEPT ![w] = Quiet] /\ note \in [Slots -> Note]
    BY <1>1, <1>2 DEF NoticeInv
  <2>2. note' \in [Slots -> Note] /\ \A v \in Slots : note'[v] = note[v] \/ note'[v] = Quiet
    BY <2>1, QuietNote
  <2> QED BY <1>1, <2>2, SameFollows, NotesStay DEF Telling
<1>3. CASE found
  <2> DEFINE to == notice[f].to
  <2>1. /\ IInv' /\ UNCHANGED <<pending, grant, readers>> /\ \A g : Known(g)' <=> Known(g)
    BY <1>1, TellingKeeps
  <2>2. /\ notice \in [pending -> Notice] /\ to \in Grants /\ to \in readers
        /\ f \in pending /\ note[w] \in Note /\ note[w].pc = "read" /\ Known(f)
    BY <1>1, <1>3 DEF NoticeInv, NoteHeld, Telling
  <2>3. grant[to].rev \in Nat
    BY <2>2 DEF NoticeInv, IInv, TypeOK
  <2>4. PICK n \in Note : n = claim /\ n.pc = "claim" /\ n.failure = f /\ n.rev = grant[to].rev
    <3>1. claim \in Note /\ claim.pc = "claim" /\ claim.failure = f /\ claim.rev = grant[to].rev
      BY <2>2, <2>3 DEF Note
    <3> HIDE DEF claim
    <3> QED BY <3>1
  <2>5. note' = [note EXCEPT ![w] = n]
    BY <1>1, <1>3, <2>4
  <2> HIDE DEF claim, found, to
  <2>6. NoteHeld(n)'
    BY <1>1, <2>1, <2>2, <2>3, <2>4 DEF NoteHeld, to
  <2>7. \A v \in Slots \ {w} : NoteHeld(note[v])'
    <3>1. ASSUME NEW v \in Slots \ {w} PROVE note'[v] = note[v] /\ NoteHeld(note[v])
      BY <2>5 DEF NoticeInv
    <3> QED BY <1>1, <2>1, <3>1 DEF NoteHeld
  <2>8. MailHeld'
    BY <1>1, <2>1 DEF NoticeInv, MailHeld
  <2> QED BY <1>1, <2>1, <2>2, <2>4, <2>5, <2>6, <2>7, <2>8, NoteKeeps
<1> QED BY <1>1, <1>2, <1>3

LEMMA ClaimNoticeKeeps ==
    ASSUME NoticeInv, NEW w \in Slots, ClaimNotice(w)
    PROVE  /\ NoticeInv'
           /\ \A g \in pending \cap pending' : notice[g].state = "pending" /\ notice'[g].state = "sending" =>
                notice[g].to \in readers /\ Told(g)
<1> DEFINE f == note[w].failure
<1>1. Telling(w, "claim") /\ UNCHANGED mailed
    BY DEF ClaimNotice
<1>2. CASE ~ClaimHolds(w, f)
  <2>1. note' = [note EXCEPT ![w] = Quiet] /\ note \in [Slots -> Note] /\ UNCHANGED notice
    BY <1>2 DEF ClaimNotice, NoticeInv
  <2>2. note' \in [Slots -> Note] /\ \A v \in Slots : note'[v] = note[v] \/ note'[v] = Quiet
    BY <2>1, QuietNote
  <2> QED BY <1>1, <2>1, <2>2, SameFollows, NotesStay DEF Telling
<1>3. CASE ClaimHolds(w, f)
  <2> DEFINE send == [note[w] EXCEPT !.pc = "send"]
  <2>1. /\ IInv' /\ UNCHANGED <<pending, grant, readers>> /\ \A g : Known(g)' <=> Known(g)
    BY <1>1, TellingKeeps
  <2>2. /\ notice \in [pending -> Notice]
        /\ note[w] \in Note /\ note[w].pc = "claim" /\ NoteHeld(note[w]) /\ Known(f)
        /\ f \in pending /\ notice[f].state = "pending" /\ Told(f) /\ grant[notice[f].to].rev = note[w].rev
    BY <1>1, <1>3 DEF NoticeInv, NoteHeld, Telling, ClaimHolds
  <2>3. notice[f].to \in readers
    BY <2>2 DEF NoteHeld
  <2>4. PICK n \in Note : n = send /\ n.pc = "send" /\ n.failure = f
    <3>1. send \in Note /\ send.pc = "send" /\ send.failure = f
      BY <2>2 DEF Note
    <3> HIDE DEF send
    <3> QED BY <3>1
  <2>5. note' = [note EXCEPT ![w] = n] /\ notice' = [notice EXCEPT ![f].state = "sending"]
    BY <1>3, <2>2, <2>4 DEF ClaimNotice, NoticeInv
  <2> HIDE DEF send, f
  <2>6. /\ notice' \in [pending -> Notice]
        /\ notice'[f].state = "sending" /\ notice'[f].to = notice[f].to
        /\ \A g \in pending \ {f} : notice'[g] = notice[g]
    BY <2>2, <2>5 DEF Notice, NoticeState
  <2>7. f \notin DOMAIN mailed
    BY <2>2 DEF NoticeInv, MailHeld
  <2>8. NoteHeld(n)'
    BY <1>1, <2>1, <2>2, <2>4, <2>6, <2>7 DEF NoteHeld, f
  <2>9. ASSUME NEW v \in Slots \ {w}
        PROVE  NoteHeld(note[v])' /\ ~(note[v].pc = "send" /\ note[v].failure = f)
    <3>1. note'[v] = note[v] /\ NoteHeld(note[v])
      BY <2>5 DEF NoticeInv
    <3>2. \A g \in pending : notice'[g].to = notice[g].to /\ (notice[g].state # "pending" => notice'[g].state # "pending")
      BY <2>6
    <3>3. NoteHeld(note[v])'
      BY <1>1, <2>1, <3>1, <3>2 DEF NoteHeld
    <3> QED BY <2>2, <3>1, <3>3 DEF NoteHeld
  <2>10. MailHeld'
    BY <1>1, <2>1, <2>2, <2>6, <2>7 DEF NoticeInv, MailHeld
  <2>11. NoticeInv'
    BY <2>1, <2>4, <2>5, <2>6, <2>8, <2>9, <2>10, NoteKeeps
  <2> QED BY <2>2, <2>3, <2>6, <2>11
<1> QED BY <1>2, <1>3

LEMMA SendKeeps == ASSUME NoticeInv, NEW w \in Slots, Send(w) PROVE NoticeInv' /\ UNCHANGED notice
<1> DEFINE f == note[w].failure
<1>1. Telling(w, "send") /\ UNCHANGED notice
    BY DEF Send
<1>2. PICK sent \in BOOLEAN, answered \in BOOLEAN :
        /\ answered => sent
        /\ mailed' = IF sent THEN [g \in DOMAIN mailed \cup {f} |->
                                      (IF g \in DOMAIN mailed THEN mailed[g] ELSE 0) + (IF g = f THEN 1 ELSE 0)]
                     ELSE mailed
        /\ note' = [note EXCEPT ![w].pc = "settle", ![w].delivery = IF answered THEN "email" ELSE "inbox"]
    BY DEF Send
<1> DEFINE settle == [note[w] EXCEPT !.pc = "settle", !.delivery = IF answered THEN "email" ELSE "inbox"]
<1>3. /\ IInv' /\ UNCHANGED <<pending, grant, readers>> /\ \A g : Known(g)' <=> Known(g)
    BY <1>1, TellingKeeps
<1>4. /\ notice' \in [pending -> Notice]
      /\ note[w] \in Note /\ note[w].pc = "send" /\ Known(f) /\ f \notin DOMAIN mailed
      /\ f \in pending => notice[f].state # "pending"
    BY <1>1 DEF NoticeInv, NoteHeld, Telling
<1>5. note' = [note EXCEPT ![w] = settle]
    BY <1>2, <1>4 DEF NoticeInv
<1>6. PICK n \in Note : /\ n = settle /\ n.pc = "settle" /\ n.failure = f /\ n.delivery \in {"email", "inbox"}
                        /\ n.delivery = "email" => answered
  <2>1. /\ settle \in Note /\ settle.pc = "settle" /\ settle.failure = f /\ settle.delivery \in {"email", "inbox"}
        /\ settle.delivery = "email" => answered
    BY <1>4 DEF Note
  <2> HIDE DEF settle
  <2> QED BY <2>1
<1> HIDE DEF settle, f
<1>7. /\ DOMAIN mailed \subseteq DOMAIN mailed' /\ DOMAIN mailed' \subseteq DOMAIN mailed \cup {f}
      /\ sent => f \in DOMAIN mailed'
      /\ \A g \in DOMAIN mailed' : mailed'[g] = 1
  <2>1. CASE ~sent
    BY <1>2, <2>1 DEF NoticeInv, MailHeld
  <2>2. CASE sent
    <3>1. DOMAIN mailed' = DOMAIN mailed \cup {f}
      BY <1>2, <2>2
    <3>2. \A g \in DOMAIN mailed : mailed[g] = 1
      BY DEF NoticeInv, MailHeld
    <3>3. \A g \in DOMAIN mailed' : mailed'[g] = 1
      BY <1>2, <1>4, <2>2, <3>1, <3>2
    <3> QED BY <2>2, <3>1, <3>3
  <2> QED BY <2>1, <2>2
<1>8. NoteHeld(n)'
    BY <1>1, <1>2, <1>3, <1>4, <1>6, <1>7 DEF NoteHeld, f
<1>9. ASSUME NEW v \in Slots \ {w} PROVE NoteHeld(note[v])'
  <2>1. note'[v] = note[v] /\ NoteHeld(note[v])
    BY <1>5 DEF NoticeInv
  <2>2. note[v].pc = "send" => note[v].failure # f
    BY <1>4 DEF NoticeInv, f
  <2> QED BY <1>1, <1>3, <1>7, <2>1, <2>2 DEF NoteHeld
<1>10. MailHeld'
    BY <1>1, <1>3, <1>4, <1>7 DEF NoticeInv, MailHeld
<1> QED BY <1>1, <1>3, <1>4, <1>5, <1>6, <1>8, <1>9, <1>10, NoteKeeps

LEMMA SettleNoticeKeeps ==
    ASSUME NoticeInv, NEW w \in Slots, SettleNotice(w)
    PROVE  /\ NoticeInv'
           /\ \A g \in pending : notice'[g] = notice[g] \/ notice[g].state = "sending"
<1> DEFINE f == note[w].failure
<1>1. /\ Telling(w, "settle") /\ UNCHANGED mailed /\ note' = [note EXCEPT ![w] = Quiet]
      /\ notice' = IF f \in pending /\ notice[f].state = "sending"
                   THEN [notice EXCEPT ![f].state = note[w].delivery] ELSE notice
    BY DEF SettleNotice
<1>2. /\ IInv' /\ UNCHANGED <<pending, grant, readers>> /\ \A g : Known(g)' <=> Known(g)
    BY <1>1, TellingKeeps
<1>3. /\ notice \in [pending -> Notice]
      /\ note[w].delivery \in {"email", "inbox"} /\ (note[w].delivery = "email" => f \in DOMAIN mailed)
    BY <1>1 DEF NoticeInv, NoteHeld, Telling
<1> HIDE DEF f
<1>4. /\ notice' \in [pending -> Notice]
      /\ \A g \in pending : /\ notice'[g].to = notice[g].to
                            /\ notice[g].state # "pending" => notice'[g].state # "pending"
                            /\ notice'[g].state = "email" => notice[g].state = "email" \/ g \in DOMAIN mailed
                            /\ notice'[g] = notice[g] \/ notice[g].state = "sending"
  <2>1. CASE f \in pending /\ notice[f].state = "sending"
    <3>1. notice' = [notice EXCEPT ![f].state = note[w].delivery]
      BY <1>1, <2>1
    <3>2. /\ notice' \in [pending -> Notice]
          /\ notice'[f].to = notice[f].to /\ notice'[f].state = note[w].delivery
          /\ \A g \in pending \ {f} : notice'[g] = notice[g]
      BY <1>3, <2>1, <3>1 DEF Notice, NoticeState
    <3> QED BY <1>3, <2>1, <3>2
  <2>2. CASE ~(f \in pending /\ notice[f].state = "sending")
    BY <1>1, <1>3, <2>2
  <2> QED BY <2>1, <2>2
<1>5. NoteHeld(Quiet)' /\ Quiet \in Note /\ Quiet.pc # "send"
    BY QuietNote DEF NoteHeld
<1>6. ASSUME NEW v \in Slots \ {w} PROVE NoteHeld(note[v])'
  <2>1. note'[v] = note[v] /\ NoteHeld(note[v])
    BY <1>1 DEF NoticeInv
  <2> QED BY <1>1, <1>2, <1>4, <2>1 DEF NoteHeld
<1>7. MailHeld'
    BY <1>1, <1>2, <1>4 DEF NoticeInv, MailHeld
<1> QED BY <1>1, <1>2, <1>4, <1>5, <1>6, <1>7, NoteKeeps

-----------------------------------------------------------------------------
(* Every step.                                                               *)

LEMMA NoticeInitHolds == NoticeInit => NoticeInv
<1> SUFFICES ASSUME NoticeInit PROVE NoticeInv
    OBVIOUS
<1>1. IInv /\ pending = {}
    BY InitHolds DEF NoticeInit, Init
<1>2. DOMAIN <<>> = {} /\ <<>> \in [{} -> Notice]
    OBVIOUS
<1>3. notice \in [pending -> Notice] /\ DOMAIN mailed = {}
    BY <1>1, <1>2 DEF NoticeInit
<1>4. note \in [Slots -> Note] /\ \A w \in Slots : note[w] = Quiet
    BY QuietNote DEF NoticeInit
<1>5. \A w \in Slots : NoteHeld(note[w]) /\ note[w].pc # "send"
    BY <1>4, QuietNote
<1>6. readers \subseteq Grants
    BY DEF NoticeInit
<1> QED BY <1>1, <1>3, <1>4, <1>5, <1>6 DEF NoticeInv, MailHeld

LEMMA NoticeStep ==
    ASSUME NoticeInv, [NoticeNext]_allVars
    PROVE  /\ NoticeInv'
           /\ \A f \in pending \cap pending' : notice[f].state = "pending" /\ notice'[f].state = "sending" =>
                notice[f].to \in readers /\ Told(f)
<1>1. ASSUME IInv', Forward, NotesFollow
      PROVE  NoticeInv' /\ \A f \in pending \cap pending' : notice'[f] = notice[f]
    BY <1>1, NotesStay DEF NotesFollow
<1>2. ASSUME NEW w \in Slots, Handle(w) \/ Kill(w)
      PROVE  NoticeInv' /\ \A f \in pending \cap pending' : notice'[f] = notice[f]
    BY <1>1, <1>2, HandleFollows, KillFollows
<1>3. CASE Elsewhere
    BY <1>1, <1>3, ElsewhereFollows
<1>4. ASSUME NEW w \in Slots, Tell(w)
      PROVE  /\ NoticeInv'
             /\ \A f \in pending \cap pending' : notice[f].state = "pending" /\ notice'[f].state = "sending" =>
                  notice[f].to \in readers /\ Told(f)
  <2>1. CASE ReadNotice(w) \/ Send(w)
    BY <2>1, ReadNoticeKeeps, SendKeeps
  <2>2. CASE ClaimNotice(w)
    BY <2>2, ClaimNoticeKeeps
  <2>3. CASE SettleNotice(w)
    BY <2>3, SettleNoticeKeeps
  <2> QED BY <1>4, <2>1, <2>2, <2>3 DEF Tell
<1>5. CASE UNCHANGED allVars
  <2>1. UNCHANGED <<vars, notice, readers, note, mailed>>
    BY <1>5 DEF allVars, noticeVars
  <2>2. note' \in [Slots -> Note] /\ \A w \in Slots : note'[w] = note[w]
    BY <2>1 DEF NoticeInv
  <2> QED BY <1>1, <2>1, <2>2, SameFollows
<1> QED BY <1>2, <1>3, <1>4, <1>5 DEF NoticeNext

-----------------------------------------------------------------------------
(* The inbox: rows are in one order, and a page of the oldest is full unless   *)
(* it holds them all. A row is known by how many are older: of n rows these    *)
(* numbers are 0 to n - 1, each once.                                        *)

LEMMA ListingFields ==
    ASSUME NEW x \in Listing
    PROVE  x.at \in Nat /\ x.rule \in Nat /\ x.period \in Period /\ x.period.number \in Nat /\ x.period.every \in Nat
<1>1. x.period \in Period /\ x.at \in Nat /\ x.rule \in Nat
    BY DEF Listing
<1> QED BY <1>1 DEF Period

LEMMA SamePeriod ==
    ASSUME NEW p \in Period, NEW q \in Period, p.number = q.number, p.every = q.every
    PROVE  p = q
BY DEF Period

LEMMA SameRow ==
    ASSUME NEW x \in Listing, NEW y \in Listing, x.at = y.at, x.rule = y.rule, x.period = y.period
    PROVE  x = y
BY DEF Listing

LEMMA RowsAreOrdered ==
    ASSUME NEW a \in Listing, NEW b \in Listing
    PROVE  /\ ~Precedes(a, a)
           /\ a = b \/ Precedes(a, b) \/ Precedes(b, a)
           /\ \A c \in Listing : Precedes(c, a) /\ Precedes(a, b) => Precedes(c, b)
<1>1. \A x \in Listing : /\ x.at \in Nat /\ x.rule \in Nat /\ x.period \in Period
                         /\ x.period.number \in Nat /\ x.period.every \in Nat
    BY ListingFields
<1>2. ~Precedes(a, a)
    BY <1>1 DEF Precedes, KeyBefore
<1>3. ASSUME ~Precedes(a, b), ~Precedes(b, a) PROVE a = b
  <2>1. /\ a.at \in Nat /\ a.rule \in Nat /\ a.period.number \in Nat /\ a.period.every \in Nat
        /\ b.at \in Nat /\ b.rule \in Nat /\ b.period.number \in Nat /\ b.period.every \in Nat
    BY <1>1
  <2>2. a.at = b.at /\ a.rule = b.rule
    BY <1>3, <2>1 DEF Precedes
  <2>3. a.period.number = b.period.number /\ a.period.every = b.period.every
    BY <1>3, <2>1, <2>2 DEF Precedes, KeyBefore
  <2>4. a.period = b.period
    BY <1>1, <2>3, SamePeriod
  <2> QED BY <2>2, <2>4, SameRow
<1>4. ASSUME NEW c \in Listing, Precedes(c, a), Precedes(a, b) PROVE Precedes(c, b)
  <2>1. /\ a.at \in Nat /\ a.rule \in Nat /\ a.period.number \in Nat /\ a.period.every \in Nat
        /\ b.at \in Nat /\ b.rule \in Nat /\ b.period.number \in Nat /\ b.period.every \in Nat
        /\ c.at \in Nat /\ c.rule \in Nat /\ c.period.number \in Nat /\ c.period.every \in Nat
    BY <1>1
  <2>2. CASE c.at = b.at /\ c.rule = b.rule
    <3>1. c.at = a.at /\ c.rule = a.rule
      BY <1>4, <2>1, <2>2 DEF Precedes
    <3>2. KeyBefore(c.period, a.period) /\ KeyBefore(a.period, b.period)
      BY <1>4, <2>1, <2>2, <3>1 DEF Precedes
    <3>3. KeyBefore(c.period, b.period)
      BY <2>1, <3>2 DEF KeyBefore
    <3> QED BY <2>2, <3>3 DEF Precedes
  <2>3. CASE ~(c.at = b.at /\ c.rule = b.rule)
    BY <1>4, <2>1, <2>3 DEF Precedes
  <2> QED BY <2>2, <2>3
<1> QED BY <1>2, <1>3, <1>4

LEMMA OlderAreFewer ==
    ASSUME NEW L \in SUBSET Listing, IsFiniteSet(L), NEW a \in L, NEW b \in L
    PROVE  /\ Cardinality(Older(L, a)) \in 0..(Cardinality(L) - 1)
           /\ Precedes(a, b) => Cardinality(Older(L, a)) < Cardinality(Older(L, b))
<1>1. \A x \in L : /\ Older(L, x) \in SUBSET L /\ x \notin Older(L, x)
                   /\ IsFiniteSet(Older(L, x)) /\ Cardinality(Older(L, x)) \in Nat
    BY RowsAreOrdered, FS_Subset, FS_CardinalityType DEF Older
<1>2. Cardinality(L) \in Nat /\ Cardinality(Older(L, a)) <= Cardinality(L) /\ Cardinality(Older(L, a)) # Cardinality(L)
    BY <1>1, FS_Subset, FS_CardinalityType
<1>3. ASSUME Precedes(a, b) PROVE Cardinality(Older(L, a)) < Cardinality(Older(L, b))
  <2>1. Older(L, a) \in SUBSET Older(L, b) /\ a \in Older(L, b)
    BY <1>3, RowsAreOrdered DEF Older
  <2>2. Older(L, a) # Older(L, b)
    BY <1>1, <2>1
  <2>3. Cardinality(Older(L, a)) <= Cardinality(Older(L, b)) /\ Cardinality(Older(L, a)) # Cardinality(Older(L, b))
    BY <1>1, <2>1, <2>2, FS_Subset
  <2> QED BY <1>1, <2>3
<1> QED BY <1>1, <1>2, <1>3

LEMMA OldestFillThePage ==
    ASSUME NEW L \in SUBSET Listing, IsFiniteSet(L), NEW n \in Nat, NEW e \in L, Cardinality(Older(L, e)) >= n
    PROVE  LET page == {x \in L : Cardinality(Older(L, x)) < n} IN
           /\ Cardinality(page) = n
           /\ \A x \in page : Precedes(x, e)
           /\ Cardinality(L) > n
<1> DEFINE page == {x \in L : Cardinality(Older(L, x)) < n}
           rank == [x \in L |-> Cardinality(Older(L, x))]
           some == [x \in page |-> rank[x]]
           size == Cardinality(L)
<1>1. size \in Nat /\ rank \in [L -> 0..(size - 1)]
    BY OlderAreFewer, FS_CardinalityType
<1>2. \A a, b \in L : Precedes(a, b) => rank[a] < rank[b]
    BY OlderAreFewer
<1>3. rank[e] >= n /\ size > n
    BY <1>1
<1>4. \A a, b \in L : rank[a] = rank[b] => a = b
    BY <1>1, <1>2, RowsAreOrdered
<1>5. rank \in Injection(L, 0..(size - 1))
    BY <1>1, <1>4 DEF Injection, IsInjective
<1>6. IsFiniteSet(0..(size - 1)) /\ Cardinality(0..(size - 1)) = size
    BY <1>1, FS_Interval
<1>7. rank \in Surjection(L, 0..(size - 1))
    BY <1>5, <1>6, FS_Injection
<1>8. page \in SUBSET L /\ \A x \in L : x \in page <=> rank[x] < n
    OBVIOUS
<1> HIDE DEF rank, page, size
<1>9. some \in [page -> 0..(n - 1)] /\ \A a, b \in page : some[a] = some[b] => a = b
    BY <1>1, <1>4, <1>8
<1>10. \A i \in 0..(n - 1) : \E x \in page : some[x] = i
  <2>1. SUFFICES ASSUME NEW i \in 0..(n - 1) PROVE \E x \in page : some[x] = i
    OBVIOUS
  <2>2. i \in 0..(size - 1)
    BY <1>1, <1>3
  <2>3. PICK x \in L : rank[x] = i
    BY <1>7, <2>2 DEF Surjection
  <2> QED BY <1>8, <2>3
<1>11. some \in Injection(page, 0..(n - 1)) /\ some \in Surjection(page, 0..(n - 1))
    BY <1>9, <1>10 DEF Injection, IsInjective, Surjection
<1>12. IsFiniteSet(page) /\ Cardinality(page) = Cardinality(0..(n - 1)) /\ Cardinality(0..(n - 1)) = n
    BY <1>11, FS_Interval, FS_Injection
<1>13. ASSUME NEW x \in page PROVE Precedes(x, e)
  <2>1. x \in L /\ rank[x] < n /\ rank[x] \in Nat /\ rank[e] \in Nat
    BY <1>1, <1>8
  <2> QED BY <1>2, <1>3, <2>1, RowsAreOrdered
<1> QED BY <1>3, <1>12, <1>13 DEF page, size

(* Whoever awaits an answer is on the page, or behind a full one.            *)
LEMMA AwaitingAreListed ==
    ASSUME NoticeInv, NEW f \in pending, f \in Awaiting(notice[f].to), NEW others \in SUBSET Foreign
    PROVE  FoundOrBehind(f, others)
<1> DEFINE to == notice[f].to
           own == {Entry(g) : g \in Awaiting(to)}
           L == Listed(to, others)
<1>1. notice \in [pending -> Notice] /\ pending \subseteq Failure /\ IsFiniteSet(pending)
    BY DEF NoticeInv, IInv, TypeOK
<1>2. \A g \in pending : Entry(g) \in Listing
    BY <1>1, RuleAssumption DEF Entry, Listing, Notice, Failure
<1>3. Awaiting(to) \in SUBSET pending
    BY DEF Awaiting
<1>4. own \in SUBSET Listing /\ IsFiniteSet(own)
  <2>1. IsFiniteSet(Awaiting(to))
    BY <1>1, <1>3, FS_Subset
  <2>2. own \in SUBSET Listing
    BY <1>2, <1>3
  <2>3. \E map \in Surjection(Awaiting(to), own) : TRUE
    <3>1. [g \in Awaiting(to) |-> Entry(g)] \in Surjection(Awaiting(to), own)
      BY DEF Surjection
    <3> QED BY <3>1
  <2> HIDE DEF own
  <2> QED BY <2>1, <2>2, <2>3, FS_Surjection
<1>5. others \in SUBSET Listing /\ IsFiniteSet(others)
    BY InboxAssumption, FS_Subset
<1>6. L = own \cup others /\ Entry(f) \in own
    BY DEF Listed
<1> HIDE DEF own
<1>7. L \in SUBSET Listing /\ IsFiniteSet(L) /\ Entry(f) \in L
    BY <1>4, <1>5, <1>6, FS_Union
<1>8. Inbox(to, others) = {x \in L : Cardinality(Older(L, x)) < MaxNotifications}
    BY DEF Inbox
<1>9. Cardinality(Older(L, Entry(f))) \in Nat /\ MaxNotifications \in Nat
    BY <1>7, OlderAreFewer, InboxAssumption
<1>10. CASE Cardinality(Older(L, Entry(f))) < MaxNotifications
    BY <1>7, <1>8, <1>10 DEF FoundOrBehind
<1>11. CASE Cardinality(Older(L, Entry(f))) >= MaxNotifications
  <2>1. HasMore(to, others) <=> Cardinality(L) > MaxNotifications
    BY DEF HasMore
  <2> DEFINE e == Entry(f)
             page == {x \in L : Cardinality(Older(L, x)) < MaxNotifications}
  <2>2. L \in SUBSET Listing /\ IsFiniteSet(L) /\ e \in L /\ Cardinality(Older(L, e)) >= MaxNotifications
    BY <1>7, <1>11
  <2> HIDE DEF L, e
  <2>3. Cardinality(page) = MaxNotifications /\ Cardinality(L) > MaxNotifications /\ \A x \in page : Precedes(x, e)
    BY <1>9, <2>2, OldestFillThePage
  <2>4. Inbox(to, others) = page
    BY <1>8
  <2> HIDE DEF page, to
  <2>5. /\ Cardinality(Inbox(to, others)) = MaxNotifications /\ Cardinality(L) > MaxNotifications
        /\ \A x \in Inbox(to, others) : Precedes(x, Entry(f))
    BY <2>3, <2>4 DEF e
  <2> QED BY <2>1, <2>5 DEF FoundOrBehind, to
<1> QED BY <1>9, <1>10, <1>11

LEMMA NoticeInvTells == NoticeInv => ToldOnce
<1> SUFFICES ASSUME NoticeInv PROVE ToldOnce
    OBVIOUS
<1>1. /\ DOMAIN notice = pending
      /\ \A f \in pending : notice[f] \in Notice
    BY DEF NoticeInv
<1>2. NoticeTypeOK
    BY <1>1 DEF NoticeInv, NoticeTypeOK, Note, IInv
<1>3. \A f \in DOMAIN mailed : mailed[f] <= 1
    BY DEF NoticeInv, MailHeld
<1>4. ASSUME NEW f \in pending, Told(f), notice[f].to \in readers
      PROVE  \/ f \in DOMAIN mailed /\ mailed[f] = 1
             \/ \A others \in SUBSET Foreign : FoundOrBehind(f, others)
  <2>1. CASE notice[f].state = "email"
    BY <2>1 DEF NoticeInv, MailHeld
  <2>2. CASE notice[f].state # "email"
    <3>1. f \in Awaiting(notice[f].to)
      BY <1>1, <1>4, <2>2 DEF Awaiting, Notice, NoticeState
    <3> QED BY <3>1, AwaitingAreListed
  <2> QED BY <2>1, <2>2
<1> QED BY <1>2, <1>3, <1>4 DEF ToldOnce

(* However handlers die between reading, claiming, mailing and settling: a     *)
(* failure is mailed once at most, an actor who may read the workspace is      *)
(* mailed or finds it in the inbox or behind a full page of older ones, and a  *)
(* mail is only claimed for one who may read the workspace then.              *)
THEOREM NoticesAreTold == NoticeSpec => NoticesReach
<1>1. NoticeInv /\ [NoticeNext]_allVars => NoticeInv'
    BY NoticeStep
<1>2. NoticeInv /\ [NoticeNext]_allVars =>
        [\A f \in pending \cap pending' :
           notice[f].state = "pending" /\ notice'[f].state = "sending" =>
             notice[f].to \in readers /\ Told(f)]_allVars
    BY NoticeStep
<1>3. NoticeSpec => []NoticeInv
    BY <1>1, NoticeInitHolds, PTL DEF NoticeSpec
<1> QED BY <1>2, <1>3, NoticeInvTells, PTL DEF NoticeSpec, NoticesReach, ClaimedForReader

-----------------------------------------------------------------------------
(* Dates: years, and the months of a year.                                   *)

LEMMA Halves == \A y \in Int :
    /\ y \div 4 = (y - 1) \div 4 + (IF y % 4 = 0 THEN 1 ELSE 0)
    /\ y \div 100 = (y - 1) \div 100 + (IF y % 100 = 0 THEN 1 ELSE 0)
    /\ y \div 400 = (y - 1) \div 400 + (IF y % 400 = 0 THEN 1 ELSE 0)
OBVIOUS

LEMMA YearLength ==
    ASSUME NEW y \in Nat
    PROVE  Date(y + 1, 1, 1) = Date(y, 1, 1) + (IF Leap(y) THEN 366 ELSE 365)
<1>1. MonthStart[1] = 0
    BY DEF MonthStart
<1>2. Date(y + 1, 1, 1) = 365 * y + y \div 4 - y \div 100 + y \div 400 + 1
    BY <1>1 DEF Date
<1>3. Date(y, 1, 1) = 365 * (y - 1) + (y - 1) \div 4 - (y - 1) \div 100 + (y - 1) \div 400 + 1
    BY <1>1 DEF Date
<1>4. y % 400 = 0 => y % 100 = 0
    OBVIOUS
<1>5. y % 100 = 0 => y % 4 = 0
    OBVIOUS
<1> QED BY <1>2, <1>3, <1>4, <1>5, Halves DEF Leap

LEMMA YearExists ==
    ASSUME NEW n \in Nat
    PROVE  LET low == (400 * n) \div 146097 IN
           /\ low \in Nat
           /\ Date(low, 1, 1) <= n /\ n < Date(low + 3, 1, 1)
<1>1. MonthStart[1] = 0
    BY DEF MonthStart
<1>2. PICK low \in Nat : low = (400 * n) \div 146097 /\ 146097 * low <= 400 * n /\ 400 * n < 146097 * low + 146097
    OBVIOUS
<1>3. Date(low, 1, 1) <= n
    BY <1>1, <1>2 DEF Date
<1>4. n < Date(low + 3, 1, 1)
    BY <1>1, <1>2 DEF Date
<1> QED BY <1>2, <1>3, <1>4

(* The year of a date is the only one that holds it. *)
LEMMA YearHolds ==
    ASSUME NEW n \in Nat \ {0}
    PROVE  Year(n) \in Nat \ {0} /\ Date(Year(n), 1, 1) <= n /\ n < Date(Year(n) + 1, 1, 1)
<1> DEFINE low == (400 * n) \div 146097
<1>1. low \in Nat /\ Date(low, 1, 1) <= n /\ n < Date(low + 3, 1, 1)
    BY YearExists
<1>2. PICK y \in low..low + 2 : Date(y, 1, 1) <= n /\ n < Date(y + 1, 1, 1)
  <2>1. Date(low, 1, 1) \in Int /\ Date(low + 1, 1, 1) \in Int /\ Date(low + 2, 1, 1) \in Int
      BY <1>1 DEF Date, MonthStart
  <2> HIDE DEF low
  <2>2. CASE n < Date(low + 1, 1, 1)
      BY <1>1, <2>2
  <2>3. CASE ~(n < Date(low + 1, 1, 1)) /\ n < Date(low + 2, 1, 1)
    <3>1. low + 1 \in low..low + 2 /\ low + 1 + 1 = low + 2
        BY <1>1
    <3> QED BY <1>1, <2>1, <2>3, <3>1
  <2>4. CASE ~(n < Date(low + 2, 1, 1))
    <3>1. low + 2 \in low..low + 2 /\ low + 2 + 1 = low + 3
        BY <1>1
    <3> QED BY <1>1, <2>1, <2>4, <3>1
  <2> QED BY <2>2, <2>3, <2>4
<1>3. Year(n) \in low..low + 2 /\ Date(Year(n), 1, 1) <= n /\ n < Date(Year(n) + 1, 1, 1)
    BY <1>2 DEF Year
<1>4. Year(n) # 0
  <2>1. Date(1, 1, 1) = 1
      BY DEF Date, MonthStart
  <2> QED BY <1>3, <2>1
<1> HIDE DEF low
<1> QED BY <1>1, <1>3, <1>4

LEMMA StartsAreNumbers == \A m \in 1..12 : MonthStart[m] \in Nat
BY DEF MonthStart

LEMMA DatesAreNumbers == ASSUME NEW y \in Int, NEW m \in 1..12 PROVE Date(y, m, 1) \in Int
BY StartsAreNumbers DEF Date

LEMMA YearsApart ==
    ASSUME NEW y \in Int, NEW z \in Int, y < z
    PROVE  Date(y + 1, 1, 1) <= Date(z, 1, 1)
<1>1. MonthStart[1] = 0
    BY DEF MonthStart
<1> QED BY <1>1 DEF Date

(* A month ends where the next begins, and the twelfth with the year. *)
LEMMA MonthsTile ==
    ASSUME NEW y \in Nat
    PROVE  /\ \A m \in 1..12 : MonthLength(y, m) \in 28..31
           /\ \A m \in 1..11 : Date(y, m + 1, 1) = Date(y, m, 1) + MonthLength(y, m)
           /\ Date(y + 1, 1, 1) = Date(y, 12, 1) + MonthLength(y, 12)
<1>1. \A m \in 1..12 : MonthLength(y, m) \in 28..31
    BY DEF MonthLength
<1>2. ASSUME NEW m \in 1..11 PROVE Date(y, m + 1, 1) = Date(y, m, 1) + MonthLength(y, m)
  <2> USE DEF MonthStart, MonthLength
  <2>1. MonthStart[m + 1] + (IF m + 1 > 2 /\ Leap(y) THEN 1 ELSE 0)
          = MonthStart[m] + (IF m > 2 /\ Leap(y) THEN 1 ELSE 0) + MonthLength(y, m)
    <3>1. CASE m \in 1..2
        BY <3>1
    <3>2. CASE m \in 3..6
        BY <3>2
    <3>3. CASE m \in 7..9
        BY <3>3
    <3>4. CASE m \in 10..11
        BY <3>4
    <3> QED BY <3>1, <3>2, <3>3, <3>4
  <2> HIDE DEF MonthStart, MonthLength
  <2>2. MonthStart[m + 1] \in Nat /\ MonthStart[m] \in Nat /\ MonthLength(y, m) \in Nat
      BY StartsAreNumbers, <1>1
  <2> QED BY <2>1, <2>2 DEF Date
<1>3. Date(y + 1, 1, 1) = Date(y, 12, 1) + MonthLength(y, 12)
  <2>1. Date(y, 12, 1) = Date(y, 1, 1) + 334 + (IF Leap(y) THEN 1 ELSE 0)
      BY DEF Date, MonthStart
  <2>2. MonthLength(y, 12) = 31
      BY DEF MonthLength
  <2>3. Date(y, 1, 1) \in Int
      BY DatesAreNumbers
  <2> QED BY <2>1, <2>2, <2>3, YearLength
<1> QED BY <1>1, <1>2, <1>3

(* Months counted through: the first day of one, and the month of a date. *)
MonthFirst(k) == Date(k \div 12, 1 + (k % 12), 1)
MonthSize(k)  == MonthLength(k \div 12, 1 + (k % 12))
MonthOf(n)    == 12 * Year(n) + Month(n) - 1

LEMMA MonthsFollow ==
    ASSUME NEW k \in Nat
    PROVE  /\ MonthFirst(k) \in Int /\ MonthSize(k) \in 28..31
           /\ MonthFirst(k + 1) = MonthFirst(k) + MonthSize(k)
<1> DEFINE y == k \div 12
           m == 1 + (k % 12)
<1>1. y \in Nat /\ m \in 1..12 /\ k = 12 * y + m - 1
    OBVIOUS
<1>2. MonthFirst(k) = Date(y, m, 1) /\ MonthSize(k) = MonthLength(y, m)
    BY DEF MonthFirst, MonthSize
<1>3. CASE m = 12
  <2>1. (k + 1) \div 12 = y + 1 /\ 1 + ((k + 1) % 12) = 1
      BY <1>1, <1>3
  <2>2. MonthFirst(k + 1) = Date(y + 1, 1, 1)
      BY <2>1 DEF MonthFirst
  <2> HIDE DEF y, m
  <2> QED BY <1>1, <1>2, <1>3, <2>2, MonthsTile, DatesAreNumbers
<1>4. CASE m # 12
  <2>1. (k + 1) \div 12 = y /\ 1 + ((k + 1) % 12) = m + 1
      BY <1>1, <1>4
  <2>2. MonthFirst(k + 1) = Date(y, m + 1, 1)
      BY <2>1 DEF MonthFirst
  <2> HIDE DEF y, m
  <2>3. m \in 1..11
      BY <1>1, <1>4
  <2>4. Date(y, m, 1) \in Int
    <3>1. y \in Int /\ m \in 1..12
        BY <1>1
    <3> HIDE <1>1
    <3> QED BY <3>1, DatesAreNumbers
  <2>5. MonthLength(y, m) \in 28..31 /\ Date(y, m + 1, 1) = Date(y, m, 1) + MonthLength(y, m)
      BY <1>1, <2>3, MonthsTile
  <2> QED BY <1>2, <2>2, <2>4, <2>5
<1> QED BY <1>3, <1>4

(* Within its year a month lies. *)
LEMMA MonthInYear ==
    ASSUME NEW k \in Nat
    PROVE  /\ Date(k \div 12, 1, 1) <= MonthFirst(k)
           /\ MonthFirst(k + 1) <= Date((k \div 12) + 1, 1, 1)
<1> DEFINE y == k \div 12
           m == 1 + (k % 12)
<1>1. y \in Nat /\ m \in 1..12
    OBVIOUS
<1>2. MonthFirst(k) = Date(y, m, 1) /\ MonthSize(k) = MonthLength(y, m)
    BY DEF MonthFirst, MonthSize
<1> HIDE DEF y, m
<1>3. Date(y, 1, 1) <= Date(y, m, 1)
  <2>1. MonthStart[1] = 0 /\ MonthStart[m] \in Nat
      BY <1>1, StartsAreNumbers DEF MonthStart
  <2> QED BY <1>1, <2>1 DEF Date
<1>4. Date(y, m, 1) + MonthLength(y, m) <= Date(y + 1, 1, 1)
  <2>1. MonthStart[1] = 0 /\ MonthStart[m] \in Nat
      BY <1>1, StartsAreNumbers DEF MonthStart
  <2>2. MonthStart[m] + (IF m > 2 /\ Leap(y) THEN 1 ELSE 0) + MonthLength(y, m) <= IF Leap(y) THEN 366 ELSE 365
    <3> USE DEF MonthStart, MonthLength
    <3>1. CASE m \in 1..3
        BY <3>1
    <3>2. CASE m \in 4..6
        BY <3>2
    <3>3. CASE m \in 7..9
        BY <3>3
    <3>4. CASE m \in 10..12
        BY <3>4
    <3> QED BY <1>1, <3>1, <3>2, <3>3, <3>4
  <2>3. MonthLength(y, m) \in 28..31
      BY <1>1, MonthsTile
  <2>4. Date(y, m, 1) = Date(y, 1, 1) + MonthStart[m] + (IF m > 2 /\ Leap(y) THEN 1 ELSE 0)
      BY <1>1, <2>1 DEF Date
  <2>5. Date(y, 1, 1) \in Int
      BY <1>1, DatesAreNumbers
  <2> QED BY <1>1, <2>1, <2>2, <2>3, <2>4, <2>5, YearLength
<1>5. MonthFirst(k + 1) = MonthFirst(k) + MonthSize(k)
    BY MonthsFollow
<1> QED BY <1>2, <1>3, <1>4, <1>5 DEF y

LEMMA MonthsApart ==
    ASSUME NEW j \in Nat, NEW k \in Nat, j < k
    PROVE  MonthFirst(j + 1) <= MonthFirst(k)
<1> DEFINE y(i) == i \div 12
<1>1. y(j) \in Nat /\ y(k) \in Nat /\ y(j) <= y(k)
    OBVIOUS
<1>2. MonthFirst(j + 1) \in Int /\ MonthFirst(k) \in Int
    BY MonthsFollow
<1>3. CASE y(j) < y(k)
  <2>1. Date(y(j) + 1, 1, 1) <= Date(y(k), 1, 1)
      BY <1>1, <1>3, YearsApart
  <2>2. Date(y(j) + 1, 1, 1) \in Int /\ Date(y(k), 1, 1) \in Int
      BY <1>1, DatesAreNumbers
  <2>3. MonthFirst(j + 1) <= Date(y(j) + 1, 1, 1) /\ Date(y(k), 1, 1) <= MonthFirst(k)
      BY MonthInYear
  <2> HIDE DEF y
  <2> QED BY <1>2, <2>1, <2>2, <2>3
<1>4. CASE y(j) = y(k)
  <2>1. y(j + 1) = y(k)
      BY <1>4
  <2> DEFINE m == 1 + ((j + 1) % 12)
             p == 1 + (k % 12)
  <2>2. m \in 1..12 /\ p \in 1..12 /\ m <= p
      BY <2>1
  <2>3. MonthFirst(j + 1) = Date(y(k), m, 1) /\ MonthFirst(k) = Date(y(k), p, 1)
      BY <2>1 DEF MonthFirst
  <2> HIDE DEF y, m, p
  <2>4. MonthStart[m] <= MonthStart[p]
    <3> USE DEF MonthStart
    <3>1. CASE m \in 1..3
        BY <2>2, <3>1
    <3>2. CASE m \in 4..6
        BY <2>2, <3>2
    <3>3. CASE m \in 7..12
        BY <2>2, <3>3
    <3> QED BY <2>2, <3>1, <3>2, <3>3
  <2>5. MonthStart[m] \in Nat /\ MonthStart[p] \in Nat
      BY <2>2, StartsAreNumbers
  <2> QED BY <1>1, <2>2, <2>3, <2>4, <2>5 DEF Date
<1> QED BY <1>1, <1>3, <1>4

(* The month of a date is the only one that holds it. *)
LEMMA MonthHolds ==
    ASSUME NEW n \in Nat \ {0}
    PROVE  /\ Month(n) \in 1..12 /\ Year(n) \in Nat \ {0}
           /\ Date(Year(n), Month(n), 1) <= n
           /\ n < Date(Year(n), Month(n), 1) + MonthLength(Year(n), Month(n))
<1> DEFINE y == Year(n)
           F(m) == Date(y, m, 1)
           Holds(m) == F(m) <= n /\ n < F(m) + MonthLength(y, m)
<1>1. y \in Nat \ {0} /\ Date(y, 1, 1) <= n /\ n < Date(y + 1, 1, 1)
    BY YearHolds
<1>2. Month(n) = CHOOSE m \in 1..12 : Holds(m)
    BY DEF Month
<1> HIDE DEF y
<1>3. \A m \in 1..12 : F(m) \in Int /\ MonthLength(y, m) \in 28..31
  <2>1. y \in Int
      BY <1>1
  <2>2. \A m \in 1..12 : F(m) \in Int
      BY <2>1, DatesAreNumbers
  <2>3. \A m \in 1..12 : MonthLength(y, m) \in 28..31
      BY <1>1, MonthsTile
  <2> QED BY <2>2, <2>3
<1>4. /\ \A m \in 1..11 : F(m + 1) = F(m) + MonthLength(y, m)
      /\ Date(y + 1, 1, 1) = F(12) + MonthLength(y, 12)
    BY <1>1, MonthsTile
<1>5. \E m \in 1..12 : Holds(m)
  <2> DEFINE later == {m \in 1..12 : n < F(m) + MonthLength(y, m)}
  <2>1. 12 \in later /\ later \subseteq Nat
      BY <1>1, <1>4
  <2>2. PICK m \in later : \A p \in later : m <= p
      BY <2>1, LeastNatural
  <2>3. CASE m = 1
      BY <1>1, <2>2, <2>3
  <2>4. CASE m # 1
    <3>1. m - 1 \in 1..11 /\ m - 1 + 1 = m /\ m - 1 \notin later
        BY <2>2, <2>4
    <3>2. F(m) = F(m - 1) + MonthLength(y, m - 1)
        BY <1>4, <3>1
    <3>3. F(m) <= n
        BY <1>3, <3>1, <3>2
    <3> QED BY <2>2, <3>3
  <2> QED BY <2>3, <2>4
<1>6. Month(n) \in 1..12 /\ Holds(Month(n))
  <2> HIDE DEF Holds
  <2> QED BY <1>2, <1>5
<1> QED BY <1>1, <1>6 DEF y

LEMMA MonthOfHolds ==
    ASSUME NEW n \in Nat \ {0}
    PROVE  /\ MonthOf(n) \in Nat /\ MonthOf(n) >= 12
           /\ Year(n) = MonthOf(n) \div 12 /\ Month(n) = 1 + (MonthOf(n) % 12)
           /\ MonthFirst(MonthOf(n)) <= n /\ n < MonthFirst(MonthOf(n) + 1)
           /\ Day(n) = n - MonthFirst(MonthOf(n)) + 1
           /\ Day(n) \in 1..MonthSize(MonthOf(n))
<1> DEFINE y == Year(n)
           m == Month(n)
           k == MonthOf(n)
<1>1. /\ m \in 1..12 /\ y \in Nat \ {0}
      /\ Date(y, m, 1) <= n /\ n < Date(y, m, 1) + MonthLength(y, m)
    BY MonthHolds
<1>2. k = 12 * y + m - 1
    BY DEF MonthOf
<1>3. Day(n) = n - Date(y, m, 1) + 1
    BY DEF Day
<1> HIDE DEF y, m, k
<1>4. k \in Nat /\ k >= 12 /\ y = k \div 12 /\ m = 1 + (k % 12)
    BY <1>1, <1>2
<1>5. MonthFirst(k) = Date(y, m, 1) /\ MonthSize(k) = MonthLength(y, m)
    BY <1>4 DEF MonthFirst, MonthSize
<1>6. MonthFirst(k) \in Int /\ MonthSize(k) \in 28..31 /\ MonthFirst(k + 1) = MonthFirst(k) + MonthSize(k)
    BY <1>4, MonthsFollow
<1>7. MonthFirst(k) <= n /\ n < MonthFirst(k + 1) /\ Day(n) = n - MonthFirst(k) + 1 /\ Day(n) \in 1..MonthSize(k)
    BY <1>1, <1>3, <1>5, <1>6
<1> QED BY <1>4, <1>7 DEF k, y, m

LEMMA MonthOfIsOne ==
    ASSUME NEW n \in Nat \ {0}, NEW k \in Nat, MonthFirst(k) <= n, n < MonthFirst(k + 1)
    PROVE  MonthOf(n) = k
<1>1. MonthOf(n) \in Nat /\ MonthFirst(MonthOf(n)) <= n /\ n < MonthFirst(MonthOf(n) + 1)
    BY MonthOfHolds
<1>2. \A i \in Nat : MonthFirst(i) \in Int /\ MonthFirst(i + 1) \in Int
    BY MonthsFollow
<1>3. ~(MonthOf(n) < k)
    BY <1>1, <1>2, MonthsApart
<1>4. ~(k < MonthOf(n))
    BY <1>1, <1>2, MonthsApart
<1> QED BY <1>1, <1>3, <1>4

(* A day of a month, that of its end when the month is too short. *)
Clamped(k, d)  == IF d < MonthSize(k) THEN d ELSE MonthSize(k)
DayInMonth(k, d) == MonthFirst(k) + Clamped(k, d) - 1

LEMMA ClampedDay ==
    ASSUME NEW k \in Nat, k >= 12, NEW d \in Nat \ {0}
    PROVE  LET n == DayInMonth(k, d) IN
           /\ n \in Nat \ {0} /\ MonthOf(n) = k /\ Day(n) = Clamped(k, d)
           /\ MonthFirst(k) <= n /\ n < MonthFirst(k + 1)
<1> DEFINE n == DayInMonth(k, d)
<1>1. MonthFirst(k) \in Int /\ MonthSize(k) \in 28..31 /\ MonthFirst(k + 1) = MonthFirst(k) + MonthSize(k)
    BY MonthsFollow
<1>2. Clamped(k, d) \in 1..MonthSize(k)
    BY <1>1 DEF Clamped
<1>3. n \in Int /\ MonthFirst(k) <= n /\ n < MonthFirst(k + 1) /\ n = MonthFirst(k) + Clamped(k, d) - 1
    BY <1>1, <1>2 DEF DayInMonth
<1>4. MonthFirst(k) >= 1
  <2>1. MonthFirst(11 + 1) <= MonthFirst(k)
      BY MonthsApart
  <2>2. MonthFirst(12) = 1
      BY DEF MonthFirst, Date, MonthStart
  <2> QED BY <2>1, <2>2
<1> HIDE DEF n
<1>5. n \in Nat \ {0}
    BY <1>1, <1>3, <1>4
<1>6. MonthOf(n) = k
    BY <1>3, <1>5, MonthOfIsOne
<1>7. Day(n) = Clamped(k, d)
    BY <1>1, <1>2, <1>3, <1>5, <1>6, MonthOfHolds
<1> QED BY <1>3, <1>5, <1>6, <1>7 DEF n

LEMMA LastMonth == MonthFirst(120000) = LastDate + 1
BY DEF MonthFirst, LastDate, Date, MonthStart, Leap

LEMMA MonthsAdvance ==
    ASSUME NEW n \in Nat \ {0}, NEW m \in Nat \ {0}, n <= m
    PROVE  MonthOf(n) <= MonthOf(m)
<1>1. /\ MonthOf(n) \in Nat /\ MonthFirst(MonthOf(n)) <= n
      /\ MonthOf(m) \in Nat /\ m < MonthFirst(MonthOf(m) + 1)
    BY MonthOfHolds
<1>2. MonthFirst(MonthOf(n)) \in Int /\ MonthFirst(MonthOf(m) + 1) \in Int
    BY <1>1, MonthsFollow
<1>3. MonthOf(m) < MonthOf(n) => MonthFirst(MonthOf(m) + 1) <= MonthFirst(MonthOf(n))
    BY <1>1, MonthsApart
<1> QED BY <1>1, <1>2, <1>3

LEMMA MonthAfter ==
    ASSUME NEW n \in Nat \ {0}
    PROVE  MonthOf(n + 1) \in {MonthOf(n), MonthOf(n) + 1}
<1> DEFINE k == MonthOf(n)
<1>1. k \in Nat /\ MonthFirst(k) <= n /\ n < MonthFirst(k + 1)
    BY MonthOfHolds
<1> HIDE DEF k
<1>2. /\ MonthFirst(k) \in Int /\ MonthFirst(k + 1) \in Int /\ MonthFirst(k + 1 + 1) \in Int
      /\ MonthFirst(k + 1) < MonthFirst(k + 1 + 1)
  <2>1. k + 1 \in Nat
      BY <1>1
  <2>2. MonthSize(k + 1) \in 28..31 /\ MonthFirst(k + 1) \in Int /\ MonthFirst(k + 1 + 1) = MonthFirst(k + 1) + MonthSize(k + 1)
      BY <2>1, MonthsFollow
  <2>3. MonthFirst(k) \in Int
      BY <1>1, MonthsFollow
  <2> QED BY <2>2, <2>3
<1>3. CASE n + 1 < MonthFirst(k + 1)
  <2>1. MonthFirst(k) <= n + 1 /\ n + 1 \in Nat \ {0}
      BY <1>1, <1>2
  <2> QED BY <1>1, <1>3, <2>1, MonthOfIsOne DEF k
<1>4. CASE ~(n + 1 < MonthFirst(k + 1))
  <2>1. MonthFirst(k + 1) <= n + 1 /\ n + 1 < MonthFirst(k + 1 + 1) /\ n + 1 \in Nat \ {0} /\ k + 1 \in Nat
      BY <1>1, <1>2, <1>4
  <2> QED BY <2>1, MonthOfIsOne DEF k
<1> QED BY <1>3, <1>4

-----------------------------------------------------------------------------
(* The period of a date, and the day of a period a schedule falls on.        *)

Offset(select) ==
    CASE select.frequency = "monthly"   -> 0
      [] select.frequency = "quarterly" -> select.quarterMonth - 1
      [] select.frequency = "yearly"    -> select.month - 1

PeriodOf(select, n) ==
    IF select.frequency = "weekly" THEN (n - 1) \div 7 ELSE MonthOf(n) \div Step(select)

Fall(select, q) ==
    IF select.frequency = "weekly" THEN 7 * q + select.weekday
    ELSE DayInMonth(Step(select) * q + Offset(select), select.day)

LEMMA SelectorsAreKnown ==
    ASSUME NEW select \in Selectors
    PROVE  \/ select.frequency = "weekly" /\ select.weekday \in 1..7
           \/ /\ select.frequency \in {"monthly", "quarterly", "yearly"} /\ select.day \in 1..31
              /\ \/ select.frequency = "monthly" /\ Step(select) = 1 /\ Offset(select) = 0
                 \/ /\ select.frequency = "quarterly" /\ Step(select) = 3
                    /\ select.quarterMonth \in 1..3 /\ Offset(select) = select.quarterMonth - 1
                 \/ /\ select.frequency = "yearly" /\ Step(select) = 12
                    /\ select.month \in 1..12 /\ Offset(select) = select.month - 1
<1>1. CASE select \in [frequency : {"weekly"}, weekday : 1..7]
    BY <1>1
<1>2. CASE select \in [frequency : {"monthly"}, day : 1..31]
    BY <1>2 DEF Step, Offset
<1>3. CASE select \in [frequency : {"quarterly"}, quarterMonth : 1..3, day : 1..31]
    BY <1>3 DEF Step, Offset
<1>4. CASE select \in [frequency : {"yearly"}, month : 1..12, day : 1..31]
    BY <1>4 DEF Step, Offset
<1> QED BY <1>1, <1>2, <1>3, <1>4 DEF Selectors

LEMMA PeriodsOfMonths ==
    ASSUME NEW select \in Selectors, select.frequency # "weekly"
    PROVE  /\ Step(select) \in {1, 3, 12} /\ Offset(select) \in 0..Step(select) - 1 /\ select.day \in 1..31
           /\ \A k \in Nat : LET q == k \div Step(select) IN
                 q \in Nat /\ Step(select) * q <= k /\ k < Step(select) * q + Step(select)
<1>1. Step(select) \in {1, 3, 12} /\ Offset(select) \in 0..Step(select) - 1 /\ select.day \in 1..31
    BY SelectorsAreKnown
<1>2. ASSUME NEW k \in Nat, NEW p \in {1, 3, 12}
      PROVE  LET q == k \div p IN q \in Nat /\ p * q <= k /\ k < p * q + p
  <2>1. CASE p = 1
      BY <2>1
  <2>2. CASE p = 3
      BY <2>2
  <2>3. CASE p = 12
      BY <2>3
  <2> QED BY <2>1, <2>2, <2>3
<1> QED BY <1>1, <1>2

(* Where a period begins. *)
LEMMA PeriodsAdvance ==
    ASSUME NEW select \in Selectors, NEW n \in Nat \ {0}
    PROVE  /\ PeriodOf(select, n) \in Nat
           /\ PeriodOf(select, n + 1) \in {PeriodOf(select, n), PeriodOf(select, n) + 1}
           /\ \A m \in Nat \ {0} : n <= m => PeriodOf(select, n) <= PeriodOf(select, m)
<1>1. CASE select.frequency = "weekly"
    BY <1>1 DEF PeriodOf
<1>2. CASE select.frequency # "weekly"
  <2> DEFINE p == Step(select)
  <2>1. p \in {1, 3, 12}
      BY <1>2, PeriodsOfMonths
  <2>2. \A m \in Nat \ {0} : PeriodOf(select, m) = MonthOf(m) \div p
      BY <1>2 DEF PeriodOf
  <2> HIDE DEF p
  <2>3. \A m \in Nat \ {0} : MonthOf(m) \in Nat
      BY MonthOfHolds
  <2>4. \A j, k \in Nat : j <= k => j \div p <= k \div p
    <3>1. CASE p = 1
        BY <3>1
    <3>2. CASE p = 3
        BY <3>2
    <3>3. CASE p = 12
        BY <3>3
    <3> QED BY <2>1, <3>1, <3>2, <3>3
  <2>5. \A k \in Nat : k \div p \in Nat /\ (k + 1) \div p \in {k \div p, k \div p + 1}
    <3>1. CASE p = 1
        BY <3>1
    <3>2. CASE p = 3
        BY <3>2
    <3>3. CASE p = 12
        BY <3>3
    <3> QED BY <2>1, <3>1, <3>2, <3>3
  <2>6. PeriodOf(select, n) \in Nat
      BY <2>2, <2>3, <2>5
  <2>7. PeriodOf(select, n + 1) \in {PeriodOf(select, n), PeriodOf(select, n) + 1}
    <3>1. n + 1 \in Nat \ {0}
        OBVIOUS
    <3>2. MonthOf(n + 1) \in {MonthOf(n), MonthOf(n) + 1}
        BY MonthAfter
    <3>3. PeriodOf(select, n + 1) = MonthOf(n + 1) \div p /\ PeriodOf(select, n) = MonthOf(n) \div p /\ MonthOf(n) \in Nat
        BY <2>2, <2>3, <3>1
    <3>4. (MonthOf(n) + 1) \div p \in {MonthOf(n) \div p, MonthOf(n) \div p + 1}
        BY <2>5, <3>3
    <3> QED BY <3>2, <3>3, <3>4
  <2>8. ASSUME NEW m \in Nat \ {0}, n <= m PROVE PeriodOf(select, n) <= PeriodOf(select, m)
      BY <2>2, <2>3, <2>4, <2>8, MonthsAdvance
  <2> QED BY <2>6, <2>7, <2>8
<1> QED BY <1>1, <1>2

LEMMA FallIsInPeriod ==
    ASSUME NEW select \in Selectors, NEW n \in Nat \ {0}, NEW q \in {PeriodOf(select, n), PeriodOf(select, n) + 1}
    PROVE  Fall(select, q) \in Nat \ {0} /\ PeriodOf(select, Fall(select, q)) = q
<1>1. q \in Nat
    BY PeriodsAdvance
<1>2. CASE select.frequency = "weekly"
  <2>1. select.weekday \in 1..7
      BY <1>2, SelectorsAreKnown
  <2>2. Fall(select, q) = 7 * q + select.weekday
      BY <1>2 DEF Fall
  <2>3. PeriodOf(select, Fall(select, q)) = (Fall(select, q) - 1) \div 7
      BY <1>2 DEF PeriodOf
  <2> QED BY <1>1, <2>1, <2>2, <2>3
<1>3. CASE select.frequency # "weekly"
  <2> DEFINE p == Step(select)
             k == p * q + Offset(select)
  <2>1. p \in {1, 3, 12} /\ Offset(select) \in 0..p - 1 /\ select.day \in 1..31
      BY <1>3, PeriodsOfMonths
  <2>2. PeriodOf(select, n) = MonthOf(n) \div p /\ MonthOf(n) \in Nat /\ MonthOf(n) >= 12
      BY <1>3, MonthOfHolds DEF PeriodOf
  <2>3. Fall(select, q) = DayInMonth(k, select.day)
      BY <1>3 DEF Fall
  <2>4. k \in Nat /\ k >= 12 /\ k \div p = q
    <3>1. PICK i \in Nat : i >= 12 /\ (q = i \div p \/ q = i \div p + 1)
        BY <2>2
    <3>2. CASE p = 1
        BY <1>1, <2>1, <3>1, <3>2
    <3>3. CASE p = 3
        BY <1>1, <2>1, <3>1, <3>3
    <3>4. CASE p = 12
        BY <1>1, <2>1, <3>1, <3>4
    <3> QED BY <2>1, <3>2, <3>3, <3>4
  <2> HIDE DEF k, p
  <2>5. Fall(select, q) \in Nat \ {0} /\ MonthOf(Fall(select, q)) = k
    <3>1. k \in Nat /\ k >= 12 /\ select.day \in Nat \ {0}
        BY <2>1, <2>4
    <3>2. DayInMonth(k, select.day) \in Nat \ {0} /\ MonthOf(DayInMonth(k, select.day)) = k
        BY <3>1, ClampedDay
    <3> QED BY <2>3, <3>2
  <2> QED BY <1>3, <2>4, <2>5 DEF PeriodOf, p
<1> QED BY <1>2, <1>3

LEMMA FallsOnOneDay ==
    ASSUME NEW select \in Selectors, NEW n \in Nat \ {0}
    PROVE  Falls_on(select, n) <=> n = Fall(select, PeriodOf(select, n))
<1>1. CASE select.frequency = "weekly"
  <2>1. select.weekday \in 1..7
      BY <1>1, SelectorsAreKnown
  <2>2. Falls_on(select, n) <=> 1 + ((n - 1) % 7) = select.weekday
      BY <1>1 DEF Falls_on, Weekday
  <2>3. Fall(select, PeriodOf(select, n)) = 7 * ((n - 1) \div 7) + select.weekday
      BY <1>1 DEF Fall, PeriodOf
  <2> QED BY <2>1, <2>2, <2>3
<1>2. CASE select.frequency # "weekly"
  <2> DEFINE p == Step(select)
             r == Offset(select)
             d == select.day
             k == MonthOf(n)
             j == p * (k \div p) + r
  <2>1. p \in {1, 3, 12} /\ r \in 0..p - 1 /\ d \in 1..31
      BY <1>2, PeriodsOfMonths
  <2>2. /\ k \in Nat /\ k >= 12 /\ Year(n) = k \div 12 /\ Month(n) = 1 + (k % 12)
        /\ Day(n) = n - MonthFirst(k) + 1
      BY MonthOfHolds
  <2>3. Falls_on(select, n) <=>
           /\ select.frequency = "quarterly" => 1 + ((Month(n) - 1) % 3) = select.quarterMonth
           /\ select.frequency = "yearly" => Month(n) = select.month
           /\ Day(n) = Clamped(k, d)
    <3>1. Clamped(k, d) = IF d < MonthLength(Year(n), Month(n)) THEN d ELSE MonthLength(Year(n), Month(n))
        BY <2>2 DEF Clamped, MonthSize
    <3> QED BY <1>2, <3>1 DEF Falls_on
  <2>4. (select.frequency = "quarterly" => 1 + ((Month(n) - 1) % 3) = select.quarterMonth)
           /\ (select.frequency = "yearly" => Month(n) = select.month) <=> k = j
    <3> HIDE DEF k
    <3>1. CASE select.frequency = "monthly"
        BY <2>2, <3>1, SelectorsAreKnown
    <3>2. CASE select.frequency = "quarterly"
      <4>1. p = 3 /\ select.quarterMonth \in 1..3 /\ r = select.quarterMonth - 1
          BY <3>2, SelectorsAreKnown
      <4> HIDE DEF p, r
      <4>2. (Month(n) - 1) % 3 = k % 3
          BY <2>2
      <4>3. k = 3 * (k \div 3) + (k % 3)
          BY <2>2
      <4> QED BY <2>2, <3>2, <4>1, <4>2, <4>3
    <3>3. CASE select.frequency = "yearly"
      <4>1. p = 12 /\ select.month \in 1..12 /\ r = select.month - 1
          BY <3>3, SelectorsAreKnown
      <4> HIDE DEF p, r
      <4>3. k = 12 * (k \div 12) + (k % 12)
          BY <2>2
      <4> QED BY <2>2, <3>3, <4>1, <4>3
    <3> QED BY <1>2, <3>1, <3>2, <3>3, SelectorsAreKnown
  <2>5. Fall(select, PeriodOf(select, n)) = DayInMonth(j, d)
      BY <1>2 DEF Fall, PeriodOf
  <2>6. k \div p = PeriodOf(select, n) /\ PeriodOf(select, n) \in {PeriodOf(select, n), PeriodOf(select, n) + 1}
      BY <1>2 DEF PeriodOf
  <2>7. j \in Nat /\ j >= 12
    <3> HIDE DEF k, p, r
    <3>1. CASE p = 1
        BY <2>1, <2>2, <3>1
    <3>2. CASE p = 3
        BY <2>1, <2>2, <3>2
    <3>3. CASE p = 12
        BY <2>1, <2>2, <3>3
    <3> QED BY <2>1, <3>1, <3>2, <3>3
  <2>8. MonthOf(DayInMonth(j, d)) = j /\ Day(DayInMonth(j, d)) = Clamped(j, d)
    <3>1. d \in Nat \ {0}
        BY <2>1
    <3>2. PICK i \in Nat : i = j /\ i >= 12
        BY <2>7
    <3> HIDE DEF j, d
    <3>3. MonthOf(DayInMonth(i, d)) = i /\ Day(DayInMonth(i, d)) = Clamped(i, d)
        BY <3>1, <3>2, ClampedDay
    <3> QED BY <3>2, <3>3
  <2>9. n = DayInMonth(j, d) => k = j /\ Day(n) = Clamped(k, d)
      BY <2>8
  <2>10. k = j /\ Day(n) = Clamped(k, d) => n = DayInMonth(j, d)
    <3>1. MonthFirst(k) \in Int /\ MonthSize(k) \in 28..31
        BY <2>2, MonthsFollow
    <3>2. Clamped(k, d) \in Int
        BY <2>1, <3>1 DEF Clamped
    <3> HIDE DEF k, j
    <3> QED BY <2>2, <3>1, <3>2 DEF DayInMonth
  <2> QED BY <2>3, <2>4, <2>5, <2>9, <2>10
<1> QED BY <1>1, <1>2

(* PeriodIndex and PeriodOf count alike. *)
LEMMA IndexCountsPeriods ==
    ASSUME NEW select \in Selectors
    PROVE  \E c \in Nat : \A n \in Nat \ {0} : PeriodIndex(select, n) = PeriodOf(select, n) + c
<1>1. \A n \in Nat \ {0} :
        /\ MonthOf(n) \in Nat /\ Year(n) = MonthOf(n) \div 12 /\ Month(n) = 1 + (MonthOf(n) % 12)
    BY MonthOfHolds
<1>2. CASE select.frequency = "weekly"
  <2>1. \A n \in Nat \ {0} : PeriodIndex(select, n) = PeriodOf(select, n) + 0
      BY <1>2 DEF PeriodIndex, PeriodOf
  <2> QED BY <2>1
<1>3. CASE select.frequency = "monthly"
  <2>1. \A n \in Nat \ {0} : PeriodIndex(select, n) = PeriodOf(select, n) + 1
    <3>1. Step(select) = 1
        BY <1>3, SelectorsAreKnown
    <3> QED BY <1>1, <1>3, <3>1 DEF PeriodIndex, PeriodOf
  <2> QED BY <2>1
<1>4. CASE select.frequency = "quarterly"
  <2>1. \A n \in Nat \ {0} : PeriodIndex(select, n) = PeriodOf(select, n) + 0
    <3>1. Step(select) = 3
        BY <1>4, SelectorsAreKnown
    <3>2. \A k \in Nat : (k \div 12) * 4 + (1 + (k % 12) - 1) \div 3 = k \div 3
        OBVIOUS
    <3> QED BY <1>1, <1>4, <3>1, <3>2 DEF PeriodIndex, PeriodOf
  <2> QED BY <2>1
<1>5. CASE select.frequency = "yearly"
  <2>1. \A n \in Nat \ {0} : PeriodIndex(select, n) = PeriodOf(select, n) + 0
    <3>1. Step(select) = 12
        BY <1>5, SelectorsAreKnown
    <3> QED BY <1>1, <1>5, <3>1 DEF PeriodIndex, PeriodOf
  <2> QED BY <2>1
<1> QED BY <1>2, <1>3, <1>4, <1>5, SelectorsAreKnown

LEMMA WeeksDiffer ==
    ASSUME NEW n \in Nat \ {0}, NEW m \in Nat \ {0}
    PROVE  IsoWeek(n) = IsoWeek(m) <=> (n - 1) \div 7 = (m - 1) \div 7
<1> DEFINE thursday(i) == i - Weekday(i) + 4
           first(i)    == Date(Year(thursday(i)), 1, 1)
           week(i)     == (thursday(i) - first(i)) \div 7 + 1
<1>1. \A i \in Nat \ {0} : thursday(i) = 7 * ((i - 1) \div 7) + 4
    BY DEF Weekday
<1>2. \A i \in Nat \ {0} : thursday(i) \in Nat \ {0}
    BY <1>1
<1>3. \A i : IsoWeek(i) = <<Year(thursday(i)), week(i)>>
    BY DEF IsoWeek
<1>4. (n - 1) \div 7 = (m - 1) \div 7 => IsoWeek(n) = IsoWeek(m)
  <2>1. (n - 1) \div 7 = (m - 1) \div 7 => thursday(n) = thursday(m)
      BY <1>1
  <2> HIDE DEF thursday
  <2> QED BY <1>3, <2>1
<1>5. ASSUME IsoWeek(n) = IsoWeek(m) PROVE (n - 1) \div 7 = (m - 1) \div 7
  <2>1. Year(thursday(n)) = Year(thursday(m)) /\ week(n) = week(m)
      BY <1>3, <1>5
  <2>2. PICK f \in Int : first(n) = f /\ first(m) = f
    <3>1. first(n) = first(m)
        BY <2>1
    <3>2. Year(thursday(n)) \in Int
        BY <1>2, YearHolds
    <3>3. first(n) \in Int
      <4> HIDE DEF thursday
      <4> QED BY <3>2, DatesAreNumbers
    <3> QED BY <3>1, <3>3
  <2>3. (thursday(n) - f) \div 7 = (thursday(m) - f) \div 7
    <3>1. (thursday(n) - f) \div 7 \in Int /\ (thursday(m) - f) \div 7 \in Int
      <4> HIDE DEF thursday
      <4> QED BY <1>2
    <3> HIDE DEF thursday
    <3> QED BY <2>1, <2>2, <3>1
  <2> DEFINE a == (n - 1) \div 7
             b == (m - 1) \div 7
  <2>4. a \in Nat /\ b \in Nat /\ thursday(n) = 7 * a + 4 /\ thursday(m) = 7 * b + 4
      BY <1>1
  <2> HIDE DEF a, b, thursday
  <2>5. a = b
      BY <2>3, <2>4
  <2> QED BY <2>5 DEF a, b
<1> QED BY <1>4, <1>5

(* Two dates have the same key exactly when they lie in the same period.     *)
LEMMA KeysTellPeriods ==
    ASSUME NEW s, s.select \in Selectors, NEW n \in Nat \ {0}, NEW m \in Nat \ {0}
    PROVE  period_key(s, n) = period_key(s, m) <=> PeriodOf(s.select, n) = PeriodOf(s.select, m)
<1> DEFINE Is(i) == /\ MonthOf(i) \in Nat /\ Year(i) = MonthOf(i) \div 12
                    /\ Month(i) = 1 + (MonthOf(i) % 12)
<1>1. Is(n) /\ Is(m)
    BY MonthOfHolds
<1>2. CASE s.select.frequency = "weekly"
    BY <1>2, WeeksDiffer DEF period_key, PeriodOf
<1>3. CASE s.select.frequency = "monthly"
  <2>1. Step(s.select) = 1
      BY <1>3, SelectorsAreKnown
  <2>2. PeriodOf(s.select, n) = MonthOf(n) /\ PeriodOf(s.select, m) = MonthOf(m)
      BY <1>1, <1>3, <2>1 DEF PeriodOf
  <2>3. period_key(s, n) = <<Year(n), Month(n)>> /\ period_key(s, m) = <<Year(m), Month(m)>>
      BY <1>3 DEF period_key
  <2> QED BY <1>1, <2>2, <2>3
<1>4. CASE s.select.frequency = "quarterly"
  <2>1. Step(s.select) = 3
      BY <1>4, SelectorsAreKnown
  <2>2. PeriodOf(s.select, n) = MonthOf(n) \div 3 /\ PeriodOf(s.select, m) = MonthOf(m) \div 3
      BY <1>4, <2>1 DEF PeriodOf
  <2>3. /\ period_key(s, n) = <<Year(n), (Month(n) - 1) \div 3 + 1>>
        /\ period_key(s, m) = <<Year(m), (Month(m) - 1) \div 3 + 1>>
      BY <1>4 DEF period_key
  <2>4. \A k \in Nat : (1 + (k % 12) - 1) \div 3 = (k \div 3) - 4 * (k \div 12) /\ k \div 12 = (k \div 3) \div 4
      OBVIOUS
  <2> QED BY <1>1, <2>2, <2>3, <2>4
<1>5. CASE s.select.frequency = "yearly"
  <2>1. Step(s.select) = 12
      BY <1>5, SelectorsAreKnown
  <2>2. PeriodOf(s.select, n) = MonthOf(n) \div 12 /\ PeriodOf(s.select, m) = MonthOf(m) \div 12
      BY <1>5, <2>1 DEF PeriodOf
  <2>3. period_key(s, n) = <<Year(n)>> /\ period_key(s, m) = <<Year(m)>>
      BY <1>5 DEF period_key
  <2> QED BY <1>1, <2>2, <2>3
<1> QED BY <1>2, <1>3, <1>4, <1>5, SelectorsAreKnown

LEMMA MonthDayIs ==
    ASSUME NEW k \in Nat, k >= 12, NEW d \in Nat \ {0}
    PROVE  MonthDay(k \div 12, 1 + (k % 12), d) = Existing(DayInMonth(k, d))
<1> DEFINE y == k \div 12
           m == 1 + (k % 12)
           c == Clamped(k, d)
<1>1. y \in Nat /\ m \in 1..12
    OBVIOUS
<1>2. MonthFirst(k) = Date(y, m, 1) /\ c = IF d < MonthLength(y, m) THEN d ELSE MonthLength(y, m)
    BY DEF MonthFirst, MonthSize, Clamped
<1>3. Date(y, m, c) = DayInMonth(k, d)
  <2>1. c \in Int /\ Date(y, m, 1) \in Int /\ MonthStart[m] \in Nat
    <3>1. MonthLength(y, m) \in 28..31
        BY <1>1, MonthsTile
    <3>2. c \in Int
        BY <1>2, <3>1
    <3>4. y \in Int /\ m \in 1..12
        BY <1>1
    <3> HIDE DEF y, m, c
    <3>3. Date(y, m, 1) \in Int
        BY <3>4, DatesAreNumbers
    <3> QED BY <1>1, <3>2, <3>3, StartsAreNumbers
  <2>2. DayInMonth(k, d) = Date(y, m, 1) + c - 1
      BY <1>2 DEF DayInMonth
  <2> HIDE DEF y, m, c
  <2> QED BY <1>1, <2>1, <2>2 DEF Date
<1>4. y > 9999 <=> DayInMonth(k, d) > LastDate
  <2>1. /\ DayInMonth(k, d) \in Nat /\ MonthFirst(k) <= DayInMonth(k, d) /\ DayInMonth(k, d) < MonthFirst(k + 1)
        /\ MonthFirst(k) \in Int /\ MonthFirst(k + 1) \in Int
      BY ClampedDay, MonthsFollow
  <2>2. PICK h \in Nat : h = 120000
      OBVIOUS
  <2>3. /\ MonthFirst(h) = LastDate + 1 /\ LastDate \in Int /\ MonthFirst(h) < MonthFirst(h + 1)
        /\ MonthFirst(h + 1) \in Int
    <3>1. LastDate \in Int
        BY DEF LastDate, Date, MonthStart
    <3>2. MonthFirst(h + 1) = MonthFirst(h) + MonthSize(h) /\ MonthSize(h) \in 28..31
        BY MonthsFollow
    <3>3. MonthFirst(h) = LastDate + 1
        BY <2>2, LastMonth
    <3> HIDE <2>2
    <3> QED BY <3>1, <3>2, <3>3
  <2>4. CASE k >= h
    <3>1. y > 9999
        BY <2>2, <2>4
    <3> HIDE <2>2
    <3>2. MonthFirst(h) <= MonthFirst(k)
      <4>1. k > h => MonthFirst(h + 1) <= MonthFirst(k)
          BY MonthsApart
      <4>2. k = h => MonthFirst(h) <= MonthFirst(k)
          BY <2>3
      <4> QED BY <2>1, <2>3, <2>4, <4>1, <4>2
    <3> QED BY <2>1, <2>3, <3>1, <3>2
  <2>5. CASE k < h
    <3>1. ~(y > 9999)
        BY <2>2, <2>5
    <3>2. MonthFirst(k + 1) <= MonthFirst(h)
        BY <2>5, MonthsApart
    <3> QED BY <2>1, <2>3, <3>1, <3>2
  <2> QED BY <2>2, <2>4, <2>5
<1> HIDE DEF y, m, c
<1> QED BY <1>2, <1>3, <1>4 DEF MonthDay, Existing, y, m, c

(* The first day from n on that the schedule falls on. *)
NextFall(select, n) ==
    LET q == PeriodOf(select, n) IN
    IF Fall(select, q) >= n THEN Fall(select, q) ELSE Fall(select, q + 1)

LEMMA FallsAhead ==
    ASSUME NEW select \in Selectors, NEW n \in Nat \ {0}
    PROVE  LET q == PeriodOf(select, n) IN
           /\ q \in Nat /\ Fall(select, q) \in Nat \ {0} /\ Fall(select, q + 1) \in Nat \ {0}
           /\ PeriodOf(select, Fall(select, q)) = q /\ PeriodOf(select, Fall(select, q + 1)) = q + 1
           /\ Fall(select, q) < Fall(select, q + 1) /\ n < Fall(select, q + 1)
           /\ NextFall(select, n) \in Nat \ {0} /\ NextFall(select, n) >= n
<1> DEFINE q == PeriodOf(select, n)
           f == Fall(select, q)
           g == Fall(select, q + 1)
<1>1. q \in Nat
    BY PeriodsAdvance
<1>2. f \in Nat \ {0} /\ PeriodOf(select, f) = q
    BY FallIsInPeriod
<1>3. g \in Nat \ {0} /\ PeriodOf(select, g) = q + 1
    BY FallIsInPeriod
<1>4. NextFall(select, n) = IF f >= n THEN f ELSE g
    BY DEF NextFall
<1>5. \A m \in Nat \ {0} : PeriodOf(select, m) <= q => m < g
  <2> SUFFICES ASSUME NEW m \in Nat \ {0}, PeriodOf(select, m) <= q, ~(m < g) PROVE FALSE
      OBVIOUS
  <2>1. g <= m
      BY <1>3
  <2>2. PeriodOf(select, g) <= PeriodOf(select, m) /\ PeriodOf(select, m) \in Nat
      BY <1>3, <2>1, PeriodsAdvance
  <2> HIDE DEF q, g
  <2> QED BY <1>1, <1>3, <2>2
<1>6. PeriodOf(select, n) <= q /\ PeriodOf(select, f) <= q
    BY <1>1, <1>2
<1>7. f < g /\ n < g
    BY <1>2, <1>5, <1>6
<1> HIDE DEF f, g
<1>8. NextFall(select, n) \in Nat \ {0} /\ NextFall(select, n) >= n
    BY <1>2, <1>3, <1>4, <1>7
<1> QED BY <1>1, <1>2, <1>3, <1>7, <1>8 DEF f, g

LEMMA FirstMonthDayIs ==
    ASSUME NEW select \in Selectors, select.frequency # "weekly", NEW n \in 1..LastDate
    PROVE  FirstMonthDay(select, n) = Existing(NextFall(select, n))
<1> DEFINE y == Year(n)
           m == MonthIn(select, n)
           k == MonthOf(n)
           p == Step(select)
           d == select.day
           q == PeriodOf(select, n)
           j == p * q + Offset(select)
<1>0. n \in Nat \ {0} /\ LastDate \in Nat
    BY DEF LastDate, Date, MonthStart
<1>1. p \in {1, 3, 12} /\ Offset(select) \in 0..p - 1 /\ d \in 1..31 /\ q = k \div p
    BY PeriodsOfMonths DEF PeriodOf
<1>2. /\ k \in Nat /\ k >= 12 /\ y = k \div 12 /\ Month(n) = 1 + (k % 12)
      /\ MonthFirst(k) <= n /\ n < MonthFirst(k + 1)
    BY <1>0, MonthOfHolds
<1>3. j \in Nat /\ j >= 12 /\ j \div 12 = y /\ 1 + (j % 12) = m
  <2>1. CASE select.frequency = "monthly"
    <3>1. p = 1 /\ Offset(select) = 0
        BY <2>1, SelectorsAreKnown
    <3>2. m = Month(n)
        BY <2>1 DEF MonthIn
    <3> HIDE DEF p, k, m, y
    <3> QED BY <1>1, <1>2, <3>1, <3>2
  <2>2. CASE select.frequency = "quarterly"
    <3>1. p = 3 /\ select.quarterMonth \in 1..3 /\ Offset(select) = select.quarterMonth - 1
        BY <2>2, SelectorsAreKnown
    <3>2. m = ((Month(n) - 1) \div 3) * 3 + select.quarterMonth
        BY <2>2 DEF MonthIn
    <3> HIDE DEF p, k, m, y
    <3>3. PICK a \in 1..3 : select.quarterMonth = a
        BY <3>1
    <3>4. \A i \in Nat : 3 * ((1 + (i % 12) - 1) \div 3) = 3 * (i \div 3) - 12 * (i \div 12)
        OBVIOUS
    <3>5. \A i \in Nat : LET v == 3 * (i \div 3) + a - 1 IN
              i >= 12 => v \in Nat /\ v >= 12 /\ v \div 12 = i \div 12
        OBVIOUS
    <3>6. j = 3 * (k \div 3) + a - 1
        BY <1>1, <1>2, <3>1, <3>3
    <3>7. j \in Nat /\ j >= 12 /\ j \div 12 = y
        BY <1>2, <3>5, <3>6
    <3>8. m = 3 * (k \div 3) - 12 * y + a
        BY <1>2, <3>2, <3>3, <3>4
    <3>9. m = j - 12 * y + 1
      <4>1. PICK x \in Nat : x = k \div 3
          BY <1>2
      <4>2. y \in Nat
          BY <1>2
      <4> HIDE DEF j
      <4> QED BY <3>6, <3>8, <4>1, <4>2
    <3> HIDE DEF j
    <3> QED BY <3>7, <3>9
  <2>3. CASE select.frequency = "yearly"
    <3>1. p = 12 /\ select.month \in 1..12 /\ Offset(select) = select.month - 1
        BY <2>3, SelectorsAreKnown
    <3>2. m = select.month
        BY <2>3 DEF MonthIn
    <3> HIDE DEF p, k, m, y
    <3> QED BY <1>1, <1>2, <3>1, <3>2
  <2> QED BY <2>1, <2>2, <2>3, SelectorsAreKnown
<1>4. d \in Nat \ {0}
    BY <1>1
<1> DEFINE first == MonthDay(y, m, d)
           later == MonthShift(y, m, p)
<1>5. first = Existing(DayInMonth(j, d))
  <2> HIDE DEF j, y, m
  <2> QED BY <1>3, <1>4, MonthDayIs
<1>6. Fall(select, q) = DayInMonth(j, d) /\ Fall(select, q + 1) = DayInMonth(j + p, d)
  <2>1. p * (q + 1) + Offset(select) = j + p
      BY <1>1, <1>2
  <2> QED BY <2>1 DEF Fall
<1>7. MonthDay(later[1], later[2], d) = Existing(DayInMonth(j + p, d))
  <2>1. later = <<(y * 12 + m - 1 + p) \div 12, 1 + ((y * 12 + m - 1 + p) % 12)>>
      BY DEF MonthShift
  <2>2. y * 12 + m - 1 + p = j + p /\ j + p \in Nat /\ j + p >= 12
    <3> HIDE DEF j, m, k, p
    <3> QED BY <1>1, <1>3
  <2>3. later[1] = (j + p) \div 12 /\ later[2] = 1 + ((j + p) % 12)
    <3> HIDE DEF j, p, y, m
    <3> QED BY <2>1, <2>2
  <2> HIDE DEF j, p, later
  <2> QED BY <1>4, <2>2, <2>3, MonthDayIs
<1>8. first = DayInMonth(j, d) /\ DayInMonth(j, d) \in Nat
  <2>1. y <= 9999
    <3>2. MonthFirst(k) <= LastDate /\ MonthFirst(k) \in Int
        BY <1>0, <1>2, MonthsFollow
    <3>3. PICK h \in Nat : h = 120000
        OBVIOUS
    <3>4. MonthFirst(h) = LastDate + 1 /\ MonthFirst(h + 1) = MonthFirst(h) + MonthSize(h) /\ MonthSize(h) \in 28..31
        BY <3>3, LastMonth, MonthsFollow
    <3>5. k # h
        BY <1>0, <3>2, <3>4
    <3>6. ~(h < k)
      <4> HIDE <3>3 DEF k
      <4>1. h < k => MonthFirst(h + 1) <= MonthFirst(k)
          BY <1>2, MonthsApart
      <4> QED BY <1>0, <3>2, <3>4, <4>1
    <3>7. k < 120000
      <4> HIDE DEF k
      <4> QED BY <1>2, <3>3, <3>5, <3>6
    <3> HIDE DEF k, y
    <3> QED BY <1>2, <3>7
  <2> HIDE DEF j, y, m
  <2>3. DayInMonth(j, d) \in Nat
      BY <1>3, <1>4, ClampedDay
  <2>4. first = Date(y, m, IF d < MonthLength(y, m) THEN d ELSE MonthLength(y, m))
    <3>1. ~(y > 9999)
      <4>1. y \in Nat
          BY <1>3
      <4> QED BY <2>1, <4>1
    <3> QED BY <3>1 DEF MonthDay
  <2>5. Date(y, m, IF d < MonthLength(y, m) THEN d ELSE MonthLength(y, m)) = DayInMonth(j, d)
    <3>1. m \in 1..12 /\ y \in Int /\ y \in Nat
        BY <1>3
    <3>2. MonthStart[m] \in Nat /\ MonthLength(y, m) \in 28..31
        BY <3>1, StartsAreNumbers, MonthsTile
    <3>3. MonthFirst(j) = Date(y, m, 1) /\ MonthSize(j) = MonthLength(y, m)
        BY <1>3 DEF MonthFirst, MonthSize
    <3> QED BY <1>4, <3>1, <3>2, <3>3 DEF DayInMonth, Clamped, Date
  <2> QED BY <2>3, <2>4, <2>5
<1>9. FirstMonthDay(select, n) = IF first >= n THEN first ELSE MonthDay(later[1], later[2], d)
    BY DEF FirstMonthDay
<1>10. NextFall(select, n) = IF DayInMonth(j, d) >= n THEN DayInMonth(j, d) ELSE DayInMonth(j + p, d)
    BY <1>6 DEF NextFall
<1> HIDE DEF first, later, j
<1> QED BY <1>5, <1>7, <1>8, <1>9, <1>10

LEMMA ScheduleIs ==
    ASSUME NEW s, ScheduleInput(s)
    PROVE  /\ s.select \in Selectors /\ s.start \in 1..LastDate /\ s.start \in Nat \ {0}
           /\ LastDate \in Nat \ {0} /\ None \notin Int
           /\ s.end # None => s.end \in Nat /\ s.start <= s.end
<1>1. LastDate \in Nat \ {0}
    BY DEF LastDate, Date, MonthStart
<1> QED BY <1>1, CalendarAssumption DEF ScheduleInput

(* What next_occurrence finds, in one expression. *)
LEMMA NextIs ==
    ASSUME NEW s, ScheduleInput(s), NEW from \in 1..LastDate + 1
    PROVE  LET g == NextFall(s.select, IF from < s.start THEN s.start ELSE from) IN
           next_occurrence(s, from) = IF Over(s, g) THEN None ELSE g
<1> DEFINE c == IF from < s.start THEN s.start ELSE from
           g == NextFall(s.select, c)
           raw == IF c > LastDate THEN None
                  ELSE IF s.select.frequency = "weekly"
                  THEN Existing(c + ((s.select.weekday - Weekday(c)) % 7))
                  ELSE FirstMonthDay(s.select, c)
<1>1. /\ s.select \in Selectors /\ s.start \in 1..LastDate /\ LastDate \in Nat \ {0} /\ None \notin Int
      /\ s.end # None => s.end \in Nat
    BY ScheduleIs
<1>2. c \in Nat \ {0} /\ c \in 1..LastDate + 1
    BY <1>1
<1>3. next_occurrence(s, from) = IF raw # None /\ s.end # None /\ raw > s.end THEN None ELSE raw
    BY DEF next_occurrence
<1> HIDE DEF c
<1>4. g \in Nat \ {0} /\ g >= c
    BY <1>1, <1>2, FallsAhead
<1>5. raw = Existing(g)
  <2>1. CASE c > LastDate
      BY <1>1, <1>2, <1>4, <2>1 DEF Existing
  <2>2. CASE ~(c > LastDate) /\ s.select.frequency = "weekly"
    <3>1. PICK w \in 1..7 : s.select.weekday = w
        BY <1>1, <2>2, SelectorsAreKnown
    <3>2. raw = Existing(c + ((w - (1 + ((c - 1) % 7))) % 7))
        BY <2>2, <3>1 DEF Weekday
    <3> DEFINE f == 7 * ((c - 1) \div 7) + w
    <3>3. g = IF f >= c THEN f ELSE 7 * ((c - 1) \div 7 + 1) + w
        BY <2>2, <3>1 DEF NextFall, Fall, PeriodOf
    <3>4. c + ((w - (1 + ((c - 1) % 7))) % 7) = IF f >= c THEN f ELSE f + 7
        BY <1>2
    <3>5. 7 * ((c - 1) \div 7 + 1) + w = f + 7
        BY <1>2
    <3> HIDE DEF f, g
    <3> QED BY <3>2, <3>3, <3>4, <3>5
  <2>3. CASE ~(c > LastDate) /\ s.select.frequency # "weekly"
    <3>1. c \in 1..LastDate
        BY <1>1, <1>2, <2>3
    <3>2. raw = FirstMonthDay(s.select, c)
        BY <2>3
    <3> HIDE DEF raw
    <3> QED BY <1>1, <2>3, <3>1, <3>2, FirstMonthDayIs
  <2> QED BY <2>1, <2>2, <2>3
<1> HIDE DEF raw, g
<1>6. next_occurrence(s, from) = IF Over(s, g) THEN None ELSE g
    BY <1>1, <1>3, <1>4, <1>5 DEF Existing, Over
<1> QED BY <1>6 DEF g, c

(* From one day to the next the first fall stays, unless it was that day. *)
LEMMA FallStays ==
    ASSUME NEW select \in Selectors, NEW n \in Nat \ {0}
    PROVE  NextFall(select, n) = IF Falls_on(select, n) THEN n ELSE NextFall(select, n + 1)
<1> DEFINE q == PeriodOf(select, n)
           f == Fall(select, q)
           g == Fall(select, q + 1)
<1>1. /\ q \in Nat /\ f \in Nat /\ g \in Nat /\ f < g /\ n < g
      /\ PeriodOf(select, f) = q /\ f # 0
    BY FallsAhead
<1>2. Falls_on(select, n) <=> n = f
    BY FallsOnOneDay
<1>3. NextFall(select, n) = IF f >= n THEN f ELSE g
    BY DEF NextFall
<1>4. CASE PeriodOf(select, n + 1) = q
  <2>1. NextFall(select, n + 1) = IF f >= n + 1 THEN f ELSE g
      BY <1>4 DEF NextFall
  <2> HIDE DEF f, g, q
  <2> QED BY <1>1, <1>2, <1>3, <2>1
<1>5. CASE PeriodOf(select, n + 1) = q + 1
  <2>1. NextFall(select, n + 1) = IF g >= n + 1 THEN g ELSE Fall(select, q + 1 + 1)
      BY <1>5 DEF NextFall
  <2>2. ~(f >= n + 1)
    <3>1. f >= n + 1 => PeriodOf(select, n + 1) <= PeriodOf(select, f)
        BY <1>1, PeriodsAdvance
    <3> HIDE DEF f, q
    <3> QED BY <1>1, <1>5, <3>1
  <2> HIDE DEF f, g, q
  <2> QED BY <1>1, <1>2, <1>3, <2>1, <2>2
<1> QED BY <1>4, <1>5, PeriodsAdvance

(* next_occurrence is the first date, from a day on, that the schedule falls on: *)
(* for every schedule schedule_input accepts and every date there is, short    *)
(* months, leap days, both ends of the schedule and the year 9999 included.   *)
THEOREM FirstIsFound == NextIsFirst
<1> SUFFICES ASSUME NEW s \in Schedules, NEW n \in Window
             PROVE  next_occurrence(s, n) =
                        IF Over(s, n) THEN None
                        ELSE IF n >= s.start /\ Falls_on(s.select, n) THEN n ELSE next_occurrence(s, n + 1)
    BY DEF NextIsFirst
<1>1. ScheduleInput(s) /\ n \in 1..LastDate
    BY CalendarAssumption
<1>2. /\ s.select \in Selectors /\ s.start \in 1..LastDate /\ LastDate \in Nat \ {0} /\ None \notin Int
      /\ s.end # None => s.end \in Nat
    BY <1>1, ScheduleIs
<1> DEFINE c(m) == IF m < s.start THEN s.start ELSE m
           g(m) == NextFall(s.select, c(m))
<1>3. /\ next_occurrence(s, n) = IF Over(s, g(n)) THEN None ELSE g(n)
      /\ next_occurrence(s, n + 1) = IF Over(s, g(n + 1)) THEN None ELSE g(n + 1)
  <2>1. n \in 1..LastDate + 1 /\ n + 1 \in 1..LastDate + 1
      BY <1>1, <1>2
  <2> QED BY <1>1, <2>1, NextIs
<1>4. c(n) \in Nat \ {0} /\ c(n) >= n /\ n \in Nat \ {0}
    BY <1>1, <1>2
<1>5. g(n) \in Nat \ {0} /\ g(n) >= n
  <2>1. g(n) \in Nat \ {0} /\ g(n) >= c(n)
    <3> HIDE DEF c
    <3> QED BY <1>2, <1>4, FallsAhead
  <2> HIDE DEF g, c
  <2> QED BY <1>4, <2>1
<1>6. g(n) = IF n >= s.start /\ Falls_on(s.select, n) THEN n ELSE g(n + 1)
  <2>1. CASE n < s.start
    <3>1. c(n) = c(n + 1) /\ ~(n >= s.start)
        BY <1>1, <1>2, <2>1
    <3> QED BY <3>1
  <2>2. CASE ~(n < s.start)
    <3>1. c(n) = n /\ c(n + 1) = n + 1 /\ n >= s.start
        BY <1>1, <1>2, <2>2
    <3> QED BY <1>2, <1>4, <3>1, FallStays
  <2> QED BY <2>1, <2>2
<1> HIDE DEF g, c
<1>7. CASE Over(s, n)
  <2>1. Over(s, g(n))
      BY <1>2, <1>4, <1>5, <1>7 DEF Over
  <2> QED BY <1>3, <1>7, <2>1
<1>8. CASE ~Over(s, n)
  <2>1. CASE n >= s.start /\ Falls_on(s.select, n)
      BY <1>3, <1>6, <1>8, <2>1
  <2>2. CASE ~(n >= s.start /\ Falls_on(s.select, n))
      BY <1>3, <1>6, <1>8, <2>2
  <2> QED BY <2>1, <2>2
<1> QED BY <1>7, <1>8

(* What following_occurrence finds: the fall of the very next period. *)
LEMMA FollowingIs ==
    ASSUME NEW s, ScheduleInput(s), NEW n \in s.start..LastDate
    PROVE  LET g == Fall(s.select, PeriodOf(s.select, n) + 1) IN
           following_occurrence(s, n) = IF Over(s, g) THEN None ELSE g
<1> DEFINE q == PeriodOf(s.select, n)
           f == Fall(s.select, q)
           g == Fall(s.select, q + 1)
           r == NextFall(s.select, n + 1)
           next == next_occurrence(s, n + 1)
<1>1. /\ s.select \in Selectors /\ s.start \in 1..LastDate /\ LastDate \in Nat \ {0} /\ None \notin Int
      /\ s.end # None => s.end \in Nat
    BY ScheduleIs
<1>2. n \in Nat \ {0} /\ n + 1 \in Nat \ {0} /\ n + 1 \in 1..LastDate + 1 /\ ~(n + 1 < s.start)
    BY <1>1
<1>3. /\ q \in Nat /\ f \in Nat \ {0} /\ g \in Nat \ {0} /\ f < g /\ n < g
      /\ PeriodOf(s.select, f) = q /\ PeriodOf(s.select, g) = q + 1
    BY <1>1, <1>2, FallsAhead
<1>4. next = IF Over(s, r) THEN None ELSE r
    BY <1>2, NextIs
<1>5. r = IF f >= n + 1 THEN f ELSE g
  <2>1. CASE PeriodOf(s.select, n + 1) = q
      BY <2>1 DEF NextFall
  <2>2. CASE PeriodOf(s.select, n + 1) = q + 1
    <3>1. r = IF g >= n + 1 THEN g ELSE Fall(s.select, q + 1 + 1)
        BY <2>2 DEF NextFall
    <3>2. ~(f >= n + 1)
      <4>1. f >= n + 1 => PeriodOf(s.select, n + 1) <= PeriodOf(s.select, f)
          BY <1>1, <1>2, <1>3, PeriodsAdvance
      <4> HIDE DEF f, q
      <4> QED BY <1>3, <2>2, <4>1
    <3> HIDE DEF f, g, q, r
    <3> QED BY <1>2, <1>3, <3>1, <3>2
  <2> QED BY <1>1, <1>2, <2>1, <2>2, PeriodsAdvance
<1>6. following_occurrence(s, n) =
        IF next # None /\ period_key(s, next) = period_key(s, n) THEN next_occurrence(s, next + 1) ELSE next
    BY DEF following_occurrence, OutOf
<1>7. \A m \in Nat \ {0} : period_key(s, m) = period_key(s, n) <=> PeriodOf(s.select, m) = q
    BY <1>1, <1>2, KeysTellPeriods
<1>8. Over(s, f) => Over(s, g)
  <2> HIDE DEF f, g, q
  <2> QED BY <1>1, <1>3 DEF Over
<1>9. CASE f >= n + 1
  <2>1. r = f
      BY <1>5, <1>9
  <2>2. CASE Over(s, f)
      BY <1>4, <1>6, <1>8, <2>1, <2>2
  <2>3. CASE ~Over(s, f)
    <3>1. next = f /\ f # None
        BY <1>1, <1>3, <1>4, <2>1, <2>3
    <3>2. following_occurrence(s, n) = next_occurrence(s, f + 1)
        BY <1>3, <1>6, <1>7, <3>1
    <3>3. f + 1 \in 1..LastDate + 1 /\ ~(f + 1 < s.start)
      <4>1. f <= LastDate
          BY <1>1, <1>3, <2>3 DEF Over
      <4> HIDE DEF f
      <4> QED BY <1>1, <1>2, <1>3, <1>9, <4>1
    <3>4. next_occurrence(s, f + 1) = LET h == NextFall(s.select, f + 1) IN IF Over(s, h) THEN None ELSE h
        BY <3>3, NextIs
    <3>5. NextFall(s.select, f + 1) = g
      <4>1. f \in Nat \ {0} /\ f + 1 \in Nat \ {0}
          BY <1>3
      <4>2. PeriodOf(s.select, f + 1) \in {q, q + 1}
          BY <1>1, <1>3, <4>1, PeriodsAdvance
      <4>3. CASE PeriodOf(s.select, f + 1) = q
        <5>1. NextFall(s.select, f + 1) = IF f >= f + 1 THEN f ELSE g
            BY <4>3 DEF NextFall
        <5> HIDE DEF f
        <5> QED BY <4>1, <5>1
      <4>4. CASE PeriodOf(s.select, f + 1) = q + 1
        <5>1. NextFall(s.select, f + 1) = IF g >= f + 1 THEN g ELSE Fall(s.select, q + 1 + 1)
            BY <4>4 DEF NextFall
        <5> HIDE DEF f, g
        <5> QED BY <1>3, <5>1
      <4> QED BY <4>2, <4>3, <4>4
    <3> QED BY <3>2, <3>4, <3>5
  <2> QED BY <2>2, <2>3
<1>10. CASE ~(f >= n + 1)
  <2>1. r = g
      BY <1>5, <1>10
  <2>2. CASE Over(s, g)
      BY <1>4, <1>6, <2>1, <2>2
  <2>3. CASE ~Over(s, g)
    <3>1. next = g /\ q + 1 # q
        BY <1>3, <1>4, <2>1, <2>3
    <3>2. ~(period_key(s, g) = period_key(s, n))
        BY <1>3, <1>7, <3>1
    <3>3. following_occurrence(s, n) = g
      <4> HIDE DEF g, next
      <4> QED BY <1>6, <3>1, <3>2
    <3> QED BY <2>3, <3>3
  <2> QED BY <2>2, <2>3
<1> QED BY <1>9, <1>10

(* following_occurrence charges each period once: whatever the schedule, what  *)
(* follows an occurrence, or an exact start, lies in the very next period, and *)
(* two days share a period_key only within one period, ISO weeks included.    *)
THEOREM PeriodIsChargedOnce == EachPeriodOnce
<1> SUFFICES ASSUME NEW s \in Schedules, NEW n \in Window
    PROVE
    /\ n < LastDate =>
          (period_key(s, n) = period_key(s, n + 1)) = (PeriodIndex(s.select, n) = PeriodIndex(s.select, n + 1))
    /\ (n = s.start \/ (n > s.start /\ Falls_on(s.select, n))) /\ ~Over(s, n) =>
          LET next == following_occurrence(s, n) IN
          IF next # None
          THEN Falls_on(s.select, next) /\ PeriodIndex(s.select, next) = PeriodIndex(s.select, n) + 1
          ELSE \A k \in n + 1 .. n + 731 :
                  Falls_on(s.select, k) /\ PeriodIndex(s.select, k) = PeriodIndex(s.select, n) + 1 => Over(s, k)
    BY DEF EachPeriodOnce
<1>1. ScheduleInput(s) /\ n \in 1..LastDate
    BY CalendarAssumption
<1>2. s.select \in Selectors /\ s.start \in 1..LastDate /\ LastDate \in Nat \ {0} /\ None \notin Int
    BY <1>1, ScheduleIs
<1>3. n \in Nat \ {0} /\ n + 1 \in Nat \ {0}
    BY <1>1, <1>2
<1> DEFINE P(m) == PeriodOf(s.select, m)
           I(m) == PeriodIndex(s.select, m)
<1>4. \A m \in Nat \ {0} : P(m) \in Nat
    BY <1>2, PeriodsAdvance
<1>5. PICK c \in Nat : \A m \in Nat \ {0} : I(m) = P(m) + c
    BY <1>2, IndexCountsPeriods
<1>6. (period_key(s, n) = period_key(s, n + 1)) = (I(n) = I(n + 1))
  <2>1. period_key(s, n) = period_key(s, n + 1) <=> P(n) = P(n + 1)
      BY <1>2, <1>3, KeysTellPeriods
  <2> HIDE DEF P, I
  <2> QED BY <1>3, <1>4, <1>5, <2>1
<1>7. ASSUME n = s.start \/ (n > s.start /\ Falls_on(s.select, n)), ~Over(s, n)
      PROVE  LET next == following_occurrence(s, n) IN
             IF next # None
             THEN Falls_on(s.select, next) /\ I(next) = I(n) + 1
             ELSE \A k \in n + 1 .. n + 731 : Falls_on(s.select, k) /\ I(k) = I(n) + 1 => Over(s, k)
  <2> DEFINE g == Fall(s.select, P(n) + 1)
             next == following_occurrence(s, n)
  <2>1. n \in s.start..LastDate
      BY <1>1, <1>2, <1>7
  <2>2. next = IF Over(s, g) THEN None ELSE g
      BY <1>1, <2>1, FollowingIs
  <2>3. g \in Nat \ {0} /\ P(g) = P(n) + 1
      BY <1>2, <1>3, FallsAhead
  <2>4. CASE ~Over(s, g)
    <3>1. next = g /\ next # None
        BY <1>2, <2>2, <2>3, <2>4
    <3>2. Falls_on(s.select, g)
        BY <1>2, <2>3, FallsOnOneDay
    <3>3. I(g) = I(n) + 1
      <4> HIDE DEF g, P, I
      <4> QED BY <1>3, <1>4, <1>5, <2>3
    <3> QED BY <3>1, <3>2, <3>3
  <2>5. CASE Over(s, g)
    <3>1. next = None
        BY <2>2, <2>5
    <3>2. ASSUME NEW k \in n + 1 .. n + 731, Falls_on(s.select, k), I(k) = I(n) + 1 PROVE Over(s, k)
      <4>1. k \in Nat \ {0}
          BY <1>3
      <4>2. k = Fall(s.select, P(k))
          BY <1>2, <3>2, <4>1, FallsOnOneDay
      <4>3. P(k) = P(n) + 1
        <5> HIDE DEF P, I
        <5> QED BY <1>3, <1>4, <1>5, <3>2, <4>1
      <4> QED BY <2>5, <4>2, <4>3
    <3> QED BY <3>1, <3>2
  <2> QED BY <2>4, <2>5
<1> QED BY <1>6, <1>7

(* A plan that future_occurrence makes while the start's period is consumed    *)
(* goes on in the next period, and later on at the first date that is left.   *)
THEOREM PlansGoOn == FutureSkipsConsumed
<1> SUFFICES ASSUME NEW s \in Schedules, NEW n \in Window, s.start <= n
    PROVE  future_occurrence(s, n, s.start) =
               IF PeriodIndex(s.select, n) = PeriodIndex(s.select, s.start)
               THEN following_occurrence(s, s.start) ELSE next_occurrence(s, n + 1)
    BY DEF FutureSkipsConsumed
<1>1. ScheduleInput(s) /\ n \in 1..LastDate
    BY CalendarAssumption
<1>2. /\ s.select \in Selectors /\ s.start \in 1..LastDate /\ LastDate \in Nat \ {0} /\ None \notin Int
      /\ s.end # None => s.end \in Nat
    BY <1>1, ScheduleIs
<1>3. n \in Nat \ {0} /\ s.start \in Nat \ {0} /\ n + 1 \in Nat \ {0} /\ n + 1 \in 1..LastDate + 1 /\ ~(n + 1 < s.start)
    BY <1>1, <1>2
<1> DEFINE P(m) == PeriodOf(s.select, m)
           r == NextFall(s.select, n + 1)
           result == next_occurrence(s, n + 1)
           q == P(s.start)
           g == Fall(s.select, q + 1)
<1>4. \A m \in Nat \ {0} : P(m) \in Nat
    BY <1>2, PeriodsAdvance
<1>5. PeriodIndex(s.select, n) = PeriodIndex(s.select, s.start) <=> P(n) = q
  <2>1. PICK c \in Nat : \A m \in Nat \ {0} : PeriodIndex(s.select, m) = P(m) + c
      BY <1>2, IndexCountsPeriods
  <2> HIDE DEF P
  <2> QED BY <1>3, <1>4, <2>1
<1>6. result = IF Over(s, r) THEN None ELSE r
    BY <1>1, <1>3, NextIs
<1>7. future_occurrence(s, n, s.start) =
        IF result # None /\ period_key(s, result) = period_key(s, s.start) THEN following_occurrence(s, result) ELSE result
  <2>1. s.start # None
      BY <1>2
  <2> QED BY <2>1 DEF future_occurrence
<1>8. \A m \in Nat \ {0} : period_key(s, m) = period_key(s, s.start) <=> P(m) = q
    BY <1>2, <1>3, KeysTellPeriods
<1>9. r \in Nat \ {0} /\ r >= n + 1
    BY <1>2, <1>3, FallsAhead
<1>10. P(n) <= P(r) /\ q <= P(n)
    BY <1>2, <1>3, <1>9, PeriodsAdvance
<1>11. CASE P(n) # q
  <2>1. P(r) # q
    <3> HIDE DEF P, r
    <3> QED BY <1>3, <1>4, <1>9, <1>10, <1>11 DEF q
  <2>2. result # None => result = r
      BY <1>6
  <2>3. future_occurrence(s, n, s.start) = result
    <3> HIDE DEF r, q, result
    <3> QED BY <1>7, <1>8, <1>9, <2>1, <2>2
  <2> QED BY <1>5, <1>11, <2>3
<1>12. CASE P(n) = q
  <2>1. following_occurrence(s, s.start) = IF Over(s, g) THEN None ELSE g
    <3>1. s.start \in s.start..LastDate
        BY <1>2
    <3> QED BY <1>1, <3>1, FollowingIs
  <2>2. /\ Fall(s.select, q) \in Nat \ {0} /\ g \in Nat \ {0} /\ Fall(s.select, q) < g /\ n < g
        /\ P(Fall(s.select, q)) = q /\ P(g) = q + 1
      BY <1>2, <1>3, <1>12, FallsAhead
  <2>3. r = IF Fall(s.select, q) >= n + 1 THEN Fall(s.select, q) ELSE g
    <3>2. CASE P(n + 1) = q
        BY <3>2 DEF NextFall
    <3>3. CASE P(n + 1) = q + 1
      <4>1. r = IF g >= n + 1 THEN g ELSE Fall(s.select, q + 1 + 1)
          BY <3>3 DEF NextFall
      <4>2. ~(Fall(s.select, q) >= n + 1)
        <5>1. Fall(s.select, q) >= n + 1 => P(n + 1) <= P(Fall(s.select, q))
            BY <1>2, <1>3, <2>2, PeriodsAdvance
        <5> HIDE DEF q, P
        <5> QED BY <1>3, <1>4, <2>2, <3>3, <5>1
      <4> HIDE DEF g, r
      <4> QED BY <1>3, <2>2, <4>1, <4>2
    <3> QED BY <1>2, <1>3, <1>12, <3>2, <3>3, PeriodsAdvance
  <2>4. CASE r = g
    <3>1. result # None => period_key(s, result) # period_key(s, s.start)
      <4>1. q + 1 # q
          BY <1>3, <1>4
      <4> HIDE DEF r, g, result, q
      <4> QED BY <1>6, <1>8, <2>2, <2>4, <4>1
    <3> HIDE DEF r, g, result, q
    <3> QED BY <1>5, <1>6, <1>7, <1>12, <2>1, <2>4, <3>1
  <2>5. CASE r = Fall(s.select, q)
    <3>1. Over(s, r) => Over(s, g)
      <4> HIDE DEF r, g, q
      <4> QED BY <1>2, <2>2, <2>5 DEF Over
    <3>2. CASE Over(s, r)
        BY <1>5, <1>6, <1>7, <1>12, <2>1, <3>1, <3>2
    <3>3. CASE ~Over(s, r)
      <4>1. result = r /\ r # None /\ P(r) = q
          BY <1>2, <1>6, <1>9, <2>2, <2>5, <3>3
      <4>2. future_occurrence(s, n, s.start) = following_occurrence(s, r)
        <5> HIDE DEF r, result, q, P
        <5> QED BY <1>7, <1>8, <1>9, <4>1
      <4>3. r \in s.start..LastDate
        <5>1. r <= LastDate
            BY <1>2, <1>9, <3>3 DEF Over
        <5> HIDE DEF r
        <5> QED BY <1>2, <1>3, <1>9, <5>1
      <4>4. following_occurrence(s, r) = LET h == Fall(s.select, P(r) + 1) IN IF Over(s, h) THEN None ELSE h
          BY <1>1, <4>3, FollowingIs
      <4> QED BY <1>5, <1>12, <2>1, <4>1, <4>2, <4>4
    <3> QED BY <3>2, <3>3
  <2> QED BY <2>3, <2>4, <2>5
<1> QED BY <1>11, <1>12

-----------------------------------------------------------------------------
(* The first instant of a day.                                               *)

(* The search finds the instant the clock jumps past a wall time. *)
LEMMA BisectFinds ==
    ASSUME NEW z, NEW wall \in Int, NEW from \in Int, NEW to \in Int,
           NEW at \in from + 1 .. to,
           \A t \in from..to : Local(z, t) >= wall <=> t >= at
    PROVE  Bisect(z, wall, from, to) = at
<1> DEFINE D == (from..to) \X (from..to)
           Body(f) == [p \in D |->
               LET low    == p[1]
                   high   == p[2]
                   middle == (low + high) \div 2 IN
               IF high - low <= 1 THEN high
               ELSE IF Local(z, middle) >= wall THEN f[<<low, middle>>] ELSE f[<<middle, high>>]]
           Search == CHOOSE f : f = Body(f)
           (* What the search gives for any bounds, the jump between them or not. *)
           Hits(low, high) == IF high - low <= 1 THEN high
                               ELSE IF at <= low THEN low + 1
                               ELSE IF at > high THEN high ELSE at
           Table == [p \in D |-> Hits(p[1], p[2])]
<1>1. Bisect(z, wall, from, to) = Search[<<from, to>>]
    BY DEF Bisect
<1>2. \A low, high \in from..to : high - low > 1 =>
        LET middle == (low + high) \div 2 IN
        middle \in from..to /\ low < middle /\ middle < high /\ middle \in Int
    OBVIOUS
<1>3. Table = Body(Table)
  <2> SUFFICES ASSUME NEW p \in D PROVE Table[p] = Body(Table)[p]
      OBVIOUS
  <2>1. PICK low \in from..to, high \in from..to : p = <<low, high>>
      OBVIOUS
  <2> DEFINE middle == (low + high) \div 2
  <2>2. Table[p] = Hits(low, high)
      BY <2>1
  <2>3. Body(Table)[p] = IF high - low <= 1 THEN high
                         ELSE IF Local(z, middle) >= wall THEN Table[<<low, middle>>] ELSE Table[<<middle, high>>]
      BY <2>1
  <2>4. CASE high - low <= 1
      BY <2>2, <2>3, <2>4
  <2>5. CASE high - low > 1
    <3>1. middle \in from..to /\ low < middle /\ middle < high
        BY <1>2, <2>5
    <3>2. Table[<<low, middle>>] = Hits(low, middle) /\ Table[<<middle, high>>] = Hits(middle, high)
        BY <3>1
    <3>3. Local(z, middle) >= wall <=> middle >= at
        BY <3>1
    <3>4. Body(Table)[p] = IF middle >= at THEN Hits(low, middle) ELSE Hits(middle, high)
        BY <2>3, <2>5, <3>2, <3>3
    <3>5. Hits(low, high) = IF middle >= at THEN Hits(low, middle) ELSE Hits(middle, high)
      <4> HIDE DEF middle
      <4> QED BY <2>5, <3>1
    <3> QED BY <2>2, <3>4, <3>5
  <2> QED BY <2>4, <2>5
<1>4. Search = Body(Search)
  <2> HIDE DEF Body, Table
  <2> QED BY <1>3
<1>5. \A low, high \in from..to :
        Search[<<low, high>>] = LET middle == (low + high) \div 2 IN
                                IF high - low <= 1 THEN high
                                ELSE IF Local(z, middle) >= wall THEN Search[<<low, middle>>] ELSE Search[<<middle, high>>]
  <2> HIDE DEF Search
  <2> QED BY <1>4
<1> HIDE DEF Search
<1> DEFINE Wrong(low, high) == low < at /\ at <= high /\ Search[<<low, high>>] # at
           widths == {w \in Nat : \E low, high \in from..to : w = high - low /\ Wrong(low, high)}
<1>6. widths = {}
  <2> SUFFICES ASSUME widths # {} PROVE FALSE
      OBVIOUS
  <2>1. PICK w \in widths : \A v \in widths : w <= v
    <3>1. widths \subseteq Nat
        OBVIOUS
    <3> HIDE DEF widths
    <3> QED BY <3>1, LeastNatural
  <2>2. PICK low \in from..to, high \in from..to : w = high - low /\ Wrong(low, high)
      OBVIOUS
  <2>3. \A l, h \in from..to : h - l < high - low => ~Wrong(l, h)
    <3> SUFFICES ASSUME NEW l \in from..to, NEW h \in from..to, h - l < high - low, Wrong(l, h) PROVE FALSE
        OBVIOUS
    <3>1. h - l \in Nat
        OBVIOUS
    <3>2. h - l \in widths
        BY <3>1
    <3> HIDE DEF widths, Wrong
    <3> QED BY <2>1, <2>2, <3>1, <3>2
  <2> DEFINE middle == (low + high) \div 2
  <2>4. CASE high - low <= 1
    <3>1. Search[<<low, high>>] = high
        BY <1>5, <2>4
    <3> QED BY <2>2, <2>4, <3>1
  <2>5. CASE high - low > 1
    <3>1. middle \in from..to /\ low < middle /\ middle < high /\ middle \in Int
        BY <1>2, <2>5
    <3>2. Local(z, middle) >= wall <=> middle >= at
        BY <3>1
    <3>3. Search[<<low, high>>] = IF middle >= at THEN Search[<<low, middle>>] ELSE Search[<<middle, high>>]
        BY <1>5, <2>5, <3>2
    <3> HIDE DEF middle
    <3>4. ~Wrong(low, middle) /\ ~Wrong(middle, high)
        BY <2>3, <3>1
    <3> QED BY <2>2, <3>1, <3>3, <3>4
  <2> QED BY <2>4, <2>5
<1>7. ~Wrong(from, to)
  <2>1. to - from \in Nat /\ from \in from..to /\ to \in from..to
      OBVIOUS
  <2> QED BY <1>6, <2>1
<1> QED BY <1>1, <1>7

LEMMA LeastOfTwo ==
    ASSUME NEW a \in Int, NEW b \in Int
    PROVE  Least({a, b}) = (IF a <= b THEN a ELSE b) /\ Least({a}) = a
BY DEF Least

(* due_timestamp: for every offset before and after every change of the clock, *)
(* a day is due at its first instant, whether midnight comes once, comes twice *)
(* or is skipped; the search that finds it in a gap always ends on it.        *)
THEOREM DueIsFirst == DueIsEarliest
<1> SUFFICES ASSUME NEW z \in Zones, NEW wall \in Midnights
             PROVE  LET due == due_timestamp(z, wall) IN
                    Local(z, due) >= wall /\ \A t \in z.at - 100 .. due - 1 : Local(z, t) < wall
    BY DEF DueIsEarliest
<1>1. wall \in Int /\ z.before \in Int /\ z.after \in Int /\ z.at \in Int
    BY CalendarAssumption
<1> DEFINE early == wall - z.before
           late  == wall - z.after
           due   == due_timestamp(z, wall)
           valid == {t \in Readings(z, wall) : Local(z, t) = wall}
<1>2. early \in Int /\ late \in Int
    BY <1>1
<1>3. due = IF valid # {} THEN Least(valid)
            ELSE LET low == Least(Readings(z, wall)) IN
                 Bisect(z, wall, low, CHOOSE t \in Readings(z, wall) : t # low)
    BY DEF due_timestamp
<1>4. due \in Int /\ Local(z, due) >= wall /\ \A t \in Int : t < due => Local(z, t) < wall
  <2>1. CASE early < z.at /\ late >= z.at
    <3>1. Readings(z, wall) = {early, late}
        BY <1>1, <2>1 DEF Readings
    <3>2. valid = {early, late}
        BY <1>1, <2>1, <3>1 DEF Local
    <3>3. early <= late
        BY <1>1, <2>1
    <3>4. due = early
        BY <1>2, <1>3, <3>2, <3>3, LeastOfTwo
    <3> HIDE DEF due
    <3> QED BY <1>1, <2>1, <3>4 DEF Local
  <2>2. CASE early < z.at /\ late < z.at
    <3>1. Readings(z, wall) = {early}
        BY <1>1, <2>2 DEF Readings
    <3>2. valid = {early}
        BY <1>1, <2>2, <3>1 DEF Local
    <3>3. due = early
        BY <1>2, <1>3, <3>2, LeastOfTwo
    <3> HIDE DEF due
    <3> QED BY <1>1, <2>2, <3>3 DEF Local
  <2>3. CASE early >= z.at /\ late >= z.at
    <3>1. Readings(z, wall) = {late}
        BY <1>1, <2>3 DEF Readings
    <3>2. valid = {late}
        BY <1>1, <2>3, <3>1 DEF Local
    <3>3. due = late
        BY <1>2, <1>3, <3>2, LeastOfTwo
    <3> HIDE DEF due
    <3> QED BY <1>1, <2>3, <3>3 DEF Local
  <2>4. CASE early >= z.at /\ late < z.at
    <3>1. Readings(z, wall) = {early, late} /\ late < early
        BY <1>1, <2>4 DEF Readings
    <3>2. valid = {}
        BY <1>1, <2>4, <3>1 DEF Local
    <3>3. Least(Readings(z, wall)) = late
      <4> HIDE DEF early, late
      <4>1. Least({early, late}) = IF early <= late THEN early ELSE late
          BY <1>2, LeastOfTwo
      <4> QED BY <1>2, <3>1, <4>1
    <3>4. (CHOOSE t \in Readings(z, wall) : t # late) = early
        BY <1>2, <3>1
    <3>5. due = Bisect(z, wall, late, early)
        BY <1>3, <3>2, <3>3, <3>4
    <3>6. \A t \in late..early : Local(z, t) >= wall <=> t >= z.at
        BY <1>1, <2>4 DEF Local
    <3>7. due = z.at
      <4>1. z.at \in late + 1 .. early
          BY <1>1, <2>4
      <4> HIDE DEF early, late, due
      <4> QED BY <1>1, <1>2, <3>5, <3>6, <4>1, BisectFinds
    <3> HIDE DEF due
    <3> QED BY <1>1, <2>4, <3>7 DEF Local
  <2> QED BY <1>1, <2>1, <2>2, <2>3, <2>4
<1> HIDE DEF due
<1>5. \A t \in z.at - 100 .. due - 1 : Local(z, t) < wall
    BY <1>1, <1>4
<1> QED BY <1>4, <1>5 DEF due

(* All of the calendar at once, as the rules rely on it.                      *)
THEOREM CalendarKeepsItsPromises == CalendarHolds
BY FirstIsFound, PeriodIsChargedOnce, PlansGoOn, DueIsFirst DEF CalendarHolds

-----------------------------------------------------------------------------
(* The cycles of an account: where one of an anchor begins in a month.       *)
Turn(anchor, k) == InstantOf(DayInMonth(k, Day(DateOf(anchor))), anchor % 2)

LEMMA DatesOfInstants ==
    ASSUME NEW t \in Nat
    PROVE  /\ DateOf(t) \in Nat /\ t % 2 \in 0..1 /\ t = 2 * DateOf(t) + (t % 2)
           /\ t >= 2 => DateOf(t) \in Nat \ {0}
BY DEF DateOf

(* A turn lies in its month, on the anchor's day and time of day. *)
TurnFits(anchor, k) ==
    LET n == DayInMonth(k, Day(DateOf(anchor))) IN
    /\ Turn(anchor, k) \in Nat /\ Turn(anchor, k) >= 2
    /\ Turn(anchor, k) = 2 * n + (anchor % 2) /\ n \in Nat \ {0}
    /\ DateOf(Turn(anchor, k)) = n /\ Turn(anchor, k) % 2 = anchor % 2
    /\ MonthOf(n) = k /\ Day(n) = Clamped(k, Day(DateOf(anchor)))
    /\ MonthFirst(k) <= n /\ n < MonthFirst(k + 1)
    /\ MonthFirst(k) \in Int /\ MonthFirst(k + 1) \in Int

LEMMA TurnsLieInTheirMonths ==
    ASSUME NEW anchor \in Nat, anchor >= 2, NEW k \in Nat, k >= 12
    PROVE  TurnFits(anchor, k)
<1> DEFINE d == Day(DateOf(anchor))
           n == DayInMonth(k, d)
<1>1. anchor % 2 \in 0..1 /\ DateOf(anchor) \in Nat \ {0}
    BY DatesOfInstants
<1>2. d \in Nat \ {0}
  <2>1. d \in 1..MonthSize(MonthOf(DateOf(anchor))) /\ MonthOf(DateOf(anchor)) \in Nat
      BY <1>1, MonthOfHolds
  <2>2. MonthSize(MonthOf(DateOf(anchor))) \in 28..31
      BY <2>1, MonthsFollow
  <2> QED BY <2>1, <2>2
<1>3. /\ n \in Nat \ {0} /\ MonthOf(n) = k /\ Day(n) = Clamped(k, d)
      /\ MonthFirst(k) <= n /\ n < MonthFirst(k + 1)
    BY <1>2, ClampedDay
<1>4. MonthFirst(k) \in Int /\ MonthFirst(k + 1) \in Int
    BY MonthsFollow
<1>5. Turn(anchor, k) = InstantOf(n, anchor % 2)
    BY DEF Turn
<1> HIDE DEF n
<1>6. /\ Turn(anchor, k) \in Nat /\ Turn(anchor, k) = 2 * n + (anchor % 2)
      /\ DateOf(Turn(anchor, k)) = n /\ Turn(anchor, k) % 2 = anchor % 2
  <2>1. PICK half \in 0..1 : half = anchor % 2
      BY <1>1
  <2>2. PICK i \in Nat : i = n
      BY <1>3
  <2>3. Turn(anchor, k) = InstantOf(i, half)
      BY <1>5, <2>1, <2>2
  <2>4. InstantOf(i, half) \in Nat /\ InstantOf(i, half) = 2 * i + half /\ DateOf(InstantOf(i, half)) = i
      BY DEF InstantOf, DateOf
  <2>5. InstantOf(i, half) % 2 = half
      BY DEF InstantOf
  <2> HIDE <1>1, <1>3
  <2> QED BY <2>1, <2>2, <2>3, <2>4, <2>5
<1>7. Turn(anchor, k) >= 2
    BY <1>1, <1>3, <1>6
<1> QED BY <1>3, <1>4, <1>6, <1>7 DEF TurnFits, n

LEMMA TurnIsLate ==
    ASSUME NEW anchor \in Nat, anchor >= 2, NEW k \in Nat, k >= 12
    PROVE  /\ Turn(anchor, k) \in Nat /\ Turn(anchor, k) >= 2
           /\ MonthFirst(k) \in Int /\ 2 * MonthFirst(k) <= Turn(anchor, k)
<1> DEFINE n == DayInMonth(k, Day(DateOf(anchor)))
<1>1. /\ n \in Nat \ {0} /\ Turn(anchor, k) = 2 * n + (anchor % 2)
      /\ MonthFirst(k) <= n /\ MonthFirst(k) \in Int
  <2>1. TurnFits(anchor, k)
      BY TurnsLieInTheirMonths
  <2> QED BY <2>1 DEF TurnFits
<1> HIDE DEF n
<1>2. anchor % 2 \in 0..1
    OBVIOUS
<1> QED BY <1>1, <1>2

LEMMA TurnIsEarly ==
    ASSUME NEW anchor \in Nat, anchor >= 2, NEW k \in Nat, k >= 12
    PROVE  Turn(anchor, k) < 2 * MonthFirst(k + 1) /\ MonthFirst(k + 1) \in Int
<1> DEFINE n == DayInMonth(k, Day(DateOf(anchor)))
<1>1. /\ n \in Nat \ {0} /\ Turn(anchor, k) = 2 * n + (anchor % 2)
      /\ n < MonthFirst(k + 1) /\ MonthFirst(k + 1) \in Int
  <2>1. TurnFits(anchor, k)
      BY TurnsLieInTheirMonths
  <2> QED BY <2>1 DEF TurnFits
<1> HIDE DEF n
<1>2. anchor % 2 \in 0..1
    OBVIOUS
<1> QED BY <1>1, <1>2

LEMMA TurnsFollow ==
    ASSUME NEW anchor \in Nat, anchor >= 2, NEW j \in Nat, j >= 12, NEW k \in Nat, j < k
    PROVE  /\ Turn(anchor, j) \in Nat /\ Turn(anchor, k) \in Nat /\ Turn(anchor, j) < Turn(anchor, k)
           /\ k = j + 1 => Turn(anchor, k) - Turn(anchor, j) <= 2 * 31
<1> DEFINE d == Day(DateOf(anchor))
           n == DayInMonth(j, d)
           m == DayInMonth(k, d)
<1>1. /\ Turn(anchor, j) \in Nat /\ Turn(anchor, j) = 2 * n + (anchor % 2) /\ n \in Nat
      /\ n < MonthFirst(j + 1) /\ MonthFirst(j + 1) \in Int
  <2>1. TurnFits(anchor, j)
      BY TurnsLieInTheirMonths
  <2> QED BY <2>1 DEF TurnFits
<1>2. /\ Turn(anchor, k) \in Nat /\ Turn(anchor, k) = 2 * m + (anchor % 2) /\ m \in Nat
      /\ MonthFirst(k) <= m /\ MonthFirst(k) \in Int
  <2>1. k >= 12
      OBVIOUS
  <2>2. TurnFits(anchor, k)
      BY <2>1, TurnsLieInTheirMonths
  <2> QED BY <2>2 DEF TurnFits
<1>3. MonthFirst(j + 1) <= MonthFirst(k)
    BY MonthsApart
<1>4. anchor % 2 \in 0..1
    OBVIOUS
<1>5. k = j + 1 => m - n <= 31
  <2>1. /\ MonthFirst(j) \in Int /\ MonthSize(j) \in 28..31 /\ MonthFirst(j + 1) = MonthFirst(j) + MonthSize(j)
        /\ MonthSize(k) \in 28..31
      BY MonthsFollow
  <2>2. d \in Nat \ {0}
    <3>1. DateOf(anchor) \in Nat \ {0}
        BY DatesOfInstants
    <3>2. d \in 1..MonthSize(MonthOf(DateOf(anchor))) /\ MonthOf(DateOf(anchor)) \in Nat
        BY <3>1, MonthOfHolds
    <3>3. MonthSize(MonthOf(DateOf(anchor))) \in 28..31
        BY <3>2, MonthsFollow
    <3> QED BY <3>2, <3>3
  <2>3. n = MonthFirst(j) + Clamped(j, d) - 1 /\ m = MonthFirst(k) + Clamped(k, d) - 1
      BY DEF DayInMonth
  <2> HIDE DEF n, m, d
  <2> QED BY <2>1, <2>2, <2>3 DEF Clamped
<1> HIDE DEF n, m
<1> QED BY <1>1, <1>2, <1>3, <1>4, <1>5

LEMMA AnchorIsATurn ==
    ASSUME NEW anchor \in Nat, anchor >= 2
    PROVE  LET k == MonthOf(DateOf(anchor)) IN k \in Nat /\ k >= 12 /\ Turn(anchor, k) = anchor
<1> DEFINE n == DateOf(anchor)
           k == MonthOf(n)
<1>1. n \in Nat \ {0} /\ anchor % 2 \in 0..1 /\ anchor = 2 * n + (anchor % 2)
    BY DatesOfInstants
<1> HIDE DEF n
<1>2. k \in Nat /\ k >= 12 /\ Day(n) = n - MonthFirst(k) + 1 /\ Day(n) \in 1..MonthSize(k)
    BY <1>1, MonthOfHolds
<1>3. MonthFirst(k) \in Int /\ MonthSize(k) \in 28..31
    BY <1>2, MonthsFollow
<1>4. Clamped(k, Day(n)) = Day(n)
    BY <1>2, <1>3 DEF Clamped
<1>5. DayInMonth(k, Day(n)) = n
    BY <1>1, <1>2, <1>3, <1>4 DEF DayInMonth
<1>6. Turn(anchor, k) = anchor
    BY <1>1, <1>5 DEF Turn, InstantOf, n
<1> QED BY <1>2, <1>6 DEF n

LEMMA AddedMonths ==
    ASSUME NEW t \in Nat, t >= 2, NEW months \in Int,
           MonthOf(DateOf(t)) + months >= 12, MonthOf(DateOf(t)) + months < 120000
    PROVE  add_months_utc(t, months) = Turn(t, MonthOf(DateOf(t)) + months)
<1> DEFINE n == DateOf(t)
           k == MonthOf(n) + months
           d == Day(n)
           shift == MonthShift(Year(n), Month(n), months)
<1>1. n \in Nat \ {0}
    BY DatesOfInstants
<1> HIDE DEF n
<1>2. /\ MonthOf(n) \in Nat /\ Year(n) = MonthOf(n) \div 12 /\ Month(n) = 1 + (MonthOf(n) % 12)
      /\ d \in 1..MonthSize(MonthOf(n))
    BY <1>1, MonthOfHolds
<1>3. k \in Nat /\ k >= 12 /\ k < 120000
    BY <1>2 DEF n
<1>4. Year(n) * 12 + Month(n) - 1 + months = k
    BY <1>2
<1>5. shift[1] = k \div 12 /\ shift[2] = 1 + (k % 12)
    BY <1>4 DEF MonthShift
<1>6. d \in Nat \ {0}
  <2>1. MonthSize(MonthOf(n)) \in 28..31
      BY <1>2, MonthsFollow
  <2> QED BY <1>2, <2>1
<1> HIDE DEF k, d, shift
<1>7. MonthDay(shift[1], shift[2], d) = Existing(DayInMonth(k, d))
    BY <1>3, <1>5, <1>6, MonthDayIs
<1>8. DayInMonth(k, d) <= LastDate
  <2>1. DayInMonth(k, d) \in Nat /\ DayInMonth(k, d) < MonthFirst(k + 1) /\ MonthFirst(k + 1) \in Int
    <3>1. DayInMonth(k, d) \in Nat /\ DayInMonth(k, d) < MonthFirst(k + 1)
        BY <1>3, <1>6, ClampedDay
    <3>2. MonthFirst(k + 1) \in Int
      <4>1. k + 1 \in Nat
          BY <1>3
      <4> QED BY <4>1, MonthsFollow
    <3> QED BY <3>1, <3>2
  <2>2. PICK h \in Nat : h = 120000
      OBVIOUS
  <2>3. MonthFirst(k + 1) <= MonthFirst(h)
      BY <1>3, <2>2, MonthsApart
  <2>4. MonthFirst(h) = LastDate + 1 /\ LastDate \in Int
      BY <2>2, LastMonth DEF LastDate, Date, MonthStart
  <2> QED BY <2>1, <2>3, <2>4
<1>9. Existing(DayInMonth(k, d)) = DayInMonth(k, d)
  <2>1. DayInMonth(k, d) \in Nat /\ LastDate \in Nat
      BY <1>3, <1>6, ClampedDay DEF LastDate, Date, MonthStart
  <2> QED BY <1>8, <2>1 DEF Existing
<1>10. add_months_utc(t, months) = InstantOf(MonthDay(shift[1], shift[2], d), t % 2)
    BY DEF add_months_utc, n, shift, d
<1>11. add_months_utc(t, months) = InstantOf(DayInMonth(k, d), t % 2)
    BY <1>7, <1>9, <1>10
<1> QED BY <1>11 DEF Turn, k, n, d

(* Cycles of an anchor cover the time after it without overlapping. *)
LEMMA TurnsTellMonths ==
    ASSUME NEW anchor \in Nat, anchor >= 2, NEW t \in Nat, NEW j \in Nat, j >= 12, NEW k \in Nat, k >= 12,
           Turn(anchor, j) <= t, t < Turn(anchor, j + 1), Turn(anchor, k) <= t, t < Turn(anchor, k + 1)
    PROVE  j = k
<1>1. /\ Turn(anchor, j) \in Nat /\ Turn(anchor, j + 1) \in Nat
      /\ Turn(anchor, k) \in Nat /\ Turn(anchor, k + 1) \in Nat
    BY TurnsFollow
<1>2. ~(j < k)
  <2>1. j + 1 < k => Turn(anchor, j + 1) < Turn(anchor, k)
      BY TurnsFollow
  <2>2. j + 1 = k => Turn(anchor, j + 1) = Turn(anchor, k)
      OBVIOUS
  <2> QED BY <1>1, <2>1, <2>2
<1>3. ~(k < j)
  <2>1. k + 1 < j => Turn(anchor, k + 1) < Turn(anchor, j)
      BY TurnsFollow
  <2>2. k + 1 = j => Turn(anchor, k + 1) = Turn(anchor, j)
      OBVIOUS
  <2> QED BY <1>1, <2>1, <2>2
<1> QED BY <1>2, <1>3

(* monthly_cycle_bounds finds the one that is open, and needs no loop for it. *)
LEMMA CycleFound ==
    ASSUME NEW anchor \in Nat, anchor >= 2, NEW t \in Nat, anchor <= t, MonthOf(DateOf(t)) + 1 < 120000
    PROVE  \E k \in Nat :
              /\ k >= 12 /\ k >= MonthOf(DateOf(anchor))
              /\ monthly_cycle_bounds(anchor, t) = [start |-> Turn(anchor, k), until |-> Turn(anchor, k + 1)]
              /\ Turn(anchor, k) <= t /\ t < Turn(anchor, k + 1)
<1> DEFINE a == MonthOf(DateOf(anchor))
           m == MonthOf(DateOf(t))
<1>1. /\ DateOf(anchor) \in Nat \ {0} /\ DateOf(t) \in Nat \ {0} /\ DateOf(anchor) <= DateOf(t)
      /\ t % 2 \in 0..1 /\ t = 2 * DateOf(t) + (t % 2)
    BY DEF DateOf
<1>2. a \in Nat /\ a >= 12 /\ m \in Nat /\ m >= 12 /\ a <= m
  <2>1. PICK n \in Nat \ {0}, o \in Nat \ {0} : n = DateOf(anchor) /\ o = DateOf(t) /\ n <= o
      BY <1>1
  <2>2. MonthOf(n) \in Nat /\ MonthOf(n) >= 12 /\ MonthOf(o) \in Nat /\ MonthOf(o) >= 12
      BY MonthOfHolds
  <2>3. MonthOf(n) <= MonthOf(o)
      BY <2>1, MonthsAdvance
  <2> QED BY <2>1, <2>2, <2>3
<1>3. Turn(anchor, a) = anchor
    BY AnchorIsATurn
<1> DEFINE months == (Year(DateOf(t)) - Year(DateOf(anchor))) * 12 + Month(DateOf(t)) - Month(DateOf(anchor))
<1>4. months = m - a
  <2>1. /\ Year(DateOf(t)) \in Int /\ Month(DateOf(t)) \in Int
        /\ Year(DateOf(anchor)) \in Int /\ Month(DateOf(anchor)) \in Int
      BY <1>1, MonthHolds
  <2> QED BY <2>1 DEF MonthOf
<1> HIDE DEF months, a, m
<1>5. \A i \in Int : a + i >= 12 /\ a + i < 120000 => add_months_utc(anchor, i) = Turn(anchor, a + i)
    BY AddedMonths DEF a
<1>6. add_months_utc(anchor, months) = Turn(anchor, m)
  <2>1. a + months = m /\ months \in Int /\ m < 120000
      BY <1>2, <1>4 DEF m
  <2> QED BY <1>2, <1>5, <2>1
<1>7. t < Turn(anchor, m + 1) /\ Turn(anchor, m + 1) \in Nat /\ Turn(anchor, m) \in Nat
  <2>1. DateOf(t) < MonthFirst(m + 1)
      BY <1>1, MonthOfHolds DEF m
  <2>2. m + 1 \in Nat /\ m + 1 >= 12
      BY <1>2
  <2>3. Turn(anchor, m + 1) \in Nat /\ 2 * MonthFirst(m + 1) <= Turn(anchor, m + 1) /\ MonthFirst(m + 1) \in Int
      BY <2>2, TurnIsLate
  <2>4. Turn(anchor, m) \in Nat
      BY <1>2, TurnIsLate
  <2> QED BY <1>1, <2>1, <2>3, <2>4
<1>8. CASE Turn(anchor, m) > t
  <2>1. a < m
    <3>1. a # m
        BY <1>3, <1>8
    <3> QED BY <1>2, <3>1
  <2>2. PICK k \in Nat : k = m - 1
      BY <1>2
  <2>3. k >= 12 /\ k >= a /\ k + 1 = m
      BY <1>2, <2>1, <2>2
  <2>4. monthly_cycle_bounds(anchor, t) = Bounds(anchor, months - 1)
      BY <1>6, <1>8 DEF monthly_cycle_bounds, months
  <2>5. add_months_utc(anchor, months - 1) = Turn(anchor, k) /\ add_months_utc(anchor, months - 1 + 1) = Turn(anchor, k + 1)
    <3>1. a + (months - 1) = k /\ months - 1 \in Int /\ k < 120000
        BY <1>2, <1>4, <2>2 DEF m
    <3>2. months - 1 + 1 = months
        BY <1>2, <1>4
    <3> QED BY <1>5, <1>6, <2>3, <3>1, <3>2
  <2>6. Turn(anchor, k) <= t
    <3>1. Turn(anchor, k) \in Nat /\ Turn(anchor, k) < 2 * MonthFirst(k + 1) /\ MonthFirst(k + 1) \in Int
      <4>1. Turn(anchor, k) \in Nat
          BY <2>3, TurnIsLate
      <4>2. Turn(anchor, k) < 2 * MonthFirst(k + 1) /\ MonthFirst(k + 1) \in Int
          BY <2>3, TurnIsEarly
      <4> QED BY <4>1, <4>2
    <3>2. MonthFirst(m) <= DateOf(t)
        BY <1>1, MonthOfHolds DEF m
    <3> QED BY <1>1, <2>3, <3>1, <3>2
  <2>7. monthly_cycle_bounds(anchor, t) = [start |-> Turn(anchor, k), until |-> Turn(anchor, k + 1)]
      BY <2>4, <2>5 DEF Bounds
  <2> QED BY <1>8, <2>3, <2>6, <2>7 DEF a
<1>9. CASE ~(Turn(anchor, m) > t)
  <2>1. monthly_cycle_bounds(anchor, t) = Bounds(anchor, months)
      BY <1>6, <1>9 DEF monthly_cycle_bounds, months
  <2>2. add_months_utc(anchor, months + 1) = Turn(anchor, m + 1)
    <3>1. a + (months + 1) = m + 1 /\ months + 1 \in Int /\ m + 1 < 120000
        BY <1>2, <1>4 DEF m
    <3> QED BY <1>2, <1>5, <3>1
  <2>3. monthly_cycle_bounds(anchor, t) = [start |-> Turn(anchor, m), until |-> Turn(anchor, m + 1)]
      BY <1>6, <2>1, <2>2 DEF Bounds
  <2> QED BY <1>2, <1>7, <1>9, <2>3 DEF a
<1> QED BY <1>8, <1>9

(* And so does the calendar month for an account without an anchor. *)
LEMMA CalendarMonthIs ==
    ASSUME NEW t \in Nat, t >= 2, MonthOf(DateOf(t)) + 1 < 120000
    PROVE  LET c == CalendarMonth(t) IN
           /\ c.start \in Nat /\ c.until \in Nat /\ c.start <= t /\ t < c.until
           /\ c.until - c.start <= 2 * 31
<1> DEFINE n == DateOf(t)
           k == MonthOf(n)
           first == InstantOf(n - Day(n) + 1, 0)
<1>1. n \in Nat \ {0} /\ t % 2 \in 0..1 /\ t = 2 * n + (t % 2)
    BY DatesOfInstants
<1>2. /\ k \in Nat /\ k >= 12 /\ MonthFirst(k) <= n /\ n < MonthFirst(k + 1)
      /\ Day(n) = n - MonthFirst(k) + 1
    BY <1>1, MonthOfHolds
<1>3. /\ MonthFirst(k) \in Int /\ MonthSize(k) \in 28..31 /\ MonthFirst(k + 1) = MonthFirst(k) + MonthSize(k)
    BY <1>2, MonthsFollow
<1>4. MonthFirst(k) >= 1
  <2>1. PICK h \in Nat : h = 12
      OBVIOUS
  <2>2. MonthFirst(h) = 1 /\ MonthFirst(h) < MonthFirst(h + 1) /\ MonthFirst(h + 1) \in Int
    <3>1. MonthFirst(h) = 1
        BY <2>1 DEF MonthFirst, Date, MonthStart
    <3>2. MonthFirst(h + 1) = MonthFirst(h) + MonthSize(h) /\ MonthSize(h) \in 28..31
        BY MonthsFollow
    <3> QED BY <3>1, <3>2
  <2>3. k > h => MonthFirst(h + 1) <= MonthFirst(k)
      BY <1>2, MonthsApart
  <2>4. k = h => MonthFirst(k) = 1
      BY <2>2
  <2> QED BY <1>2, <1>3, <2>1, <2>2, <2>3, <2>4
<1> HIDE DEF n, k
<1>5. first = 2 * MonthFirst(k) /\ first \in Nat /\ first >= 2 /\ DateOf(first) = MonthFirst(k)
    BY <1>1, <1>2, <1>3, <1>4 DEF InstantOf, DateOf
<1>6. MonthOf(MonthFirst(k)) = k
  <2>1. MonthFirst(k) \in Nat \ {0} /\ MonthFirst(k) < MonthFirst(k + 1) /\ MonthFirst(k) <= MonthFirst(k)
      BY <1>3, <1>4
  <2> QED BY <1>2, <2>1, MonthOfIsOne
<1> HIDE DEF first
<1>7. add_months_utc(first, 0) = Turn(first, k) /\ add_months_utc(first, 0 + 1) = Turn(first, k + 1)
  <2>1. k + 0 = k /\ k + 1 >= 12 /\ k + 1 < 120000 /\ k < 120000
      BY <1>2 DEF k, n
  <2> QED BY <1>2, <1>5, <1>6, <2>1, AddedMonths
<1>8. Turn(first, k) = first
    BY <1>5, <1>6, AnchorIsATurn
<1>9. Day(MonthFirst(k)) = 1
  <2>1. MonthFirst(k) \in Nat \ {0}
      BY <1>3, <1>4
  <2>2. Day(MonthFirst(k)) = MonthFirst(k) - MonthFirst(k) + 1
      BY <1>6, <2>1, MonthOfHolds
  <2> QED BY <1>3, <2>2
<1>10. Turn(first, k + 1) = 2 * MonthFirst(k + 1)
  <2>1. k + 1 \in Nat
      BY <1>2
  <2>2. MonthSize(k + 1) \in 28..31 /\ MonthFirst(k + 1) \in Int
      BY <2>1, MonthsFollow
  <2>3. Clamped(k + 1, 1) = 1
      BY <2>2 DEF Clamped
  <2>4. DayInMonth(k + 1, 1) = MonthFirst(k + 1)
      BY <2>2, <2>3 DEF DayInMonth
  <2>5. first % 2 = 0
      BY <1>3, <1>5
  <2> QED BY <1>5, <1>9, <2>2, <2>4, <2>5 DEF Turn, InstantOf
<1>11. CalendarMonth(t) = [start |-> first, until |-> Turn(first, k + 1)]
    BY <1>7, <1>8 DEF CalendarMonth, Bounds, first, n
<1> QED BY <1>1, <1>2, <1>3, <1>5, <1>10, <1>11

LEMMA RecordedInstants ==
    ASSUME NEW t \in Recorded
    PROVE  t \in Nat /\ t >= 2 /\ MonthOf(DateOf(t)) >= 13 /\ MonthOf(DateOf(t)) < 120000
<1>1. t \in Nat /\ t >= 64 /\ DateOf(t) \in Nat /\ DateOf(t) >= 32 /\ DateOf(t) <= LastDate /\ LastDate \in Nat
    BY DEF Recorded, InstantOf, DateOf, LastDate, Date, MonthStart, Leap
<1> DEFINE n == DateOf(t)
           k == MonthOf(n)
<1>2. n \in Nat \ {0}
    BY <1>1
<1>3. k \in Nat /\ k >= 12 /\ MonthFirst(k) <= n /\ n < MonthFirst(k + 1)
    BY <1>2, MonthOfHolds
<1> HIDE DEF n
<1>4. MonthFirst(k) \in Int /\ MonthFirst(k + 1) \in Int
    BY <1>3, MonthsFollow
<1> HIDE DEF k
<1>5. k # 12
  <2>1. MonthFirst(12 + 1) = 32
      BY DEF MonthFirst, Date, MonthStart
  <2> QED BY <1>1, <1>3, <2>1 DEF n
<1>6. k < 120000
  <2>1. PICK h \in Nat : h = 120000
      OBVIOUS
  <2>2. MonthFirst(h) = LastDate + 1
      BY <2>1, LastMonth
  <2>3. k # h
      BY <1>1, <1>3, <1>4, <2>2 DEF n
  <2>4. ~(h < k)
    <3> SUFFICES ASSUME h < k PROVE FALSE
        OBVIOUS
    <3>1. MonthFirst(h + 1) <= MonthFirst(k)
        BY <1>3, MonthsApart
    <3>2. MonthFirst(h + 1) = MonthFirst(h) + MonthSize(h) /\ MonthSize(h) \in 28..31
        BY MonthsFollow
    <3> QED BY <1>1, <1>3, <1>4, <2>2, <3>1, <3>2 DEF n
  <2> QED BY <1>3, <2>1, <2>3, <2>4
<1> QED BY <1>1, <1>3, <1>5, <1>6 DEF k, n

LEMMA LookedInstants ==
    ASSUME NEW t \in Looked
    PROVE  /\ t \in Recorded /\ t + 1 \in Recorded /\ t + 1 \in Nat
           /\ MonthOf(DateOf(t)) + 1 < 120000 /\ MonthOf(DateOf(t + 1)) + 1 < 120000
<1>1. PICK d \in Nat : d = Date(9999, 11, 30) /\ Date(9999, 11, 29) = d - 1 /\ LastDate = d + 31 /\ Date(9999, 12, 1) = d + 1
    BY DEF Date, MonthStart, Leap, LastDate
<1>2. PICK e \in Nat : e = Date(1970, 1, 1) /\ e >= 1
    BY DEF Date, MonthStart, Leap
<1>3. t \in Nat /\ t >= 2 * e + 1 /\ t <= 2 * d - 1 /\ t \in Recorded /\ t + 1 \in Recorded
    BY <1>1, <1>2 DEF Looked, Recorded, InstantOf
<1>4. ASSUME NEW u \in Nat, u >= 2, u <= 2 * d PROVE MonthOf(DateOf(u)) + 1 < 120000
  <2> DEFINE n == DateOf(u)
             k == MonthOf(n)
  <2>1. n \in Nat \ {0} /\ n <= d
      BY <1>4 DEF DateOf
  <2> HIDE DEF n
  <2>2. k \in Nat /\ MonthFirst(k) <= n
      BY <2>1, MonthOfHolds
  <2>3. MonthFirst(k) \in Int
      BY <2>2, MonthsFollow
  <2>4. PICK h \in Nat : h = 119999
      OBVIOUS
  <2>5. MonthFirst(h) = d + 1
    <3>1. h \div 12 = 9999 /\ 1 + (h % 12) = 12
        BY <2>4
    <3> QED BY <1>1, <3>1 DEF MonthFirst
  <2> HIDE DEF k
  <2>6. k # h
      BY <2>1, <2>2, <2>3, <2>5
  <2>7. ~(h < k)
    <3> SUFFICES ASSUME h < k PROVE FALSE
        OBVIOUS
    <3>1. MonthFirst(h + 1) <= MonthFirst(k)
        BY <2>2, MonthsApart
    <3>2. MonthFirst(h + 1) = MonthFirst(h) + MonthSize(h) /\ MonthSize(h) \in 28..31
        BY MonthsFollow
    <3> QED BY <2>1, <2>2, <2>3, <2>5, <3>1, <3>2
  <2>8. k + 1 < 120000
      BY <2>2, <2>4, <2>6, <2>7
  <2> QED BY <2>8 DEF k, n
<1>5. MonthOf(DateOf(t)) + 1 < 120000
    BY <1>2, <1>3, <1>4
<1>6. MonthOf(DateOf(t + 1)) + 1 < 120000
  <2>1. t + 1 \in Nat /\ t + 1 >= 2 /\ t + 1 <= 2 * d
      BY <1>1, <1>2, <1>3
  <2> QED BY <1>4, <2>1
<1> QED BY <1>3, <1>5, <1>6

(* What an account decides at an instant: an anchor, and an end that is ahead. *)
LEMMA AnchorsAndLimits ==
    ASSUME NEW a, AccountOK(a), NEW t \in Nat
    PROVE  /\ Anchor(a, t) # None => Anchor(a, t) \in Nat /\ Anchor(a, t) >= 2
           /\ Limit(a, t) # None => Limit(a, t) \in Nat /\ t < Limit(a, t)
<1>1. None \notin Nat
    BY CalendarAssumption
<1>2. \A x \in Recorded : x \in Nat /\ x >= 2 /\ MonthOf(DateOf(x)) >= 13 /\ MonthOf(DateOf(x)) < 120000
    BY RecordedInstants
<1>3. /\ a.start \in Recorded \cup {None} /\ a.end \in Recorded \cup {None}
      /\ a.seen \in Recorded \cup {None} /\ a.created \in Recorded \cup {None}
      /\ a.grant # None => a.grant.startsAt \in Recorded /\ a.grant.expiresAt \in Recorded
    BY DEF AccountOK, GrantOK
<1>4. a.end # None => add_months_utc(a.end, -1) \in Nat /\ add_months_utc(a.end, -1) >= 2
  <2> SUFFICES ASSUME a.end # None PROVE add_months_utc(a.end, -1) \in Nat /\ add_months_utc(a.end, -1) >= 2
      OBVIOUS
  <2>1. PICK e \in Nat : e = a.end /\ e >= 2 /\ MonthOf(DateOf(e)) >= 13 /\ MonthOf(DateOf(e)) < 120000
      BY <1>2, <1>3
  <2>2. MonthOf(DateOf(e)) \in Nat
    <3>1. DateOf(e) \in Nat \ {0}
        BY <2>1 DEF DateOf
    <3> QED BY <3>1, MonthOfHolds
  <2>3. PICK k \in Nat : k = MonthOf(DateOf(e)) + (-1) /\ k >= 12 /\ k < 120000
      BY <2>1, <2>2
  <2>4. add_months_utc(e, -1) = Turn(e, k)
      BY <2>1, <2>3, AddedMonths
  <2>5. Turn(e, k) \in Nat /\ Turn(e, k) >= 2
      BY <2>1, <2>3, TurnIsLate
  <2> QED BY <2>1, <2>4, <2>5
<1>5. Anchor(a, t) # None => Anchor(a, t) \in Nat /\ Anchor(a, t) >= 2
  <2>1. CASE OnGrant(a, t)
      BY <1>2, <1>3, <2>1 DEF Anchor, OnGrant, HasGrant
  <2>2. CASE ~OnGrant(a, t)
    <3>1. Anchor(a, t) \in {a.start, a.end, a.seen, a.created} \/ (a.end # None /\ Anchor(a, t) = add_months_utc(a.end, -1))
        BY <2>2 DEF Anchor, FirstOf
    <3> QED BY <1>2, <1>3, <1>4, <3>1
  <2> QED BY <2>1, <2>2
<1>6. Limit(a, t) # None => Limit(a, t) \in Nat /\ t < Limit(a, t)
  <2>1. CASE OnGrant(a, t)
      BY <1>2, <1>3, <2>1 DEF Limit, OnGrant, HasGrant
  <2>2. CASE ~OnGrant(a, t) /\ effective_user_plan(a, t) # "free"
    <3>1. Limit(a, t) = a.end
        BY <2>2 DEF Limit
    <3>2. billing_user_plan(a, t) # "free"
        BY <2>2 DEF OnGrant, effective_user_plan
    <3>3. a.end # None => ~(a.end <= t)
        BY <3>2 DEF billing_user_plan
    <3>4. a.end # None => a.end \in Nat
        BY <1>2, <1>3
    <3> QED BY <3>1, <3>3, <3>4
  <2>3. CASE ~OnGrant(a, t) /\ ~(effective_user_plan(a, t) # "free")
      BY <2>3 DEF Limit
  <2> QED BY <2>1, <2>2, <2>3
<1> QED BY <1>5, <1>6

(* The cycle of an account that has an anchor. *)
LEMMA CycleIs ==
    ASSUME NEW a, AccountOK(a), NEW t \in Nat, MonthOf(DateOf(t)) + 1 < 120000, Anchored(a, t)
    PROVE  LET anchor == Anchor(a, t) IN
           /\ anchor \in Nat /\ anchor >= 2 /\ anchor <= t
           /\ \E k \in Nat : LET c == quota_cycle_for_user(a, t) IN
                /\ k >= 12 /\ k >= MonthOf(DateOf(anchor))
                /\ Turn(anchor, k) <= t /\ t < Turn(anchor, k + 1)
                /\ c.start = Turn(anchor, k)
                /\ c = [start |-> Turn(anchor, k),
                        until |-> IF Limit(a, t) # None /\ Limit(a, t) < Turn(anchor, k + 1)
                                  THEN Limit(a, t) ELSE Turn(anchor, k + 1)]
<1> DEFINE anchor == Anchor(a, t)
           ending == Limit(a, t)
           c == quota_cycle_for_user(a, t)
           b == monthly_cycle_bounds(anchor, t)
<1>1. anchor \in Nat /\ anchor >= 2 /\ anchor <= t
    BY AnchorsAndLimits DEF Anchored
<1>2. ending # None => ending \in Nat
    BY AnchorsAndLimits
<1>3. None \notin Nat
    BY CalendarAssumption
<1>4. c = [b EXCEPT !.until = Least({b.until, ending} \ {None})]
    BY DEF quota_cycle_for_user
<1> HIDE DEF anchor, ending, c, b
<1>5. PICK k \in Nat :
        /\ k >= 12 /\ k >= MonthOf(DateOf(anchor))
        /\ b = [start |-> Turn(anchor, k), until |-> Turn(anchor, k + 1)]
        /\ Turn(anchor, k) <= t /\ t < Turn(anchor, k + 1)
    BY <1>1, CycleFound DEF b
<1> DEFINE u == Turn(anchor, k + 1)
<1>6. u \in Nat
    BY <1>1, <1>5, TurnsFollow
<1> HIDE DEF u
<1>7. Least({u, ending} \ {None}) = IF ending # None /\ ending < u THEN ending ELSE u
  <2>1. CASE ending = None
    <3>1. {u, ending} \ {None} = {u}
        BY <1>3, <1>6, <2>1
    <3>2. Least({u}) = u
        BY <1>6, LeastOfTwo
    <3> QED BY <2>1, <3>1, <3>2
  <2>2. CASE ending # None
    <3>1. {u, ending} \ {None} = {u, ending}
        BY <1>3, <1>6, <2>2
    <3>2. PICK x \in Int : x = ending
        BY <1>2, <2>2
    <3>3. Least({u, x}) = IF u <= x THEN u ELSE x
      <4>1. u \in Int
          BY <1>6
      <4> HIDE <1>2, <1>6
      <4> QED BY <4>1 DEF Least
    <3> QED BY <1>6, <2>2, <3>1, <3>2, <3>3
  <2> QED BY <2>1, <2>2
<1>8. c = [start |-> Turn(anchor, k), until |-> IF ending # None /\ ending < u THEN ending ELSE u]
    BY <1>4, <1>5, <1>7 DEF u
<1>9. c.start = Turn(anchor, k)
    BY <1>8
<1> QED BY <1>1, <1>5, <1>8, <1>9 DEF anchor, ending, c, u

(* Whatever an account looks like, quota_cycle_for_user answers a cycle that has *)
(* begun, is not over and lasts a month at most: mapping._projection never      *)
(* refuses an account as expired.                                            *)
THEOREM CyclesAreOpen == CycleIsOpen
<1> SUFFICES ASSUME NEW a \in Accounts, NEW t \in Instants
             PROVE  LET c == quota_cycle_for_user(a, t) IN
                    c.start <= t /\ t < c.until /\ c.until - c.start <= 2 * 31
    BY DEF CycleIsOpen
<1> DEFINE c == quota_cycle_for_user(a, t)
<1>1. AccountOK(a) /\ t \in Looked
    BY AccountAssumption
<1>2. t \in Nat /\ t >= 2 /\ MonthOf(DateOf(t)) + 1 < 120000
    BY <1>1, LookedInstants, RecordedInstants
<1>3. CASE Anchored(a, t)
  <2> DEFINE anchor == Anchor(a, t)
             ending == Limit(a, t)
  <2>1. anchor \in Nat /\ anchor >= 2
      BY <1>1, <1>2, <1>3, CycleIs
  <2>2. PICK k \in Nat :
          /\ k >= 12 /\ Turn(anchor, k) <= t /\ t < Turn(anchor, k + 1)
          /\ c = [start |-> Turn(anchor, k),
                  until |-> IF ending # None /\ ending < Turn(anchor, k + 1) THEN ending ELSE Turn(anchor, k + 1)]
      BY <1>1, <1>2, <1>3, CycleIs
  <2>3. ending # None => ending \in Nat /\ t < ending
      BY <1>1, <1>2, AnchorsAndLimits
  <2> DEFINE start == Turn(anchor, k)
             until == Turn(anchor, k + 1)
  <2>4. start \in Nat /\ until \in Nat /\ until - start <= 2 * 31
    <3> HIDE DEF anchor
    <3>1. PICK i \in Nat : i = k + 1 /\ k < i
        OBVIOUS
    <3> QED BY <2>1, <2>2, <3>1, TurnsFollow
  <2>5. c.start = start /\ c.until = IF ending # None /\ ending < until THEN ending ELSE until
      BY <2>2
  <2> HIDE DEF c, start, until, ending
  <2>6. c.start <= t /\ t < c.until /\ c.until - c.start <= 2 * 31
      BY <1>2, <2>2, <2>3, <2>4, <2>5 DEF start, until
  <2> QED BY <2>6 DEF c
<1>4. CASE ~Anchored(a, t)
  <2>1. c = CalendarMonth(t)
      BY <1>4 DEF quota_cycle_for_user
  <2> QED BY <1>2, <2>1, CalendarMonthIs
<1> QED BY <1>3, <1>4

(* No counters are reset within a cycle and none is left out between two: the  *)
(* next cycle begins the instant one ends, as long as the anchor and the end   *)
(* it may not pass stay the same, and the end of a paid period begins one.    *)
THEOREM CyclesCoverTime == CyclesTile
<1> SUFFICES ASSUME NEW a \in Accounts, NEW t \in Instants
    PROVE  LET c    == quota_cycle_for_user(a, t)
               next == quota_cycle_for_user(a, t + 1) IN
           /\ Anchored(a, t) /\ Anchor(a, t) = Anchor(a, t + 1) =>
                  IF t + 1 < c.until THEN next.start = c.start /\ (Limit(a, t) = Limit(a, t + 1) => next = c)
                  ELSE Limit(a, t) = Limit(a, t + 1) => next.start = c.until
           /\ a.end = t + 1 /\ ~OnGrant(a, a.end) => next.start = a.end
    BY DEF CyclesTile
<1> DEFINE c    == quota_cycle_for_user(a, t)
           next == quota_cycle_for_user(a, t + 1)
<1>1. AccountOK(a) /\ t \in Looked
    BY AccountAssumption
<1>2. PICK u \in Nat : /\ u = t + 1 /\ u >= 2 /\ t \in Nat /\ t >= 2
                       /\ MonthOf(DateOf(t)) + 1 < 120000 /\ MonthOf(DateOf(u)) + 1 < 120000
    BY <1>1, LookedInstants, RecordedInstants
<1>3. ASSUME Anchored(a, t), Anchor(a, t) = Anchor(a, t + 1)
      PROVE  IF t + 1 < c.until THEN next.start = c.start /\ (Limit(a, t) = Limit(a, t + 1) => next = c)
             ELSE Limit(a, t) = Limit(a, t + 1) => next.start = c.until
  <2> DEFINE anchor == Anchor(a, t)
             ending == Limit(a, t)
             later == Limit(a, u)
  <2>1. anchor \in Nat /\ anchor >= 2 /\ anchor <= t
      BY <1>1, <1>2, <1>3, CycleIs
  <2>2. PICK k \in Nat :
          /\ k >= 12 /\ Turn(anchor, k) <= t /\ t < Turn(anchor, k + 1)
          /\ c = [start |-> Turn(anchor, k),
                  until |-> IF ending # None /\ ending < Turn(anchor, k + 1) THEN ending ELSE Turn(anchor, k + 1)]
      BY <1>1, <1>2, <1>3, CycleIs
  <2>3. Anchored(a, u) /\ Anchor(a, u) = anchor
      BY <1>2, <1>3, <2>1 DEF Anchored
  <2>4. PICK j \in Nat :
          /\ j >= 12 /\ Turn(anchor, j) <= u /\ u < Turn(anchor, j + 1)
          /\ next = [start |-> Turn(anchor, j),
                     until |-> IF later # None /\ later < Turn(anchor, j + 1) THEN later ELSE Turn(anchor, j + 1)]
    <3>1. \E j \in Nat : LET d == quota_cycle_for_user(a, u) IN
            /\ j >= 12
            /\ Turn(Anchor(a, u), j) <= u /\ u < Turn(Anchor(a, u), j + 1)
            /\ d = [start |-> Turn(Anchor(a, u), j),
                    until |-> IF later # None /\ later < Turn(Anchor(a, u), j + 1)
                              THEN later ELSE Turn(Anchor(a, u), j + 1)]
        BY <1>1, <1>2, <2>3, CycleIs
    <3> QED BY <1>2, <2>3, <3>1
  <2>5. (ending # None => ending \in Nat /\ t < ending) /\ (later # None => later \in Nat /\ u < later)
      BY <1>1, <1>2, AnchorsAndLimits
  <2> HIDE DEF anchor
  <2>6. PICK v \in Nat : v = Turn(anchor, k + 1)
    <3>1. PICK i \in Nat : i = k + 1 /\ k < i
        OBVIOUS
    <3> QED BY <2>1, <2>2, <3>1, TurnsFollow
  <2>7. PICK w \in Nat : w = Turn(anchor, k) /\ w < v
      BY <1>2, <2>1, <2>2, <2>6, TurnIsLate
  <2>8. CASE u < v
    <3>1. j = k
      <4>1. Turn(anchor, k) <= u /\ u < Turn(anchor, k + 1)
          BY <1>2, <2>2, <2>6, <2>7, <2>8
      <4> QED BY <2>1, <2>2, <2>4, <4>1, TurnsTellMonths
    <3>2. c.start = w /\ next.start = w
        BY <2>2, <2>4, <2>7, <3>1
    <3>3. ending = later => next = c
        BY <2>2, <2>4, <3>1
    <3>4. ~(u < c.until) => ending # later
      <4>1. c.until = IF ending # None /\ ending < v THEN ending ELSE v
          BY <2>2, <2>6
      <4> HIDE DEF c, ending, later
      <4> QED BY <1>2, <2>5, <2>8, <4>1
    <3> HIDE DEF c, next
    <3> QED BY <1>2, <3>2, <3>3, <3>4
  <2>9. CASE ~(u < v)
    <3>1. u = v
        BY <1>2, <2>2, <2>6, <2>9
    <3>2. j = k + 1
      <4>1. PICK i \in Nat : i = k + 1 /\ i >= 12
          BY <2>2
      <4>2. PICK h \in Nat : h = i + 1 /\ i < h
          OBVIOUS
      <4>3. Turn(anchor, i) = u /\ Turn(anchor, i) < Turn(anchor, h)
          BY <2>1, <2>6, <3>1, <4>1, <4>2, TurnsFollow
      <4>4. Turn(anchor, i) <= u /\ u < Turn(anchor, i + 1)
          BY <4>2, <4>3
      <4>5. i = j
          BY <1>2, <2>1, <2>4, <4>1, <4>4, TurnsTellMonths
      <4> QED BY <4>1, <4>5
    <3>3. next.start = v
        BY <2>4, <2>6, <3>2
    <3>4. ending = later => c.until = v /\ ~(u < c.until)
      <4>1. c.until = IF ending # None /\ ending < v THEN ending ELSE v
          BY <2>2, <2>6
      <4> HIDE DEF c, ending, later
      <4> QED BY <2>5, <3>1, <4>1
    <3>5. ~(u < c.until)
      <4>1. c.until = IF ending # None /\ ending < v THEN ending ELSE v
          BY <2>2, <2>6
      <4> HIDE DEF c, ending, later
      <4> QED BY <2>5, <3>1, <4>1
    <3> HIDE DEF c, next
    <3> QED BY <1>2, <3>3, <3>4, <3>5
  <2> QED BY <2>8, <2>9
<1>4. ASSUME a.end = t + 1, ~OnGrant(a, a.end) PROVE next.start = a.end
  <2>1. a.end = u /\ u # None
    <3>1. None \notin Int
        BY CalendarAssumption
    <3> QED BY <1>2, <1>4, <3>1
  <2>2. billing_user_plan(a, u) = "free"
      BY <2>1 DEF billing_user_plan
  <2>3. effective_user_plan(a, u) = "free"
    <3>1. ~HasGrant(a, u)
        BY <1>4, <2>1, <2>2 DEF OnGrant
    <3> QED BY <2>2, <3>1 DEF effective_user_plan
  <2>4. Anchor(a, u) = u /\ Anchored(a, u)
    <3>1. ~OnGrant(a, u)
        BY <1>4, <2>1
    <3> QED BY <2>1, <2>3, <3>1 DEF Anchor, Anchored
  <2>5. PICK k \in Nat :
          /\ k >= 12 /\ k >= MonthOf(DateOf(u)) /\ Turn(u, k) <= u
          /\ quota_cycle_for_user(a, u).start = Turn(u, k)
    <3>1. \E k \in Nat :
            /\ k >= 12 /\ k >= MonthOf(DateOf(Anchor(a, u))) /\ Turn(Anchor(a, u), k) <= u
            /\ quota_cycle_for_user(a, u).start = Turn(Anchor(a, u), k)
        BY <1>1, <1>2, <2>4, CycleIs
    <3> QED BY <2>4, <3>1
  <2> DEFINE m == MonthOf(DateOf(u))
  <2>6. m \in Nat /\ m >= 12 /\ Turn(u, m) = u
      BY <1>2, AnchorIsATurn
  <2> HIDE DEF m
  <2>7. k = m
    <3>1. m < k => Turn(u, m) < Turn(u, k) /\ Turn(u, k) \in Nat
        BY <1>2, <2>6, TurnsFollow
    <3> QED BY <1>2, <2>5, <2>6, <3>1 DEF m
  <2> QED BY <1>2, <2>1, <2>5, <2>6, <2>7
<1> QED BY <1>3, <1>4

(* Cycles keep the day and the time of day of their anchor: a short month has  *)
(* its own end and moves no later cycle (add_months_utc, counted from the     *)
(* anchor and never from the previous cycle).                                *)
THEOREM CycleDaysStay == CyclesKeepTheirDay
<1> SUFFICES ASSUME NEW a \in Accounts, NEW t \in Instants, Anchored(a, t)
    PROVE  LET start  == quota_cycle_for_user(a, t).start
               day    == Day(DateOf(Anchor(a, t)))
               length == MonthLength(Year(DateOf(start)), Month(DateOf(start))) IN
           /\ start % 2 = Anchor(a, t) % 2
           /\ Day(DateOf(start)) = IF day < length THEN day ELSE length
    BY DEF CyclesKeepTheirDay
<1>1. AccountOK(a) /\ t \in Looked
    BY AccountAssumption
<1>2. t \in Nat /\ MonthOf(DateOf(t)) + 1 < 120000
    BY <1>1, LookedInstants, RecordedInstants
<1>3. PICK k \in Nat :
        /\ Anchor(a, t) \in Nat /\ Anchor(a, t) >= 2
        /\ k >= 12 /\ quota_cycle_for_user(a, t).start = Turn(Anchor(a, t), k)
  <2>1. Anchor(a, t) \in Nat /\ Anchor(a, t) >= 2 /\ Anchor(a, t) <= t
      BY <1>1, <1>2, CycleIs
  <2>2. PICK k \in Nat : k >= 12 /\ quota_cycle_for_user(a, t).start = Turn(Anchor(a, t), k)
      BY <1>1, <1>2, CycleIs
  <2> QED BY <2>1, <2>2
<1> DEFINE anchor == Anchor(a, t)
           start  == quota_cycle_for_user(a, t).start
           n      == DateOf(start)
           length == MonthLength(Year(n), Month(n))
           day    == Day(DateOf(anchor))
<1>4. anchor \in Nat /\ anchor >= 2 /\ k >= 12 /\ start = Turn(anchor, k)
    BY <1>3
<1> HIDE DEF anchor, start
<1>5. TurnFits(anchor, k)
    BY <1>4, TurnsLieInTheirMonths
<1>6. start % 2 = anchor % 2
    BY <1>4, <1>5 DEF TurnFits
<1>7. n \in Nat \ {0} /\ MonthOf(n) = k /\ Day(n) = Clamped(k, day)
    BY <1>4, <1>5 DEF TurnFits
<1> HIDE DEF n
<1>8. MonthSize(k) = length
  <2>1. Year(n) = k \div 12 /\ Month(n) = 1 + (k % 12)
      BY <1>7, MonthOfHolds
  <2> QED BY <2>1 DEF MonthSize
<1>9. Day(n) = IF day < length THEN day ELSE length
    BY <1>7, <1>8 DEF Clamped
<1> QED BY <1>6, <1>9 DEF anchor, start, n

(* All that the accounts' counters need of their cycles.                      *)
THEOREM CyclesKeepTheirPromises == CyclesHold
BY CyclesAreOpen, CyclesCoverTime, CycleDaysStay DEF CyclesHold

-----------------------------------------------------------------------------
(* The rules on the calendar.                                                *)

LEMMA NoticesOnDate == ASSUME NoticeInv, OnSchedule, [NoticeNext]_allVars PROVE OnSchedule'
<1>1. IInv
    BY DEF NoticeInv
<1>2. ASSUME UNCHANGED rule PROVE OnSchedule'
    BY <1>2 DEF OnSchedule, OnDate
<1>3. ASSUME NEW w \in Slots, Handle(w) PROVE OnSchedule'
  <2>1. CASE w = Ticker
      BY <1>1, <1>3, <2>1, TickOnDate DEF Handle
  <2>2. CASE w \in Workers
      BY <1>1, <1>3, <2>2, RequestOnDate, RuleAssumption DEF Handle
  <2> QED BY <2>1, <2>2 DEF Slots
<1>4. ASSUME NEW w \in Slots, Tell(w) PROVE OnSchedule'
    BY <1>2, <1>4 DEF Tell, ReadNotice, ClaimNotice, Send, SettleNotice, Telling, vars, tables
<1>5. ASSUME NEW w \in Slots, Kill(w) PROVE OnSchedule'
    BY <1>2, <1>5 DEF Kill, tables
<1>6. CASE Elsewhere
    BY <1>1, <1>6, AroundOnDate DEF Elsewhere
<1>7. CASE UNCHANGED allVars
    BY <1>2, <1>7 DEF allVars, vars, tables
<1> QED BY <1>3, <1>4, <1>5, <1>6, <1>7 DEF NoticeNext

(* However its handlers interleave, die and are retried, a rule is only ever   *)
(* due on its exact start or on a day its schedule falls on; and from such a   *)
(* day the real calendar reaches the very next period and no other, just as    *)
(* the cycles that bound what is charged follow each other without a gap.     *)
THEOREM DatesStayOnSchedule == NoticeSpec => []DatesNeverDrift
<1>1. NoticeInit => OnSchedule
    BY InitOnDate DEF NoticeInit
<1>2. NoticeInv /\ OnSchedule /\ [NoticeNext]_allVars => OnSchedule'
    BY NoticesOnDate
<1>3. NoticeInv /\ [NoticeNext]_allVars => NoticeInv'
    BY NoticeStep
<1>4. CalendarHolds /\ CyclesHold
    BY CalendarKeepsItsPromises, CyclesKeepTheirPromises
<1>5. OnSchedule => DatesNeverDrift
    BY <1>4 DEF DatesNeverDrift
<1> QED BY <1>1, <1>2, <1>3, <1>5, NoticeInitHolds, PTL DEF NoticeSpec
=============================================================================
