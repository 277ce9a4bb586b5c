--------------------------- MODULE BudgetJournal ---------------------------
(***************************************************************************)
(* The coordinator of the preview deployment: one Durable Object that lets *)
(* one request at a time touch the D1 database, keeps a journal of the     *)
(* rows it sets aside and of those D1 reports, and carries out one-use     *)
(* maintenance (initialization, schema upgrades, the business clear).      *)
(* The journal survives a restart, `run' and the lock do not, and neither  *)
(* shares a transaction with D1.                                           *)
(***************************************************************************)
EXTENDS Integers

CONSTANTS
    Versions,       \* schema versions of the journals older deployments left
    ReadCeiling,    \* rows an older deployment could set aside in its life
    Bound,          \* rows one database call may read
    MaxCalls,       \* database calls one product request may make
    MaxRequests,    \* bound: tickets of a behaviour
    MaxRows,        \* bound: rows of the business tables
    MaxCrashes,     \* bound: restarts of the coordinator
    None            \* no stop reason

\* Why a journal admits no further request.
Reasons == {"BUDGET_EXHAUSTED", "REQUEST_LIMIT", "INCOMPLETE_REQUEST",
            "OUTCOME_UNKNOWN", "TIMEOUT", "METERING", "USAGE_EXCEEDED_BOUND",
            "MISMATCH", "OPERATION_LIMIT", "MANUAL_STOP"}

ASSUME BudgetAssumption ==
    /\ Versions \subseteq 4 .. 12
    /\ ReadCeiling \in Nat /\ Bound \in Nat \ {0}
    /\ MaxCalls \in Nat /\ MaxRequests \in Nat /\ MaxRows \in Nat
    /\ MaxCrashes \in Nat
    /\ None \notin Reasons

VARIABLES
    journal,    \* the persisted payload and its evidence rows
    db,         \* D1: the schema it has and the rows it holds
    run,        \* the request that holds the lock
    call,       \* the D1 batch that request awaits
    stray,      \* a batch nobody awaits any more, which D1 may still run
    deploy,     \* what the operator has armed
    truth       \* what really happened in D1, known to no part of the code

vars == <<journal, db, run, call, stray, deploy, truth>>

----------------------------------------------------------------------------
(* One-use cases and the calls each of them makes. *)

Current == 12
Initialize == 0
Upgrades == 5 .. Current
Clear == Current + 1
Cases == {Initialize, Clear} \cup Upgrades

Plan(c) ==
    CASE c = Initialize -> <<"look", "create">>
      [] c = Clear -> <<"look", "clear", "look">>
      [] OTHER -> <<"look", "look", "upgrade", "look">>

Length(c) ==
    CASE c = Initialize -> 2 [] c = Clear -> 3 [] OTHER -> 4

(* Every upgrade compiles a plan of four calls from the counts the journal  *)
(* holds, begins by reserving all of it, and compares what it finds before  *)
(* and after its one write: BeginCase to Completed below. What the versions *)
(* do not share: the earlier upgrades that must not be left open, whether   *)
(* the records must be typed and the counts verified, whether the counts    *)
(* count as verified while it runs, whether they must be found exactly, and *)
(* whether D1 may have retried a read.                                      *)
UpgradeV5  == [after |-> {}, typed |-> FALSE, verified |-> FALSE, keeps |-> TRUE,
               exact |-> FALSE, retries |-> FALSE]
UpgradeV6  == [after |-> {5}, typed |-> FALSE, verified |-> FALSE, keeps |-> FALSE,
               exact |-> TRUE, retries |-> TRUE]
UpgradeV7  == [UpgradeV6 EXCEPT !.after = 5 .. 6, !.verified = TRUE]
UpgradeV8  == [UpgradeV6 EXCEPT !.after = 5 .. 7, !.verified = TRUE]
UpgradeV9  == [UpgradeV6 EXCEPT !.after = 5 .. 8, !.verified = TRUE]
UpgradeV10 == [UpgradeV6 EXCEPT !.after = 5 .. 9, !.verified = TRUE]
UpgradeV11 == [UpgradeV6 EXCEPT !.after = 5 .. 10, !.verified = TRUE, !.typed = TRUE]
UpgradeV12 == [UpgradeV6 EXCEPT !.after = 5 .. 11, !.verified = TRUE, !.typed = TRUE]

Upgrade(c) == <<UpgradeV5, UpgradeV6, UpgradeV7, UpgradeV8,
                UpgradeV9, UpgradeV10, UpgradeV11, UpgradeV12>>[c - 4]

Effects == {"look", "create", "upgrade", "clear", "insert", "remove"}

Jobs == {"fetch", "health", "tick", "grant"}

\* Requests of the operator: they never initialize or upgrade, and what a grant
\* writes is a typed record.
Attending == {"tick", "grant"}

NoCall == [state |-> "none", effect |-> "look", case |-> Initialize,
           reads |-> 0, single |-> TRUE, complete |-> TRUE,
           schema |-> 0, rows |-> 0]
Idle == [pc |-> "idle", job |-> "fetch", case |-> Initialize, step |-> 1,
         ticket |-> 0, calls |-> 0, late |-> FALSE, verified |-> FALSE,
         upper |-> 0]

\* BudgetJournal.stop: the first reason stays.
Stop(j, reason) == IF j.stopped = None THEN [j EXCEPT !.stopped = reason] ELSE j

\* BudgetJournal.check as the reason it raises, None when it passes.
Barred(j, r) ==
    IF j.stopped # None THEN j.stopped
    ELSE IF j.active # r.ticket THEN "INCOMPLETE_REQUEST"
    ELSE IF r.late THEN "TIMEOUT" ELSE None

\* BudgetJournal.record: what D1 reported is kept even after a stop.
Record(j, c) ==
    [j EXCEPT !.actual = @ + c.reads, !.evidence = @ /\ c.complete]

\* weakened: settles whatever the number of attempts.
SettleRetried(j, c) == [j EXCEPT !.reserved = @ - (Bound - c.reads)]

\* settle_product_reads: only a single attempt proves the rest unused.
Settle(j, c) ==
    IF c.single THEN [j EXCEPT !.reserved = @ - (Bound - c.reads)] ELSE j

\* reserve_operation: rows are set aside before the call is sent.
Reserve(j, n) == [j EXCEPT !.reserved = @ + n]

\* begin: the next ticket is the open one.
Issue(j) == [j EXCEPT !.requests = @ + 1, !.active = j.requests + 1]

----------------------------------------------------------------------------
(* The constructor: three one-time transitions, then the pending ticket. *)

Accounted(j) == j.actual <= j.reserved

\* Each transition forgives one stop that was raised before its call was sent.
MayResume(j, reason) ==
    /\ j.stopped \in {None, reason}
    /\ Accounted(j)
    /\ IF j.stopped = None THEN j.active = 0
       ELSE j.ready /\ j.evidence /\ j.active <= j.requests

Resumed(j) == [j EXCEPT !.stopped = None, !.active = 0]

GrantReads(j) ==
    IF ~j.granted /\ MayResume(j, "BUDGET_EXHAUSTED") /\ j.reserved <= ReadCeiling
    THEN [Resumed(j) EXCEPT !.granted = TRUE] ELSE j

LiftRequestLimit(j) ==
    IF ~j.unlimited /\ MayResume(j, "REQUEST_LIMIT") /\ j.active = 0
    THEN [Resumed(j) EXCEPT !.unlimited = TRUE] ELSE j

EnableOperations(j) ==
    IF ~j.product /\ MayResume(j, "BUDGET_EXHAUSTED")
    THEN [Resumed(j) EXCEPT !.product = TRUE] ELSE j

\* weakened: a restart closes the ticket it finds.
ConstructForgiving(j) ==
    [EnableOperations(LiftRequestLimit(GrantReads(j))) EXCEPT !.active = 0]

Construct(j) ==
    LET k == EnableOperations(LiftRequestLimit(GrantReads(j)))
    IN  IF k.active # 0 THEN Stop(k, "INCOMPLETE_REQUEST") ELSE k

----------------------------------------------------------------------------
(* Initial states: an empty database with no journal yet, or the journal   *)
(* an older deployment left, stopped or not, and unmarked: its cardinality *)
(* was never declared verified when a stop interrupted it.                 *)

NewJournal ==
    [requests |-> 0, active |-> 0, stopped |-> None, reserved |-> 0,
     actual |-> 0, evidence |-> TRUE, granted |-> FALSE,
     unlimited |-> FALSE, product |-> FALSE, ready |-> FALSE, version |-> 0,
     rows |-> 0, verified |-> FALSE, typed |-> TRUE,
     marker |-> [c \in Cases |-> "unused"]]

LegacyJournal(version, stopped, active, reserved, verified) ==
    [NewJournal EXCEPT !.requests = 1, !.active = active, !.stopped = stopped,
     !.reserved = reserved, !.actual = 1, !.evidence = stopped # "METERING",
     !.ready = TRUE, !.version = version, !.verified = verified,
     !.typed = version > 10,
     !.marker = [c \in Cases |-> IF c <= version THEN "complete" ELSE "unused"]]

Fresh ==
    /\ journal = Construct(NewJournal)
    /\ db = [schema |-> 0, rows |-> 0]
    /\ truth = [used |-> 0, overrun |-> FALSE, lost |-> FALSE,
                writes |-> [c \in Cases |-> 0]]

Legacy ==
    \E version \in Versions, stopped \in {None, "BUDGET_EXHAUSTED", "REQUEST_LIMIT", "METERING", "OUTCOME_UNKNOWN"},
       active \in {0, 1}, reserved \in {Bound, ReadCeiling + Bound},
       verified \in BOOLEAN, n \in 0 .. 1 :
        /\ stopped \in {"METERING", "OUTCOME_UNKNOWN"} => active = 1
        /\ stopped = "REQUEST_LIMIT" => active = 0
        /\ verified => stopped = None /\ active = 0
        /\ active = 0 => n = 0
        /\ journal = Construct(LegacyJournal(version, stopped, active, reserved, verified))
        /\ db = [schema |-> version, rows |-> n]
        /\ truth = [used |-> 1, overrun |-> FALSE,
                    lost |-> active = 1 /\ stopped # "BUDGET_EXHAUSTED",
                    writes |-> [c \in Cases |-> IF c <= version THEN 1 ELSE 0]]

Init ==
    /\ Fresh \/ Legacy
    /\ run = Idle /\ call = NoCall /\ stray = NoCall
    /\ deploy \in [clear : BOOLEAN, upgrade : BOOLEAN, crashes : {0}]

----------------------------------------------------------------------------
(* The lock and the maintenance that precedes a request. *)

Cleared == journal.marker[Clear] = "complete"
UpToDate == journal.ready /\ journal.version = Current

\* Every path that gives up leaves the ticket open and stops the journal.
GiveUp(j, reason) ==
    /\ journal' = Stop(j, reason)
    /\ run' = Idle

\* A request gets the lock. An armed clear admits health checks only, and one
\* that was begun and never completed stops the journal.
Acquire(job) ==
    /\ run.pc = "idle" /\ journal.requests < MaxRequests
    /\ job \in Attending => UpToDate
    /\ job = "grant" => journal.typed
    /\ deploy.clear /\ ~Cleared => job = "health"
    /\ IF deploy.clear /\ journal.marker[Clear] = "open"
       THEN GiveUp(journal, "MISMATCH")
       ELSE /\ run' = [Idle EXCEPT !.pc = IF job \in Attending THEN "begin" ELSE "prepare",
                                   !.job = job]
            /\ UNCHANGED journal
    /\ UNCHANGED <<db, call, stray, deploy, truth>>

\* The next one-use case the request has to carry out, if any.
Due ==
    IF ~journal.ready THEN {Initialize}
    ELSE IF journal.version < Current THEN {journal.version + 1}
    ELSE IF deploy.clear /\ ~Cleared THEN {Clear} ELSE {}

\* The guards of begin_... and of the clear's plan: the case is unused, what must
\* come before it is complete, typed and verified.
Admits(c) ==
    /\ journal.stopped = None /\ journal.active = 0
    /\ journal.marker[c] = "unused"
    /\ c # Initialize =>
         /\ journal.marker[Initialize] = "complete"
         /\ \A d \in IF c = Clear THEN Cases ELSE Upgrade(c).after : journal.marker[d] # "open"
         /\ c = Clear \/ Upgrade(c).verified => journal.verified
         /\ c = Clear \/ Upgrade(c).typed => journal.typed
    /\ c \in Upgrades => deploy.upgrade

\* Only the upgrade to version 5 lets the cardinality count as verified meanwhile.
KeepsVerified(c) == c \in Upgrades /\ Upgrade(c).keeps

\* weakened: reserves each case as if it were one call.
BeginCaseShort(c) ==
    /\ run.pc = "prepare" /\ c \in Due /\ Admits(c)
    /\ journal' = [Issue(Reserve(journal, Bound)) EXCEPT
                     !.marker[c] = "open", !.verified = @ /\ KeepsVerified(c)]
    /\ run' = [run EXCEPT !.pc = "plan", !.case = c, !.step = 1,
                          !.ticket = journal.requests + 1, !.late = FALSE]
    /\ UNCHANGED <<db, call, stray, deploy, truth>>

\* The ticket, the whole reservation and the marker are saved together,
\* before the first call of the case.
BeginCase(c) ==
    /\ run.pc = "prepare" /\ c \in Due /\ Admits(c)
    /\ journal' = [Issue(Reserve(journal, Length(c) * Bound)) EXCEPT
                     !.marker[c] = "open", !.verified = @ /\ KeepsVerified(c)]
    /\ run' = [run EXCEPT !.pc = "plan", !.case = c, !.step = 1,
                          !.ticket = journal.requests + 1, !.late = FALSE]
    /\ UNCHANGED <<db, call, stray, deploy, truth>>

\* weakened: only a stopped journal releases the lock.
RefuseStopped ==
    /\ run.pc \in {"prepare", "begin"} /\ journal.stopped # None
    /\ run' = Idle
    /\ UNCHANGED <<journal, db, call, stray, deploy, truth>>

\* Refused before any ticket: the lock is released and nothing is written.
Refuse ==
    /\ \/ run.pc \in {"prepare", "begin"} /\ journal.stopped # None
       \/ run.pc = "prepare" /\ \E c \in Due : ~Admits(c)
    /\ run' = Idle
    /\ UNCHANGED <<journal, db, call, stray, deploy, truth>>

Open ==
    /\ \/ run.pc = "prepare" /\ Due = {}
       \/ run.pc = "begin"
    /\ journal.stopped = None /\ journal.active = 0
    /\ journal' = Issue(journal)
    /\ run' = [run EXCEPT !.pc = "serve", !.ticket = journal.requests + 1, !.calls = 0,
                          !.late = FALSE, !.verified = journal.verified,
                          !.upper = journal.rows]
    /\ UNCHANGED <<db, call, stray, deploy, truth>>

----------------------------------------------------------------------------
(* Calls of D1. *)

Send(effect) ==
    call' = [NoCall EXCEPT !.state = "sent", !.effect = effect, !.case = run.case]

\* A step of a one-use case; its rows were reserved when the case began.
SendStep ==
    /\ run.pc = "plan"
    /\ IF Barred(journal, run) = None
       THEN /\ Send(Plan(run.case)[run.step])
            /\ run' = [run EXCEPT !.pc = "awaitStep"]
            /\ UNCHANGED journal
       ELSE /\ GiveUp(journal, Barred(journal, run))
            /\ UNCHANGED call
    /\ UNCHANGED <<db, stray, deploy, truth>>

\* A call of the application (or, when the cardinality is not verified, the
\* refresh that must come first): reserved, then sent, without a pause.
Operate(effect) ==
    /\ run.pc = "serve"
    /\ effect # "look" => run.verified
    /\ effect = "insert" => run.upper < MaxRows
    /\ LET barred == IF Barred(journal, run) # None THEN Barred(journal, run)
                     ELSE IF run.calls >= MaxCalls THEN "OPERATION_LIMIT" ELSE None
       IN  IF barred = None
           THEN /\ journal' = Reserve(journal, Bound)
                /\ Send(effect)
                /\ run' = [run EXCEPT !.pc = "await", !.calls = @ + 1,
                             !.verified = @ /\ effect = "look",
                             !.upper = IF effect = "insert" THEN @ + 1 ELSE @]
           ELSE GiveUp(journal, barred) /\ UNCHANGED call
    /\ UNCHANGED <<db, stray, deploy, truth>>

\* What a batch may do to the database; it is atomic.
After(c) ==
    CASE c.effect = "insert" -> {db, [db EXCEPT !.rows = @ + 1]}
      [] c.effect = "remove" -> {db, [db EXCEPT !.rows = IF @ > 0 THEN @ - 1 ELSE 0]}
      [] c.effect = "create" -> {[schema |-> Current, rows |-> 0]}
      [] c.effect = "upgrade" -> {[db EXCEPT !.schema = c.case]}
      [] c.effect = "clear" -> {[db EXCEPT !.rows = 0]}
      [] OTHER -> {db}

\* A one-use write has been carried out once more.
Counted(c) ==
    IF c.effect \in {"create", "upgrade", "clear"}
    THEN [truth.writes EXCEPT ![c.case] = @ + 1] ELSE truth.writes

\* D1 carries out the batch and answers: in one attempt with its exact use,
\* after retries, beyond the bound, or without usable metering.
Execute ==
    /\ call.state = "sent"
    /\ \E d \in After(call), reads \in 0 .. Bound + 1, single, complete \in BOOLEAN :
        /\ reads > Bound => single /\ complete
        /\ ~complete => reads = 0
        /\ db' = d
        /\ call' = [call EXCEPT !.state = "done", !.reads = reads, !.single = single,
                      !.complete = complete, !.schema = d.schema, !.rows = d.rows]
        /\ truth' = [truth EXCEPT
                       !.used = @ + (IF single /\ complete /\ reads <= Bound THEN reads ELSE Bound),
                       !.overrun = @ \/ reads > Bound, !.writes = Counted(call)]
    /\ UNCHANGED <<journal, run, stray, deploy>>

\* A batch nobody awaits is carried out all the same.
ExecuteStray ==
    /\ stray.state = "sent"
    /\ \E d \in After(stray) : db' = d
    /\ truth' = [truth EXCEPT !.used = @ + Bound, !.writes = Counted(stray)]
    /\ stray' = NoCall
    /\ UNCHANGED <<journal, run, call, deploy>>

\* weakened: a step that got no answer is tried again.
AbandonAndRetry ==
    /\ run.pc = "awaitStep"
    /\ stray' = IF call.state = "sent" THEN call ELSE stray
    /\ call' = NoCall
    /\ run' = [run EXCEPT !.pc = "plan"]
    /\ truth' = [truth EXCEPT !.lost = TRUE]
    /\ UNCHANGED <<journal, db, deploy>>

\* The batch fails, times out or is cancelled: it may run later or never.
Abandon ==
    /\ run.pc \in {"await", "awaitStep"}
    /\ stray' = IF call.state = "sent" THEN call ELSE stray
    /\ call' = NoCall
    /\ GiveUp(journal, "OUTCOME_UNKNOWN")
    /\ truth' = [truth EXCEPT !.lost = TRUE]
    /\ UNCHANGED <<db, deploy>>

\* The reason for which an answer ends the request, None when it does not.
Verdict(j) ==
    IF ~call.complete THEN "METERING"
    ELSE IF Barred(j, run) # None THEN Barred(j, run)
    ELSE IF call.reads > Bound THEN "USAGE_EXCEEDED_BOUND" ELSE None

\* The upgrade to version 5 accepts fewer rows than the journal holds.
SameRows(c) == call.rows = journal.rows \/ (~Upgrade(c).exact /\ call.rows <= journal.rows)

\* What each step of a case must have found.
Expected(c, step) ==
    CASE c = Initialize -> step = 1 => call.schema = 0
      [] c = Clear /\ step = 1 -> call.schema = Current /\ call.rows = journal.rows
      [] c = Clear /\ step = 3 -> call.schema = Current /\ call.rows = 0
      [] c \in Upgrades /\ step = 1 -> call.schema = c - 1
      [] c \in Upgrades /\ step = 2 -> SameRows(c)
      [] c \in Upgrades /\ step = 4 -> call.schema = c /\ SameRows(c)
      [] OTHER -> TRUE

\* Only reads may have been retried; v5 accepts no retry at all.
AttemptsProven(c) ==
    \/ call.single \/ c = Initialize
    \/ call.effect = "look" /\ (c \in Upgrades => Upgrade(c).retries)

\* The last save of a case: data, version and the complete marker together.
Completed(j, c) ==
    [j EXCEPT !.marker[c] = "complete", !.active = 0, !.ready = TRUE,
              !.version = IF c \in Upgrades THEN c ELSE Current,
              !.rows = IF c \in Upgrades THEN call.rows ELSE 0,
              !.verified = c # Initialize]

AnswerStep ==
    /\ run.pc = "awaitStep" /\ call.state = "done"
    /\ LET j == Record(journal, call)
           bad == IF Verdict(j) # None THEN Verdict(j)
                  ELSE IF ~AttemptsProven(run.case) THEN "MISMATCH"
                  ELSE IF ~Expected(run.case, run.step) THEN "MISMATCH" ELSE None
       IN  IF bad # None THEN GiveUp(j, bad)
           ELSE IF run.step < Length(run.case)
           THEN journal' = j /\ run' = [run EXCEPT !.pc = "plan", !.step = @ + 1]
           ELSE /\ journal' = Completed(j, run.case)
                /\ run' = [Idle EXCEPT !.pc = "prepare", !.job = run.job]
    /\ call' = NoCall
    /\ UNCHANGED <<db, stray, deploy, truth>>

\* The answer to the application's call. A look that found the cardinality
\* unverified is the refresh: it must fit the upper bound and is saved.
AnswerOperation ==
    /\ run.pc = "await" /\ call.state = "done"
    /\ LET recorded == Record(journal, call)
           settled == Settle(recorded, call)
           refresh == call.effect = "look" /\ ~run.verified
           bad == IF Verdict(recorded) # None THEN Verdict(recorded)
                  ELSE IF settled.reserved < settled.actual THEN "MISMATCH" ELSE None
       IN  IF bad # None THEN GiveUp(recorded, bad)
           ELSE IF refresh /\ call.rows > run.upper THEN GiveUp(settled, "MISMATCH")
           ELSE /\ journal' = IF refresh
                              THEN [settled EXCEPT !.rows = call.rows, !.verified = TRUE]
                              ELSE settled
                /\ run' = [run EXCEPT !.pc = "serve", !.verified = @ \/ refresh,
                             !.upper = IF refresh THEN call.rows ELSE @]
    /\ call' = NoCall
    /\ UNCHANGED <<db, stray, deploy, truth>>

----------------------------------------------------------------------------
(* The end of a request, and what may happen at any time. *)

Finish ==
    /\ run.pc = "serve" /\ run.verified
    /\ IF Barred(journal, run) = None
       THEN journal' = [journal EXCEPT !.active = 0] /\ run' = Idle
       ELSE GiveUp(journal, Barred(journal, run))
    /\ UNCHANGED <<db, call, stray, deploy, truth>>

\* The application failed, was refused or ran out of time. Only when every
\* call is accounted for and the cardinality refreshed is the ticket closed.
Fail ==
    /\ run.pc = "serve"
    /\ IF run.verified /\ journal.stopped = None
       THEN journal' = [journal EXCEPT !.active = 0] /\ run' = Idle
       ELSE GiveUp(journal, "OUTCOME_UNKNOWN")
    /\ UNCHANGED <<db, call, stray, deploy, truth>>

\* A cancelled request stops the journal, whatever it had done.
Cancel ==
    /\ run.pc = "serve"
    /\ GiveUp(journal, "OUTCOME_UNKNOWN")
    /\ UNCHANGED <<db, call, stray, deploy, truth>>

RunLate ==
    /\ run.pc \in {"plan", "serve", "await", "awaitStep"} /\ ~run.late
    /\ run' = [run EXCEPT !.late = TRUE]
    /\ UNCHANGED <<journal, db, call, stray, deploy, truth>>

\* The operator's stop needs no lock.
ManualStop ==
    /\ journal.stopped = None
    /\ journal' = Stop(journal, "MANUAL_STOP")
    /\ UNCHANGED <<db, run, call, stray, deploy, truth>>

\* The object restarts, perhaps with another configuration: the awaited call
\* is nobody's, and the constructor reads the journal again.
Restart ==
    /\ deploy.crashes < MaxCrashes
    /\ run' = Idle /\ call' = NoCall
    /\ stray' = IF call.state = "sent" THEN call ELSE stray
    /\ truth' = [truth EXCEPT !.lost = @ \/ call.state # "none"]
    /\ journal' = Construct(journal)
    /\ deploy' \in [clear : BOOLEAN, upgrade : BOOLEAN, crashes : {deploy.crashes + 1}]
    /\ UNCHANGED db

Coordinator ==
    \/ \E c \in Cases : BeginCase(c)
    \/ Refuse
    \/ Open \/ SendStep
    \/ \E effect \in {"look", "insert", "remove"} : Operate(effect)
    \/ AnswerStep \/ AnswerOperation \/ Finish

Next ==
    \/ \E job \in Jobs : Acquire(job)
    \/ Coordinator
    \/ Execute \/ ExecuteStray \/ Abandon \/ Fail \/ Cancel \/ RunLate
    \/ ManualStop \/ Restart

Spec == Init /\ [][Next]_vars

\* The event loop runs the request that holds the lock, and every D1 batch is
\* answered or times out. Nothing is owed to a restart or to the operator.
FairSpec == Spec /\ WF_vars(Coordinator) /\ WF_vars(Execute \/ Abandon)

----------------------------------------------------------------------------
(* Properties. *)

JournalType ==
    [requests : Nat, active : Nat, stopped : Reasons \cup {None}, reserved : Int,
     actual : Nat, evidence : BOOLEAN, granted : BOOLEAN, unlimited : BOOLEAN,
     product : BOOLEAN, ready : BOOLEAN, version : Nat, rows : Nat,
     verified : BOOLEAN, typed : BOOLEAN, marker : [Cases -> {"unused", "open", "complete"}]]
DatabaseType == [schema : Nat, rows : Nat]
RunType ==
    [pc : {"idle", "prepare", "begin", "plan", "awaitStep", "serve", "await"},
     job : Jobs, case : Cases, step : 1 .. 4, ticket : Nat, calls : Nat,
     late : BOOLEAN, verified : BOOLEAN, upper : Nat]
CallType ==
    [state : {"none", "sent", "done"}, effect : Effects, case : Cases,
     reads : Nat, single : BOOLEAN, complete : BOOLEAN, schema : Nat, rows : Nat]

\* Every variable keeps its type.
TypeOK ==
    /\ journal \in JournalType
    /\ db \in DatabaseType
    /\ run \in RunType
    /\ call \in CallType /\ stray \in CallType
    /\ deploy \in [clear : BOOLEAN, upgrade : BOOLEAN, crashes : Nat]
    /\ truth \in [used : Nat, overrun : BOOLEAN, lost : BOOLEAN, writes : [Cases -> Nat]]

Outstanding(c) == IF c.state = "sent" THEN Bound ELSE 0

\* Whatever D1 has read or may still read, in calls whose answers were lost
\* and in calls it retried, had been reserved and was not given back.
UseIsReserved ==
    truth.used + Outstanding(call) + Outstanding(stray) <= journal.reserved

\* When the next request may start, the journal knows the schema that D1
\* has, and a cardinality it calls verified is exact.
JournalKnowsDatabase ==
    journal.stopped = None /\ journal.active = 0 /\ journal.ready =>
        /\ db.schema = journal.version
        /\ journal.verified => db.rows = journal.rows

\* The write of a one-use case reaches D1 at most once, whatever is lost,
\* restarted or still under way.
CarriedOutOnce == \A c \in Cases : truth.writes[c] <= 1

\* The journal is well formed, covers what D1 did or may still do, never believes
\* in a schema or a count that D1 does not have and never repeats a one-use write,
\* whatever was interrupted.
JournalIsTrue == TypeOK /\ UseIsReserved /\ JournalKnowsDatabase /\ CarriedOutOnce

\* Once an outcome is unknown or a call exceeded its bound, no restart, grant
\* or later request sends anything to D1.
NothingAfterUnknown ==
    [][call.state # "sent" /\ call'.state = "sent" => ~truth.lost /\ ~truth.overrun]_vars

\* The lock is always released again.
LockIsReleased == run.pc # "idle" ~> run.pc = "idle"

\* The journal implements the accounting promised by ReservedUse.
Account == INSTANCE ReservedUse WITH
    reserved <- journal.reserved,
    used <- truth.used,
    pending <- Outstanding(call) + Outstanding(stray),
    unknown <- truth.lost

ImplementsReservedUse == Account!Spec
============================================================================
