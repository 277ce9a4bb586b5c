------------------------ MODULE BudgetJournalProofs ------------------------
(***************************************************************************)
(* Theorems about the coordinator of the preview database, for every set   *)
(* of journal versions, every reservation bound and every number of        *)
(* requests, calls, rows and restarts. The inductive invariant adds to     *)
(* JournalIsTrue what the lock, the plan of a case and the reservation     *)
(* still to be spent say between two steps.                                *)
(***************************************************************************)
EXTENDS BudgetJournal, TLAPS

(* What the pieces of the journal are, whatever they were made of.         *)
LEMMA StopFacts ==
    ASSUME NEW j \in JournalType, NEW reason \in Reasons
    PROVE  /\ Stop(j, reason) \in JournalType
           /\ Stop(j, reason).stopped = IF j.stopped = None THEN reason ELSE j.stopped
           /\ Stop(j, reason).stopped # None
           /\ Stop(j, reason) = [j EXCEPT !.stopped = Stop(j, reason).stopped]
BY BudgetAssumption, SMTT(30) DEF Stop, JournalType

(* Stops that are raised before any call is sent.                          *)
Forgivable == {"BUDGET_EXHAUSTED", "REQUEST_LIMIT"}

LEMMA BarredReason ==
    ASSUME NEW j \in JournalType, NEW r \in RunType
    PROVE  /\ Barred(j, r) \in Reasons \cup {None}
           /\ Barred(j, r) = None => j.stopped = None /\ j.active = r.ticket
           /\ j.stopped \notin Forgivable => Barred(j, r) \notin Forgivable
<1>1. Barred(j, r) \in Reasons \cup {None}
    BY SMTT(30) DEF Barred, JournalType, Reasons
<1> QED BY <1>1, BudgetAssumption DEF Barred, Reasons, Forgivable

LEMMA LengthRange == \A c \in Cases : Length(c) \in 2 .. 4
BY DEF Length, Cases

LEMMA PlanEffect == \A c \in Cases, i \in 1 .. 4 : i <= Length(c) => Plan(c)[i] \in Effects
BY SMTT(30) DEF Plan, Length, Effects, Cases, Upgrades, Clear, Current, Initialize

(* The constructor of an object that restarts.                             *)
LEMMA ResumedType == ASSUME NEW j \in JournalType PROVE Resumed(j) \in JournalType
<1>1. None \in Reasons \cup {None} /\ 0 \in Nat
    OBVIOUS
<1> QED BY <1>1, ZenonT(60) DEF Resumed, JournalType

LEMMA FlagType ==
    ASSUME NEW j \in JournalType
    PROVE  /\ [j EXCEPT !.granted = TRUE] \in JournalType
           /\ [j EXCEPT !.unlimited = TRUE] \in JournalType
           /\ [j EXCEPT !.product = TRUE] \in JournalType
BY ZenonT(60) DEF JournalType

LEMMA GrantType == \A j \in JournalType : GrantReads(j) \in JournalType
BY ResumedType, FlagType, ZenonT(60) DEF GrantReads

LEMMA LiftType == \A j \in JournalType : LiftRequestLimit(j) \in JournalType
BY ResumedType, FlagType, ZenonT(60) DEF LiftRequestLimit

LEMMA EnableType == \A j \in JournalType : EnableOperations(j) \in JournalType
BY ResumedType, FlagType, ZenonT(60) DEF EnableOperations

LEMMA ConstructType == \A j \in JournalType : Construct(j) \in JournalType
<1> TAKE j \in JournalType
<1> DEFINE k == EnableOperations(LiftRequestLimit(GrantReads(j)))
<1>1. k \in JournalType
    BY GrantType, LiftType, EnableType
<1> HIDE DEF k
<1>2. Stop(k, "INCOMPLETE_REQUEST") \in JournalType
    BY <1>1, StopFacts DEF Reasons
<1> QED BY <1>1, <1>2 DEF Construct, k

(* A transition keeps every field but the stop, the ticket and its own mark.  *)
Kept(k, j) ==
    /\ k.requests = j.requests /\ k.reserved = j.reserved /\ k.actual = j.actual
    /\ k.evidence = j.evidence /\ k.ready = j.ready /\ k.version = j.version
    /\ k.rows = j.rows /\ k.verified = j.verified /\ k.typed = j.typed
    /\ k.marker = j.marker

LEMMA GrantFacts ==
    ASSUME NEW j \in JournalType
    PROVE  /\ Kept(GrantReads(j), j)
           /\ GrantReads(j).unlimited = j.unlimited /\ GrantReads(j).product = j.product
           /\ \/ GrantReads(j).stopped = j.stopped /\ GrantReads(j).active = j.active
              \/ /\ j.stopped = "BUDGET_EXHAUSTED" \/ (j.stopped = None /\ j.active = 0)
                 /\ GrantReads(j).stopped = None /\ GrantReads(j).active = 0
<1>1. CASE GrantReads(j) = j
    BY <1>1 DEF Kept
<1>2. CASE GrantReads(j) # j
  <2>1. /\ GrantReads(j) = [Resumed(j) EXCEPT !.granted = TRUE]
        /\ MayResume(j, "BUDGET_EXHAUSTED")
    BY <1>2 DEF GrantReads
  <2>2. j.stopped = "BUDGET_EXHAUSTED" \/ (j.stopped = None /\ j.active = 0)
    BY <2>1 DEF MayResume
  <2> QED BY <2>1, <2>2 DEF Resumed, JournalType, Kept
<1> QED BY <1>1, <1>2

LEMMA LiftFacts ==
    ASSUME NEW j \in JournalType
    PROVE  /\ Kept(LiftRequestLimit(j), j)
           /\ LiftRequestLimit(j).product = j.product
           /\ LiftRequestLimit(j).active = j.active
           /\ \/ LiftRequestLimit(j).stopped = j.stopped
              \/ j.stopped = "REQUEST_LIMIT" /\ LiftRequestLimit(j).stopped = None
           /\ ~j.unlimited /\ MayResume(j, "REQUEST_LIMIT") /\ j.active = 0
                => LiftRequestLimit(j).stopped = None
BY SMTT(60) DEF LiftRequestLimit, MayResume, Accounted, Resumed, JournalType, Kept

LEMMA EnableFacts ==
    ASSUME NEW j \in JournalType
    PROVE  /\ Kept(EnableOperations(j), j)
           /\ \/ EnableOperations(j).stopped = j.stopped /\ EnableOperations(j).active = j.active
              \/ /\ j.stopped = "BUDGET_EXHAUSTED" \/ (j.stopped = None /\ j.active = 0)
                 /\ EnableOperations(j).stopped = None /\ EnableOperations(j).active = 0
           /\ ~j.product /\ MayResume(j, "BUDGET_EXHAUSTED")
                => EnableOperations(j).stopped = None /\ EnableOperations(j).active = 0
<1>1. CASE EnableOperations(j) = j
  <2>1. ~(~j.product /\ MayResume(j, "BUDGET_EXHAUSTED")) \/ j = [Resumed(j) EXCEPT !.product = TRUE]
    BY <1>1 DEF EnableOperations
  <2>2. j = [Resumed(j) EXCEPT !.product = TRUE] => j.stopped = None /\ j.active = 0
    BY DEF Resumed, JournalType
  <2> QED BY <1>1, <2>1, <2>2 DEF Kept
<1>2. CASE EnableOperations(j) # j
  <2>1. /\ EnableOperations(j) = [Resumed(j) EXCEPT !.product = TRUE]
        /\ MayResume(j, "BUDGET_EXHAUSTED")
    BY <1>2 DEF EnableOperations
  <2>2. j.stopped = "BUDGET_EXHAUSTED" \/ (j.stopped = None /\ j.active = 0)
    BY <2>1 DEF MayResume
  <2> QED BY <2>1, <2>2 DEF Resumed, JournalType, Kept
<1> QED BY <1>1, <1>2

LEMMA ConstructFacts ==
    ASSUME NEW j \in JournalType
    PROVE  /\ Construct(j) \in JournalType
           /\ Kept(Construct(j), j)
           /\ j.stopped \notin Forgivable =>
                /\ Construct(j).active = j.active
                /\ Construct(j).stopped =
                     IF j.stopped = None /\ j.active # 0 THEN "INCOMPLETE_REQUEST" ELSE j.stopped
<1> DEFINE g == GrantReads(j)
           l == LiftRequestLimit(g)
           k == EnableOperations(l)
<1>1. g \in JournalType /\ l \in JournalType /\ k \in JournalType
    BY GrantType, LiftType, EnableType
<1>2. Kept(k, j)
    BY <1>1, GrantFacts, LiftFacts, EnableFacts DEF Kept
<1>3. j.stopped \notin Forgivable => k.active = j.active /\ k.stopped = j.stopped
  <2>1. j.stopped \notin Forgivable => g.active = j.active /\ g.stopped = j.stopped
    BY GrantFacts DEF Forgivable
  <2>2. j.stopped \notin Forgivable => l.active = j.active /\ l.stopped = j.stopped
    BY <1>1, <2>1, LiftFacts DEF Forgivable
  <2> HIDE DEF l
  <2> QED BY <1>1, <2>2, EnableFacts DEF Forgivable
<1> HIDE DEF k
<1>4. k.active # 0 => /\ Construct(j) = Stop(k, "INCOMPLETE_REQUEST")
                      /\ Construct(j) \in JournalType
                      /\ Construct(j).stopped = IF k.stopped = None THEN "INCOMPLETE_REQUEST" ELSE k.stopped
                      /\ Construct(j) = [k EXCEPT !.stopped = Construct(j).stopped]
    BY <1>1, StopFacts DEF Construct, k, Reasons
<1>5. k.active = 0 => Construct(j) = k
    BY DEF Construct, k
<1>6. Construct(j).active = k.active /\ Kept(Construct(j), k)
    BY <1>1, <1>4, <1>5 DEF JournalType, Kept
<1> QED BY <1>1, <1>2, <1>3, <1>4, <1>5, <1>6 DEF Kept

(* The constructor resumes every stop that was raised before a call was sent. *)
LEMMA ConstructResumes ==
    ASSUME NEW j \in JournalType, j.stopped \in Forgivable, Accounted(j), j.ready, j.evidence,
           j.active <= j.requests, ~j.unlimited, ~j.product,
           j.stopped = "REQUEST_LIMIT" => j.active = 0
    PROVE  Construct(j).stopped = None /\ Construct(j).active = 0
<1> DEFINE g == GrantReads(j)
           l == LiftRequestLimit(g)
           k == EnableOperations(l)
<1>1. g \in JournalType /\ l \in JournalType /\ k \in JournalType
    BY GrantType, LiftType, EnableType
<1>2. /\ Kept(g, j) /\ ~g.unlimited /\ ~g.product
      /\ (g.stopped = j.stopped /\ g.active = j.active) \/ (g.stopped = None /\ g.active = 0)
    BY GrantFacts
<1> HIDE DEF g
<1>3. /\ Kept(l, j) /\ ~l.product
      /\ (l.stopped = "BUDGET_EXHAUSTED" /\ l.active = j.active) \/ (l.stopped = None /\ l.active = 0)
  <2>1. Kept(l, g) /\ ~l.product /\ l.active = g.active
    BY <1>1, <1>2, LiftFacts
  <2>2. MayResume(g, "REQUEST_LIMIT") /\ g.active = 0 => l.stopped = None
    BY <1>1, <1>2, LiftFacts
  <2>3. l.stopped = g.stopped \/ (g.stopped = "REQUEST_LIMIT" /\ l.stopped = None)
    BY <1>1, LiftFacts
  <2>4. g.stopped = "REQUEST_LIMIT" => MayResume(g, "REQUEST_LIMIT") /\ g.active = 0
    BY <1>1, <1>2 DEF MayResume, Accounted, Kept, JournalType, Forgivable
  <2>5. l.stopped = "BUDGET_EXHAUSTED" \/ l.stopped = None
    BY <1>2, <2>2, <2>3, <2>4 DEF Forgivable
  <2> QED BY <1>2, <2>1, <2>2, <2>3, <2>4, <2>5 DEF Kept, Forgivable
<1> HIDE DEF l
<1>4. MayResume(l, "BUDGET_EXHAUSTED")
  <2>1. l.actual <= l.reserved /\ l.ready /\ l.evidence /\ l.requests = j.requests
    BY <1>3 DEF Accounted, Kept
  <2>2. CASE l.stopped = None /\ l.active = 0
    BY <2>1, <2>2 DEF MayResume, Accounted
  <2>3. CASE l.stopped = "BUDGET_EXHAUSTED" /\ l.active = j.active
    BY <1>1, <1>3, <2>1, <2>3, BudgetAssumption, SMTT(30) DEF MayResume, Accounted, Kept, Reasons
  <2> QED BY <1>3, <2>2, <2>3
<1>5. k.stopped = None /\ k.active = 0
    BY <1>1, <1>3, <1>4, EnableFacts
<1>6. k = EnableOperations(LiftRequestLimit(GrantReads(j)))
    BY DEF k, l, g
<1> QED BY <1>5, <1>6 DEF Construct

(* Every path that gives up.                                               *)
LEMMA IdleType == Idle \in RunType
BY SMTT(30) DEF Idle, RunType, Jobs, Cases

LEMMA NoCallType == NoCall \in CallType
BY SMTT(30) DEF NoCall, CallType, Cases, Effects

LEMMA GiveUpFacts ==
    ASSUME NEW j \in JournalType, NEW reason \in Reasons, GiveUp(j, reason)
    PROVE  /\ journal' \in JournalType /\ run' = Idle /\ run' \in RunType
           /\ journal'.stopped = IF j.stopped = None THEN reason ELSE j.stopped
           /\ journal'.stopped # None
           /\ journal' = [j EXCEPT !.stopped = journal'.stopped]
BY StopFacts, IdleType, ZenonT(60) DEF GiveUp

(* What an answer adds to the journal, and what is given back.             *)
LEMMA RecordType ==
    ASSUME NEW j \in JournalType, NEW c \in CallType
    PROVE  Record(j, c) \in JournalType
<1>1. j.actual + c.reads \in Nat /\ (j.evidence /\ c.complete) \in BOOLEAN
    BY DEF JournalType, CallType
<1> QED BY <1>1, ZenonT(60) DEF Record, JournalType

LEMMA SettleType ==
    ASSUME NEW j \in JournalType, NEW c \in CallType
    PROVE  Settle(j, c) \in JournalType
<1>1. j.reserved - (Bound - c.reads) \in Int
    BY BudgetAssumption DEF JournalType, CallType
<1> QED BY <1>1, ZenonT(60) DEF Settle, JournalType

LEMMA ReserveType ==
    ASSUME NEW j \in JournalType, NEW n \in Nat
    PROVE  Reserve(j, n) \in JournalType
<1>1. j.reserved + n \in Int
    BY DEF JournalType
<1> QED BY <1>1, ZenonT(60) DEF Reserve, JournalType

LEMMA CompletedType ==
    ASSUME NEW j \in JournalType, NEW c \in Cases, call \in CallType
    PROVE  Completed(j, c) \in JournalType
<1>1. /\ (IF c \in Upgrades THEN c ELSE Current) \in Nat
      /\ (IF c \in Upgrades THEN call.rows ELSE 0) \in Nat
      /\ (c # Initialize) \in BOOLEAN
      /\ 0 \in Nat
    BY DEF Upgrades, Current, CallType
<1>2. [j.marker EXCEPT ![c] = "complete"] \in [Cases -> {"unused", "open", "complete"}]
    BY DEF JournalType
<1> QED BY <1>1, <1>2, ZenonT(60) DEF Completed, JournalType

(* The database after a batch.                                             *)
LEMMA AfterType ==
    ASSUME db \in DatabaseType, NEW c \in CallType, NEW d \in After(c)
    PROVE  d \in DatabaseType
BY SMTT(30) DEF After, DatabaseType, CallType, Effects, Cases, Upgrades, Current, Clear, Initialize

LEMMA CountedType ==
    ASSUME truth.writes \in [Cases -> Nat], NEW c \in CallType
    PROVE  Counted(c) \in [Cases -> Nat]
BY DEF Counted, CallType

LEMMA NewType == NewJournal \in JournalType
BY SMTT(30) DEF NewJournal, JournalType

LEMMA LegacyType ==
    ASSUME NEW version \in Nat, NEW stopped \in Reasons \cup {None}, NEW active \in Nat,
           NEW reserved \in Int, NEW verified \in BOOLEAN
    PROVE  LegacyJournal(version, stopped, active, reserved, verified) \in JournalType
<1>1. /\ (stopped # "METERING") \in BOOLEAN /\ (version > 10) \in BOOLEAN /\ 1 \in Nat /\ TRUE \in BOOLEAN
      /\ [c \in Cases |-> IF c <= version THEN "complete" ELSE "unused"]
           \in [Cases -> {"unused", "open", "complete"}]
    OBVIOUS
<1> QED BY <1>1, NewType, ZenonT(60) DEF LegacyJournal, JournalType

LEMMA InitType == Init => TypeOK
<1> SUFFICES ASSUME Init PROVE TypeOK
    OBVIOUS
<1>1. ASSUME NEW version \in Versions PROVE version \in Nat
    BY BudgetAssumption
<1>4. journal \in JournalType
  <2>1. CASE Fresh
    BY <2>1, NewType, ConstructFacts DEF Fresh
  <2>2. CASE Legacy
    <3>1. PICK version \in Versions, stopped \in {None, "BUDGET_EXHAUSTED", "REQUEST_LIMIT", "METERING", "OUTCOME_UNKNOWN"},
               active \in {0, 1}, reserved \in {Bound, ReadCeiling + Bound}, verified \in BOOLEAN :
             journal = Construct(LegacyJournal(version, stopped, active, reserved, verified))
      BY <2>2 DEF Legacy
    <3>2. version \in Nat /\ stopped \in Reasons \cup {None} /\ active \in Nat /\ reserved \in Int
      BY <1>1, BudgetAssumption DEF Reasons
    <3>3. LegacyJournal(version, stopped, active, reserved, verified) \in JournalType
      BY <3>2, LegacyType
    <3> QED BY <3>1, <3>3, ConstructFacts
  <2> QED BY <2>1, <2>2 DEF Init
<1>5. db \in DatabaseType
  <2>1. CASE Fresh
    BY <2>1 DEF Fresh, DatabaseType
  <2>2. CASE Legacy
    BY <1>1, <2>2 DEF Legacy, DatabaseType
  <2> QED BY <2>1, <2>2 DEF Init
<1>6. truth \in [used : Nat, overrun : BOOLEAN, lost : BOOLEAN, writes : [Cases -> Nat]]
  <2>1. CASE Fresh
    BY <2>1 DEF Fresh
  <2>2. CASE Legacy
    BY <2>2 DEF Legacy
  <2> QED BY <2>1, <2>2 DEF Init
<1>7. deploy \in [clear : BOOLEAN, upgrade : BOOLEAN, crashes : Nat]
    BY DEF Init
<1> QED BY <1>4, <1>5, <1>6, <1>7, IdleType, NoCallType DEF Init, TypeOK

(* Steps of the request that holds the lock keep the types.                *)
LEMMA AcquireType == ASSUME TypeOK, NEW job \in Jobs, Acquire(job) PROVE TypeOK'
<1>1. journal' \in JournalType /\ run' \in RunType
  <2>1. CASE deploy.clear /\ journal.marker[Clear] = "open"
    <3>1. GiveUp(journal, "MISMATCH")
      BY <2>1 DEF Acquire
    <3> QED BY <3>1, GiveUpFacts DEF TypeOK, Reasons
  <2>2. CASE ~(deploy.clear /\ journal.marker[Clear] = "open")
    <3>1. run' = [Idle EXCEPT !.pc = IF job \in Attending THEN "begin" ELSE "prepare", !.job = job]
          /\ UNCHANGED journal
      BY <2>2 DEF Acquire
    <3> QED BY <3>1, IdleType DEF TypeOK, RunType
  <2> QED BY <2>1, <2>2
<1> QED BY <1>1 DEF Acquire, TypeOK

LEMMA BeginCaseType == ASSUME TypeOK, NEW c \in Cases, BeginCase(c) PROVE TypeOK'
<1>1. Length(c) * Bound \in Nat
    BY LengthRange, BudgetAssumption
<1>2. Reserve(journal, Length(c) * Bound) \in JournalType
    BY <1>1, ReserveType DEF TypeOK
<1>3. /\ Reserve(journal, Length(c) * Bound).requests = journal.requests
      /\ Reserve(journal, Length(c) * Bound).marker = journal.marker
      /\ Reserve(journal, Length(c) * Bound).verified = journal.verified
    BY DEF Reserve, TypeOK, JournalType
<1>4. /\ journal.requests + 1 \in Nat
      /\ (journal.verified /\ KeepsVerified(c)) \in BOOLEAN
      /\ [journal.marker EXCEPT ![c] = "open"] \in [Cases -> {"unused", "open", "complete"}]
    BY DEF TypeOK, JournalType
<1>5. journal' \in JournalType
    BY <1>2, <1>3, <1>4, ZenonT(60) DEF BeginCase, Issue, JournalType
<1>6. run' \in RunType
  <2>1. journal.requests + 1 \in Nat /\ 1 \in 1 .. 4
    BY <1>4
  <2> QED BY <2>1, ZenonT(60) DEF BeginCase, TypeOK, RunType
<1> QED BY <1>5, <1>6 DEF BeginCase, TypeOK

LEMMA OpenType == ASSUME TypeOK, Open PROVE TypeOK'
<1>1. journal.requests + 1 \in Nat /\ 0 \in Nat
    BY DEF TypeOK, JournalType
<1>2. journal' \in JournalType
    BY <1>1, ZenonT(60) DEF Open, Issue, TypeOK, JournalType
<1>3. journal.verified \in BOOLEAN /\ journal.rows \in Nat
    BY DEF TypeOK, JournalType
<1>4. run' \in RunType
    BY <1>1, <1>3, ZenonT(60) DEF Open, TypeOK, RunType
<1> QED BY <1>2, <1>4 DEF Open, TypeOK

LEMMA SendType == ASSUME TypeOK, NEW effect \in Effects, Send(effect) PROVE call' \in CallType
<1>1. run.case \in Cases
    BY DEF TypeOK, RunType
<1> QED BY <1>1, NoCallType, ZenonT(60) DEF Send, CallType

LEMMA SendStepType == ASSUME TypeOK, run.step <= Length(run.case), SendStep PROVE TypeOK'
<1>1. CASE Barred(journal, run) = None
  <2>1. Plan(run.case)[run.step] \in Effects
    BY PlanEffect DEF TypeOK, RunType
  <2>2. call' \in CallType
    BY <1>1, <2>1, SendType DEF SendStep
  <2>3. run' \in RunType
    BY <1>1 DEF SendStep, TypeOK, RunType
  <2> QED BY <1>1, <2>2, <2>3 DEF SendStep, TypeOK
<1>2. CASE Barred(journal, run) # None
  <2>1. GiveUp(journal, Barred(journal, run)) /\ Barred(journal, run) \in Reasons
    BY <1>2, BarredReason DEF SendStep, TypeOK
  <2> QED BY <1>2, <2>1, GiveUpFacts DEF SendStep, TypeOK
<1> QED BY <1>1, <1>2

LEMMA OperateType ==
    ASSUME TypeOK, NEW effect \in {"look", "insert", "remove"}, Operate(effect) PROVE TypeOK'
<1> DEFINE barred == IF Barred(journal, run) # None THEN Barred(journal, run)
                     ELSE IF run.calls >= MaxCalls THEN "OPERATION_LIMIT" ELSE None
<1>1. CASE barred = None
  <2>1. journal' = Reserve(journal, Bound) /\ Send(effect)
    BY <1>1 DEF Operate
  <2>2. call' \in CallType
    BY <2>1, SendType DEF Effects
  <2>3. journal' \in JournalType
    BY <2>1, ReserveType, BudgetAssumption DEF TypeOK
  <2>4. /\ run.calls + 1 \in Nat /\ (run.verified /\ effect = "look") \in BOOLEAN
        /\ (IF effect = "insert" THEN run.upper + 1 ELSE run.upper) \in Nat
    BY DEF TypeOK, RunType
  <2>5. run' = [run EXCEPT !.pc = "await", !.calls = run.calls + 1,
                  !.verified = run.verified /\ effect = "look",
                  !.upper = IF effect = "insert" THEN run.upper + 1 ELSE run.upper]
    BY <1>1 DEF Operate
  <2>6. run' \in RunType
    BY <2>4, <2>5, ZenonT(60) DEF TypeOK, RunType
  <2> QED BY <2>2, <2>3, <2>6 DEF Operate, TypeOK
<1>2. CASE barred # None
  <2>1. GiveUp(journal, barred) /\ UNCHANGED call
    BY <1>2 DEF Operate
  <2>2. barred \in Reasons
    BY <1>2, BarredReason DEF TypeOK, Reasons
  <2> HIDE DEF barred
  <2> QED BY <2>1, <2>2, GiveUpFacts DEF Operate, TypeOK
<1> QED BY <1>1, <1>2

LEMMA AnswerStepType ==
    ASSUME TypeOK, run.step <= Length(run.case), AnswerStep PROVE TypeOK'
<1> DEFINE j == Record(journal, call)
           bad == IF Verdict(j) # None THEN Verdict(j)
                  ELSE IF ~AttemptsProven(run.case) THEN "MISMATCH"
                  ELSE IF ~Expected(run.case, run.step) THEN "MISMATCH" ELSE None
<1>1. j \in JournalType
    BY RecordType DEF TypeOK
<1> HIDE DEF j
<1>2. Verdict(j) \in Reasons \cup {None}
    BY <1>1, BarredReason DEF Verdict, Reasons, TypeOK
<1>3. CASE bad # None
  <2>1. GiveUp(j, bad)
    BY <1>3 DEF AnswerStep, j
  <2>2. bad \in Reasons
    BY <1>2, <1>3 DEF Reasons
  <2> HIDE DEF bad
  <2> QED BY <1>1, <2>1, <2>2, GiveUpFacts, NoCallType DEF AnswerStep, TypeOK
<1>4. CASE bad = None /\ run.step < Length(run.case)
  <2>1. journal' = j /\ run' = [run EXCEPT !.pc = "plan", !.step = run.step + 1]
    BY <1>4 DEF AnswerStep, j
  <2>2. run.step + 1 \in 1 .. 4
    BY <1>4, LengthRange DEF TypeOK, RunType
  <2>3. run' \in RunType
    BY <2>1, <2>2, ZenonT(60) DEF TypeOK, RunType
  <2> QED BY <1>1, <2>1, <2>3, NoCallType DEF AnswerStep, TypeOK
<1>5. CASE bad = None /\ ~(run.step < Length(run.case))
  <2>1. /\ journal' = Completed(j, run.case)
        /\ run' = [Idle EXCEPT !.pc = "prepare", !.job = run.job]
    BY <1>5 DEF AnswerStep, j
  <2>2. run.case \in Cases /\ run.job \in Jobs
    BY DEF TypeOK, RunType
  <2>3. journal' \in JournalType
    BY <1>1, <2>1, <2>2, CompletedType DEF TypeOK
  <2>4. run' \in RunType
    BY <2>1, <2>2, IdleType, ZenonT(60) DEF RunType
  <2> QED BY <2>3, <2>4, NoCallType DEF AnswerStep, TypeOK
<1> QED BY <1>3, <1>4, <1>5

LEMMA AnswerOperationType == ASSUME TypeOK, AnswerOperation PROVE TypeOK'
<1> DEFINE recorded == Record(journal, call)
           settled == Settle(recorded, call)
           refresh == call.effect = "look" /\ ~run.verified
           bad == IF Verdict(recorded) # None THEN Verdict(recorded)
                  ELSE IF settled.reserved < settled.actual THEN "MISMATCH" ELSE None
<1>1. recorded \in JournalType /\ settled \in JournalType
    BY RecordType, SettleType DEF TypeOK
<1> HIDE DEF recorded, settled
<1>2. Verdict(recorded) \in Reasons \cup {None}
    BY <1>1, BarredReason DEF Verdict, Reasons, TypeOK
<1>3. CASE bad # None
  <2>1. GiveUp(recorded, bad)
    BY <1>3 DEF AnswerOperation, recorded, settled
  <2>2. bad \in Reasons
    BY <1>2, <1>3 DEF Reasons
  <2> HIDE DEF bad
  <2> QED BY <1>1, <2>1, <2>2, GiveUpFacts, NoCallType DEF AnswerOperation, TypeOK
<1>4. CASE bad = None /\ refresh /\ call.rows > run.upper
  <2>1. GiveUp(settled, "MISMATCH")
    BY <1>4 DEF AnswerOperation, recorded, settled
  <2> QED BY <1>1, <2>1, GiveUpFacts, NoCallType DEF AnswerOperation, TypeOK, Reasons
<1>5. CASE bad = None /\ ~(refresh /\ call.rows > run.upper)
  <2>1. /\ journal' = IF refresh THEN [settled EXCEPT !.rows = call.rows, !.verified = TRUE] ELSE settled
        /\ run' = [run EXCEPT !.pc = "serve", !.verified = run.verified \/ refresh,
                             !.upper = IF refresh THEN call.rows ELSE run.upper]
    BY <1>5 DEF AnswerOperation, recorded, settled
  <2>2. /\ call.rows \in Nat /\ (run.verified \/ refresh) \in BOOLEAN
        /\ (IF refresh THEN call.rows ELSE run.upper) \in Nat
    BY DEF TypeOK, CallType, RunType
  <2> HIDE DEF refresh
  <2>3. journal' \in JournalType
    BY <1>1, <2>1, <2>2, ZenonT(60) DEF JournalType
  <2>4. run' \in RunType
    BY <2>1, <2>2, ZenonT(60) DEF TypeOK, RunType
  <2> QED BY <2>3, <2>4, NoCallType DEF AnswerOperation, TypeOK
<1> QED BY <1>3, <1>4, <1>5

LEMMA FinishType == ASSUME TypeOK, Finish \/ Fail \/ Cancel PROVE TypeOK'
<1>1. CASE journal' = [journal EXCEPT !.active = 0] /\ run' = Idle
  <2>1. journal' \in JournalType
    BY <1>1 DEF TypeOK, JournalType
  <2> QED BY <1>1, <2>1, IdleType DEF Finish, Fail, Cancel, TypeOK
<1>2. CASE \E reason \in Reasons : GiveUp(journal, reason)
  <2> QED BY <1>2, GiveUpFacts DEF Finish, Fail, Cancel, TypeOK
<1>3. Barred(journal, run) \in Reasons \cup {None}
  BY BarredReason DEF TypeOK
<1> QED BY <1>1, <1>2, <1>3 DEF Finish, Fail, Cancel, Reasons

(* So do the database, the clock, the operator and a restart.              *)
LEMMA ExecuteType == ASSUME TypeOK, Execute PROVE TypeOK'
<1>1. PICK d \in After(call), reads \in 0 .. Bound + 1, single \in BOOLEAN, complete \in BOOLEAN :
        /\ db' = d
        /\ call' = [call EXCEPT !.state = "done", !.reads = reads, !.single = single,
                      !.complete = complete, !.schema = d.schema, !.rows = d.rows]
        /\ truth' = [truth EXCEPT
                       !.used = truth.used + (IF single /\ complete /\ reads <= Bound THEN reads ELSE Bound),
                       !.overrun = truth.overrun \/ reads > Bound, !.writes = Counted(call)]
    BY ZenonT(60) DEF Execute
<1>2. d \in DatabaseType
    BY AfterType DEF TypeOK
<1>3. reads \in Nat /\ d.schema \in Nat /\ d.rows \in Nat
    BY <1>2, BudgetAssumption DEF DatabaseType
<1>4. call' \in CallType
    BY <1>1, <1>3, ZenonT(60) DEF TypeOK, CallType
<1>5. /\ truth.used + (IF single /\ complete /\ reads <= Bound THEN reads ELSE Bound) \in Nat
      /\ (truth.overrun \/ reads > Bound) \in BOOLEAN
    BY <1>3, BudgetAssumption DEF TypeOK
<1>6. Counted(call) \in [Cases -> Nat]
    BY CountedType DEF TypeOK
<1>7. truth' \in [used : Nat, overrun : BOOLEAN, lost : BOOLEAN, writes : [Cases -> Nat]]
    BY <1>1, <1>5, <1>6, ZenonT(60) DEF TypeOK
<1> QED BY <1>1, <1>2, <1>4, <1>7 DEF Execute, TypeOK

LEMMA ExecuteStrayType == ASSUME TypeOK, ExecuteStray PROVE TypeOK'
<1>1. db' \in DatabaseType
    BY AfterType DEF ExecuteStray, TypeOK
<1>2. truth.used + Bound \in Nat /\ Counted(stray) \in [Cases -> Nat]
    BY CountedType, BudgetAssumption DEF TypeOK
<1>3. truth' \in [used : Nat, overrun : BOOLEAN, lost : BOOLEAN, writes : [Cases -> Nat]]
    BY <1>2, ZenonT(60) DEF ExecuteStray, TypeOK
<1> QED BY <1>1, <1>3, NoCallType DEF ExecuteStray, TypeOK

LEMMA AbandonType == ASSUME TypeOK, Abandon PROVE TypeOK'
<1>1. journal' \in JournalType /\ run' \in RunType
    BY GiveUpFacts DEF Abandon, TypeOK, Reasons
<1>2. truth' \in [used : Nat, overrun : BOOLEAN, lost : BOOLEAN, writes : [Cases -> Nat]]
    BY ZenonT(60) DEF Abandon, TypeOK
<1> QED BY <1>1, <1>2, NoCallType DEF Abandon, TypeOK

LEMMA RestartType == ASSUME TypeOK, Restart PROVE TypeOK'
<1>1. journal' \in JournalType
    BY ConstructFacts DEF Restart, TypeOK
<1>2. (truth.lost \/ call.state # "none") \in BOOLEAN
    BY DEF TypeOK
<1>3. truth' \in [used : Nat, overrun : BOOLEAN, lost : BOOLEAN, writes : [Cases -> Nat]]
    BY <1>2, ZenonT(60) DEF Restart, TypeOK
<1>4. deploy' \in [clear : BOOLEAN, upgrade : BOOLEAN, crashes : Nat]
    BY DEF Restart, TypeOK
<1> QED BY <1>1, <1>3, <1>4, IdleType, NoCallType DEF Restart, TypeOK

LEMMA RemainingType == ASSUME TypeOK, Refuse \/ RunLate \/ ManualStop PROVE TypeOK'
<1>1. CASE Refuse
    BY <1>1, IdleType DEF Refuse, TypeOK
<1>2. CASE RunLate
  <2>1. run' \in RunType
    BY <1>2, ZenonT(60) DEF RunLate, TypeOK, RunType
  <2> QED BY <1>2, <2>1 DEF RunLate, TypeOK
<1>3. CASE ManualStop
  <2>1. journal' \in JournalType
    BY <1>3, StopFacts DEF ManualStop, TypeOK, Reasons
  <2> QED BY <1>3, <2>1 DEF ManualStop, TypeOK
<1> QED BY <1>1, <1>2, <1>3

----------------------------------------------------------------------------
(* The inductive invariant.                                                *)

Busy == {"plan", "awaitStep", "serve", "await"}

(* The request that holds the lock holds the open ticket; D1 works for it   *)
(* or for nobody; what can no longer be learnt has stopped the journal.     *)
LockInv ==
    /\ call.state # "none" <=> run.pc \in {"await", "awaitStep"}
    /\ run.pc \in Busy => journal.active = run.ticket /\ run.ticket # 0 /\ ~truth.lost
    /\ stray.state # "none" => stray.state = "sent" /\ truth.lost
    /\ truth.lost => journal.stopped # None
    /\ truth.overrun => journal.stopped # None \/ (call.state = "done" /\ call.reads > Bound)
    /\ journal.stopped \notin Forgivable

(* A case sends the steps of its plan in order, under its open marker.      *)
PlanInv ==
    /\ run.pc \in {"plan", "awaitStep"} =>
         run.step <= Length(run.case) /\ journal.marker[run.case] = "open"
    /\ run.pc = "awaitStep" => call.effect = Plan(run.case)[run.step] /\ call.case = run.case
    /\ run.pc = "await" => call.effect \in {"look", "insert", "remove"}

(* What the case in progress has reserved for the calls it has yet to send, *)
(* and what the answer in hand lets the coordinator give back.              *)
Rest ==
    IF run.pc = "plan" THEN (Length(run.case) + 1 - run.step) * Bound
    ELSE IF run.pc = "awaitStep" THEN (Length(run.case) - run.step) * Bound ELSE 0
Margin ==
    IF call.state = "done" /\ call.single /\ call.complete /\ call.reads <= Bound
    THEN Bound - call.reads ELSE 0
ReserveInv ==
    truth.used + Outstanding(call) + Outstanding(stray) + Rest + Margin <= journal.reserved

(* What a request and an answer know of D1 while they are in hand.          *)
KnownInv ==
    /\ JournalKnowsDatabase
    /\ run.pc = "begin" => journal.ready
    /\ call.state = "done" =>
         /\ call.schema = db.schema /\ call.rows = db.rows
         /\ call.effect = "create" => db.schema = Current
    /\ run.pc \in {"serve", "await"} =>
         /\ journal.ready /\ db.schema = journal.version
         /\ run.verified => journal.verified /\ journal.rows = db.rows
    /\ run.pc = "await" /\ run.verified => call.effect = "look"

(* A one-use write is sent once: its marker is open before it is on its way, *)
(* and no step that precedes it has already carried it out.                 *)
OneUse(b) == b.state = "sent" /\ b.effect \in {"create", "upgrade", "clear"}
WriteStep(c) == IF c \in {Initialize, Clear} THEN 2 ELSE 3
OnceInv ==
    /\ \A c \in Cases : truth.writes[c] <= 1 /\ (journal.marker[c] = "unused" => truth.writes[c] = 0)
    /\ run.pc = "plan" /\ run.step <= WriteStep(run.case) => truth.writes[run.case] = 0
    /\ run.pc = "awaitStep" /\ run.step < WriteStep(run.case) => truth.writes[run.case] = 0
    /\ \A b \in {call, stray} :
         OneUse(b) => truth.writes[b.case] = 0 /\ journal.marker[b.case] # "unused"

IInv == TypeOK /\ LockInv /\ PlanInv /\ ReserveInv /\ KnownInv /\ OnceInv

----------------------------------------------------------------------------
(* What the steps do to the journal, field by field.                       *)

LEMMA GiveUpFields ==
    ASSUME NEW j \in JournalType, NEW reason \in Reasons, GiveUp(j, reason)
    PROVE  /\ Kept(journal', j) /\ journal'.active = j.active
           /\ journal'.stopped = IF j.stopped = None THEN reason ELSE j.stopped
           /\ journal'.stopped # None
           /\ run' = Idle
<1>1. /\ journal' \in JournalType
      /\ journal' = [j EXCEPT !.stopped = journal'.stopped]
    BY GiveUpFacts
<1>2. /\ journal'.stopped = IF j.stopped = None THEN reason ELSE j.stopped
      /\ journal'.stopped # None /\ run' = Idle
    BY GiveUpFacts
<1>3. DOMAIN j = {"requests", "active", "stopped", "reserved", "actual", "evidence", "granted",
                  "unlimited", "product", "ready", "version", "rows", "verified", "typed", "marker"}
    BY DEF JournalType
<1>4. Kept(journal', j) /\ journal'.active = j.active
    BY <1>1, <1>3, ZenonT(60) DEF Kept
<1> QED BY <1>2, <1>4

LEMMA RecordFields ==
    ASSUME NEW j \in JournalType, NEW c \in CallType
    PROVE  /\ Record(j, c).active = j.active /\ Record(j, c).stopped = j.stopped
           /\ Record(j, c).reserved = j.reserved /\ Record(j, c).ready = j.ready
           /\ Record(j, c).version = j.version /\ Record(j, c).rows = j.rows
           /\ Record(j, c).verified = j.verified /\ Record(j, c).marker = j.marker
BY DEF Record, JournalType

LEMMA SettleFields ==
    ASSUME NEW j \in JournalType, NEW c \in CallType
    PROVE  /\ Settle(j, c).active = j.active /\ Settle(j, c).stopped = j.stopped
           /\ Settle(j, c).reserved = IF c.single THEN j.reserved - (Bound - c.reads) ELSE j.reserved
           /\ Settle(j, c).ready = j.ready
           /\ Settle(j, c).version = j.version /\ Settle(j, c).rows = j.rows
           /\ Settle(j, c).verified = j.verified /\ Settle(j, c).marker = j.marker
BY DEF Settle, JournalType

LEMMA ReserveFields ==
    ASSUME NEW j \in JournalType, NEW n \in Nat
    PROVE  /\ Reserve(j, n).active = j.active /\ Reserve(j, n).stopped = j.stopped
           /\ Reserve(j, n).reserved = j.reserved + n /\ Reserve(j, n).ready = j.ready
           /\ Reserve(j, n).requests = j.requests
           /\ Reserve(j, n).version = j.version /\ Reserve(j, n).rows = j.rows
           /\ Reserve(j, n).verified = j.verified /\ Reserve(j, n).marker = j.marker
BY DEF Reserve, JournalType

----------------------------------------------------------------------------
(* Each step preserves the invariant. The types are proved above; what is   *)
(* left of a step is its five other parts.                                  *)

Others == LockInv /\ PlanInv /\ ReserveInv /\ KnownInv /\ OnceInv

(* A request that gives up after its answer, or without having sent a call. *)
LEMMA GiveUpStep ==
    ASSUME IInv, TypeOK', NEW j \in JournalType, NEW reason \in Reasons \ Forgivable, GiveUp(j, reason),
           j.active = journal.active, j.stopped = journal.stopped, j.ready = journal.ready,
           j.version = journal.version, j.rows = journal.rows, j.verified = journal.verified,
           j.marker = journal.marker, truth.used + Outstanding(stray) <= j.reserved,
           call.state # "sent", call'.state = "none", UNCHANGED <<db, stray, truth>>
    PROVE  Others'
<1>1. /\ Kept(journal', j) /\ journal'.active = j.active
      /\ journal'.stopped = IF j.stopped = None THEN reason ELSE j.stopped
      /\ journal'.stopped # None /\ run' = Idle
    BY GiveUpFields
<1>2. run'.pc = "idle" /\ run'.pc \notin Busy
    BY <1>1 DEF Idle, Busy
<1>3. LockInv'
    BY <1>1, <1>2 DEF IInv, LockInv
<1>4. PlanInv'
    BY <1>2 DEF PlanInv
<1>5. ReserveInv'
  <2>1. truth'.used + Outstanding(stray') <= journal'.reserved
    BY <1>1 DEF Kept
  <2>2. Outstanding(call') = 0 /\ Rest' = 0 /\ Margin' = 0
    BY <1>2 DEF Outstanding, Rest, Margin
  <2>3. truth'.used \in Nat /\ Outstanding(stray') \in Nat
    BY BudgetAssumption DEF TypeOK, Outstanding
  <2> QED BY <2>1, <2>2, <2>3 DEF ReserveInv
<1>6. KnownInv'
    BY <1>1, <1>2 DEF KnownInv, JournalKnowsDatabase
<1>7. OnceInv'
  <2>1. journal'.marker = journal.marker
    BY <1>1 DEF Kept
  <2>2. ~OneUse(call')
    BY DEF OneUse
  <2> QED BY <1>2, <2>1, <2>2 DEF IInv, OnceInv, OneUse
<1> QED BY <1>3, <1>4, <1>5, <1>6, <1>7 DEF Others

LEMMA AcquireStep == ASSUME IInv, TypeOK', NEW job \in Jobs, Acquire(job) PROVE Others'
<1>1. run.pc = "idle" /\ call.state = "none" /\ UNCHANGED <<db, call, stray, deploy, truth>>
    BY DEF Acquire, IInv, LockInv
<1>2. CASE deploy.clear /\ journal.marker[Clear] = "open"
  <2>1. GiveUp(journal, "MISMATCH") /\ "MISMATCH" \in Reasons \ Forgivable
    BY <1>2 DEF Acquire, Reasons, Forgivable
  <2>2. truth.used + Outstanding(stray) <= journal.reserved
    BY <1>1, BudgetAssumption DEF IInv, ReserveInv, Outstanding, Rest, Margin, TypeOK
  <2> QED BY <1>1, <2>1, <2>2, GiveUpStep DEF IInv, TypeOK
<1>3. CASE ~(deploy.clear /\ journal.marker[Clear] = "open")
  <2>1. /\ run' = [Idle EXCEPT !.pc = IF job \in Attending THEN "begin" ELSE "prepare", !.job = job]
        /\ UNCHANGED journal /\ (job \in Attending => UpToDate)
    BY <1>3 DEF Acquire
  <2>2. /\ run'.pc \in {"begin", "prepare"} /\ run'.pc \notin Busy
        /\ run'.pc = "begin" => journal.ready
    BY <2>1 DEF Idle, Busy, UpToDate
  <2>3. LockInv'
    BY <1>1, <2>1, <2>2 DEF IInv, LockInv, Busy
  <2>4. PlanInv'
    BY <2>2 DEF PlanInv
  <2>5. ReserveInv'
    BY <1>1, <2>1, <2>2 DEF IInv, ReserveInv, Outstanding, Rest, Margin
  <2>6. KnownInv'
    BY <1>1, <2>1, <2>2 DEF IInv, KnownInv, JournalKnowsDatabase
  <2>7. OnceInv'
    BY <1>1, <2>1, <2>2 DEF IInv, OnceInv, OneUse
  <2> QED BY <2>3, <2>4, <2>5, <2>6, <2>7 DEF Others
<1> QED BY <1>2, <1>3

LEMMA BeginCaseStep == ASSUME IInv, TypeOK', NEW c \in Cases, BeginCase(c) PROVE Others'
<1>1. /\ run.pc = "prepare" /\ call.state = "none" /\ UNCHANGED <<db, call, stray, deploy, truth>>
      /\ journal.stopped = None /\ journal.active = 0 /\ journal.marker[c] = "unused"
      /\ ~truth.lost /\ ~truth.overrun /\ stray.state = "none"
    BY DEF BeginCase, Admits, IInv, LockInv
<1>2. /\ run'.pc = "plan" /\ run'.case = c /\ run'.step = 1 /\ run'.ticket = journal.requests + 1
    BY DEF BeginCase, IInv, TypeOK, RunType
<1>3. Length(c) * Bound \in Nat
    BY LengthRange, BudgetAssumption
<1>4. /\ journal'.active = journal.requests + 1 /\ journal'.stopped = None
      /\ journal'.reserved = journal.reserved + Length(c) * Bound
      /\ journal'.marker = [journal.marker EXCEPT ![c] = "open"]
  <2> DEFINE r == Reserve(journal, Length(c) * Bound)
  <2>1. r \in JournalType
    BY <1>3, ReserveType DEF IInv, TypeOK
  <2>2. /\ r.stopped = None /\ r.reserved = journal.reserved + Length(c) * Bound
        /\ r.marker = journal.marker /\ r.requests = journal.requests
    BY <1>1, <1>3, ReserveFields DEF IInv, TypeOK
  <2>3. journal' = [r EXCEPT !.requests = r.requests + 1, !.active = r.requests + 1,
                      !.marker[c] = "open", !.verified = r.verified /\ KeepsVerified(c)]
    BY DEF BeginCase, Issue
  <2> HIDE DEF r
  <2> QED BY <2>1, <2>2, <2>3 DEF JournalType
<1>5. journal.requests \in Nat /\ journal.marker \in [Cases -> {"unused", "open", "complete"}]
    BY DEF IInv, TypeOK, JournalType
<1>6. LockInv'
    BY <1>1, <1>2, <1>4, <1>5, BudgetAssumption DEF LockInv, Busy, Forgivable, Reasons
<1>7. PlanInv'
  <2>1. 1 <= Length(c)
    BY LengthRange
  <2>2. journal'.marker[c] = "open"
    BY <1>4, <1>5
  <2> QED BY <1>2, <2>1, <2>2 DEF PlanInv
<1>8. ReserveInv'
  <2>1. Rest = 0 /\ Rest' = Length(c) * Bound
    BY <1>1, <1>2, LengthRange DEF Rest
  <2>2. Margin' = Margin /\ Outstanding(call') = Outstanding(call) /\ Outstanding(stray') = Outstanding(stray)
    BY <1>1 DEF Margin, Outstanding
  <2>3. Margin \in Nat /\ Outstanding(call) \in Nat /\ Outstanding(stray) \in Nat /\ truth.used \in Nat
        /\ journal.reserved \in Int
    BY <1>1, BudgetAssumption DEF Margin, Outstanding, IInv, TypeOK, JournalType
  <2> QED BY <1>1, <1>3, <1>4, <2>1, <2>2, <2>3 DEF IInv, ReserveInv
<1>9. KnownInv'
    BY <1>1, <1>2, <1>4, <1>5 DEF KnownInv, JournalKnowsDatabase
<1>10. OnceInv'
  <2>1. truth.writes[c] = 0
    BY <1>1 DEF IInv, OnceInv
  <2>2. \A d \in Cases : journal'.marker[d] = "unused" => journal.marker[d] = "unused"
    BY <1>4, <1>5
  <2> QED BY <1>1, <1>2, <2>1, <2>2 DEF IInv, OnceInv, OneUse
<1> QED BY <1>6, <1>7, <1>8, <1>9, <1>10 DEF Others

LEMMA RefuseStep == ASSUME IInv, TypeOK', Refuse PROVE Others'
<1>1. /\ run.pc \in {"prepare", "begin"} /\ run'.pc = "idle" /\ call.state = "none"
      /\ UNCHANGED <<journal, db, call, stray, deploy, truth>>
    BY DEF Refuse, Idle, IInv, LockInv
<1>2. LockInv'
    BY <1>1 DEF IInv, LockInv, Busy
<1>3. PlanInv'
    BY <1>1 DEF PlanInv
<1>4. ReserveInv'
    BY <1>1 DEF IInv, ReserveInv, Outstanding, Rest, Margin
<1>5. KnownInv'
    BY <1>1 DEF IInv, KnownInv, JournalKnowsDatabase
<1>6. OnceInv'
    BY <1>1 DEF IInv, OnceInv, OneUse
<1> QED BY <1>2, <1>3, <1>4, <1>5, <1>6 DEF Others

LEMMA OpenStep == ASSUME IInv, TypeOK', Open PROVE Others'
<1>1. /\ run.pc \in {"prepare", "begin"} /\ call.state = "none"
      /\ UNCHANGED <<db, call, stray, deploy, truth>>
      /\ journal.stopped = None /\ journal.active = 0 /\ journal.ready
      /\ ~truth.lost /\ ~truth.overrun /\ stray.state = "none"
    BY DEF Open, Due, IInv, LockInv, KnownInv
<1>2. /\ journal'.active = journal.requests + 1 /\ Kept(journal', [journal EXCEPT !.requests = @ + 1])
      /\ journal'.stopped = None
    BY <1>1 DEF Open, Issue, IInv, TypeOK, JournalType, Kept
<1>3. /\ journal'.reserved = journal.reserved /\ journal'.ready /\ journal'.version = journal.version
      /\ journal'.rows = journal.rows /\ journal'.verified = journal.verified
      /\ journal'.marker = journal.marker /\ journal.requests \in Nat
    BY <1>1, <1>2 DEF IInv, TypeOK, JournalType, Kept
<1>4. /\ run'.pc = "serve" /\ run'.ticket = journal.requests + 1
      /\ run'.verified = journal.verified
    BY DEF Open, IInv, TypeOK, RunType
<1>5. LockInv'
    BY <1>1, <1>2, <1>3, <1>4, BudgetAssumption DEF LockInv, Busy, Forgivable, Reasons
<1>6. PlanInv'
    BY <1>4 DEF PlanInv
<1>7. ReserveInv'
    BY <1>1, <1>3, <1>4 DEF IInv, ReserveInv, Outstanding, Rest, Margin
<1>8. KnownInv'
  <2>1. db.schema = journal.version /\ (journal.verified => db.rows = journal.rows)
    BY <1>1 DEF IInv, KnownInv, JournalKnowsDatabase
  <2> QED BY <1>1, <1>2, <1>3, <1>4, <2>1 DEF KnownInv, JournalKnowsDatabase
<1>9. OnceInv'
    BY <1>1, <1>3, <1>4 DEF IInv, OnceInv, OneUse
<1> QED BY <1>5, <1>6, <1>7, <1>8, <1>9 DEF Others

(* The lock holder sends a call: the call is new, and D1 is asked nothing else. *)
LEMMA SentCall ==
    ASSUME TypeOK, NEW effect \in Effects, Send(effect)
    PROVE  /\ call'.state = "sent" /\ call'.effect = effect /\ call'.case = run.case
BY DEF Send, NoCall

LEMMA SendStepStep == ASSUME IInv, TypeOK', SendStep PROVE Others'
<1>1. /\ run.pc = "plan" /\ call.state = "none" /\ ~truth.lost /\ stray.state = "none"
      /\ run.step <= Length(run.case) /\ journal.marker[run.case] = "open"
      /\ UNCHANGED <<db, stray, deploy, truth>> /\ run.case \in Cases /\ run.step \in 1 .. 4
    BY DEF SendStep, IInv, LockInv, PlanInv, Busy, TypeOK, RunType
<1>2. CASE Barred(journal, run) = None
  <2>1. Plan(run.case)[run.step] \in Effects
    BY <1>1, PlanEffect
  <2>2. /\ call'.state = "sent" /\ call'.effect = Plan(run.case)[run.step] /\ call'.case = run.case
    BY <1>2, <2>1, SentCall DEF SendStep, IInv
  <2>3. /\ UNCHANGED journal /\ run'.pc = "awaitStep" /\ run'.ticket = run.ticket
        /\ run'.case = run.case /\ run'.step = run.step
    BY <1>2 DEF SendStep, IInv, TypeOK, RunType
  <2>4. journal.stopped = None
    BY <1>2, BarredReason DEF IInv, TypeOK
  <2>5. LockInv'
    BY <1>1, <2>2, <2>3, <2>4 DEF IInv, LockInv, Busy
  <2>6. PlanInv'
    BY <1>1, <2>2, <2>3 DEF PlanInv
  <2>7. ReserveInv'
    <3>1. Rest = Rest' + Bound
      <4>1. Length(run.case) \in Nat /\ Bound \in Nat
        BY <1>1, LengthRange, BudgetAssumption
      <4>2. \A n \in Int : (n + 1) * Bound = n * Bound + Bound
        BY <4>1
      <4>3. (Length(run.case) - run.step + 1) * Bound = (Length(run.case) - run.step) * Bound + Bound
        BY <1>1, <4>1, <4>2
      <4>4. Length(run.case) + 1 - run.step = Length(run.case) - run.step + 1
        BY <1>1, <4>1
      <4> QED BY <1>1, <2>3, <4>3, <4>4 DEF Rest
    <3>2. Outstanding(call) = 0 /\ Outstanding(call') = Bound /\ Outstanding(stray') = Outstanding(stray)
          /\ Margin = 0 /\ Margin' = 0
      BY <1>1, <2>2 DEF Outstanding, Margin
    <3>3. Rest' \in Int /\ Bound \in Nat /\ truth.used \in Nat /\ Outstanding(stray) \in Nat
      BY <1>1, <2>3, LengthRange, BudgetAssumption DEF Rest, Outstanding, IInv, TypeOK
    <3> QED BY <1>1, <2>3, <3>1, <3>2, <3>3 DEF IInv, ReserveInv
  <2>8. KnownInv'
    BY <1>1, <2>2, <2>3, <2>4 DEF IInv, KnownInv, JournalKnowsDatabase
  <2>9. OnceInv'
    <3>1. OneUse(call') => run.step = WriteStep(run.case)
      BY <1>1, <2>2, SMTT(30) DEF OneUse, Plan, Length, WriteStep
    <3>2. WriteStep(run.case) \in Nat
      BY DEF WriteStep
    <3>3. run.step <= WriteStep(run.case) => truth.writes[run.case] = 0
      BY <1>1 DEF IInv, OnceInv
    <3> QED BY <1>1, <2>2, <2>3, <3>1, <3>2, <3>3 DEF IInv, OnceInv, OneUse
  <2> QED BY <2>5, <2>6, <2>7, <2>8, <2>9 DEF Others
<1>3. CASE Barred(journal, run) # None
  <2>1. GiveUp(journal, Barred(journal, run)) /\ Barred(journal, run) \in Reasons \ Forgivable /\ UNCHANGED call
    BY <1>3, BarredReason DEF SendStep, IInv, TypeOK, LockInv
  <2>2. truth.used + Outstanding(stray) <= journal.reserved
    <3>1. Rest \in Nat
      <4>1. Length(run.case) + 1 - run.step \in Nat
        BY <1>1, LengthRange
      <4> QED BY <1>1, <4>1, BudgetAssumption DEF Rest
    <3>2. Outstanding(call) = 0 /\ Margin = 0 /\ truth.used \in Nat /\ Outstanding(stray) \in Nat
      BY <1>1, BudgetAssumption DEF Outstanding, Margin, IInv, TypeOK
    <3>3. journal.reserved \in Int
      BY DEF IInv, TypeOK, JournalType
    <3> QED BY <3>1, <3>2, <3>3 DEF IInv, ReserveInv
  <2> QED BY <1>1, <2>1, <2>2, GiveUpStep DEF IInv, TypeOK
<1> QED BY <1>2, <1>3

LEMMA OperateStep ==
    ASSUME IInv, TypeOK', NEW effect \in {"look", "insert", "remove"}, Operate(effect) PROVE Others'
<1> DEFINE barred == IF Barred(journal, run) # None THEN Barred(journal, run)
                     ELSE IF run.calls >= MaxCalls THEN "OPERATION_LIMIT" ELSE None
<1>1. /\ run.pc = "serve" /\ call.state = "none" /\ ~truth.lost /\ stray.state = "none"
      /\ UNCHANGED <<db, stray, deploy, truth>>
      /\ effect # "look" => run.verified
    BY DEF Operate, IInv, LockInv, Busy
<1>2. /\ Outstanding(call) = 0 /\ Margin = 0 /\ Rest = 0 /\ truth.used \in Nat
      /\ Outstanding(stray) = 0 /\ journal.reserved \in Int /\ Bound \in Nat
    BY <1>1, BudgetAssumption DEF Outstanding, Margin, Rest, IInv, TypeOK, JournalType
<1>3. CASE barred = None
  <2>1. journal' = Reserve(journal, Bound) /\ Send(effect) /\ Barred(journal, run) = None
    BY <1>3, BarredReason, BudgetAssumption DEF Operate, Reasons
  <2>2. /\ journal'.active = journal.active /\ journal'.stopped = None
        /\ journal'.reserved = journal.reserved + Bound /\ journal'.ready = journal.ready
        /\ journal'.version = journal.version /\ journal'.rows = journal.rows
        /\ journal'.verified = journal.verified /\ journal'.marker = journal.marker
        /\ journal.stopped = None
    BY <1>2, <2>1, ReserveFields, BarredReason DEF IInv, TypeOK
  <2>3. call'.state = "sent" /\ call'.effect = effect
    BY <2>1, SentCall DEF Effects, IInv
  <2>4. run' = [run EXCEPT !.pc = "await", !.calls = run.calls + 1,
                  !.verified = run.verified /\ effect = "look",
                  !.upper = IF effect = "insert" THEN run.upper + 1 ELSE run.upper]
    BY <1>3 DEF Operate
  <2>5. /\ run'.pc = "await" /\ run'.ticket = run.ticket
        /\ run'.verified => run.verified /\ effect = "look"
    BY <2>4 DEF IInv, TypeOK, RunType
  <2>6. LockInv'
    BY <1>1, <2>2, <2>3, <2>5 DEF IInv, LockInv, Busy
  <2>7. PlanInv'
    BY <2>3, <2>5 DEF PlanInv
  <2>8. ReserveInv'
    BY <1>1, <1>2, <2>2, <2>3, <2>5 DEF IInv, ReserveInv, Outstanding, Margin, Rest
  <2>9. KnownInv'
    BY <1>1, <2>2, <2>3, <2>5 DEF IInv, KnownInv, JournalKnowsDatabase
  <2>10. OnceInv'
    BY <1>1, <2>2, <2>3, <2>5 DEF IInv, OnceInv, OneUse
  <2> QED BY <2>6, <2>7, <2>8, <2>9, <2>10 DEF Others
<1>4. CASE barred # None
  <2>1. GiveUp(journal, barred) /\ UNCHANGED call
    BY <1>4 DEF Operate
  <2>2. barred \in Reasons \ Forgivable
    BY <1>4, BarredReason DEF IInv, TypeOK, LockInv, Reasons, Forgivable
  <2>3. truth.used + Outstanding(stray) <= journal.reserved
    BY <1>2 DEF IInv, ReserveInv
  <2> HIDE DEF barred
  <2> QED BY <1>1, <2>1, <2>2, <2>3, GiveUpStep DEF IInv, TypeOK
<1> QED BY <1>3, <1>4

(* D1 carries out a batch: the database is what the effect says, or as before. *)
LEMMA AfterEffect ==
    ASSUME db \in DatabaseType, NEW c \in CallType, NEW d \in After(c)
    PROVE  /\ c.effect = "look" => d = db
           /\ c.effect = "create" => d.schema = Current
           /\ c.effect \in {"insert", "remove"} => d.schema = db.schema
BY SMTT(30) DEF After, DatabaseType

LEMMA CountedWrites ==
    ASSUME truth.writes \in [Cases -> Nat], NEW c \in CallType, c.state = "sent"
    PROVE  \A d \in Cases : Counted(c)[d] = IF OneUse(c) /\ d = c.case THEN truth.writes[d] + 1
                                            ELSE truth.writes[d]
BY DEF Counted, OneUse, CallType

LEMMA ExecuteStep == ASSUME IInv, TypeOK', Execute PROVE Others'
<1>1. PICK d \in After(call), reads \in 0 .. Bound + 1, single \in BOOLEAN, complete \in BOOLEAN :
        /\ reads > Bound => single /\ complete
        /\ ~complete => reads = 0
        /\ db' = d
        /\ call' = [call EXCEPT !.state = "done", !.reads = reads, !.single = single,
                      !.complete = complete, !.schema = d.schema, !.rows = d.rows]
        /\ truth' = [truth EXCEPT
                       !.used = truth.used + (IF single /\ complete /\ reads <= Bound THEN reads ELSE Bound),
                       !.overrun = truth.overrun \/ reads > Bound, !.writes = Counted(call)]
    BY ZenonT(60) DEF Execute
<1>2. /\ call.state = "sent" /\ run.pc \in {"await", "awaitStep"} /\ ~truth.lost /\ stray.state = "none"
      /\ UNCHANGED <<journal, run, stray, deploy>>
      /\ journal.active # 0
    BY DEF Execute, IInv, LockInv, Busy
<1>3. /\ call'.state = "done" /\ call'.reads = reads /\ call'.single = single /\ call'.complete = complete
      /\ call'.schema = d.schema /\ call'.rows = d.rows /\ call'.effect = call.effect
      /\ call'.case = call.case
    BY <1>1 DEF IInv, TypeOK, CallType
<1>4. /\ truth'.used = truth.used + (IF single /\ complete /\ reads <= Bound THEN reads ELSE Bound)
      /\ truth'.overrun = (truth.overrun \/ reads > Bound)
      /\ truth'.lost = truth.lost /\ truth'.writes = Counted(call)
    BY <1>1 DEF IInv, TypeOK
<1>5. LockInv'
    BY <1>2, <1>3, <1>4 DEF IInv, LockInv, Busy
<1>6. PlanInv'
    BY <1>2, <1>3 DEF IInv, PlanInv
<1>7. ReserveInv'
  <2>1. Outstanding(call) = Bound /\ Outstanding(call') = 0 /\ Outstanding(stray') = Outstanding(stray)
        /\ Margin = 0 /\ Rest' = Rest
    BY <1>2, <1>3 DEF Outstanding, Margin, Rest
  <2>2. truth'.used + Margin' = truth.used + Bound
    BY <1>3, <1>4, BudgetAssumption DEF Margin, IInv, TypeOK
  <2>3. Rest \in Int
    BY <1>2, LengthRange, BudgetAssumption DEF Rest, IInv, TypeOK, RunType
  <2>4. /\ truth.used \in Nat /\ truth'.used \in Nat /\ Outstanding(stray) = 0 /\ Bound \in Nat
        /\ Margin' \in Int /\ journal.reserved \in Int
    BY <1>2, <1>3, BudgetAssumption DEF Outstanding, Margin, IInv, TypeOK, JournalType
  <2> QED BY <1>2, <2>1, <2>2, <2>3, <2>4 DEF IInv, ReserveInv
<1>8. KnownInv'
  <2>1. db' = d /\ db \in DatabaseType /\ call \in CallType
    BY <1>1 DEF IInv, TypeOK
  <2>2. JournalKnowsDatabase'
    BY <1>2 DEF JournalKnowsDatabase
  <2>3. call'.schema = db'.schema /\ call'.rows = db'.rows
        /\ (call'.effect = "create" => db'.schema = Current)
    BY <1>3, <2>1, AfterEffect
  <2>4. run.pc = "await" => /\ db'.schema = db.schema
                            /\ run.verified => db' = db
    BY <2>1, AfterEffect DEF IInv, PlanInv, KnownInv
  <2> QED BY <1>2, <1>3, <2>2, <2>3, <2>4 DEF IInv, KnownInv
<1>9. OnceInv'
  <2>1. truth.writes \in [Cases -> Nat] /\ call \in CallType /\ run.case \in Cases /\ call.case \in Cases
        /\ run.step \in 1 .. 4
    BY DEF IInv, TypeOK, CallType, RunType
  <2>2. \A e \in Cases : truth'.writes[e] = IF OneUse(call) /\ e = call.case THEN truth.writes[e] + 1
                                           ELSE truth.writes[e]
    BY <1>2, <1>4, <2>1, CountedWrites
  <2>3. OneUse(call) => truth.writes[call.case] = 0 /\ journal.marker[call.case] # "unused"
    BY DEF IInv, OnceInv
  <2>4. run.pc = "awaitStep" /\ OneUse(call) => run.step = WriteStep(run.case)
    <3>1. run.pc = "awaitStep" => call.effect = Plan(run.case)[run.step] /\ run.step <= Length(run.case)
      BY DEF IInv, PlanInv
    <3> QED BY <2>1, <3>1, SMTT(30) DEF OneUse, Plan, Length, WriteStep
  <2>5. run.pc = "awaitStep" /\ run.step < WriteStep(run.case) => truth'.writes[run.case] = 0
    <3>1. WriteStep(run.case) \in Nat
      BY DEF WriteStep
    <3> QED BY <2>1, <2>2, <2>4, <3>1 DEF IInv, OnceInv
  <2>6. \A e \in Cases : truth'.writes[e] <= 1 /\ (journal.marker[e] = "unused" => truth'.writes[e] = 0)
    BY <2>1, <2>2, <2>3 DEF IInv, OnceInv
  <2>7. ~OneUse(call') /\ ~OneUse(stray')
    BY <1>2, <1>3 DEF OneUse
  <2> QED BY <1>2, <1>3, <2>5, <2>6, <2>7 DEF OnceInv
<1> QED BY <1>5, <1>6, <1>7, <1>8, <1>9 DEF Others

LEMMA ExecuteStrayStep == ASSUME IInv, TypeOK', ExecuteStray PROVE Others'
<1>1. /\ stray.state = "sent" /\ truth.lost /\ journal.stopped # None
      /\ run.pc \notin Busy /\ call.state = "none"
      /\ UNCHANGED <<journal, run, call, deploy>>
    BY DEF ExecuteStray, IInv, LockInv, Busy
<1>2. /\ stray'.state = "none"
      /\ truth'.used = truth.used + Bound /\ truth'.writes = Counted(stray)
      /\ truth'.lost = truth.lost /\ truth'.overrun = truth.overrun
    BY DEF ExecuteStray, NoCall, IInv, TypeOK
<1>3. LockInv'
    BY <1>1, <1>2 DEF IInv, LockInv, Busy
<1>4. PlanInv'
    BY <1>1 DEF PlanInv, Busy
<1>5. ReserveInv'
  <2>1. /\ Outstanding(call) = 0 /\ Outstanding(stray) = Bound /\ Outstanding(stray') = 0
        /\ Outstanding(call') = 0 /\ Rest = 0 /\ Margin = 0 /\ Rest' = 0 /\ Margin' = 0
    BY <1>1, <1>2 DEF Outstanding, Rest, Margin, Busy
  <2>2. truth.used \in Nat /\ Bound \in Nat
    BY BudgetAssumption DEF IInv, TypeOK
  <2> QED BY <1>1, <1>2, <2>1, <2>2 DEF IInv, ReserveInv
<1>6. KnownInv'
    BY <1>1 DEF IInv, KnownInv, JournalKnowsDatabase, Busy
<1>7. OnceInv'
  <2>1. truth.writes \in [Cases -> Nat] /\ stray \in CallType /\ stray.case \in Cases
    BY DEF IInv, TypeOK, CallType
  <2>2. \A e \in Cases : truth'.writes[e] = IF OneUse(stray) /\ e = stray.case THEN truth.writes[e] + 1
                                           ELSE truth.writes[e]
    BY <1>1, <1>2, <2>1, CountedWrites
  <2>3. OneUse(stray) => truth.writes[stray.case] = 0 /\ journal.marker[stray.case] # "unused"
    BY DEF IInv, OnceInv
  <2>4. \A e \in Cases : truth'.writes[e] <= 1 /\ (journal.marker[e] = "unused" => truth'.writes[e] = 0)
    BY <2>1, <2>2, <2>3 DEF IInv, OnceInv
  <2>5. ~OneUse(call') /\ ~OneUse(stray')
    BY <1>1, <1>2 DEF OneUse
  <2> QED BY <1>1, <2>4, <2>5 DEF OnceInv, Busy
<1> QED BY <1>3, <1>4, <1>5, <1>6, <1>7 DEF Others

LEMMA RestNat == ASSUME TypeOK, PlanInv PROVE Rest \in Nat
<1>1. run.pc = "plan" => Length(run.case) + 1 - run.step \in Nat
    BY LengthRange DEF TypeOK, RunType, PlanInv
<1>2. run.pc = "awaitStep" => Length(run.case) - run.step \in Nat
    BY LengthRange DEF TypeOK, RunType, PlanInv
<1> QED BY <1>1, <1>2, BudgetAssumption DEF Rest

LEMMA MarginNat == ASSUME TypeOK PROVE Margin \in Nat
BY BudgetAssumption DEF Margin, TypeOK, CallType

LEMMA OutstandingNat == ASSUME NEW c PROVE Outstanding(c) \in Nat
BY BudgetAssumption DEF Outstanding

LEMMA AbandonStep == ASSUME IInv, TypeOK', Abandon PROVE Others'
<1>1. /\ run.pc \in {"await", "awaitStep"} /\ run.pc \in Busy /\ call.state # "none" /\ stray.state = "none"
      /\ stray' = (IF call.state = "sent" THEN call ELSE stray) /\ call'.state = "none"
      /\ UNCHANGED <<db, deploy>>
      /\ GiveUp(journal, "OUTCOME_UNKNOWN")
    BY DEF Abandon, NoCall, IInv, LockInv, Busy
<1>2. /\ Kept(journal', journal) /\ journal'.stopped # None /\ run' = Idle
      /\ journal'.stopped \notin Forgivable
    BY <1>1, GiveUpFields DEF IInv, TypeOK, LockInv, Reasons, Forgivable
<1>3. run'.pc = "idle" /\ run'.pc \notin Busy
    BY <1>2 DEF Idle, Busy
<1>4. truth'.lost /\ truth'.used = truth.used /\ truth'.overrun = truth.overrun
      /\ truth'.writes = truth.writes
    BY DEF Abandon, IInv, TypeOK
<1>5. LockInv'
    BY <1>1, <1>2, <1>3, <1>4 DEF LockInv
<1>6. PlanInv'
    BY <1>3 DEF PlanInv
<1>7. ReserveInv'
  <2>1. /\ Outstanding(call') = 0 /\ Outstanding(stray') = Outstanding(call) /\ Outstanding(stray) = 0
        /\ Rest' = 0 /\ Margin' = 0
    BY <1>1, <1>3 DEF Outstanding, Rest, Margin
  <2>2. Rest \in Nat /\ Margin \in Nat /\ truth.used \in Nat /\ Outstanding(call) \in Nat
        /\ journal.reserved \in Int /\ journal'.reserved = journal.reserved
    BY <1>2, RestNat, MarginNat, OutstandingNat DEF IInv, TypeOK, JournalType, Kept
  <2> QED BY <1>4, <2>1, <2>2 DEF IInv, ReserveInv
<1>8. KnownInv'
    BY <1>1, <1>2, <1>3 DEF KnownInv, JournalKnowsDatabase
<1>9. OnceInv'
    BY <1>1, <1>2, <1>3, <1>4 DEF IInv, OnceInv, OneUse, Kept
<1> QED BY <1>5, <1>6, <1>7, <1>8, <1>9 DEF Others

LEMMA FinishStep == ASSUME IInv, TypeOK', Finish \/ Fail \/ Cancel PROVE Others'
<1>1. /\ run.pc = "serve" /\ call.state = "none" /\ stray.state = "none" /\ ~truth.lost
      /\ UNCHANGED <<db, call, stray, deploy, truth>>
      /\ journal.ready /\ db.schema = journal.version
      /\ run.verified => journal.verified /\ journal.rows = db.rows
    BY DEF Finish, Fail, Cancel, IInv, LockInv, KnownInv, Busy
<1>2. /\ Outstanding(call) = 0 /\ Outstanding(stray) = 0 /\ Rest = 0 /\ Margin = 0 /\ truth.used \in Nat
    BY <1>1 DEF Outstanding, Rest, Margin, IInv, TypeOK
<1>3. CASE journal' = [journal EXCEPT !.active = 0] /\ run' = Idle /\ run.verified /\ journal.stopped = None
  <2>1. /\ journal'.active = 0 /\ journal'.stopped = None
        /\ journal'.reserved = journal.reserved /\ journal'.ready /\ journal'.version = journal.version
        /\ journal'.rows = journal.rows /\ journal'.verified = journal.verified
        /\ journal'.marker = journal.marker
    BY <1>1, <1>3 DEF IInv, TypeOK, JournalType
  <2>2. run'.pc = "idle" /\ run'.pc \notin Busy
    BY <1>3 DEF Idle, Busy
  <2>3. LockInv'
    BY <1>1, <1>3, <2>1, <2>2, BudgetAssumption DEF IInv, LockInv, Forgivable, Reasons
  <2>4. PlanInv'
    BY <2>2 DEF PlanInv
  <2>5. ReserveInv'
    BY <1>1, <1>2, <2>1, <2>2 DEF IInv, ReserveInv, Outstanding, Rest, Margin
  <2>6. KnownInv'
    BY <1>1, <1>3, <2>1, <2>2 DEF KnownInv, JournalKnowsDatabase
  <2>7. OnceInv'
    BY <1>1, <2>1, <2>2 DEF IInv, OnceInv, OneUse
  <2> QED BY <2>3, <2>4, <2>5, <2>6, <2>7 DEF Others
<1>4. CASE \E reason \in Reasons \ Forgivable : GiveUp(journal, reason)
  <2>1. truth.used + Outstanding(stray) <= journal.reserved
    BY <1>2 DEF IInv, ReserveInv
  <2> QED BY <1>1, <1>4, <2>1, GiveUpStep DEF IInv, TypeOK
<1>5. Barred(journal, run) # None => Barred(journal, run) \in Reasons \ Forgivable
    BY BarredReason DEF IInv, TypeOK, LockInv
<1>6. Barred(journal, run) = None => journal.stopped = None
    BY BarredReason DEF IInv, TypeOK
<1>7. "OUTCOME_UNKNOWN" \in Reasons \ Forgivable
    BY DEF Reasons, Forgivable
<1> QED BY <1>3, <1>4, <1>5, <1>6, <1>7 DEF Finish, Fail, Cancel

LEMMA RunLateStep == ASSUME IInv, TypeOK', RunLate PROVE Others'
<1>1. /\ UNCHANGED <<journal, db, call, stray, deploy, truth>>
      /\ run'.pc = run.pc /\ run'.ticket = run.ticket /\ run'.case = run.case /\ run'.step = run.step
      /\ run'.verified = run.verified
    BY DEF RunLate, IInv, TypeOK, RunType
<1>2. LockInv'
    BY <1>1 DEF IInv, LockInv
<1>3. PlanInv'
    BY <1>1 DEF IInv, PlanInv
<1>4. ReserveInv'
    BY <1>1 DEF IInv, ReserveInv, Rest, Margin, Outstanding
<1>5. KnownInv'
    BY <1>1 DEF IInv, KnownInv, JournalKnowsDatabase
<1>6. OnceInv'
    BY <1>1 DEF IInv, OnceInv, OneUse
<1> QED BY <1>2, <1>3, <1>4, <1>5, <1>6 DEF Others

LEMMA ManualStopStep == ASSUME IInv, TypeOK', ManualStop PROVE Others'
<1>1. UNCHANGED <<db, run, call, stray, deploy, truth>>
    BY DEF ManualStop
<1>2. /\ journal'.active = journal.active /\ journal'.stopped = "MANUAL_STOP"
      /\ journal'.reserved = journal.reserved /\ journal'.ready = journal.ready
      /\ journal'.version = journal.version
      /\ journal'.rows = journal.rows /\ journal'.verified = journal.verified
      /\ journal'.marker = journal.marker
    BY DEF ManualStop, Stop, IInv, TypeOK, JournalType
<1>3. journal'.stopped # None /\ journal'.stopped \notin Forgivable
    BY <1>2, BudgetAssumption DEF Reasons, Forgivable
<1>4. LockInv'
    BY <1>1, <1>2, <1>3 DEF IInv, LockInv
<1>5. PlanInv'
    BY <1>1, <1>2 DEF IInv, PlanInv
<1>6. ReserveInv'
    BY <1>1, <1>2 DEF IInv, ReserveInv, Rest, Margin, Outstanding
<1>7. KnownInv'
    BY <1>1, <1>2, <1>3 DEF IInv, KnownInv, JournalKnowsDatabase
<1>8. OnceInv'
    BY <1>1, <1>2 DEF IInv, OnceInv, OneUse
<1> QED BY <1>4, <1>5, <1>6, <1>7, <1>8 DEF Others

LEMMA RestartStep == ASSUME IInv, TypeOK', Restart PROVE Others'
<1>1. /\ run'.pc = "idle" /\ run'.pc \notin Busy /\ call'.state = "none" /\ ~OneUse(call')
      /\ stray' = (IF call.state = "sent" THEN call ELSE stray)
      /\ UNCHANGED db /\ journal' = Construct(journal)
    BY DEF Restart, Idle, NoCall, Busy, OneUse
<1>2. /\ truth'.lost = (truth.lost \/ call.state # "none") /\ truth'.used = truth.used
      /\ truth'.overrun = truth.overrun /\ truth'.writes = truth.writes
    BY DEF Restart, IInv, TypeOK
<1>3. /\ Kept(journal', journal) /\ journal'.active = journal.active
      /\ journal'.stopped = IF journal.stopped = None /\ journal.active # 0
                            THEN "INCOMPLETE_REQUEST" ELSE journal.stopped
    BY <1>1, ConstructFacts DEF IInv, TypeOK, LockInv
<1>4. call.state # "none" => journal.active # 0 /\ ~truth.lost /\ stray.state = "none"
    BY DEF IInv, LockInv, Busy
<1>5. "INCOMPLETE_REQUEST" # None /\ "INCOMPLETE_REQUEST" \notin Forgivable
    BY BudgetAssumption DEF Reasons, Forgivable
<1>6. LockInv'
    BY <1>1, <1>2, <1>3, <1>4, <1>5 DEF IInv, LockInv
<1>7. PlanInv'
    BY <1>1 DEF PlanInv
<1>8. ReserveInv'
  <2>1. /\ Outstanding(call') = 0 /\ Rest' = 0 /\ Margin' = 0
        /\ Outstanding(stray') \in Nat /\ Outstanding(call) \in Nat /\ Outstanding(stray) \in Nat
    BY <1>1, OutstandingNat DEF Outstanding, Rest, Margin
  <2>2. Outstanding(stray') <= Outstanding(call) + Outstanding(stray)
    BY <1>1, <2>1 DEF Outstanding
  <2>3. Rest \in Nat /\ Margin \in Nat /\ truth.used \in Nat
        /\ journal.reserved \in Int /\ journal'.reserved = journal.reserved
    BY <1>3, RestNat, MarginNat DEF IInv, TypeOK, JournalType, Kept
  <2> QED BY <1>2, <2>1, <2>2, <2>3 DEF IInv, ReserveInv
<1>9. KnownInv'
    BY <1>1, <1>3, <1>5 DEF IInv, KnownInv, JournalKnowsDatabase, Kept
<1>10. OnceInv'
    BY <1>1, <1>2, <1>3 DEF IInv, OnceInv, OneUse, Kept
<1> QED BY <1>6, <1>7, <1>8, <1>9, <1>10 DEF Others

LEMMA AnswerStepStep == ASSUME IInv, TypeOK', AnswerStep PROVE Others'
<1> DEFINE j == Record(journal, call)
           bad == IF Verdict(j) # None THEN Verdict(j)
                  ELSE IF ~AttemptsProven(run.case) THEN "MISMATCH"
                  ELSE IF ~Expected(run.case, run.step) THEN "MISMATCH" ELSE None
<1>1. /\ run.pc = "awaitStep" /\ call.state = "done" /\ call'.state = "none" /\ ~truth.lost
      /\ journal.active # 0 /\ stray.state = "none"
      /\ UNCHANGED <<db, stray, deploy, truth>>
      /\ run.step <= Length(run.case) /\ run.case \in Cases /\ run.step \in 1 .. 4
      /\ call.effect = Plan(run.case)[run.step] /\ call.case = run.case
      /\ call.schema = db.schema /\ call.rows = db.rows
      /\ call.effect = "create" => db.schema = Current
    BY DEF AnswerStep, NoCall, IInv, LockInv, PlanInv, KnownInv, Busy, TypeOK, RunType
<1>2. /\ j \in JournalType /\ j.active = journal.active /\ j.stopped = journal.stopped
      /\ j.reserved = journal.reserved /\ j.ready = journal.ready
      /\ j.version = journal.version /\ j.rows = journal.rows
      /\ j.verified = journal.verified /\ j.marker = journal.marker
    BY RecordType, RecordFields DEF IInv, TypeOK
<1> HIDE DEF j
<1>3. /\ Verdict(j) # None => Verdict(j) \in Reasons \ Forgivable
      /\ Verdict(j) = None => j.stopped = None /\ ~(call.reads > Bound)
  <2>1. /\ Barred(j, run) # None => Barred(j, run) \in Reasons \ Forgivable
        /\ Barred(j, run) = None => j.stopped = None
    BY <1>2, BarredReason DEF IInv, TypeOK, LockInv
  <2>2. {"METERING", "USAGE_EXCEEDED_BOUND"} \subseteq Reasons \ Forgivable /\ None \notin Reasons
    BY BudgetAssumption DEF Reasons, Forgivable
  <2> QED BY <2>1, <2>2 DEF Verdict
<1>4. /\ Outstanding(call) = 0 /\ Outstanding(stray) = 0 /\ Rest \in Nat /\ Margin \in Nat
      /\ truth.used \in Nat /\ journal.reserved \in Int
    BY <1>1, RestNat, MarginNat DEF Outstanding, IInv, TypeOK, JournalType
<1>5. CASE bad # None
  <2>1. GiveUp(j, bad)
    BY <1>5 DEF AnswerStep, j
  <2>2. bad \in Reasons \ Forgivable
    BY <1>3, <1>5 DEF Reasons, Forgivable
  <2>3. truth.used + Outstanding(stray) <= j.reserved
    BY <1>2, <1>4 DEF IInv, ReserveInv
  <2> HIDE DEF bad
  <2> QED BY <1>1, <1>2, <2>1, <2>2, <2>3, GiveUpStep
<1>6. CASE bad = None
  <2>1. Verdict(j) = None /\ Expected(run.case, run.step)
    BY <1>6, BudgetAssumption DEF Reasons
  <2>2. journal.stopped = None /\ ~truth.overrun
    BY <1>1, <1>2, <1>3, <2>1 DEF IInv, LockInv
  <2>3. CASE run.step < Length(run.case)
    <3>1. journal' = j /\ run' = [run EXCEPT !.pc = "plan", !.step = run.step + 1]
      BY <1>6, <2>3 DEF AnswerStep, j
    <3>2. /\ run'.pc = "plan" /\ run'.step = run.step + 1 /\ run'.case = run.case /\ run'.ticket = run.ticket
      BY <3>1 DEF IInv, TypeOK, RunType
    <3>3. LockInv'
      BY <1>1, <1>2, <2>2, <3>1, <3>2 DEF IInv, LockInv, Busy
    <3>4. PlanInv'
      BY <1>1, <1>2, <2>3, <3>1, <3>2, LengthRange DEF IInv, PlanInv
    <3>5. ReserveInv'
      <4>1. Length(run.case) + 1 - (run.step + 1) = Length(run.case) - run.step
        BY <1>1, LengthRange
      <4>2. Rest' = Rest
        BY <1>1, <3>2, <4>1 DEF Rest
      <4>3. Margin' = 0 /\ Outstanding(call') = 0 /\ Outstanding(stray') = 0
        BY <1>1 DEF Margin, Outstanding
      <4> QED BY <1>1, <1>2, <1>4, <3>1, <4>2, <4>3 DEF IInv, ReserveInv
    <3>6. KnownInv'
      BY <1>1, <1>2, <3>1, <3>2 DEF IInv, KnownInv, JournalKnowsDatabase
    <3>7. OnceInv'
      <4>1. WriteStep(run.case) \in Nat
        BY DEF WriteStep
      <4>2. run.step + 1 <= WriteStep(run.case) => truth.writes[run.case] = 0
        BY <1>1, <4>1 DEF IInv, OnceInv
      <4> QED BY <1>1, <1>2, <3>1, <3>2, <4>2 DEF IInv, OnceInv, OneUse
    <3> QED BY <3>3, <3>4, <3>5, <3>6, <3>7 DEF Others
  <2>4. CASE ~(run.step < Length(run.case))
    <3>1. /\ journal' = Completed(j, run.case)
          /\ run' = [Idle EXCEPT !.pc = "prepare", !.job = run.job]
      BY <1>6, <2>4 DEF AnswerStep, j
    <3>2. /\ journal'.active = 0 /\ journal'.stopped = journal.stopped /\ journal'.ready
          /\ journal'.reserved = journal.reserved
          /\ journal'.version = (IF run.case \in Upgrades THEN run.case ELSE Current)
          /\ journal'.rows = (IF run.case \in Upgrades THEN call.rows ELSE 0)
          /\ journal'.verified = (run.case # Initialize)
          /\ journal'.marker = [journal.marker EXCEPT ![run.case] = "complete"]
      BY <1>2, <3>1 DEF Completed, JournalType
    <3>3. run'.pc = "prepare" /\ run'.pc \notin Busy
      BY <3>1 DEF Idle, Busy
    <3>4. LockInv'
      BY <1>1, <2>2, <3>2, <3>3, BudgetAssumption DEF IInv, LockInv, Forgivable, Reasons
    <3>5. PlanInv'
      BY <3>3 DEF PlanInv
    <3>6. ReserveInv'
      <4>1. Margin' = 0 /\ Rest' = 0 /\ Outstanding(call') = 0 /\ Outstanding(stray') = 0
        BY <1>1, <3>3 DEF Margin, Outstanding, Rest
      <4> QED BY <1>1, <1>4, <3>2, <4>1 DEF IInv, ReserveInv
    <3>7. KnownInv'
      <4>1. run.step = Length(run.case)
        BY <1>1, <2>4, LengthRange
      <4>2. CASE run.case = Initialize
        <5>1. call.effect = "create"
          BY <1>1, <4>1, <4>2 DEF Plan, Length, Initialize, Clear, Current
        <5>2. run.case \notin Upgrades
          BY <4>2 DEF Upgrades, Initialize, Current
        <5> QED BY <1>1, <3>2, <3>3, <4>2, <5>1, <5>2 DEF KnownInv, JournalKnowsDatabase
      <4>3. CASE run.case = Clear
        <5>1. call.schema = Current /\ call.rows = 0
          BY <2>1, <4>1, <4>3 DEF Expected, Length, Initialize, Clear, Current
        <5> QED BY <1>1, <3>2, <3>3, <4>3, <5>1 DEF KnownInv, JournalKnowsDatabase, Upgrades, Clear, Current
      <4>4. CASE run.case \in Upgrades
        <5>1. call.schema = run.case
          BY <2>1, <4>1, <4>4 DEF Expected, Length, Initialize, Clear, Current, Upgrades
        <5> QED BY <1>1, <3>2, <3>3, <4>4, <5>1 DEF KnownInv, JournalKnowsDatabase
      <4> QED BY <1>1, <4>2, <4>3, <4>4 DEF Cases
    <3>8. OnceInv'
      <4>1. journal.marker \in [Cases -> {"unused", "open", "complete"}]
        BY DEF IInv, TypeOK, JournalType
      <4>2. \A c \in Cases : journal'.marker[c] = "unused" => journal.marker[c] = "unused"
        BY <3>2, <4>1
      <4> QED BY <1>1, <3>3, <4>2 DEF IInv, OnceInv, OneUse
    <3> QED BY <3>4, <3>5, <3>6, <3>7, <3>8 DEF Others
  <2> QED BY <2>3, <2>4
<1> QED BY <1>5, <1>6

LEMMA AnswerOperationStep == ASSUME IInv, TypeOK', AnswerOperation PROVE Others'
<1> DEFINE recorded == Record(journal, call)
           settled == Settle(recorded, call)
           refresh == call.effect = "look" /\ ~run.verified
           bad == IF Verdict(recorded) # None THEN Verdict(recorded)
                  ELSE IF settled.reserved < settled.actual THEN "MISMATCH" ELSE None
<1>1. /\ run.pc = "await" /\ call.state = "done" /\ call'.state = "none" /\ ~truth.lost
      /\ journal.active # 0 /\ journal.active = run.ticket /\ stray.state = "none"
      /\ UNCHANGED <<db, stray, deploy, truth>>
      /\ call.rows = db.rows /\ journal.ready /\ db.schema = journal.version
      /\ run.verified => journal.verified /\ journal.rows = db.rows
    BY DEF AnswerOperation, NoCall, IInv, LockInv, KnownInv, Busy
<1>2. /\ recorded \in JournalType /\ recorded.active = journal.active
      /\ recorded.stopped = journal.stopped
      /\ recorded.reserved = journal.reserved /\ recorded.ready = journal.ready
      /\ recorded.version = journal.version /\ recorded.rows = journal.rows
      /\ recorded.verified = journal.verified /\ recorded.marker = journal.marker
    BY RecordType, RecordFields DEF IInv, TypeOK
<1> HIDE DEF recorded
<1>3. /\ settled \in JournalType /\ settled.active = journal.active
      /\ settled.stopped = journal.stopped
      /\ settled.reserved = (IF call.single THEN journal.reserved - (Bound - call.reads)
                             ELSE journal.reserved)
      /\ settled.ready = journal.ready
      /\ settled.version = journal.version /\ settled.rows = journal.rows
      /\ settled.verified = journal.verified /\ settled.marker = journal.marker
    BY <1>2, SettleType, SettleFields DEF IInv, TypeOK
<1> HIDE DEF settled
<1>4. /\ Verdict(recorded) # None => Verdict(recorded) \in Reasons \ Forgivable
      /\ Verdict(recorded) = None => recorded.stopped = None /\ ~(call.reads > Bound) /\ call.complete
  <2>1. /\ Barred(recorded, run) # None => Barred(recorded, run) \in Reasons \ Forgivable
        /\ Barred(recorded, run) = None => recorded.stopped = None
    BY <1>2, BarredReason DEF IInv, TypeOK, LockInv
  <2>2. {"METERING", "USAGE_EXCEEDED_BOUND"} \subseteq Reasons \ Forgivable /\ None \notin Reasons
    BY BudgetAssumption DEF Reasons, Forgivable
  <2> QED BY <2>1, <2>2 DEF Verdict
<1>5. /\ Outstanding(call) = 0 /\ Outstanding(stray) = 0 /\ Rest = 0 /\ Margin \in Nat
      /\ truth.used \in Nat /\ journal.reserved \in Int
    BY <1>1, MarginNat DEF Outstanding, Rest, IInv, TypeOK, JournalType
<1>6. truth.used + Margin <= journal.reserved
    BY <1>5 DEF IInv, ReserveInv
<1>7. Verdict(recorded) = None => truth.used <= settled.reserved
  <2>1. call.reads \in Nat /\ Bound \in Nat
    BY BudgetAssumption DEF IInv, TypeOK, CallType
  <2> QED BY <1>1, <1>3, <1>4, <1>5, <1>6, <2>1 DEF Margin
<1>8. CASE bad # None
  <2>1. GiveUp(recorded, bad)
    BY <1>8 DEF AnswerOperation, recorded, settled
  <2>2. bad \in Reasons \ Forgivable
    BY <1>4, <1>8 DEF Reasons, Forgivable
  <2>3. truth.used + Outstanding(stray) <= recorded.reserved
    BY <1>2, <1>5, <1>6
  <2> HIDE DEF bad
  <2> QED BY <1>1, <1>2, <2>1, <2>2, <2>3, GiveUpStep
<1>9. CASE bad = None
  <2>1. Verdict(recorded) = None
    BY <1>9, BudgetAssumption DEF Reasons
  <2>2. journal.stopped = None /\ ~truth.overrun
    BY <1>1, <1>2, <1>4, <2>1 DEF IInv, LockInv
  <2>3. CASE refresh /\ call.rows > run.upper
    <3>1. GiveUp(settled, "MISMATCH") /\ "MISMATCH" \in Reasons \ Forgivable
      BY <1>9, <2>3 DEF AnswerOperation, recorded, settled, Reasons, Forgivable
    <3>2. truth.used + Outstanding(stray) <= settled.reserved
      BY <1>3, <1>5, <1>7, <2>1 DEF JournalType
    <3> QED BY <1>1, <1>3, <3>1, <3>2, GiveUpStep
  <2>4. CASE ~(refresh /\ call.rows > run.upper)
    <3>1. /\ journal' = IF refresh THEN [settled EXCEPT !.rows = call.rows, !.verified = TRUE] ELSE settled
          /\ run' = [run EXCEPT !.pc = "serve", !.verified = run.verified \/ refresh,
                               !.upper = IF refresh THEN call.rows ELSE run.upper]
      BY <1>9, <2>4 DEF AnswerOperation, recorded, settled
    <3>2. /\ journal'.active = journal.active /\ journal'.stopped = None
          /\ journal'.reserved = settled.reserved /\ journal'.ready
          /\ journal'.version = journal.version /\ journal'.marker = journal.marker
          /\ journal'.rows = (IF refresh THEN call.rows ELSE journal.rows)
          /\ refresh => journal'.verified
          /\ ~refresh => journal'.verified = journal.verified
      <4>1. CASE refresh
        <5>1. journal' = [settled EXCEPT !.rows = call.rows, !.verified = TRUE]
          BY <3>1, <4>1
        <5>2. /\ journal'.active = settled.active /\ journal'.stopped = settled.stopped
              /\ journal'.reserved = settled.reserved /\ journal'.ready = settled.ready
              /\ journal'.version = settled.version /\ journal'.marker = settled.marker
              /\ journal'.rows = call.rows /\ journal'.verified = TRUE
          BY <1>3, <5>1 DEF JournalType
        <5> HIDE DEF refresh
        <5> QED BY <1>1, <1>3, <2>2, <4>1, <5>2
      <4>2. CASE ~refresh
        <5>1. journal' = settled
          BY <3>1, <4>2
        <5> HIDE DEF refresh
        <5> QED BY <1>1, <1>3, <2>2, <4>2, <5>1
      <4> QED BY <4>1, <4>2
    <3>3. /\ run'.pc = "serve" /\ run'.ticket = run.ticket /\ run'.verified = (run.verified \/ refresh)
      BY <3>1 DEF IInv, TypeOK, RunType
    <3>4. LockInv'
      BY <1>1, <2>2, <3>2, <3>3, BudgetAssumption DEF IInv, LockInv, Busy, Forgivable, Reasons
    <3>5. PlanInv'
      BY <3>3 DEF PlanInv
    <3>6. ReserveInv'
      <4>1. Margin' = 0 /\ Rest' = 0 /\ Outstanding(call') = 0 /\ Outstanding(stray') = 0
        BY <1>1, <3>3 DEF Margin, Outstanding, Rest
      <4> QED BY <1>1, <1>5, <1>7, <2>1, <3>2, <4>1 DEF ReserveInv
    <3>7. KnownInv'
      BY <1>1, <3>2, <3>3 DEF KnownInv, JournalKnowsDatabase
    <3>8. OnceInv'
      BY <1>1, <3>2, <3>3 DEF IInv, OnceInv, OneUse
    <3> QED BY <3>4, <3>5, <3>6, <3>7, <3>8 DEF Others
  <2> QED BY <2>3, <2>4
<1> QED BY <1>8, <1>9

----------------------------------------------------------------------------
(* The initial states.                                                     *)

LEMMA FreshInv == ASSUME TypeOK, Init, Fresh PROVE Others
<1>1. /\ run.pc = "idle" /\ run.pc \notin Busy /\ call.state = "none" /\ stray.state = "none"
    BY DEF Init, Idle, NoCall, Busy
<1>2. NewJournal \in JournalType
    BY NewType
<1>3. /\ NewJournal.stopped = None /\ NewJournal.active = 0 /\ NewJournal.reserved = 0
      /\ ~NewJournal.ready
    BY DEF NewJournal
<1>4. None \notin Forgivable
    BY BudgetAssumption DEF Forgivable, Reasons
<1>5. journal.stopped = None /\ journal.reserved = 0 /\ ~journal.ready
    BY <1>2, <1>3, <1>4, ConstructFacts DEF Fresh, Kept
<1>6. truth.used = 0 /\ ~truth.overrun /\ ~truth.lost /\ \A c \in Cases : truth.writes[c] = 0
    BY DEF Fresh
<1>7. LockInv
    BY <1>1, <1>4, <1>5, <1>6 DEF LockInv
<1>8. PlanInv
    BY <1>1 DEF PlanInv
<1>9. ReserveInv
    BY <1>1, <1>5, <1>6 DEF ReserveInv, Outstanding, Rest, Margin
<1>10. KnownInv
    BY <1>1, <1>5 DEF KnownInv, JournalKnowsDatabase
<1>11. OnceInv
    BY <1>1, <1>6 DEF OnceInv, OneUse
<1> QED BY <1>7, <1>8, <1>9, <1>10, <1>11 DEF Others

LEMMA LegacyInv == ASSUME TypeOK, Init, Legacy PROVE Others
<1>1. /\ run.pc = "idle" /\ run.pc \notin Busy /\ call.state = "none" /\ stray.state = "none"
    BY DEF Init, Idle, NoCall, Busy
<1>2. PICK version \in Versions, stopped \in {None, "BUDGET_EXHAUSTED", "REQUEST_LIMIT", "METERING", "OUTCOME_UNKNOWN"},
           active \in {0, 1}, reserved \in {Bound, ReadCeiling + Bound}, verified \in BOOLEAN, n \in 0 .. 1 :
        /\ stopped \in {"METERING", "OUTCOME_UNKNOWN"} => active = 1
        /\ stopped = "REQUEST_LIMIT" => active = 0
        /\ verified => stopped = None /\ active = 0
        /\ active = 0 => n = 0
        /\ journal = Construct(LegacyJournal(version, stopped, active, reserved, verified))
        /\ db = [schema |-> version, rows |-> n]
        /\ truth = [used |-> 1, overrun |-> FALSE,
                    lost |-> active = 1 /\ stopped # "BUDGET_EXHAUSTED",
                    writes |-> [c \in Cases |-> IF c <= version THEN 1 ELSE 0]]
    BY ZenonT(60) DEF Legacy
<1> DEFINE l == LegacyJournal(version, stopped, active, reserved, verified)
<1>3. /\ version \in Nat /\ stopped \in Reasons \cup {None} /\ active \in Nat /\ reserved \in Nat
      /\ 1 <= reserved
    BY BudgetAssumption DEF Reasons
<1>4. l \in JournalType
    BY <1>3, LegacyType
<1>5. /\ l.requests = 1 /\ l.active = active /\ l.stopped = stopped /\ l.reserved = reserved
      /\ l.actual = 1 /\ (stopped # "METERING" => l.evidence) /\ l.ready /\ l.version = version
      /\ l.rows = 0 /\ l.verified = verified /\ ~l.unlimited /\ ~l.product
      /\ l.marker = [c \in Cases |-> IF c <= version THEN "complete" ELSE "unused"]
    BY DEF LegacyJournal, NewJournal
<1> HIDE DEF l
<1>6. Kept(journal, l)
    BY <1>2, <1>4, ConstructFacts DEF l
<1>7. stopped \in Forgivable => journal.stopped = None /\ journal.active = 0
  <2>1. stopped \in Forgivable => l.evidence /\ Accounted(l) /\ l.active <= l.requests
    BY <1>3, <1>5 DEF Forgivable, Accounted
  <2> QED BY <1>2, <1>4, <1>5, <2>1, ConstructResumes DEF l
<1>8. stopped \notin Forgivable =>
        /\ journal.active = active
        /\ journal.stopped = IF stopped = None /\ active # 0 THEN "INCOMPLETE_REQUEST" ELSE stopped
    BY <1>2, <1>4, <1>5, ConstructFacts DEF l
<1>9. /\ truth.used = 1 /\ ~truth.overrun /\ (truth.lost => active = 1 /\ stopped # "BUDGET_EXHAUSTED")
      /\ \A c \in Cases : truth.writes[c] = IF c <= version THEN 1 ELSE 0
      /\ db.schema = version /\ db.rows = n
    BY <1>2
<1>10. LockInv
  <2>1. None \notin Forgivable /\ "INCOMPLETE_REQUEST" \notin Forgivable /\ "INCOMPLETE_REQUEST" # None
    BY BudgetAssumption DEF Forgivable, Reasons
  <2>2. truth.lost => stopped \notin Forgivable /\ active # 0
    BY <1>2, <1>9 DEF Forgivable
  <2>3. truth.lost => journal.stopped # None
    BY <1>8, <2>1, <2>2
  <2>4. journal.stopped \notin Forgivable
    BY <1>7, <1>8, <2>1
  <2> QED BY <1>1, <1>9, <2>3, <2>4 DEF LockInv
<1>11. PlanInv
    BY <1>1 DEF PlanInv
<1>12. ReserveInv
    BY <1>1, <1>3, <1>5, <1>6, <1>9 DEF ReserveInv, Outstanding, Rest, Margin, Kept
<1>13. KnownInv
  <2>1. journal.verified => active = 0 /\ n = 0
    BY <1>2, <1>5, <1>6 DEF Kept
  <2> QED BY <1>1, <1>5, <1>6, <1>9, <2>1 DEF KnownInv, JournalKnowsDatabase, Kept
<1>14. OnceInv
  <2>1. \A c \in Cases : truth.writes[c] <= 1 /\ (journal.marker[c] = "unused" => truth.writes[c] = 0)
    BY <1>5, <1>6, <1>9 DEF Kept
  <2> QED BY <1>1, <2>1 DEF OnceInv, OneUse
<1> QED BY <1>10, <1>11, <1>12, <1>13, <1>14 DEF Others

LEMMA InitInv == Init => IInv
BY InitType, FreshInv, LegacyInv DEF Init, IInv, Others

(* Every step.                                                             *)
LEMMA StepInv == IInv /\ [Next]_vars => IInv'
<1> SUFFICES ASSUME IInv, [Next]_vars PROVE IInv'
    OBVIOUS
<1>1. TypeOK /\ PlanInv
    BY DEF IInv
<1>2. ASSUME NEW job \in Jobs, Acquire(job) PROVE IInv'
    BY <1>1, <1>2, AcquireType, AcquireStep DEF IInv, Others
<1>3. ASSUME NEW c \in Cases, BeginCase(c) PROVE IInv'
    BY <1>1, <1>3, BeginCaseType, BeginCaseStep DEF IInv, Others
<1>4. CASE Refuse
    BY <1>1, <1>4, RemainingType, RefuseStep DEF IInv, Others
<1>5. CASE Open
    BY <1>1, <1>5, OpenType, OpenStep DEF IInv, Others
<1>6. CASE SendStep
  <2>1. run.step <= Length(run.case)
    BY <1>1, <1>6 DEF SendStep, PlanInv
  <2> QED BY <1>1, <1>6, <2>1, SendStepType, SendStepStep DEF IInv, Others
<1>7. ASSUME NEW effect \in {"look", "insert", "remove"}, Operate(effect) PROVE IInv'
    BY <1>1, <1>7, OperateType, OperateStep DEF IInv, Others
<1>8. CASE AnswerStep
  <2>1. run.step <= Length(run.case)
    BY <1>1, <1>8 DEF AnswerStep, PlanInv
  <2> QED BY <1>1, <1>8, <2>1, AnswerStepType, AnswerStepStep DEF IInv, Others
<1>9. CASE AnswerOperation
    BY <1>1, <1>9, AnswerOperationType, AnswerOperationStep DEF IInv, Others
<1>10. CASE Finish \/ Fail \/ Cancel
    BY <1>1, <1>10, FinishType, FinishStep DEF IInv, Others
<1>11. CASE Execute
    BY <1>1, <1>11, ExecuteType, ExecuteStep DEF IInv, Others
<1>12. CASE ExecuteStray
    BY <1>1, <1>12, ExecuteStrayType, ExecuteStrayStep DEF IInv, Others
<1>13. CASE Abandon
    BY <1>1, <1>13, AbandonType, AbandonStep DEF IInv, Others
<1>14. CASE RunLate
    BY <1>1, <1>14, RemainingType, RunLateStep DEF IInv, Others
<1>15. CASE ManualStop
    BY <1>1, <1>15, RemainingType, ManualStopStep DEF IInv, Others
<1>16. CASE Restart
    BY <1>1, <1>16, RestartType, RestartStep DEF IInv, Others
<1>17. CASE UNCHANGED vars
  <2>1. UNCHANGED <<journal, db, run, call, stray, deploy, truth>>
    BY <1>17 DEF vars
  <2>2. TypeOK'
    BY <1>1, <2>1 DEF TypeOK
  <2>3. LockInv' /\ PlanInv'
    BY <2>1 DEF IInv, LockInv, PlanInv
  <2>4. ReserveInv'
    BY <2>1 DEF IInv, ReserveInv, Outstanding, Rest, Margin
  <2>5. KnownInv'
    BY <2>1 DEF IInv, KnownInv, JournalKnowsDatabase
  <2>6. OnceInv'
    BY <2>1 DEF IInv, OnceInv, OneUse
  <2> QED BY <2>2, <2>3, <2>4, <2>5, <2>6 DEF IInv
<1> QED BY <1>2, <1>3, <1>4, <1>5, <1>6, <1>7, <1>8, <1>9, <1>10, <1>11, <1>12, <1>13, <1>14,
           <1>15, <1>16, <1>17 DEF Next, Coordinator

LEMMA Inductive == Spec => []IInv
BY InitInv, StepInv, PTL DEF Spec

(* The journal is well formed, covers whatever D1 did or may still do, knows *)
(* the schema and the verified counts, and carries out each one-use write at *)
(* most once: whatever requests, faults, stops and restarts interleave, and  *)
(* whichever version's journal the deployment found.                        *)
THEOREM JournalStaysTrue == Spec => []JournalIsTrue
<1>1. IInv => JournalIsTrue
  <2> SUFFICES ASSUME IInv PROVE JournalIsTrue
    OBVIOUS
  <2>1. UseIsReserved
    <3>1. Rest \in Nat /\ Margin \in Nat /\ truth.used \in Nat
          /\ Outstanding(call) \in Nat /\ Outstanding(stray) \in Nat /\ journal.reserved \in Int
      BY RestNat, MarginNat, OutstandingNat DEF IInv, TypeOK, JournalType
    <3> QED BY <3>1 DEF IInv, ReserveInv, UseIsReserved
  <2>2. JournalKnowsDatabase /\ CarriedOutOnce
    BY DEF IInv, KnownInv, OnceInv, CarriedOutOnce
  <2> QED BY <2>1, <2>2 DEF IInv, JournalIsTrue
<1> QED BY <1>1, Inductive, PTL

(* Once an outcome is unknown or a call exceeded its bound, D1 is sent      *)
(* nothing more: neither a restart, nor a transition of the constructor, nor *)
(* a later request reopens the journal.                                     *)
THEOREM UnknownIsFinal == Spec => NothingAfterUnknown
<1>1. IInv /\ [Next]_vars =>
        [call.state # "sent" /\ call'.state = "sent" => ~truth.lost /\ ~truth.overrun]_vars
  <2> SUFFICES ASSUME IInv, Next, call.state # "sent", call'.state = "sent"
               PROVE  ~truth.lost /\ ~truth.overrun
    OBVIOUS
  <2>1. call' # NoCall /\ call' # call
    BY DEF NoCall
  <2>2. SendStep \/ (\E effect \in {"look", "insert", "remove"} : Operate(effect)) \/ Execute
    BY <2>1 DEF Next, Coordinator, Acquire, BeginCase, Refuse, Open, AnswerStep, AnswerOperation, Finish,
                ExecuteStray, Abandon, Fail, Cancel, RunLate, ManualStop, Restart
  <2>3. ~Execute
    BY DEF Execute
  <2>4. (SendStep \/ \E effect \in {"look", "insert", "remove"} : Operate(effect))
          => run.pc \in {"plan", "serve"} /\ Barred(journal, run) = None
    BY <2>1, BarredReason, BudgetAssumption DEF SendStep, Operate, Reasons
  <2>5. run.pc \in {"plan", "serve"} /\ Barred(journal, run) = None
    BY <2>2, <2>3, <2>4
  <2>6. journal.stopped = None
    BY <2>5, BarredReason DEF IInv, TypeOK
  <2> QED BY <2>5, <2>6 DEF IInv, LockInv
<1> QED BY <1>1, Inductive, PTL DEF Spec, NothingAfterUnknown

----------------------------------------------------------------------------
(* The journal implements the accounting of ReservedUse.                    *)

LEMMA BooksInit == IInv /\ Init => Account!Init
<1> SUFFICES ASSUME IInv, Init PROVE Account!Init
    OBVIOUS
<1>1. Outstanding(call) = 0 /\ Outstanding(stray) = 0 /\ Rest = 0 /\ Margin = 0
    BY DEF Init, NoCall, Idle, Outstanding, Rest, Margin
<1>2. truth.used \in Nat /\ truth.lost \in BOOLEAN /\ journal.reserved \in Int
    BY DEF IInv, TypeOK, JournalType
<1>3. truth.used <= journal.reserved
    BY <1>1, <1>2 DEF IInv, ReserveInv
<1> QED BY <1>1, <1>2, <1>3 DEF Account!Init, Account!Covered

(* What both sides of a step say of the books.                             *)
Books ==
    /\ journal.reserved \in Nat /\ truth.used \in Nat
    /\ Outstanding(call) \in Nat /\ Outstanding(stray) \in Nat
    /\ truth.used + (Outstanding(call) + Outstanding(stray)) <= journal.reserved

LEMMA BooksOpen == IInv => Books
<1> SUFFICES ASSUME IInv PROVE Books
    OBVIOUS
<1>1. Rest \in Nat /\ Margin \in Nat /\ truth.used \in Nat
      /\ Outstanding(call) \in Nat /\ Outstanding(stray) \in Nat /\ journal.reserved \in Int
    BY RestNat, MarginNat, OutstandingNat DEF IInv, TypeOK, JournalType
<1> QED BY <1>1 DEF IInv, ReserveInv, Books

LEMMA BooksNext == IInv' => Books'
BY BooksOpen, PTL

(* Steps that send nothing and settle nothing.                             *)
LEMMA BooksKept ==
    ASSUME journal'.reserved = journal.reserved, truth' = truth,
           Outstanding(call') = Outstanding(call), UNCHANGED stray
    PROVE  UNCHANGED Account!book
BY DEF Account!book

LEMMA BooksSend ==
    ASSUME IInv, IInv', NEW n \in Nat, ~truth.lost, UNCHANGED <<stray, truth>>,
           journal'.reserved = journal.reserved + n,
           Outstanding(call') >= Outstanding(call)
    PROVE  Account!Send
<1>1. Books /\ Books'
    BY BooksOpen, BooksNext
<1> QED BY <1>1 DEF Books, Account!Send, Account!Covered

LEMMA BooksLose ==
    ASSUME IInv, truth'.used = truth.used, truth'.lost, journal'.reserved = journal.reserved,
           stray' = (IF call.state = "sent" THEN call ELSE stray), call'.state = "none",
           call.state # "none"
    PROVE  Account!Lose
<1>1. stray.state = "none"
    BY DEF IInv, LockInv, Busy
<1>2. Outstanding(call') + Outstanding(stray') = Outstanding(call) + Outstanding(stray)
    BY <1>1, BudgetAssumption DEF Outstanding
<1>3. truth'.lost = TRUE
    BY DEF IInv, TypeOK
<1> QED BY <1>2, <1>3 DEF Account!Lose

LEMMA GiveUpBooks ==
    ASSUME NEW j \in JournalType, NEW reason \in Reasons, GiveUp(j, reason)
    PROVE  journal'.reserved = j.reserved
BY GiveUpFields DEF Kept

LEMMA BooksStep == IInv /\ IInv' /\ [Next]_vars => [Account!Next]_Account!book
<1> SUFFICES ASSUME IInv, IInv', [Next]_vars PROVE Account!Next \/ UNCHANGED Account!book
    OBVIOUS
<1> USE DEF Account!Next
<1>1. TypeOK /\ TypeOK' /\ journal \in JournalType /\ call \in CallType /\ Books /\ Books'
    BY BooksOpen, BooksNext DEF IInv, TypeOK
<1>2. ASSUME NEW job \in Jobs, Acquire(job) PROVE UNCHANGED Account!book
  <2>1. journal'.reserved = journal.reserved
    BY <1>1, <1>2, GiveUpBooks DEF Acquire, Reasons
  <2> QED BY <1>2, <2>1, BooksKept DEF Acquire
<1>3. ASSUME NEW c \in Cases, BeginCase(c) PROVE Account!Send
  <2> DEFINE r == Reserve(journal, Length(c) * Bound)
  <2>1. Length(c) * Bound \in Nat
    BY LengthRange, BudgetAssumption
  <2>2. r \in JournalType /\ r.reserved = journal.reserved + Length(c) * Bound
    BY <1>1, <2>1, ReserveType, ReserveFields
  <2>3. journal' = [r EXCEPT !.requests = r.requests + 1, !.active = r.requests + 1,
                      !.marker[c] = "open", !.verified = r.verified /\ KeepsVerified(c)]
    BY <1>3 DEF BeginCase, Issue
  <2> HIDE DEF r
  <2>4. journal'.reserved = journal.reserved + Length(c) * Bound
    BY <2>2, <2>3 DEF JournalType
  <2>5. ~truth.lost
    BY <1>3 DEF BeginCase, Admits, IInv, LockInv
  <2>6. UNCHANGED <<call, stray, truth>>
    BY <1>3 DEF BeginCase
  <2>7. Outstanding(call') >= Outstanding(call)
    BY <1>1, <2>6 DEF Books
  <2> QED BY <2>1, <2>4, <2>5, <2>6, <2>7, BooksSend
<1>4. CASE Refuse \/ RunLate
    BY <1>4, BooksKept DEF Refuse, RunLate
<1>5. CASE Open
  <2>1. journal'.reserved = journal.reserved
    BY <1>1, <1>5 DEF Open, Issue, JournalType
  <2> QED BY <1>5, <2>1, BooksKept DEF Open
<1>6. CASE SendStep
  <2>1. run.pc = "plan" /\ ~truth.lost /\ call.state = "none" /\ UNCHANGED <<stray, truth>>
    BY <1>6 DEF SendStep, IInv, LockInv, Busy
  <2>2. CASE UNCHANGED journal
    <3>1. Outstanding(call) = 0 /\ Outstanding(call') \in Nat
      BY <1>1, <2>1 DEF Outstanding, Books
    <3> QED BY <1>1, <2>1, <2>2, <3>1, BooksSend DEF Books
  <2>3. CASE GiveUp(journal, Barred(journal, run)) /\ Barred(journal, run) # None /\ UNCHANGED call
    <3>1. journal'.reserved = journal.reserved
      BY <1>1, <2>3, BarredReason, GiveUpBooks DEF TypeOK
    <3> QED BY <2>1, <2>3, <3>1, BooksKept
  <2> QED BY <1>6, <2>2, <2>3 DEF SendStep
<1>7. ASSUME NEW effect \in {"look", "insert", "remove"}, Operate(effect)
      PROVE  Account!Next \/ UNCHANGED Account!book
  <2> DEFINE barred == IF Barred(journal, run) # None THEN Barred(journal, run)
                       ELSE IF run.calls >= MaxCalls THEN "OPERATION_LIMIT" ELSE None
  <2>1. run.pc = "serve" /\ ~truth.lost /\ call.state = "none" /\ UNCHANGED <<stray, truth>>
    BY <1>7 DEF Operate, IInv, LockInv, Busy
  <2>2. CASE barred = None
    <3>1. journal' = Reserve(journal, Bound)
      BY <1>7, <2>2 DEF Operate
    <3>2. journal'.reserved = journal.reserved + Bound /\ Bound \in Nat
      BY <1>1, <3>1, ReserveFields, BudgetAssumption
    <3>3. Outstanding(call) = 0 /\ Outstanding(call') \in Nat
      BY <1>1, <2>1 DEF Outstanding, Books
    <3> QED BY <2>1, <3>2, <3>3, BooksSend
  <2>3. CASE barred # None
    <3>1. GiveUp(journal, barred) /\ UNCHANGED call
      BY <1>7, <2>3 DEF Operate
    <3>2. barred \in Reasons
      BY <1>1, <2>3, BarredReason DEF TypeOK, Reasons
    <3> HIDE DEF barred
    <3>3. journal'.reserved = journal.reserved
      BY <1>1, <3>1, <3>2, GiveUpBooks
    <3> QED BY <2>1, <3>1, <3>3, BooksKept
  <2> QED BY <2>2, <2>3
<1>8. CASE AnswerStep
  <2> DEFINE j == Record(journal, call)
             bad == IF Verdict(j) # None THEN Verdict(j)
                    ELSE IF ~AttemptsProven(run.case) THEN "MISMATCH"
                    ELSE IF ~Expected(run.case, run.step) THEN "MISMATCH" ELSE None
  <2>1. /\ call.state = "done" /\ call' = NoCall /\ UNCHANGED <<stray, truth>>
        /\ Outstanding(call) = 0 /\ Outstanding(call') = 0
    BY <1>8 DEF AnswerStep, NoCall, Outstanding
  <2>2. j \in JournalType /\ j.reserved = journal.reserved
    BY <1>1, RecordType, RecordFields
  <2>3. bad # None => GiveUp(j, bad)
    BY <1>8 DEF AnswerStep
  <2>4. bad = None => journal' = j \/ journal' = Completed(j, run.case)
    BY <1>8 DEF AnswerStep
  <2> HIDE DEF j
  <2>5. bad # None => bad \in Reasons
    BY <1>1, <2>2, BarredReason DEF Verdict, TypeOK, Reasons
  <2> HIDE DEF bad
  <2>6. Completed(j, run.case).reserved = j.reserved
    BY <2>2 DEF Completed, JournalType
  <2>7. journal'.reserved = journal.reserved
    BY <2>2, <2>3, <2>4, <2>5, <2>6, GiveUpBooks
  <2> QED BY <2>1, <2>7, BooksKept
<1>9. CASE AnswerOperation
  <2> DEFINE recorded == Record(journal, call)
             settled == Settle(recorded, call)
             refresh == call.effect = "look" /\ ~run.verified
             bad == IF Verdict(recorded) # None THEN Verdict(recorded)
                    ELSE IF settled.reserved < settled.actual THEN "MISMATCH" ELSE None
  <2>1. /\ call.state = "done" /\ call' = NoCall /\ UNCHANGED <<stray, truth>> /\ ~truth.lost
        /\ Outstanding(call) = 0 /\ Outstanding(call') = 0
    BY <1>9 DEF AnswerOperation, NoCall, Outstanding, IInv, LockInv, Busy
  <2>2. recorded \in JournalType /\ recorded.reserved = journal.reserved
    BY <1>1, RecordType, RecordFields
  <2> HIDE DEF recorded
  <2>3. /\ settled \in JournalType
        /\ settled.reserved = IF call.single THEN journal.reserved - (Bound - call.reads)
                              ELSE journal.reserved
    BY <1>1, <2>2, SettleType, SettleFields
  <2> HIDE DEF settled
  <2>4. CASE bad # None
    <3>1. GiveUp(recorded, bad)
      BY <1>9, <2>4 DEF AnswerOperation, recorded, settled
    <3>2. bad \in Reasons
      BY <1>1, <2>2, <2>4, BarredReason DEF Verdict, TypeOK, Reasons
    <3> HIDE DEF bad
    <3> QED BY <2>1, <2>2, <3>1, <3>2, GiveUpBooks, BooksKept
  <2>5. CASE bad = None
    <3>1. call.reads \in 0 .. Bound
      BY <1>1, <2>5, BudgetAssumption DEF Verdict, CallType, Reasons
    <3>2. \/ GiveUp(settled, "MISMATCH")
          \/ journal' = [settled EXCEPT !.rows = call.rows, !.verified = TRUE]
          \/ journal' = settled
      BY <1>9, <2>5 DEF AnswerOperation, recorded, settled
    <3>3. journal'.reserved = settled.reserved
      BY <2>3, <3>2, GiveUpBooks DEF Reasons, JournalType
    <3>4. journal'.reserved = journal.reserved \/ journal'.reserved < journal.reserved
      BY <1>1, <2>3, <3>1, <3>3, BudgetAssumption DEF Books
    <3>5. journal'.reserved < journal.reserved => Account!Release
      BY <1>1, <2>1 DEF Books, Account!Release, Account!Covered
    <3> QED BY <2>1, <3>4, <3>5, BooksKept
  <2> QED BY <2>4, <2>5
<1>10. CASE Finish \/ Fail \/ Cancel
  <2>1. UNCHANGED <<call, stray, truth>>
    BY <1>10 DEF Finish, Fail, Cancel
  <2>2. \/ journal' = [journal EXCEPT !.active = 0]
        \/ \E reason \in Reasons : GiveUp(journal, reason)
    BY <1>1, <1>10, BarredReason DEF Finish, Fail, Cancel, TypeOK, Reasons
  <2>3. journal'.reserved = journal.reserved
    BY <1>1, <2>2, GiveUpBooks DEF JournalType
  <2> QED BY <2>1, <2>3, BooksKept
<1>11. CASE Execute
  <2>1. PICK d \in After(call), reads \in 0 .. Bound + 1, single \in BOOLEAN, complete \in BOOLEAN :
          /\ call' = [call EXCEPT !.state = "done", !.reads = reads, !.single = single,
                        !.complete = complete, !.schema = d.schema, !.rows = d.rows]
          /\ truth' = [truth EXCEPT
                         !.used = truth.used + (IF single /\ complete /\ reads <= Bound THEN reads ELSE Bound),
                         !.overrun = truth.overrun \/ reads > Bound, !.writes = Counted(call)]
    BY <1>11, ZenonT(60) DEF Execute
  <2>2. call.state = "sent" /\ UNCHANGED <<journal, stray>> /\ call'.state = "done"
    BY <1>1, <1>11, <2>1 DEF Execute, CallType
  <2>3. Outstanding(call) = Bound /\ Outstanding(call') = 0
    BY <2>2 DEF Outstanding
  <2>4. truth'.lost = truth.lost /\ truth'.used \in truth.used .. truth.used + Bound
    BY <1>1, <2>1, BudgetAssumption DEF TypeOK
  <2> QED BY <1>1, <2>2, <2>3, <2>4, BudgetAssumption DEF Account!Use, Books
<1>12. CASE ExecuteStray
  <2>1. stray.state = "sent" /\ stray'.state = "none" /\ UNCHANGED <<journal, call>>
    BY <1>12 DEF ExecuteStray, NoCall
  <2>2. Outstanding(stray) = Bound /\ Outstanding(stray') = 0
    BY <2>1 DEF Outstanding
  <2>3. truth'.lost = truth.lost /\ truth'.used = truth.used + Bound
    BY <1>1, <1>12 DEF ExecuteStray, TypeOK
  <2> QED BY <1>1, <2>1, <2>2, <2>3, BudgetAssumption DEF Account!Use, Books
<1>13. CASE Abandon
  <2>1. /\ call.state # "none" /\ call'.state = "none"
        /\ stray' = (IF call.state = "sent" THEN call ELSE stray)
    BY <1>13 DEF Abandon, NoCall, IInv, LockInv
  <2>2. truth'.used = truth.used /\ truth'.lost
    BY <1>1, <1>13 DEF Abandon, TypeOK
  <2>3. journal'.reserved = journal.reserved
    BY <1>1, <1>13, GiveUpBooks DEF Abandon, Reasons
  <2> QED BY <2>1, <2>2, <2>3, BooksLose
<1>14. CASE ManualStop
  <2>1. journal'.reserved = journal.reserved
    BY <1>1, <1>14 DEF ManualStop, Stop, JournalType
  <2> QED BY <1>14, <2>1, BooksKept DEF ManualStop
<1>15. CASE Restart
  <2>1. /\ call'.state = "none" /\ stray' = (IF call.state = "sent" THEN call ELSE stray)
    BY <1>15 DEF Restart, NoCall
  <2>2. truth' = [truth EXCEPT !.lost = truth.lost \/ call.state # "none"]
    BY <1>15 DEF Restart
  <2>3. journal'.reserved = journal.reserved
    BY <1>1, <1>15, ConstructFacts DEF Restart, Kept
  <2>4. CASE call.state = "none"
    <3>1. truth'.lost = truth.lost /\ truth'.used = truth.used
      BY <1>1, <2>2, <2>4 DEF TypeOK
    <3>2. Outstanding(call') = Outstanding(call) /\ stray' = stray
      BY <2>1, <2>4 DEF Outstanding
    <3> QED BY <2>3, <3>1, <3>2 DEF Account!book
  <2>5. CASE call.state # "none"
    <3>1. truth'.lost /\ truth'.used = truth.used
      BY <1>1, <2>2, <2>5 DEF TypeOK
    <3> QED BY <2>1, <2>3, <2>5, <3>1, BooksLose
  <2> QED BY <2>4, <2>5
<1>16. CASE UNCHANGED vars
    BY <1>16, BooksKept DEF vars
<1> QED BY <1>2, <1>3, <1>4, <1>5, <1>6, <1>7, <1>8, <1>9, <1>10, <1>11, <1>12, <1>13, <1>14, <1>15, <1>16
        DEF Next, Coordinator

(* The journal keeps the accounts that ReservedUse promises: rows are set    *)
(* aside before they may be read, a call keeps its share until its use is   *)
(* known, and after an unknown outcome nothing is sent or given back.       *)
THEOREM KeepsReservedUse == Spec => ImplementsReservedUse
BY BooksInit, BooksStep, Inductive, PTL DEF Spec, ImplementsReservedUse, Account!Spec
============================================================================
