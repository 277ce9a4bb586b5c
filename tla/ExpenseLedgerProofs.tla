------------------------- MODULE ExpenseLedgerProofs -------------------------
(***************************************************************************)
(* Theorems about the expense handlers, for every number of slots, members, *)
(* projects, keys and bodies. The invariants build on each other: types     *)
(* (Shaped), identities and snapshots (Dated), stored answers (Settled),    *)
(* what a request was entitled to when it read (Informed).                  *)
(***************************************************************************)
EXTENDS ExpenseLedger, FiniteSetTheorems, TLAPS

-----------------------------------------------------------------------------
(* Types.                                                                    *)

(* What a request in flight has read by the time it is at its pc.            *)
JobShape(j) ==
    /\ j.pc # "idle" => j.cred \in Credentials /\ j.user \in User /\ j.plan \in Plans /\ j.method # "none"
    /\ j.pc \in {"valid", "full", "recheck"} => j.method = "POST"
    /\ j.pc = "read" => j.method \in {"POST", "PATCH"}
    /\ j.method \in {"POST", "PATCH"} => j.body \in Body
    /\ j.method = "POST" => j.key \in Keys
    /\ j.method \in {"PATCH", "DELETE"} => j.id \in Ids /\ j.row \in Row
    /\ j.pc \in {"valid", "full", "ready", "recheck"} /\ j.method # "DELETE" => j.category \in Categories
    /\ j.victim # Null => j.lost \in Row

Shaped == TypeOK /\ \A w \in Workers : JobShape(job[w])

(* Administration keeps the tables well typed.                               *)
LEMMA AdministrationType == ASSUME TablesTypeOK, Administration PROVE TablesTypeOK'
<1> USE ActorAssumption, PlanAssumption, TargetAssumption, IdAssumption, BoundAssumption, NullAssumption DEF TablesTypeOK
<1>1. ASSUME NEW choice \in BOOLEAN, SetRetention(choice) PROVE TablesTypeOK'
  <2>1. user.autoRev + 1 \in Nat
    BY DEF User
  <2>2. [user EXCEPT !.auto = choice, !.autoRev = user.autoRev + 1] \in User
    BY <2>1, ZenonT(40) DEF User
  <2> QED BY <1>1, <2>2 DEF SetRetention
<1>2. ASSUME NEW plan \in Plans, ChangePlan(plan) PROVE TablesTypeOK'
  <2>1. user.period + 1 \in Nat
    BY DEF User
  <2>2. [user EXCEPT !.plan = plan, !.period = user.period + 1] \in User
    BY <2>1, ZenonT(40) DEF User
  <2> QED BY <1>2, <2>2 DEF ChangePlan
<1>3. CASE PlanLapses
    BY <1>3 DEF PlanLapses
<1>4. ASSUME NEW c \in Credentials, RevokeCredential(c) PROVE TablesTypeOK'
    BY <1>4 DEF RevokeCredential
<1>5. ASSUME NEW m \in Members, NEW role \in Roles, ChangeMember(m, role) PROVE TablesTypeOK'
    BY <1>5 DEF ChangeMember, Member
<1>6. ASSUME NEW p \in Projects, NEW status \in {"active", "archived"}, PatchProject(p, status)
      PROVE TablesTypeOK'
    BY <1>6 DEF PatchProject, Project
<1>7. ASSUME NEW c \in Categories, ArchiveCategory(c) PROVE TablesTypeOK'
    BY <1>7 DEF ArchiveCategory
<1>8. ASSUME NEW p \in Projects, EraseProject(p) PROVE TablesTypeOK'
    BY <1>8 DEF EraseProject, Project, EventsOf
<1> QED BY <1>1, <1>2, <1>3, <1>4, <1>5, <1>6, <1>7, <1>8 DEF Administration

(* So do the three financial batches.                                        *)
LEMMA RowRevision == \A row \in Row : row.rev \in Nat /\ row.rev + 1 \in Nat
BY DEF Row

LEMMA RemovedType == \A row \in Row : Removed(row) \in Row
BY RowRevision, ZenonT(40) DEF Removed, Row

LEMMA NewRowType == \A body \in Body, category \in Categories : NewRow(body, category) \in Row
BY DEF NewRow, Row, Body

LEMMA EditedType ==
    \A row \in Row, body \in Body, category \in Categories : Edited(row, body, category) \in Row
<1>1. \A body \in Body : body.target \in Targets /\ body.day \in Days
    BY DEF Body
<1> QED BY RowRevision, <1>1, ZenonT(40) DEF Edited, Row

LEMMA RecordType ==
    ASSUME TablesTypeOK,
           NEW actor \in Actors, NEW key \in Keys, NEW body \in Body, NEW category \in Categories,
           NEW id \in Ids, NEW victim \in Ids \cup {Null}, NEW lost \in Row \cup {Null},
           victim # Null => expense[victim] \in Row /\ lost \in Row,
           RecordExpense(actor, key, body, category, id, victim, lost)
    PROVE  TablesTypeOK'
<1> DEFINE row == NewRow(body, category)
<1>1. row \in Row BY NewRowType
<1> HIDE DEF row
<1>2. \A i \in Ids : RetiredRow(victim, i) \in Row \cup {Null}
    BY RemovedType, NullAssumption DEF RetiredRow, TablesTypeOK
<1>3. expense' \in [Ids -> Row \cup {Null}]
    BY <1>1, <1>2 DEF RecordExpense, row
<1>4. RetireEvent(victim, lost) \subseteq Event
    BY DEF RetireEvent, Event
<1>5. [id |-> id, before |-> Null, after |-> row] \in Event
    BY <1>1 DEF Event
<1>6. events' \subseteq Event
    BY <1>4, <1>5 DEF RecordExpense, TablesTypeOK, row
<1>7. replay' \in [Actors \X Keys -> Replay \cup {Null}]
    BY DEF RecordExpense, TablesTypeOK, Replay
<1> QED BY <1>3, <1>6, <1>7 DEF RecordExpense, TablesTypeOK

LEMMA ReviseType ==
    ASSUME TablesTypeOK,
           NEW id \in Ids, NEW body \in Body, NEW category \in Categories, NEW image \in Row,
           expense[id] \in Row, ReviseExpense(id, body, category, image)
    PROVE  TablesTypeOK'
<1>1. Edited(expense[id], body, category) \in Row /\ Edited(image, body, category) \in Row
    BY EditedType
<1>2. expense' \in [Ids -> Row \cup {Null}]
    BY <1>1 DEF ReviseExpense, TablesTypeOK
<1>3. events' \subseteq Event
    BY <1>1 DEF ReviseExpense, TablesTypeOK, Event
<1> QED BY <1>2, <1>3 DEF ReviseExpense, TablesTypeOK

LEMMA RemoveType ==
    ASSUME TablesTypeOK, NEW id \in Ids, NEW image \in Row, expense[id] \in Row, RemoveExpense(id, image)
    PROVE  TablesTypeOK'
<1>1. Removed(expense[id]) \in Row
    BY RemovedType
<1>2. expense' \in [Ids -> Row \cup {Null}]
    BY <1>1 DEF RemoveExpense, TablesTypeOK
<1>3. events' \subseteq Event
    BY DEF RemoveExpense, TablesTypeOK, Event
<1> QED BY <1>2, <1>3 DEF RemoveExpense, TablesTypeOK

(* The local records the handlers build.                                     *)
LEMMA IdleType == Idle \in Job /\ JobShape(Idle)
BY SMTT(30) DEF Idle, Job, JobShape

LEMMA MemberOfType ==
    ASSUME TablesTypeOK, NEW c \in Credentials
    PROVE  MemberOf(c) \in Member \cup {Null}
BY ActorAssumption DEF MemberOf, TablesTypeOK, Actors

LEMMA BeginType ==
    ASSUME TablesTypeOK, NEW c \in Credentials, NEW method \in {"POST", "PATCH", "DELETE"}
    PROVE  Begin(method, c) \in Job
<1>1. EffectivePlan \in Plans
    BY PlanAssumption DEF EffectivePlan, TablesTypeOK, User
<1>2. MemberOf(c) \in Member \cup {Null}
    BY MemberOfType
<1>3. user \in User
    BY DEF TablesTypeOK
<1> QED BY <1>1, <1>2, <1>3, IdleType, ZenonT(40) DEF Begin, Job

LEMMA BeginFields ==
    ASSUME NEW c, NEW method
    PROVE  LET b == Begin(method, c) IN
           /\ b.pc = "idle" /\ b.method = method /\ b.cred = c /\ b.user = user /\ b.plan = EffectivePlan
           /\ b.id = Null /\ b.row = Null /\ b.victim = Null /\ b.lost = Null
BY DEF Begin, Idle

LEMMA EffectivePlanType == TablesTypeOK => EffectivePlan \in Plans /\ user \in User
BY PlanAssumption DEF EffectivePlan, TablesTypeOK, User

LEMMA JobUpdate ==
    ASSUME Shaped, NEW w \in Workers, NEW j \in Job, JobShape(j), job' = [job EXCEPT ![w] = j]
    PROVE  job' \in [Workers -> Job] /\ \A v \in Workers : JobShape(job'[v])
BY DEF Shaped, TypeOK

LEMMA ReceiveType ==
    ASSUME Shaped, NEW w \in Workers, Receive(w)
    PROVE  Shaped'
<1> USE DEF Shaped, TypeOK
<1>1. ASSUME NEW c \in Credentials, NEW key \in Keys, NEW body \in Bodies, ReceivePost(w, c, key, body)
      PROVE  Shaped'
  <2> DEFINE b == Begin("POST", c)
             j == [b EXCEPT !.pc = "read", !.key = key, !.body = body]
  <2>1. b \in Job
    BY BeginType
  <2>2. j \in Job
    BY <2>1, BodyAssumption, ZenonT(40) DEF Job
  <2>3. JobShape(j)
    <3> HIDE DEF b
    <3>1. b.method = "POST" /\ b.cred = c /\ b.user \in User /\ b.plan \in Plans /\ b.victim = Null
      BY BeginFields, EffectivePlanType DEF b
    <3> QED BY <2>1, <3>1, BodyAssumption DEF JobShape, Job
  <2> QED BY <1>1, <2>2, <2>3, JobUpdate DEF ReceivePost, tables, TablesTypeOK
<1>2. ASSUME NEW c \in Credentials, NEW key \in Keys, NEW body \in Bodies, ReplayPost(w, c, key, body)
      PROVE  Shaped'
  <2>1. replay[<<Holder[c], key>>] \in Replay
    BY <1>2, ActorAssumption DEF ReplayPost, ReplayOf, TablesTypeOK
  <2>2. [actor |-> Holder[c], key |-> key, body |-> body, id |-> replay[<<Holder[c], key>>].id] \in Answer
    BY <2>1, ActorAssumption, BodyAssumption DEF Answer, Replay
  <2> QED BY <1>2, <2>2 DEF ReplayPost, ReplayOf, tables, TablesTypeOK
<1>3. ASSUME NEW c \in Credentials, NEW id \in Ids, NEW body \in Bodies, ReceivePatch(w, c, id, body)
      PROVE  Shaped'
  <2> DEFINE b == Begin("PATCH", c)
             j == [b EXCEPT !.pc = "read", !.id = id, !.row = expense[id], !.body = body]
  <2>1. b \in Job
    BY BeginType
  <2>2. expense[id] \in Row
    BY <1>3 DEF ReceivePatch, ReadRow, TablesTypeOK
  <2>3. j \in Job
    BY <2>1, <2>2, BodyAssumption, ZenonT(40) DEF Job
  <2>4. JobShape(j)
    <3> HIDE DEF b
    <3>1. b.method = "PATCH" /\ b.cred = c /\ b.user \in User /\ b.plan \in Plans /\ b.victim = Null
      BY BeginFields, EffectivePlanType DEF b
    <3> QED BY <2>1, <2>2, <3>1, BodyAssumption DEF JobShape, Job
  <2> QED BY <1>3, <2>3, <2>4, JobUpdate DEF ReceivePatch, tables, TablesTypeOK
<1>4. ASSUME NEW c \in Credentials, NEW id \in Ids, ReceiveDelete(w, c, id)
      PROVE  Shaped'
  <2> DEFINE b == Begin("DELETE", c)
             j == [b EXCEPT !.pc = "ready", !.id = id, !.row = expense[id]]
  <2>1. b \in Job
    BY BeginType
  <2>2. expense[id] \in Row
    BY <1>4 DEF ReceiveDelete, ReadRow, TablesTypeOK
  <2>3. j \in Job
    BY <2>1, <2>2, ZenonT(40) DEF Job
  <2>4. JobShape(j)
    <3> HIDE DEF b
    <3>1. b.method = "DELETE" /\ b.cred = c /\ b.user \in User /\ b.plan \in Plans /\ b.victim = Null
      BY BeginFields, EffectivePlanType DEF b
    <3> QED BY <2>1, <2>2, <3>1 DEF JobShape, Job
  <2> QED BY <1>4, <2>3, <2>4, JobUpdate DEF ReceiveDelete, tables, TablesTypeOK
<1> QED BY <1>1, <1>2, <1>3, <1>4 DEF Receive

LEMMA StepType ==
    ASSUME Shaped, NEW w \in Workers, Step(w)
    PROVE  Shaped'
<1> DEFINE j == job[w]
<1> USE DEF Shaped, TypeOK
<1>1. j \in Job /\ JobShape(j)
    OBVIOUS
<1> HIDE DEF j
<1>2. Idle \in Job /\ JobShape(Idle)
    BY IdleType
<1>3. CASE Validate(w)
  <2>1. PICK category \in CategoryChoice(j) :
            job' = [job EXCEPT ![w] = [j EXCEPT
                       !.pc = IF j.method = "POST" THEN "valid" ELSE "ready",
                       !.category = category,
                       !.evidence = IF NewTarget(j) /\ j.body.target # Shared
                                    THEN project[j.body.target].rev ELSE 0]]
    BY <1>3 DEF Validate, j
  <2>2. j.pc = "read" /\ j.body \in Body
    BY <1>1, <1>3 DEF Validate, j, JobShape
  <2>3. category \in Categories
    BY <2>1, <2>2 DEF CategoryChoice, Body
  <2>4. (IF NewTarget(j) /\ j.body.target # Shared THEN project[j.body.target].rev ELSE 0) \in Nat
    BY <2>2 DEF Body, Targets, TablesTypeOK, Project
  <2> DEFINE pc == IF j.method = "POST" THEN "valid" ELSE "ready"
             evidence == IF NewTarget(j) /\ j.body.target # Shared THEN project[j.body.target].rev ELSE 0
             n == [j EXCEPT !.pc = pc, !.category = category, !.evidence = evidence]
  <2>5. n \in Job
    <3>1. pc \in {"valid", "ready"} /\ evidence \in Nat
      BY <2>4
    <3> HIDE DEF pc, evidence
    <3> QED BY <1>1, <2>3, <3>1, ZenonT(40) DEF Job
  <2>6. JobShape(n)
    BY <1>1, <2>2, <2>3 DEF JobShape, Job
  <2> QED BY <1>3, <2>1, <2>5, <2>6, JobUpdate DEF Validate, tables, TablesTypeOK
<1>4. CASE CountRecords(w)
  <2> DEFINE pc == IF Cardinality(ActiveIds) < Cap[j.plan] THEN "ready" ELSE "full"
             n == [j EXCEPT !.pc = pc]
  <2>1. j.pc = "valid" /\ job' = [job EXCEPT ![w] = n]
    BY <1>4 DEF CountRecords, j
  <2>2. n \in Job
    <3>1. pc \in {"ready", "full"}
      OBVIOUS
    <3> HIDE DEF pc
    <3> QED BY <1>1, <3>1, ZenonT(40) DEF Job
  <2>3. JobShape(n)
    BY <1>1, <2>1 DEF JobShape, Job
  <2> QED BY <1>4, <2>1, <2>2, <2>3, JobUpdate DEF CountRecords, tables, TablesTypeOK
<1>5. CASE ChooseVictim(w)
  <2>1. PICK i \in Ids : IsOldest(i) /\ job' = [job EXCEPT ![w].pc = "ready", ![w].victim = i, ![w].lost = expense[i]]
    BY <1>5 DEF ChooseVictim
  <2> DEFINE n == [j EXCEPT !.pc = "ready", !.victim = i, !.lost = expense[i]]
  <2>2. j.pc = "full" /\ job' = [job EXCEPT ![w] = n]
    BY <1>5, <2>1 DEF ChooseVictim, j
  <2>3. expense[i] \in Row
    BY <2>1 DEF IsOldest, ActiveIds, TablesTypeOK
  <2>4. n \in Job
    BY <1>1, <2>3, ZenonT(40) DEF Job
  <2>5. JobShape(n)
    BY <1>1, <2>2, <2>3 DEF JobShape, Job
  <2> QED BY <1>5, <2>2, <2>4, <2>5, JobUpdate DEF ChooseVictim, tables, TablesTypeOK
<1>6. CASE CommitPost(w)
  <2>1. j.pc = "ready" /\ j.method = "POST" /\ PostGuard(j)
    BY <1>6 DEF CommitPost, j
  <2>2. PICK id \in Ids \ used :
            /\ RecordExpense(Holder[j.cred], j.key, j.body, j.category, id, j.victim, j.lost)
            /\ answers' = answers \cup {[actor |-> Holder[j.cred], key |-> j.key, body |-> j.body, id |-> id]}
    BY <1>6 DEF CommitPost, j
  <2>3. Holder[j.cred] \in Actors /\ j.key \in Keys /\ j.body \in Body /\ j.category \in Categories
    BY <1>1, <2>1, ActorAssumption DEF JobShape
  <2>4. j.victim \in Ids \cup {Null} /\ j.lost \in Row \cup {Null}
    BY <1>1 DEF Job
  <2>5. j.victim # Null => expense[j.victim] \in Row /\ j.lost \in Row
    BY <1>1, <2>1 DEF PostGuard, RetirementGuard, IsOldest, ActiveIds, TablesTypeOK, JobShape
  <2>6. TablesTypeOK'
    BY <2>2, <2>3, <2>4, <2>5, RecordType
  <2>7. answers' \subseteq Answer
    BY <2>2, <2>3 DEF Answer
  <2> QED BY <1>2, <1>6, <2>6, <2>7, JobUpdate DEF CommitPost
<1>7. CASE AbortPost(w)
  <2> DEFINE n == [j EXCEPT !.pc = "recheck"]
  <2>1. j.pc = "ready" /\ j.method = "POST" /\ job' = [job EXCEPT ![w] = n]
    BY <1>7 DEF AbortPost, j
  <2>2. n \in Job
    BY <1>1, ZenonT(40) DEF Job
  <2>3. JobShape(n)
    BY <1>1, <2>1 DEF JobShape, Job
  <2> QED BY <1>7, <2>1, <2>2, <2>3, JobUpdate DEF AbortPost, tables, TablesTypeOK
<1>8. CASE ReplayAfterAbort(w)
  <2>1. Holder[j.cred] \in Actors /\ j.key \in Keys /\ j.body \in Body
    BY <1>1, <1>8, ActorAssumption DEF ReplayAfterAbort, JobShape, j
  <2>2. replay[<<Holder[j.cred], j.key>>] \in Replay
    BY <1>8, <2>1 DEF ReplayAfterAbort, ReplayOf, TablesTypeOK, j
  <2>3. [actor |-> Holder[j.cred], key |-> j.key, body |-> j.body,
         id |-> replay[<<Holder[j.cred], j.key>>].id] \in Answer
    BY <2>1, <2>2 DEF Answer, Replay
  <2>4. answers' \subseteq Answer
    BY <1>8, <2>3 DEF ReplayAfterAbort, ReplayOf, j
  <2> QED BY <1>2, <1>8, <2>4, JobUpdate DEF ReplayAfterAbort, tables, TablesTypeOK
<1>9. CASE CommitPatch(w)
  <2>1. j.pc = "ready" /\ j.method = "PATCH" /\ RowGuard(j)
        /\ ReviseExpense(j.id, j.body, j.category, j.row)
    BY <1>9 DEF CommitPatch, j
  <2>2. j.id \in Ids /\ j.row \in Row /\ j.body \in Body /\ j.category \in Categories
    BY <1>1, <2>1 DEF JobShape
  <2>3. expense[j.id] \in Row
    BY <2>1, <2>2 DEF RowGuard, TablesTypeOK
  <2>4. TablesTypeOK'
    BY <2>1, <2>2, <2>3, ReviseType
  <2> QED BY <1>2, <1>9, <2>4, JobUpdate DEF CommitPatch
<1>10. CASE CommitDelete(w)
  <2>1. j.pc = "ready" /\ j.method = "DELETE" /\ RowGuard(j) /\ RemoveExpense(j.id, j.row)
    BY <1>10 DEF CommitDelete, j
  <2>2. j.id \in Ids /\ j.row \in Row
    BY <1>1, <2>1 DEF JobShape
  <2>3. expense[j.id] \in Row
    BY <2>1, <2>2 DEF RowGuard, TablesTypeOK
  <2>4. TablesTypeOK'
    BY <2>1, <2>2, <2>3, RemoveType
  <2> QED BY <1>2, <1>10, <2>4, JobUpdate DEF CommitDelete
<1>11. CASE Abandon(w)
    BY <1>2, <1>11, JobUpdate DEF Abandon, tables, TablesTypeOK
<1> QED BY <1>3, <1>4, <1>5, <1>6, <1>7, <1>8, <1>9, <1>10, <1>11, ReceiveType DEF Step

(* The slots hold well-typed records and the tables well-typed rows, always. *)
THEOREM ShapedInvariant == Spec => []Shaped
<1>1. Init => Shaped
  <2> SUFFICES ASSUME Init PROVE Shaped
    OBVIOUS
  <2>1. TablesTypeOK
    <3>1. user \in User
      <4>1. [plan: Plans, period: {1}, auto: {FALSE}, autoRev: {1}] \subseteq User
        <5>1. {1} \subseteq Nat
          OBVIOUS
        <5> QED BY <5>1, ZenonT(40) DEF User
      <4> QED BY <4>1 DEF Init, TablesInit
    <3>2. lapsed \in BOOLEAN /\ live \in [Credentials -> BOOLEAN]
      BY Zenon DEF Init, TablesInit
    <3>3. member \in [Members -> Member] /\ project \in [Projects -> Project]
      BY DEF Init, TablesInit, Member, Project, Roles
    <3> QED BY <3>1, <3>2, <3>3 DEF Init, TablesInit, TablesTypeOK
  <2> QED BY <2>1, IdleType DEF Init, Shaped, TypeOK
<1>2. Shaped /\ [Next]_vars => Shaped'
  <2> SUFFICES ASSUME Shaped, [Next]_vars PROVE Shaped'
    OBVIOUS
  <2>1. CASE Administration /\ UNCHANGED <<job, answers>>
    BY <2>1, AdministrationType DEF Shaped, TypeOK
  <2>2. ASSUME NEW w \in Workers, Step(w) PROVE Shaped'
    BY <2>2, StepType
  <2>3. CASE UNCHANGED vars
    BY <2>3 DEF vars, tables, Shaped, TypeOK, TablesTypeOK
  <2> QED BY <2>1, <2>2, <2>3 DEF Next
<1> QED BY <1>1, <1>2, PTL DEF Spec

(* Type correctness: rows, events, replays and the requests' memory of them   *)
(* keep their types, so no category is left to inference in a stored row.    *)
THEOREM TypeCorrect == Spec => []TypeOK
<1>1. Shaped => TypeOK
    BY DEF Shaped
<1> QED BY <1>1, ShapedInvariant, PTL

-----------------------------------------------------------------------------
(* Snapshots. Rows only move forward, so a remembered revision is either     *)
(* behind the stored one or stands for the very same row.                    *)

Advances(i) ==
    \/ expense'[i] = expense[i]
    \/ expense'[i] = Null
    \/ i \notin used /\ i \in used'
    \/ expense[i] # Null /\ expense'[i] # Null /\ expense'[i].rev > expense[i].rev

RowsAdvance == used \subseteq used' /\ \A i \in Ids : Advances(i)

Seen(row, i) ==
    i # Null =>
        /\ i \in used
        /\ row # Null /\ expense[i] # Null => row.rev <= expense[i].rev
        /\ Coherent(row, i)

SeenAfter(row, i) ==
    i # Null =>
        /\ i \in used'
        /\ row # Null /\ expense'[i] # Null => row.rev <= expense'[i].rev
        /\ row # Null /\ expense'[i] # Null /\ expense'[i].rev = row.rev => expense'[i] = row

Stored == \A i \in Ids : expense[i] # Null => i \in used

Dated ==
    /\ Stored
    /\ \A w \in Workers : Seen(job[w].row, job[w].id) /\ Seen(job[w].lost, job[w].victim)

LEMMA AdministrationAdvances ==
    ASSUME TablesTypeOK, Stored, Administration
    PROVE  RowsAdvance /\ Stored'
BY DEF Administration, SetRetention, ChangePlan, PlanLapses, RevokeCredential, ChangeMember, PatchProject,
       ArchiveCategory, EraseProject, RowsAdvance, Advances, Stored, TablesTypeOK

LEMMA RemovedRevision == \A row \in Row : Removed(row).rev = row.rev + 1 /\ Removed(row) # Null
BY RemovedType, NullAssumption DEF Removed, Row

LEMMA EditedRevision ==
    \A row \in Row, body \in Body, category \in Categories :
        Edited(row, body, category).rev = row.rev + 1 /\ Edited(row, body, category) # Null
BY EditedType, NullAssumption DEF Edited, Row

LEMMA RecordAdvances ==
    ASSUME TablesTypeOK, Stored, NEW actor, NEW key, NEW body, NEW category, NEW lost,
           NEW id \in Ids \ used, NEW victim \in Ids \cup {Null},
           victim # Null => expense[victim] \in Row,
           RecordExpense(actor, key, body, category, id, victim, lost)
    PROVE  RowsAdvance /\ Stored'
<1>1. used' = used \cup {id} /\ expense' = [i \in Ids |-> IF i = id THEN NewRow(body, category) ELSE RetiredRow(victim, i)]
    BY DEF RecordExpense
<1>2. ASSUME NEW i \in Ids PROVE Advances(i) /\ (expense'[i] # Null => i \in used')
  <2>1. CASE i = id
    BY <1>1, <2>1 DEF Advances
  <2>2. CASE i # id /\ i = victim
    <3>1. expense'[i] = Removed(expense[i]) /\ expense[i] \in Row
      BY <1>1, <2>2, NullAssumption DEF RetiredRow
    <3> QED BY <1>1, <3>1, RemovedRevision, RowRevision, NullAssumption DEF Advances, Stored
  <2>3. CASE i # id /\ i # victim
    BY <1>1, <2>3 DEF Advances, RetiredRow, Stored
  <2> QED BY <2>1, <2>2, <2>3
<1> QED BY <1>1, <1>2 DEF RowsAdvance, Stored

LEMMA ReviseAdvances ==
    ASSUME TablesTypeOK, Stored, NEW id \in Ids, NEW body \in Body, NEW category \in Categories, NEW image,
           expense[id] \in Row, ReviseExpense(id, body, category, image)
    PROVE  RowsAdvance /\ Stored'
<1>1. expense' = [expense EXCEPT ![id] = Edited(expense[id], body, category)] /\ used' = used
    BY DEF ReviseExpense
<1>2. Edited(expense[id], body, category).rev > expense[id].rev /\ Edited(expense[id], body, category) # Null
    BY EditedRevision, RowRevision
<1> QED BY <1>1, <1>2, NullAssumption DEF RowsAdvance, Advances, Stored, TablesTypeOK

LEMMA RemoveAdvances ==
    ASSUME TablesTypeOK, Stored, NEW id \in Ids, NEW image, expense[id] \in Row, RemoveExpense(id, image)
    PROVE  RowsAdvance /\ Stored'
<1>1. expense' = [expense EXCEPT ![id] = Removed(expense[id])] /\ used' = used
    BY DEF RemoveExpense
<1>2. Removed(expense[id]).rev > expense[id].rev /\ Removed(expense[id]) # Null
    BY RemovedRevision, RowRevision
<1> QED BY <1>1, <1>2, NullAssumption DEF RowsAdvance, Advances, Stored, TablesTypeOK

(* A memory stays true while rows advance, and a fresh read is true at once.  *)
LEMMA SeenKept ==
    ASSUME Shaped, Shaped', RowsAdvance,
           NEW i \in Ids \cup {Null}, NEW row \in Row \cup {Null}, Seen(row, i)
    PROVE  SeenAfter(row, i)
<1> SUFFICES ASSUME i # Null PROVE SeenAfter(row, i)
    BY DEF SeenAfter
<1>1. i \in Ids /\ Advances(i) /\ i \in used'
    BY DEF RowsAdvance, Seen
<1>2. expense[i] \in Row \cup {Null} /\ expense'[i] \in Row \cup {Null}
    BY <1>1 DEF Shaped, TypeOK, TablesTypeOK
<1> QED BY <1>1, <1>2, RowRevision DEF Advances, Seen, SeenAfter, Coherent

LEMMA SeenFresh ==
    ASSUME Shaped, Stored, UNCHANGED tables, NEW i \in Ids, expense[i] # Null
    PROVE  SeenAfter(expense[i], i)
<1>1. expense[i] \in Row
    BY DEF Shaped, TypeOK, TablesTypeOK
<1> QED BY <1>1, RowRevision DEF tables, SeenAfter, Stored

LEMMA TablesStay == Stored /\ UNCHANGED tables => RowsAdvance /\ Stored'
BY DEF tables, RowsAdvance, Advances, Stored

LEMMA DatedUpdate ==
    ASSUME Shaped, Dated, Shaped', RowsAdvance, Stored', NEW w \in Workers, NEW n,
           job' = [job EXCEPT ![w] = n],
           SeenAfter(n.row, n.id), SeenAfter(n.lost, n.victim)
    PROVE  Dated'
<1>1. ASSUME NEW v \in Workers, v # w
      PROVE  SeenAfter(job'[v].row, job'[v].id) /\ SeenAfter(job'[v].lost, job'[v].victim)
  <2>1. job'[v] = job[v] /\ job[v] \in Job
    BY <1>1 DEF Shaped, TypeOK
  <2>2. SeenAfter(job[v].row, job[v].id)
    BY <2>1, SeenKept DEF Dated, Job
  <2>3. SeenAfter(job[v].lost, job[v].victim)
    BY <2>1, SeenKept DEF Dated, Job
  <2> QED BY <2>1, <2>2, <2>3
<1>2. job'[w] = n
    BY DEF Shaped, TypeOK
<1> QED BY <1>1, <1>2 DEF Dated, Seen, SeenAfter, Coherent

LEMMA SeenNothing == \A row : SeenAfter(row, Null)
BY DEF SeenAfter

LEMMA DatedStep ==
    ASSUME Shaped, Shaped', Dated, NEW w \in Workers, Step(w)
    PROVE  Dated' /\ RowsAdvance
<1> DEFINE j == job[w]
<1>1. j \in Job /\ JobShape(j) /\ TablesTypeOK /\ job \in [Workers -> Job]
    BY DEF Shaped, TypeOK
<1>2. Seen(j.row, j.id) /\ Seen(j.lost, j.victim) /\ Stored
    BY DEF Dated
<1> HIDE DEF j
<1>3. j.id \in Ids \cup {Null} /\ j.row \in Row \cup {Null}
      /\ j.victim \in Ids \cup {Null} /\ j.lost \in Row \cup {Null}
    BY <1>1 DEF Job
<1>4. RowsAdvance => SeenAfter(j.row, j.id) /\ SeenAfter(j.lost, j.victim)
    BY <1>2, <1>3, SeenKept
<1>5. Idle.id = Null /\ Idle.victim = Null
    BY DEF Idle
<1>6. ASSUME UNCHANGED tables PROVE RowsAdvance /\ Stored'
    BY <1>2, <1>6, TablesStay
<1>7. ASSUME RowsAdvance, Stored', job' = [job EXCEPT ![w] = Idle] PROVE Dated' /\ RowsAdvance
    BY <1>5, <1>7, SeenNothing, DatedUpdate
<1>8. ASSUME UNCHANGED tables, UNCHANGED job PROVE Dated' /\ RowsAdvance
    BY <1>6, <1>8 DEF tables, Dated, Seen, Coherent
<1>9. CASE Receive(w)
  <2>1. ASSUME NEW c \in Credentials, NEW key \in Keys, NEW body \in Bodies, ReceivePost(w, c, key, body)
        PROVE  Dated' /\ RowsAdvance
    <3> DEFINE b == Begin("POST", c)
               n == [b EXCEPT !.pc = "read", !.key = key, !.body = body]
    <3>1. b.id = Null /\ b.victim = Null /\ b \in Job
      BY BeginFields, BeginType, <1>1
    <3> HIDE DEF b
    <3>2. n.id = Null /\ n.victim = Null
      BY <3>1 DEF Job
    <3>3. job' = [job EXCEPT ![w] = n] /\ UNCHANGED tables
      BY <2>1 DEF ReceivePost, b
    <3> HIDE DEF n
    <3> QED BY <1>6, <3>2, <3>3, SeenNothing, DatedUpdate
  <2>2. ASSUME NEW c \in Credentials, NEW key \in Keys, NEW body \in Bodies, ReplayPost(w, c, key, body)
        PROVE  Dated' /\ RowsAdvance
    BY <2>2, <1>8 DEF ReplayPost
  <2>3. ASSUME NEW c \in Credentials, NEW id \in Ids, NEW body \in Bodies, ReceivePatch(w, c, id, body)
        PROVE  Dated' /\ RowsAdvance
    <3> DEFINE b == Begin("PATCH", c)
               n == [b EXCEPT !.pc = "read", !.id = id, !.row = expense[id], !.body = body]
    <3>1. b.victim = Null /\ b \in Job
      BY BeginFields, BeginType, <1>1
    <3> HIDE DEF b
    <3>2. n.id = id /\ n.row = expense[id] /\ n.victim = Null
      BY <3>1 DEF Job
    <3>3. job' = [job EXCEPT ![w] = n] /\ UNCHANGED tables /\ expense[id] # Null
      BY <2>3 DEF ReceivePatch, ReadRow, b
    <3>4. SeenAfter(n.row, n.id)
      BY <1>2, <3>2, <3>3, SeenFresh
    <3> HIDE DEF n
    <3> QED BY <1>6, <3>2, <3>3, <3>4, SeenNothing, DatedUpdate
  <2>4. ASSUME NEW c \in Credentials, NEW id \in Ids, ReceiveDelete(w, c, id)
        PROVE  Dated' /\ RowsAdvance
    <3> DEFINE b == Begin("DELETE", c)
               n == [b EXCEPT !.pc = "ready", !.id = id, !.row = expense[id]]
    <3>1. b.victim = Null /\ b \in Job
      BY BeginFields, BeginType, <1>1
    <3> HIDE DEF b
    <3>2. n.id = id /\ n.row = expense[id] /\ n.victim = Null
      BY <3>1 DEF Job
    <3>3. job' = [job EXCEPT ![w] = n] /\ UNCHANGED tables /\ expense[id] # Null
      BY <2>4 DEF ReceiveDelete, ReadRow, b
    <3>4. SeenAfter(n.row, n.id)
      BY <1>2, <3>2, <3>3, SeenFresh
    <3> HIDE DEF n
    <3> QED BY <1>6, <3>2, <3>3, <3>4, SeenNothing, DatedUpdate
  <2> QED BY <1>9, <2>1, <2>2, <2>3, <2>4 DEF Receive
<1>10. CASE Validate(w)
  <2>1. PICK category \in CategoryChoice(j) :
            job' = [job EXCEPT ![w] = [j EXCEPT
                       !.pc = IF j.method = "POST" THEN "valid" ELSE "ready",
                       !.category = category,
                       !.evidence = IF NewTarget(j) /\ j.body.target # Shared
                                    THEN project[j.body.target].rev ELSE 0]]
    BY <1>10 DEF Validate, j
  <2> DEFINE pc == IF j.method = "POST" THEN "valid" ELSE "ready"
             evidence == IF NewTarget(j) /\ j.body.target # Shared THEN project[j.body.target].rev ELSE 0
             n == [j EXCEPT !.pc = pc, !.category = category, !.evidence = evidence]
  <2>2. job' = [job EXCEPT ![w] = n] /\ UNCHANGED tables
    BY <1>10, <2>1 DEF Validate
  <2> HIDE DEF pc, evidence
  <2>3. n.id = j.id /\ n.row = j.row /\ n.victim = j.victim /\ n.lost = j.lost
    BY <1>1 DEF Job
  <2> HIDE DEF n
  <2> QED BY <1>4, <1>6, <2>2, <2>3, DatedUpdate
<1>11. CASE CountRecords(w)
  <2> DEFINE pc == IF Cardinality(ActiveIds) < Cap[j.plan] THEN "ready" ELSE "full"
             n == [j EXCEPT !.pc = pc]
  <2>1. job' = [job EXCEPT ![w] = n] /\ UNCHANGED tables
    BY <1>1, <1>11 DEF CountRecords, j
  <2> HIDE DEF pc
  <2>2. n.id = j.id /\ n.row = j.row /\ n.victim = j.victim /\ n.lost = j.lost
    BY <1>1 DEF Job
  <2> HIDE DEF n
  <2> QED BY <1>4, <1>6, <2>1, <2>2, DatedUpdate
<1>12. CASE ChooseVictim(w)
  <2>1. PICK i \in Ids : IsOldest(i) /\ job' = [job EXCEPT ![w].pc = "ready", ![w].victim = i, ![w].lost = expense[i]]
    BY <1>12 DEF ChooseVictim
  <2> DEFINE n == [j EXCEPT !.pc = "ready", !.victim = i, !.lost = expense[i]]
  <2>2. job' = [job EXCEPT ![w] = n] /\ UNCHANGED tables /\ expense[i] # Null
    BY <1>1, <1>12, <2>1 DEF ChooseVictim, IsOldest, ActiveIds, j
  <2>3. n.id = j.id /\ n.row = j.row /\ n.victim = i /\ n.lost = expense[i]
    BY <1>1 DEF Job
  <2>4. SeenAfter(n.lost, n.victim)
    BY <1>2, <2>2, <2>3, SeenFresh
  <2> HIDE DEF n
  <2> QED BY <1>4, <1>6, <2>2, <2>3, <2>4, DatedUpdate
<1>13. CASE CommitPost(w)
  <2>1. j.pc = "ready" /\ j.method = "POST" /\ PostGuard(j) /\ job' = [job EXCEPT ![w] = Idle]
    BY <1>13 DEF CommitPost, j
  <2>2. PICK id \in Ids \ used : RecordExpense(Holder[j.cred], j.key, j.body, j.category, id, j.victim, j.lost)
    BY <1>13 DEF CommitPost, j
  <2>3. j.victim # Null => expense[j.victim] \in Row
    BY <1>1, <1>3, <2>1 DEF PostGuard, RetirementGuard, IsOldest, ActiveIds, TablesTypeOK
  <2>4. RowsAdvance /\ Stored'
    BY <1>1, <1>2, <1>3, <2>2, <2>3, RecordAdvances
  <2> QED BY <1>7, <2>1, <2>4
<1>14. CASE AbortPost(w)
  <2> DEFINE n == [j EXCEPT !.pc = "recheck"]
  <2>1. job' = [job EXCEPT ![w] = n] /\ UNCHANGED tables
    BY <1>1, <1>14 DEF AbortPost, j
  <2>2. n.id = j.id /\ n.row = j.row /\ n.victim = j.victim /\ n.lost = j.lost
    BY <1>1 DEF Job
  <2> HIDE DEF n
  <2> QED BY <1>4, <1>6, <2>1, <2>2, DatedUpdate
<1>15. CASE ReplayAfterAbort(w)
    BY <1>6, <1>7, <1>15 DEF ReplayAfterAbort
<1>16. CASE CommitPatch(w)
  <2>1. j.pc = "ready" /\ j.method = "PATCH" /\ RowGuard(j)
        /\ ReviseExpense(j.id, j.body, j.category, j.row) /\ job' = [job EXCEPT ![w] = Idle]
    BY <1>16 DEF CommitPatch, j
  <2>2. j.id \in Ids /\ j.body \in Body /\ j.category \in Categories /\ expense[j.id] \in Row
    BY <1>1, <2>1 DEF JobShape, RowGuard, TablesTypeOK
  <2>3. RowsAdvance /\ Stored'
    BY <1>1, <1>2, <2>1, <2>2, ReviseAdvances
  <2> QED BY <1>7, <2>1, <2>3
<1>17. CASE CommitDelete(w)
  <2>1. j.pc = "ready" /\ j.method = "DELETE" /\ RowGuard(j)
        /\ RemoveExpense(j.id, j.row) /\ job' = [job EXCEPT ![w] = Idle]
    BY <1>17 DEF CommitDelete, j
  <2>2. j.id \in Ids /\ expense[j.id] \in Row
    BY <1>1, <2>1 DEF JobShape, RowGuard, TablesTypeOK
  <2>3. RowsAdvance /\ Stored'
    BY <1>1, <1>2, <2>1, <2>2, RemoveAdvances
  <2> QED BY <1>7, <2>1, <2>3
<1>18. CASE Abandon(w)
    BY <1>6, <1>7, <1>18 DEF Abandon
<1> QED BY <1>9, <1>10, <1>11, <1>12, <1>13, <1>14, <1>15, <1>16, <1>17, <1>18 DEF Step

(* The identifier of a stored expense was drawn before, and every image a    *)
(* request holds is of an older revision or still the row (RowGuard).        *)
THEOREM DatedInvariant == Spec => [](Shaped /\ Dated)
<1>1. Init => Dated
    BY DEF Init, TablesInit, Dated, Stored, Seen, Idle
<1>2. Shaped /\ Shaped' /\ Dated /\ [Next]_vars => Dated'
  <2> SUFFICES ASSUME Shaped, Shaped', Dated, [Next]_vars PROVE Dated'
    OBVIOUS
  <2>1. CASE Administration /\ UNCHANGED <<job, answers>>
    <3>1. RowsAdvance /\ Stored'
      BY <2>1, AdministrationAdvances DEF Shaped, TypeOK, Dated
    <3>2. ASSUME NEW v \in Workers
          PROVE  SeenAfter(job'[v].row, job'[v].id) /\ SeenAfter(job'[v].lost, job'[v].victim)
      <4>1. job'[v] = job[v] /\ job[v] \in Job
        BY <2>1 DEF Shaped, TypeOK
      <4>2. SeenAfter(job[v].row, job[v].id) /\ SeenAfter(job[v].lost, job[v].victim)
        BY <3>1, <4>1, SeenKept DEF Dated, Job
      <4> QED BY <4>1, <4>2
    <3> QED BY <3>1, <3>2 DEF Dated, Seen, SeenAfter, Coherent
  <2>2. ASSUME NEW w \in Workers, Step(w) PROVE Dated'
    BY <2>2, DatedStep
  <2>3. CASE UNCHANGED vars
    BY <2>3 DEF vars, tables, Dated, Stored, Seen, Coherent
  <2> QED BY <2>1, <2>2, <2>3 DEF Next
<1> QED BY <1>1, <1>2, ShapedInvariant, PTL DEF Spec

(* A revision a request remembers stands for the whole row it read, so the    *)
(* batch guards may compare revisions alone.                                 *)
THEOREM SnapshotsAreCoherent == Spec => []SnapshotsCoherent
<1>1. Dated => SnapshotsCoherent
    BY DEF Dated, Seen, Coherent, SnapshotsCoherent
<1> QED BY <1>1, DatedInvariant, PTL

-----------------------------------------------------------------------------
(* Answers. An answer that names a stored row is still the one its replay    *)
(* row gives, unless the project it asked for is gone, and then the same     *)
(* request can no longer create anything.                                    *)

Recorded(a) ==
    LET r == replay[<<a.actor, a.key>>] IN r # Null /\ r.body = a.body /\ r.id = a.id

Closed(a) == a.body.target # Shared /\ project[a.body.target].status = "gone"

Settled ==
    /\ \A a \in answers : a.id \in used
    /\ \A a \in answers : expense[a.id] # Null => Recorded(a) \/ Closed(a)
    /\ NoDoubleCharge

RecordedAfter(a) ==
    replay'[<<a.actor, a.key>>] # Null /\ replay'[<<a.actor, a.key>>].body = a.body
                                       /\ replay'[<<a.actor, a.key>>].id = a.id

ClosedAfter(a) == a.body.target # Shared /\ project'[a.body.target].status = "gone"

Grows(new) ==
    /\ answers' = answers \cup new
    /\ \A a, b \in new : a = b
    /\ \A a \in new : a.id \in used' /\ RecordedAfter(a) /\ ~ClosedAfter(a)

Carries ==
    \A a \in answers :
        expense'[a.id] # Null /\ (Recorded(a) \/ Closed(a)) => RecordedAfter(a) \/ ClosedAfter(a)

LEMMA SettledGrows ==
    ASSUME Shaped, Settled, RowsAdvance, NEW new, Grows(new), Carries
    PROVE  Settled'
<1>1. \A a \in answers : a.id \in Ids
    BY DEF Shaped, TypeOK, Answer
<1>2. \A a \in answers : expense'[a.id] # Null => expense[a.id] # Null
    BY <1>1 DEF Settled, RowsAdvance, Advances
<1>3. \A a \in answers' : a.id \in used'
    BY DEF Settled, RowsAdvance, Grows
<1>4. \A a \in answers' : expense'[a.id] # Null => RecordedAfter(a) \/ ClosedAfter(a)
    BY <1>2 DEF Settled, Carries, Grows
<1>5. ASSUME NEW a \in answers', NEW b \in answers',
             <<a.actor, a.key, a.body>> = <<b.actor, b.key, b.body>>,
             expense'[a.id] # Null, expense'[b.id] # Null
      PROVE  a.id = b.id
  <2>1. a.actor = b.actor /\ a.key = b.key /\ a.body = b.body
    BY <1>5
  <2>2. CASE a \in answers /\ b \in answers
    BY <1>2, <1>5, <2>2 DEF Settled, NoDoubleCharge
  <2>3. CASE ~ClosedAfter(a)
    BY <1>4, <1>5, <2>1, <2>3 DEF RecordedAfter, ClosedAfter
  <2>4. CASE ~ClosedAfter(b)
    BY <1>4, <1>5, <2>1, <2>4 DEF RecordedAfter, ClosedAfter
  <2> QED BY <2>2, <2>3, <2>4 DEF Grows
<1>6. NoDoubleCharge'
    BY <1>5 DEF NoDoubleCharge
<1>7. \A a \in answers' : expense'[a.id] # Null => Recorded(a)' \/ Closed(a)'
    BY <1>4 DEF RecordedAfter, ClosedAfter, Recorded, Closed
<1> QED BY <1>3, <1>6, <1>7 DEF Settled

LEMMA SettledStays ==
    ASSUME Shaped, Settled, RowsAdvance, answers' = answers,
           replay' = replay, project' = project
    PROVE  Settled'
<1>1. Grows({}) /\ Carries
    BY DEF Grows, Carries, Recorded, Closed, RecordedAfter, ClosedAfter
<1> QED BY <1>1, SettledGrows

LEMMA SettledReplay ==
    ASSUME Shaped, Settled, Stored, RowsAdvance, UNCHANGED tables,
           NEW actor \in Actors, NEW key \in Keys, NEW body \in Body, ReplayOf(actor, key, body)
    PROVE  Settled'
<1> DEFINE r == replay[<<actor, key>>]
           a == [actor |-> actor, key |-> key, body |-> body, id |-> r.id]
<1>1. r \in Replay /\ r.body = body /\ ReplayVisible(r) /\ answers' = answers \cup {a}
    BY DEF ReplayOf, Shaped, TypeOK, TablesTypeOK
<1>2. r # Null
    BY DEF ReplayOf
<1>3. r.id \in used'
    BY <1>1 DEF ReplayVisible, Stored, Replay, tables
<1>4. RecordedAfter(a) /\ ~ClosedAfter(a)
    BY <1>1, <1>2 DEF RecordedAfter, ClosedAfter, ReplayVisible, TargetExists, tables
<1>5. Grows({a})
    BY <1>1, <1>3, <1>4 DEF Grows
<1>6. Carries
    BY DEF Carries, Recorded, Closed, RecordedAfter, ClosedAfter, tables
<1> QED BY <1>5, <1>6, SettledGrows

LEMMA SettledErase ==
    ASSUME Shaped, Settled, RowsAdvance, answers' = answers, NEW p \in Projects, EraseProject(p)
    PROVE  Settled'
<1>1. Grows({})
    BY DEF Grows
<1>2. ASSUME NEW a \in answers, expense'[a.id] # Null, Recorded(a) \/ Closed(a)
      PROVE  RecordedAfter(a) \/ ClosedAfter(a)
  <2>1. a.id \in Ids /\ <<a.actor, a.key>> \in Actors \X Keys
    BY DEF Shaped, TypeOK, Answer
  <2>2. a.id \notin RowsOf(p)
    BY <1>2, <2>1 DEF EraseProject
  <2>3. CASE Closed(a)
    BY <2>3 DEF EraseProject, Closed, ClosedAfter, Shaped, TypeOK, TablesTypeOK, Project
  <2>4. CASE Recorded(a) /\ a.body.target = p
    BY <2>4, TargetAssumption DEF EraseProject, ClosedAfter, Shaped, TypeOK, TablesTypeOK
  <2>5. CASE Recorded(a) /\ a.body.target # p
    BY <2>1, <2>2, <2>5 DEF EraseProject, ErasedReplay, Recorded, RecordedAfter
  <2> QED BY <1>2, <2>3, <2>4, <2>5
<1> QED BY <1>1, <1>2, SettledGrows DEF Carries

LEMMA SettledPatch ==
    ASSUME Shaped, Settled, RowsAdvance, answers' = answers,
           NEW p \in Projects, NEW status \in {"active", "archived"}, PatchProject(p, status)
    PROVE  Settled'
<1>1. Grows({})
    BY DEF Grows
<1>2. Carries
    BY DEF Carries, Recorded, RecordedAfter, Closed, ClosedAfter, PatchProject, Shaped, TypeOK, TablesTypeOK
<1> QED BY <1>1, <1>2, SettledGrows

LEMMA SettledAdministration ==
    ASSUME Shaped, Settled, RowsAdvance, Administration, answers' = answers
    PROVE  Settled'
BY SettledStays, SettledErase, SettledPatch
   DEF Administration, SetRetention, ChangePlan, PlanLapses, RevokeCredential, ChangeMember, ArchiveCategory

LEMMA SettledRecord ==
    ASSUME Shaped, Settled, RowsAdvance, NEW w \in Workers, CommitPost(w)
    PROVE  Settled'
<1> DEFINE j == job[w]
           k == <<Holder[j.cred], j.key>>
<1>1. j \in Job /\ JobShape(j) /\ j.pc = "ready" /\ j.method = "POST" /\ PostGuard(j)
    BY DEF Shaped, TypeOK, CommitPost
<1>2. k \in Actors \X Keys /\ j.body \in Body
    BY <1>1, ActorAssumption DEF JobShape
<1>3. PICK id \in Ids \ used :
          /\ RecordExpense(Holder[j.cred], j.key, j.body, j.category, id, j.victim, j.lost)
          /\ answers' = answers \cup {[actor |-> Holder[j.cred], key |-> j.key, body |-> j.body, id |-> id]}
    BY DEF CommitPost
<1> DEFINE a == [actor |-> Holder[j.cred], key |-> j.key, body |-> j.body, id |-> id]
<1>4. replay[k] = Null /\ TargetActive(j.body.target)
    BY <1>1 DEF PostGuard, TargetGuard
<1>5. replay' = [replay EXCEPT ![k] = [body |-> j.body, id |-> id]] /\ project' = project /\ id \in used'
    BY <1>3 DEF RecordExpense
<1> HIDE DEF j
<1>6. replay'[k] = [body |-> j.body, id |-> id] /\ replay'[k] # Null
    BY <1>2, <1>5, NullAssumption DEF Shaped, TypeOK, TablesTypeOK
<1>7. RecordedAfter(a) /\ ~ClosedAfter(a)
    BY <1>4, <1>5, <1>6 DEF RecordedAfter, ClosedAfter, TargetActive
<1>8. Grows({a})
    BY <1>3, <1>5, <1>7 DEF Grows
<1>9. Carries
    BY <1>2, <1>4, <1>5 DEF Carries, Recorded, RecordedAfter, Closed, ClosedAfter, Shaped, TypeOK, TablesTypeOK
<1> QED BY <1>8, <1>9, SettledGrows

LEMMA SettledStep ==
    ASSUME Shaped, Shaped', Dated, Settled, NEW w \in Workers, Step(w)
    PROVE  Settled'
<1>1. RowsAdvance /\ Stored
    BY DatedStep DEF Dated
<1>2. ASSUME Receive(w) PROVE Settled'
  <2>1. ASSUME NEW c \in Credentials, NEW key \in Keys, NEW body \in Bodies, ReplayPost(w, c, key, body)
        PROVE  Settled'
    BY <1>1, <2>1, SettledReplay, ActorAssumption, BodyAssumption DEF ReplayPost
  <2>2. CASE UNCHANGED <<tables, answers>>
    BY <1>1, <2>2, SettledStays DEF tables
  <2> QED BY <1>2, <2>1, <2>2 DEF Receive, ReceivePost, ReceivePatch, ReceiveDelete
<1>3. CASE UNCHANGED <<tables, answers>>
    BY <1>1, <1>3, SettledStays DEF tables
<1>4. CASE CommitPost(w)
    BY <1>1, <1>4, SettledRecord
<1>5. CASE ReplayAfterAbort(w)
  <2>1. job[w].cred \in Credentials /\ job[w].key \in Keys /\ job[w].body \in Body
    BY <1>5 DEF ReplayAfterAbort, Shaped, JobShape
  <2> QED BY <1>1, <1>5, <2>1, SettledReplay, ActorAssumption DEF ReplayAfterAbort
<1>6. CASE CommitPatch(w) \/ CommitDelete(w)
    BY <1>1, <1>6, SettledStays DEF CommitPatch, CommitDelete, ReviseExpense, RemoveExpense
<1> QED BY <1>2, <1>3, <1>4, <1>5, <1>6
        DEF Step, Validate, CountRecords, ChooseVictim, AbortPost, Abandon

(* Every answer has its identifier drawn, and is recorded under its key while *)
(* its expense is stored and its project is not erased (PostGuard).          *)
THEOREM SettledInvariant == Spec => []Settled
<1>1. Init => Settled
    BY DEF Init, Settled, NoDoubleCharge
<1>2. Shaped /\ Shaped' /\ Dated /\ Settled /\ [Next]_vars => Settled'
  <2> SUFFICES ASSUME Shaped, Shaped', Dated, Settled, [Next]_vars PROVE Settled'
    OBVIOUS
  <2>1. CASE Administration /\ UNCHANGED <<job, answers>>
    BY <2>1, AdministrationAdvances, SettledAdministration DEF Dated, Shaped, TypeOK
  <2>2. ASSUME NEW w \in Workers, Step(w) PROVE Settled'
    BY <2>2, SettledStep
  <2>3. CASE UNCHANGED vars
    BY <2>3 DEF vars, tables, Settled, NoDoubleCharge, Recorded, Closed
  <2> QED BY <2>1, <2>2, <2>3 DEF Next
<1> QED BY <1>1, <1>2, DatedInvariant, PTL DEF Spec

(* However a creation is retried, duplicated or answered late, one key and    *)
(* one body never leave two stored expenses.                                 *)
THEOREM NeverChargesTwice == Spec => []NoDoubleCharge
<1>1. Settled => NoDoubleCharge
    BY DEF Settled
<1> QED BY <1>1, SettledInvariant, PTL

-----------------------------------------------------------------------------
(* Erasure. A batch adds only rows, events and replays of projects that are  *)
(* still there: new targets by the target guard, old ones because the image  *)
(* the handler read is the row in the table.                                 *)

Gone(p) == project[p].status = "gone"

Clear(row) == \A p \in Projects : Gone(p) => ~Holds(p, row)

AddsOnlyClear ==
    /\ project' = project
    /\ \A i \in Ids : expense[i] # Null => expense'[i] # Null
    /\ \A i \in Ids : Clear(expense'[i])
    /\ \A e \in events' :
          e \in events \/ (expense'[e.id] # Null /\ Clear(e.before) /\ Clear(e.after))
    /\ \A k \in Actors \X Keys :
          replay'[k] = replay[k] \/ (/\ expense'[replay'[k].id] # Null
                                     /\ \A p \in Projects : Gone(p) => replay'[k].body.target # p)

LEMMA ErasureKept ==
    ASSUME Shaped, ErasureComplete, AddsOnlyClear
    PROVE  ErasureComplete'
<1>1. \A i \in Ids, p \in Projects : Gone(p) => ~Holds(p, expense'[i])
    BY DEF AddsOnlyClear, Clear
<1>2. \A e \in events : e.id \in Ids /\ expense[e.id] # Null
    BY DEF ErasureComplete, Shaped, TypeOK, TablesTypeOK, Event
<1>3. \A e \in events', p \in Projects : Gone(p) => ~Holds(p, e.before) /\ ~Holds(p, e.after)
    BY DEF AddsOnlyClear, Clear, ErasureComplete, Gone
<1>4. \A e \in events' : expense'[e.id] # Null
    BY <1>2 DEF AddsOnlyClear
<1>5. \A k \in Actors \X Keys : replay[k] # Null => replay[k].id \in Ids /\ expense[replay[k].id] # Null
    BY DEF ErasureComplete, Shaped, TypeOK, TablesTypeOK, Replay
<1>6. \A k \in Actors \X Keys : replay'[k] # Null => expense'[replay'[k].id] # Null
    BY <1>5 DEF AddsOnlyClear
<1>7. \A k \in Actors \X Keys, p \in Projects :
          Gone(p) /\ replay'[k] # Null => replay'[k].body.target # p
    BY DEF AddsOnlyClear, ErasureComplete, ErasedReplay, Gone
<1>8. \A p \in Projects : Gone(p)' <=> Gone(p)
    BY DEF AddsOnlyClear, Gone
<1>9. \A k \in Actors \X Keys, p \in Projects : Gone(p) => ~ErasedReplay(p, replay[k])'
    BY <1>1, <1>7 DEF ErasedReplay, RowsOf, Holds
<1> QED BY <1>1, <1>3, <1>4, <1>6, <1>8, <1>9 DEF ErasureComplete, Gone, Holds

LEMMA ErasureErase ==
    ASSUME Shaped, ErasureComplete, NEW p \in Projects, EraseProject(p)
    PROVE  ErasureComplete'
<1>1. expense' = [i \in Ids |-> IF i \in RowsOf(p) THEN Null ELSE expense[i]] /\ events' = events \ EventsOf(p)
    BY DEF EraseProject
<1>2. \A k \in Actors \X Keys :
          replay'[k] = Null \/ (replay'[k] = replay[k] /\ ~ErasedReplay(p, replay[k]))
    BY DEF EraseProject
<1>3. \A q \in Projects : Gone(q)' => q = p \/ Gone(q)
    BY DEF EraseProject, Gone, Shaped, TypeOK, TablesTypeOK
<1>4. \A q \in Projects, i \in Ids : Gone(q)' => ~Holds(q, expense'[i])
    BY <1>1, <1>3 DEF ErasureComplete, Gone, Holds, RowsOf
<1>5. \A q \in Projects, e \in events' : Gone(q)' => ~Holds(q, e.before) /\ ~Holds(q, e.after)
    BY <1>1, <1>3 DEF ErasureComplete, Gone, EventsOf
<1>6. \A e \in events' : e.id \in Ids /\ e.id \notin RowsOf(p) /\ expense[e.id] # Null
    BY <1>1 DEF ErasureComplete, EventsOf, Shaped, TypeOK, TablesTypeOK, Event
<1>7. \A e \in events' : expense'[e.id] # Null
    BY <1>1, <1>6
<1>8. \A k \in Actors \X Keys : replay[k] # Null => replay[k].id \in Ids /\ expense[replay[k].id] # Null
    BY DEF ErasureComplete, Shaped, TypeOK, TablesTypeOK, Replay
<1>9. \A k \in Actors \X Keys : replay'[k] # Null => expense'[replay'[k].id] # Null
    BY <1>1, <1>2, <1>8 DEF ErasedReplay
<1>10. \A q \in Projects, k \in Actors \X Keys :
           Gone(q)' /\ replay'[k] # Null => replay'[k].body.target # q
    BY <1>2, <1>3 DEF ErasureComplete, ErasedReplay, Gone
<1>11. \A q \in Projects, k \in Actors \X Keys : Gone(q)' => ~ErasedReplay(q, replay[k])'
    BY <1>4, <1>10 DEF ErasedReplay, RowsOf, Holds
<1> QED BY <1>4, <1>5, <1>7, <1>9, <1>11 DEF ErasureComplete, Gone, Holds

LEMMA ErasureStays ==
    ASSUME ErasureComplete, expense' = expense, events' = events, replay' = replay,
           \A p \in Projects : Gone(p)' => Gone(p)
    PROVE  ErasureComplete'
BY DEF ErasureComplete, Gone, Holds, ErasedReplay, RowsOf

LEMMA ErasureAdministration ==
    ASSUME Shaped, ErasureComplete, Administration
    PROVE  ErasureComplete'
<1>1. ASSUME NEW p \in Projects, NEW status \in {"active", "archived"}, PatchProject(p, status)
      PROVE  ErasureComplete'
  <2>1. \A q \in Projects : Gone(q)' => Gone(q)
    BY <1>1 DEF PatchProject, Gone, Shaped, TypeOK, TablesTypeOK
  <2> QED BY <1>1, <2>1, ErasureStays DEF PatchProject
<1>2. ASSUME NEW p \in Projects, EraseProject(p) PROVE ErasureComplete'
    BY <1>2, ErasureErase
<1>3. CASE UNCHANGED <<expense, events, replay, project>>
    BY <1>3, ErasureStays DEF Gone
<1> QED BY <1>1, <1>2, <1>3
        DEF Administration, SetRetention, ChangePlan, PlanLapses, RevokeCredential, ChangeMember, ArchiveCategory

(* A row that is stored, or the one a batch leaves in its place.             *)
LEMMA StoredClear == ErasureComplete => \A i \in Ids : Clear(expense[i])
BY DEF ErasureComplete, Clear, Gone

LEMMA SameTargetClear ==
    ASSUME NEW row, NEW n, row # Null, Clear(row), n.target = row.target
    PROVE  Clear(n)
BY DEF Clear, Holds

LEMMA ActiveTargetClear ==
    ASSUME NEW row, TargetActive(row.target)
    PROVE  Clear(row)
BY TargetAssumption DEF Clear, Holds, TargetActive, Gone

LEMMA ErasureRecord ==
    ASSUME Shaped, Dated, RowsAdvance, ErasureComplete, NEW w \in Workers, CommitPost(w)
    PROVE  ErasureComplete'
<1> DEFINE j == job[w]
           k == <<Holder[j.cred], j.key>>
           n == NewRow(j.body, j.category)
<1>1. j \in Job /\ JobShape(j) /\ j.pc = "ready" /\ j.method = "POST" /\ PostGuard(j)
      /\ Seen(j.lost, j.victim)
    BY DEF Shaped, TypeOK, CommitPost, Dated
<1>2. PICK id \in Ids \ used : RecordExpense(Holder[j.cred], j.key, j.body, j.category, id, j.victim, j.lost)
    BY DEF CommitPost
<1>3. TargetActive(j.body.target) /\ RetirementGuard(j)
    BY <1>1 DEF PostGuard, TargetGuard
<1> HIDE DEF j
<1>4. j.body \in Body /\ j.category \in Categories /\ j.victim \in Ids \cup {Null}
    BY <1>1 DEF JobShape, Job
<1>5. n \in Row /\ n # Null /\ n.target = j.body.target
    BY <1>4, NewRowType, NullAssumption DEF NewRow
<1>6. Clear(n)
    BY <1>3, <1>5, ActiveTargetClear
<1>7. ASSUME j.victim # Null
      PROVE  /\ expense[j.victim] = j.lost /\ j.lost \in Row /\ Clear(j.lost)
             /\ Removed(j.lost) \in Row /\ Removed(j.lost).target = j.lost.target
  <2>1. expense[j.victim] \in Row /\ j.lost \in Row /\ expense[j.victim].rev = j.lost.rev
    BY <1>1, <1>3, <1>4, <1>7 DEF RetirementGuard, IsOldest, ActiveIds, JobShape, Shaped, TypeOK, TablesTypeOK
  <2>2. expense[j.victim] = j.lost
    BY <1>1, <1>7, <2>1, NullAssumption DEF Seen, Coherent
  <2>3. Removed(j.lost) \in Row /\ Removed(j.lost).target = j.lost.target
    BY <2>1, RemovedType DEF Removed, Row
  <2> QED BY <1>4, <1>7, <2>1, <2>2, <2>3, StoredClear
<1>8. project' = project
      /\ expense' = [i \in Ids |-> IF i = id THEN n ELSE RetiredRow(j.victim, i)]
      /\ events' = events \cup RetireEvent(j.victim, j.lost) \cup {[id |-> id, before |-> Null, after |-> n]}
      /\ replay' = [replay EXCEPT ![k] = [body |-> j.body, id |-> id]]
    BY <1>2 DEF RecordExpense
<1> HIDE DEF n, k
<1>9. \A i \in Ids : (expense[i] # Null => expense'[i] # Null) /\ Clear(expense'[i])
  <2> SUFFICES ASSUME NEW i \in Ids PROVE (expense[i] # Null => expense'[i] # Null) /\ Clear(expense'[i])
    OBVIOUS
  <2>1. CASE i = id
    BY <1>5, <1>6, <1>8, <2>1
  <2>2. CASE i # id /\ i = j.victim
    <3>1. j.victim # Null /\ expense'[i] = Removed(j.lost)
      BY <1>7, <1>8, <2>2, NullAssumption DEF RetiredRow
    <3>2. Clear(Removed(j.lost))
      BY <1>7, <3>1, SameTargetClear, NullAssumption
    <3> QED BY <1>7, <3>1, <3>2, NullAssumption
  <2>3. CASE i # id /\ i # j.victim
    BY <1>8, <2>3, StoredClear DEF RetiredRow
  <2> QED BY <2>1, <2>2, <2>3
<1>10. Clear(Null)
    BY DEF Clear, Holds
<1>11. \A e \in events' : e \in events \/ (expense'[e.id] # Null /\ Clear(e.before) /\ Clear(e.after))
  <2>1. expense'[id] # Null
    BY <1>5, <1>8
  <2>2. j.victim # Null => expense'[j.victim] # Null
    BY <1>4, <1>7, <1>9, NullAssumption
  <2> QED BY <1>6, <1>7, <1>8, <1>10, <2>1, <2>2 DEF RetireEvent
<1>12. \A x \in Actors \X Keys :
           replay'[x] = replay[x] \/ (/\ expense'[replay'[x].id] # Null
                                      /\ \A p \in Projects : Gone(p) => replay'[x].body.target # p)
  <2>1. \A p \in Projects : Gone(p) => j.body.target # p
    BY <1>3, TargetAssumption DEF TargetActive, Gone
  <2>2. expense'[id] # Null
    BY <1>5, <1>8
  <2> QED BY <1>8, <2>1, <2>2 DEF Shaped, TypeOK, TablesTypeOK
<1> QED BY <1>8, <1>9, <1>11, <1>12, ErasureKept DEF AddsOnlyClear

(* The image a PATCH or DELETE writes to the trail is the row it changes.     *)
LEMMA ImageIsRow ==
    ASSUME Shaped, Dated, NEW w \in Workers,
           job[w].pc = "ready", job[w].method \in {"PATCH", "DELETE"}, RowGuard(job[w])
    PROVE  job[w].id \in Ids /\ job[w].row \in Row /\ expense[job[w].id] = job[w].row
<1>1. job[w].id \in Ids /\ job[w].row \in Row
    BY DEF Shaped, JobShape
<1>2. Seen(job[w].row, job[w].id) /\ expense[job[w].id] # Null /\ expense[job[w].id].rev = job[w].row.rev
    BY DEF Dated, RowGuard
<1> QED BY <1>1, <1>2, NullAssumption DEF Seen, Coherent

(* One row changed in place, with an event of its two images.                *)
LEMMA ErasureChange ==
    ASSUME Shaped, ErasureComplete, project' = project, replay' = replay,
           NEW id \in Ids, NEW row \in Row, NEW after, Clear(row), Clear(after), expense[id] # Null,
           expense' = [expense EXCEPT ![id] = row],
           events' = events \cup {[id |-> id, before |-> expense[id], after |-> after]}
    PROVE  ErasureComplete'
<1>1. \A i \in Ids : (expense[i] # Null => expense'[i] # Null) /\ Clear(expense'[i])
    BY StoredClear, NullAssumption DEF Shaped, TypeOK, TablesTypeOK
<1>2. \A e \in events' : e \in events \/ (expense'[e.id] # Null /\ Clear(e.before) /\ Clear(e.after))
    BY <1>1, StoredClear
<1> QED BY <1>1, <1>2, ErasureKept DEF AddsOnlyClear

LEMMA ErasureRevise ==
    ASSUME Shaped, Dated, ErasureComplete, NEW w \in Workers, CommitPatch(w)
    PROVE  ErasureComplete'
<1> DEFINE j == job[w]
           n == Edited(j.row, j.body, j.category)
<1>1. j.id \in Ids /\ j.row \in Row /\ expense[j.id] = j.row /\ JobShape(j) /\ expense[j.id] # Null
    BY ImageIsRow DEF CommitPatch, RowGuard, Shaped
<1>2. j.pc = "ready" /\ j.method = "PATCH" /\ (NewTarget(j) => TargetGuard(j))
      /\ ReviseExpense(j.id, j.body, j.category, j.row)
    BY DEF CommitPatch
<1> HIDE DEF j
<1>3. j.body \in Body /\ j.category \in Categories
    BY <1>1, <1>2 DEF JobShape
<1>4. n \in Row /\ n.target = j.body.target
    BY <1>1, <1>3, EditedType DEF Edited, Row
<1>5. Clear(n)
  <2>1. CASE NewTarget(j)
    BY <1>2, <1>4, <2>1, ActiveTargetClear DEF TargetGuard
  <2>2. CASE ~NewTarget(j)
    <3>1. Clear(j.row)
      BY <1>1, StoredClear
    <3>2. n.target = j.row.target
      BY <1>4, <2>2 DEF NewTarget
    <3> QED BY <1>1, <3>1, <3>2, SameTargetClear
  <2> QED BY <2>1, <2>2
<1>6. /\ project' = project /\ replay' = replay
      /\ expense' = [expense EXCEPT ![j.id] = n]
      /\ events' = events \cup {[id |-> j.id, before |-> expense[j.id], after |-> n]}
    BY <1>1, <1>2 DEF ReviseExpense
<1> HIDE DEF n
<1> QED BY <1>1, <1>4, <1>5, <1>6, ErasureChange

LEMMA ErasureRemove ==
    ASSUME Shaped, Dated, ErasureComplete, NEW w \in Workers, CommitDelete(w)
    PROVE  ErasureComplete'
<1> DEFINE j == job[w]
           n == Removed(j.row)
<1>1. j.id \in Ids /\ j.row \in Row /\ expense[j.id] = j.row /\ expense[j.id] # Null
    BY ImageIsRow DEF CommitDelete, RowGuard
<1>2. RemoveExpense(j.id, j.row)
    BY DEF CommitDelete
<1> HIDE DEF j
<1>3. n \in Row /\ n.target = j.row.target
    BY <1>1, RemovedType DEF Removed, Row
<1>4. Clear(n) /\ Clear(Null)
    BY <1>1, <1>3, StoredClear, SameTargetClear DEF Clear, Holds
<1>5. /\ project' = project /\ replay' = replay
      /\ expense' = [expense EXCEPT ![j.id] = n]
      /\ events' = events \cup {[id |-> j.id, before |-> expense[j.id], after |-> Null]}
    BY <1>1, <1>2 DEF RemoveExpense
<1> HIDE DEF n
<1> QED BY <1>1, <1>3, <1>4, <1>5, ErasureChange

(* An erased project leaves no row, event or replay behind, and no request    *)
(* that read it before brings one back.                                      *)
THEOREM ErasureIsComplete == Spec => []ErasureComplete
<1>1. Init => ErasureComplete
    BY DEF Init, TablesInit, ErasureComplete, Holds, ErasedReplay
<1>2. Shaped /\ Shaped' /\ Dated /\ ErasureComplete /\ [Next]_vars => ErasureComplete'
  <2> SUFFICES ASSUME Shaped, Shaped', Dated, ErasureComplete, [Next]_vars PROVE ErasureComplete'
    OBVIOUS
  <2>1. CASE Administration
    BY <2>1, ErasureAdministration
  <2>2. CASE UNCHANGED tables
    BY <2>2, ErasureStays DEF tables, Gone
  <2>3. ASSUME NEW w \in Workers, Step(w) PROVE ErasureComplete'
    <3>1. CASE CommitPost(w)
      BY <2>3, <3>1, DatedStep, ErasureRecord
    <3>2. CASE CommitPatch(w) \/ CommitDelete(w)
      BY <3>2, ErasureRevise, ErasureRemove
    <3> QED BY <2>2, <2>3, <3>1, <3>2
            DEF Step, Receive, ReceivePost, ReplayPost, ReceivePatch, ReceiveDelete, Validate, CountRecords,
                ChooseVictim, AbortPost, ReplayAfterAbort, Abandon
  <2> QED BY <2>1, <2>2, <2>3 DEF Next, vars
<1> QED BY <1>1, <1>2, DatedInvariant, PTL DEF Spec

-----------------------------------------------------------------------------
(* What a request was entitled to by what it has read. All of it speaks of the *)
(* job alone; the guards of the batch carry it over to the tables.           *)

MayWrite(j) ==
    Holder[j.cred] # Owner =>
        /\ j.member.role \in {"admin", "editor"}
        /\ KeyRevision[j.cred] \in {0, j.member.rev}

MayTouch(j) ==
    /\ j.method \in {"POST", "PATCH"} => j.body \in Bodies
    /\ j.method = "POST" => j.body.target \in Allowed[j.cred]
    /\ j.method # "POST" => j.row.target \in Allowed[j.cred]
    /\ j.pc = "ready" /\ j.method = "PATCH" => j.body.target \in Allowed[j.cred]
    /\ j.victim # Null => j.lost.target \in Allowed[j.cred]

ChoseCategory(j) ==
    j.pc \in {"valid", "full", "ready"} /\ j.method # "DELETE" =>
        j.category = j.body.category \/ (j.body.category = Inferred /\ j.plan \in Paid)

Consented(j) == j.pc = "full" \/ j.victim # Null => j.user.auto

Entitled(j) ==
    j.pc # "idle" => MayWrite(j) /\ MayTouch(j) /\ ChoseCategory(j) /\ Consented(j)

(* The plan a request measures by is the account's, or the free one if its     *)
(* period had ended; an account record that is still the one read has not been *)
(* renewed since. Account records only move forward.                         *)
PlanRead(j) ==
    j.pc # "idle" =>
        /\ j.user.period <= user.period /\ j.user.autoRev <= user.autoRev
        /\ j.plan \in {j.user.plan, Free}
        /\ j.user = user /\ j.plan # user.plan => lapsed

Informed == \A w \in Workers : Entitled(job[w]) /\ PlanRead(job[w])

PlanReadAfter(j) ==
    j.pc # "idle" =>
        /\ j.user.period <= user'.period /\ j.user.autoRev <= user'.autoRev
        /\ j.plan \in {j.user.plan, Free}
        /\ j.user = user' /\ j.plan # user'.plan => lapsed'

AccountAdvances ==
    \/ user' = user /\ (lapsed => lapsed')
    \/ user'.period > user.period /\ user'.autoRev >= user.autoRev
    \/ user'.period >= user.period /\ user'.autoRev > user.autoRev

LEMMA AdministrationAdvancesAccount ==
    ASSUME TablesTypeOK, Administration
    PROVE  AccountAdvances
<1>1. user.period \in Nat /\ user.autoRev \in Nat /\ user \in User /\ lapsed \in BOOLEAN
    BY DEF TablesTypeOK, User
<1>2. ASSUME NEW choice \in BOOLEAN, SetRetention(choice) PROVE AccountAdvances
  <2>1. user' = [user EXCEPT !.auto = choice, !.autoRev = user.autoRev + 1]
    BY <1>2 DEF SetRetention
  <2> QED BY <1>1, <2>1 DEF AccountAdvances, User
<1>3. ASSUME NEW plan \in Plans, ChangePlan(plan) PROVE AccountAdvances
  <2>1. user' = [user EXCEPT !.plan = plan, !.period = user.period + 1]
    BY <1>3 DEF ChangePlan
  <2> QED BY <1>1, <2>1 DEF AccountAdvances, User
<1>4. CASE PlanLapses
    BY <1>4 DEF PlanLapses, AccountAdvances
<1> QED BY <1>2, <1>3, <1>4 DEF Administration, RevokeCredential, ChangeMember, PatchProject,
           ArchiveCategory, EraseProject, AccountAdvances

LEMMA PlanReadKept ==
    ASSUME Shaped, Shaped', AccountAdvances, NEW j \in Job, JobShape(j), PlanRead(j)
    PROVE  PlanReadAfter(j)
<1> SUFFICES ASSUME j.pc # "idle" PROVE PlanReadAfter(j)
    BY DEF PlanReadAfter
<1>1. j.user \in User /\ user \in User /\ user' \in User
    BY DEF JobShape, Shaped, TypeOK, TablesTypeOK
<1>2. {j.user.period, user.period, user'.period, j.user.autoRev, user.autoRev, user'.autoRev} \subseteq Nat
    BY <1>1 DEF User
<1>3. CASE user' = user /\ (lapsed => lapsed')
    BY <1>3 DEF PlanRead, PlanReadAfter
<1>4. CASE ~(user' = user /\ (lapsed => lapsed'))
  <2>1. j.user.period <= user'.period /\ j.user.autoRev <= user'.autoRev
        /\ (j.user.period # user'.period \/ j.user.autoRev # user'.autoRev)
    BY <1>2, <1>4 DEF AccountAdvances, PlanRead
  <2> QED BY <2>1 DEF PlanRead, PlanReadAfter
<1> QED BY <1>3, <1>4

LEMMA InformedUpdate ==
    ASSUME Shaped, Shaped', Informed, AccountAdvances, NEW w \in Workers, NEW n,
           job' = [job EXCEPT ![w] = n], Entitled(n), PlanReadAfter(n)
    PROVE  Informed'
<1>1. ASSUME NEW v \in Workers PROVE Entitled(job'[v]) /\ PlanReadAfter(job'[v])
  <2>1. CASE v = w
    BY <2>1 DEF Shaped, TypeOK
  <2>2. CASE v # w
    <3>1. job'[v] = job[v] /\ job[v] \in Job /\ JobShape(job[v])
      BY <2>2 DEF Shaped, TypeOK
    <3>2. Entitled(job[v]) /\ PlanRead(job[v])
      BY DEF Informed
    <3>3. PlanReadAfter(job[v])
      BY <3>1, <3>2, PlanReadKept
    <3> QED BY <3>1, <3>2, <3>3
  <2> QED BY <2>1, <2>2
<1> QED BY <1>1 DEF Informed, Entitled, MayWrite, MayTouch, ChoseCategory, Consented, PlanRead, PlanReadAfter

LEMMA NothingAsked == Entitled(Idle) /\ PlanReadAfter(Idle)
BY DEF Idle, Entitled, PlanReadAfter

LEMMA FreshPlan ==
    ASSUME Shaped, UNCHANGED tables, NEW j, j.user = user, j.plan = EffectivePlan
    PROVE  PlanReadAfter(j)
<1>1. user.period \in Nat /\ user.autoRev \in Nat
    BY DEF Shaped, TypeOK, TablesTypeOK, User
<1> QED BY <1>1 DEF PlanReadAfter, EffectivePlan, tables

LEMMA FreshRight ==
    ASSUME NEW c \in Credentials, CanWrite(c), NEW j, j.cred = c, j.member = MemberOf(c)
    PROVE  MayWrite(j)
BY DEF MayWrite, CanWrite, MemberOf

LEMMA BeginMember == ASSUME NEW c, NEW method PROVE Begin(method, c).member = MemberOf(c)
BY DEF Begin, Idle

LEMMA InformedReceive ==
    ASSUME Shaped, Shaped', Informed, NEW w \in Workers, Receive(w)
    PROVE  Informed'
<1>1. ASSUME UNCHANGED tables PROVE AccountAdvances
    BY <1>1 DEF tables, AccountAdvances
<1>2. TablesTypeOK
    BY DEF Shaped, TypeOK
<1>3. ASSUME NEW c \in Credentials, NEW key \in Keys, NEW body \in Bodies, ReceivePost(w, c, key, body)
      PROVE  Informed'
  <2> DEFINE b == Begin("POST", c)
             n == [b EXCEPT !.pc = "read", !.key = key, !.body = body]
  <2>1. b \in Job /\ b.method = "POST" /\ b.cred = c /\ b.user = user /\ b.plan = EffectivePlan
        /\ b.victim = Null /\ b.member = MemberOf(c)
    BY <1>2, BeginFields, BeginType, BeginMember
  <2>2. job' = [job EXCEPT ![w] = n] /\ UNCHANGED tables /\ CanWrite(c) /\ body.target \in Allowed[c]
    BY <1>3 DEF ReceivePost
  <2> HIDE DEF b
  <2>3. n.pc = "read" /\ n.method = "POST" /\ n.cred = c /\ n.user = user /\ n.plan = EffectivePlan
        /\ n.victim = Null /\ n.member = MemberOf(c) /\ n.body = body
    BY <2>1 DEF Job
  <2> HIDE DEF n
  <2>4. MayWrite(n)
    BY <2>2, <2>3, FreshRight
  <2>5. Entitled(n)
    BY <2>2, <2>3, <2>4 DEF Entitled, MayTouch, ChoseCategory, Consented
  <2>6. PlanReadAfter(n)
    BY <2>2, <2>3, FreshPlan
  <2> QED BY <1>1, <2>2, <2>5, <2>6, InformedUpdate
<1>4. ASSUME NEW c \in Credentials, NEW key \in Keys, NEW body \in Bodies, ReplayPost(w, c, key, body)
      PROVE  Informed'
    BY <1>4 DEF ReplayPost, tables, Informed, Entitled, MayWrite, MayTouch, ChoseCategory, Consented, PlanRead
<1>5. ASSUME NEW c \in Credentials, NEW id \in Ids, NEW body \in Bodies, ReceivePatch(w, c, id, body)
      PROVE  Informed'
  <2> DEFINE b == Begin("PATCH", c)
             n == [b EXCEPT !.pc = "read", !.id = id, !.row = expense[id], !.body = body]
  <2>1. b \in Job /\ b.method = "PATCH" /\ b.cred = c /\ b.user = user /\ b.plan = EffectivePlan
        /\ b.victim = Null /\ b.member = MemberOf(c)
    BY <1>2, BeginFields, BeginType, BeginMember
  <2>2. job' = [job EXCEPT ![w] = n] /\ UNCHANGED tables /\ CanWrite(c) /\ expense[id].target \in Allowed[c]
    BY <1>5 DEF ReceivePatch, ReadRow
  <2> HIDE DEF b
  <2>3. n.pc = "read" /\ n.method = "PATCH" /\ n.cred = c /\ n.user = user /\ n.plan = EffectivePlan
        /\ n.victim = Null /\ n.member = MemberOf(c) /\ n.row = expense[id] /\ n.body = body
    BY <2>1 DEF Job
  <2> HIDE DEF n
  <2>4. MayWrite(n)
    BY <2>2, <2>3, FreshRight
  <2>5. Entitled(n)
    BY <2>2, <2>3, <2>4 DEF Entitled, MayTouch, ChoseCategory, Consented
  <2>6. PlanReadAfter(n)
    BY <2>2, <2>3, FreshPlan
  <2> QED BY <1>1, <2>2, <2>5, <2>6, InformedUpdate
<1>6. ASSUME NEW c \in Credentials, NEW id \in Ids, ReceiveDelete(w, c, id)
      PROVE  Informed'
  <2> DEFINE b == Begin("DELETE", c)
             n == [b EXCEPT !.pc = "ready", !.id = id, !.row = expense[id]]
  <2>1. b \in Job /\ b.method = "DELETE" /\ b.cred = c /\ b.user = user /\ b.plan = EffectivePlan
        /\ b.victim = Null /\ b.member = MemberOf(c)
    BY <1>2, BeginFields, BeginType, BeginMember
  <2>2. job' = [job EXCEPT ![w] = n] /\ UNCHANGED tables /\ CanWrite(c) /\ expense[id].target \in Allowed[c]
    BY <1>6 DEF ReceiveDelete, ReadRow
  <2> HIDE DEF b
  <2>3. n.pc = "ready" /\ n.method = "DELETE" /\ n.cred = c /\ n.user = user /\ n.plan = EffectivePlan
        /\ n.victim = Null /\ n.member = MemberOf(c) /\ n.row = expense[id]
    BY <2>1 DEF Job
  <2> HIDE DEF n
  <2>4. MayWrite(n)
    BY <2>2, <2>3, FreshRight
  <2>5. Entitled(n)
    BY <2>2, <2>3, <2>4 DEF Entitled, MayTouch, ChoseCategory, Consented
  <2>6. PlanReadAfter(n)
    BY <2>2, <2>3, FreshPlan
  <2> QED BY <1>1, <2>2, <2>5, <2>6, InformedUpdate
<1> QED BY <1>3, <1>4, <1>5, <1>6 DEF Receive

(* A later read changes no part of what an earlier one entitled to.          *)
LEMMA StillMayWrite ==
    ASSUME NEW j, NEW n, n.cred = j.cred, n.member = j.member, MayWrite(j)
    PROVE  MayWrite(n)
BY DEF MayWrite

LEMMA StillPlanned ==
    ASSUME NEW j, NEW n, j.pc # "idle", n.user = j.user, n.plan = j.plan, PlanReadAfter(j)
    PROVE  PlanReadAfter(n)
BY DEF PlanReadAfter

LEMMA InformedStep ==
    ASSUME Shaped, Shaped', Informed, NEW w \in Workers, Step(w)
    PROVE  Informed'
<1> DEFINE j == job[w]
<1>1. j \in Job /\ JobShape(j)
    BY DEF Shaped, TypeOK
<1>2. Entitled(j) /\ PlanRead(j)
    BY DEF Informed
<1> HIDE DEF j
<1>3. ASSUME user' = user, lapsed' = lapsed PROVE AccountAdvances /\ PlanReadAfter(j)
  <2>1. AccountAdvances
    BY <1>3 DEF AccountAdvances
  <2> QED BY <1>1, <1>2, <2>1, PlanReadKept
<1>4. ASSUME user' = user, lapsed' = lapsed, job' = [job EXCEPT ![w] = Idle] PROVE Informed'
    BY <1>3, <1>4, NothingAsked, InformedUpdate
<1>5. CASE Validate(w)
  <2>1. PICK category \in CategoryChoice(j) :
            job' = [job EXCEPT ![w] = [j EXCEPT
                       !.pc = IF j.method = "POST" THEN "valid" ELSE "ready",
                       !.category = category,
                       !.evidence = IF NewTarget(j) /\ j.body.target # Shared
                                    THEN project[j.body.target].rev ELSE 0]]
    BY <1>5 DEF Validate, j
  <2> DEFINE pc == IF j.method = "POST" THEN "valid" ELSE "ready"
             evidence == IF NewTarget(j) /\ j.body.target # Shared THEN project[j.body.target].rev ELSE 0
             n == [j EXCEPT !.pc = pc, !.category = category, !.evidence = evidence]
  <2>2. job' = [job EXCEPT ![w] = n] /\ user' = user /\ lapsed' = lapsed /\ j.pc = "read"
        /\ j.body.target \in Allowed[j.cred]
    BY <1>5, <2>1 DEF Validate, tables, j
  <2>3. pc \in {"valid", "ready"}
    OBVIOUS
  <2> HIDE DEF pc, evidence
  <2>4. n.pc = pc /\ n.category = category /\ n.cred = j.cred /\ n.member = j.member /\ n.user = j.user
        /\ n.plan = j.plan /\ n.method = j.method /\ n.row = j.row /\ n.body = j.body
        /\ n.victim = j.victim /\ n.lost = j.lost
    BY <1>1 DEF Job
  <2> HIDE DEF n
  <2>5. MayWrite(n)
    BY <1>2, <2>2, <2>4, StillMayWrite DEF Entitled
  <2>6. MayTouch(n) /\ Consented(n)
    BY <1>2, <2>2, <2>3, <2>4 DEF Entitled, MayTouch, Consented
  <2>7. ChoseCategory(n)
    BY <2>1, <2>4 DEF ChoseCategory, CategoryChoice
  <2>8. PlanReadAfter(n)
    BY <1>3, <2>2, <2>4, StillPlanned
  <2> QED BY <1>3, <2>2, <2>5, <2>6, <2>7, <2>8, InformedUpdate DEF Entitled
<1>6. CASE CountRecords(w)
  <2> DEFINE pc == IF Cardinality(ActiveIds) < Cap[j.plan] THEN "ready" ELSE "full"
             n == [j EXCEPT !.pc = pc]
  <2>1. job' = [job EXCEPT ![w] = n] /\ user' = user /\ lapsed' = lapsed /\ j.pc = "valid"
    BY <1>1, <1>6 DEF CountRecords, tables, j
  <2>2. pc = "ready" \/ (pc = "full" /\ j.user.auto)
    BY <1>6 DEF CountRecords, j
  <2> HIDE DEF pc
  <2>3. n.pc = pc /\ n.category = j.category /\ n.cred = j.cred /\ n.member = j.member /\ n.user = j.user
        /\ n.plan = j.plan /\ n.method = j.method /\ n.row = j.row /\ n.body = j.body
        /\ n.victim = j.victim /\ n.lost = j.lost
    BY <1>1 DEF Job
  <2> HIDE DEF n
  <2>4. MayWrite(n)
    BY <1>2, <2>1, <2>3, StillMayWrite DEF Entitled
  <2>5. MayTouch(n) /\ Consented(n) /\ ChoseCategory(n)
    BY <1>1, <1>2, <2>1, <2>2, <2>3 DEF Entitled, MayTouch, Consented, ChoseCategory, JobShape
  <2>6. PlanReadAfter(n)
    BY <1>3, <2>1, <2>3, StillPlanned
  <2> QED BY <1>3, <2>1, <2>4, <2>5, <2>6, InformedUpdate DEF Entitled
<1>7. CASE ChooseVictim(w)
  <2>1. PICK i \in Ids : /\ expense[i].target \in Allowed[j.cred]
                         /\ job' = [job EXCEPT ![w].pc = "ready", ![w].victim = i, ![w].lost = expense[i]]
    BY <1>7 DEF ChooseVictim, j
  <2> DEFINE n == [j EXCEPT !.pc = "ready", !.victim = i, !.lost = expense[i]]
  <2>2. job' = [job EXCEPT ![w] = n] /\ user' = user /\ lapsed' = lapsed /\ j.pc = "full"
    BY <1>1, <1>7, <2>1 DEF ChooseVictim, tables, j
  <2>3. n.pc = "ready" /\ n.category = j.category /\ n.cred = j.cred /\ n.member = j.member /\ n.user = j.user
        /\ n.plan = j.plan /\ n.method = j.method /\ n.row = j.row /\ n.body = j.body
        /\ n.victim = i /\ n.lost = expense[i]
    BY <1>1 DEF Job
  <2> HIDE DEF n
  <2>4. MayWrite(n)
    BY <1>2, <2>2, <2>3, StillMayWrite DEF Entitled
  <2>5. MayTouch(n) /\ Consented(n) /\ ChoseCategory(n)
    BY <1>1, <1>2, <2>1, <2>2, <2>3 DEF Entitled, MayTouch, Consented, ChoseCategory, JobShape
  <2>6. PlanReadAfter(n)
    BY <1>3, <2>2, <2>3, StillPlanned
  <2> QED BY <1>3, <2>2, <2>4, <2>5, <2>6, InformedUpdate DEF Entitled
<1>8. CASE AbortPost(w)
  <2> DEFINE n == [j EXCEPT !.pc = "recheck"]
  <2>1. job' = [job EXCEPT ![w] = n] /\ user' = user /\ lapsed' = lapsed /\ j.pc = "ready" /\ j.method = "POST"
    BY <1>1, <1>8 DEF AbortPost, tables, j
  <2>2. n.pc = "recheck" /\ n.category = j.category /\ n.cred = j.cred /\ n.member = j.member /\ n.user = j.user
        /\ n.plan = j.plan /\ n.method = j.method /\ n.row = j.row /\ n.body = j.body
        /\ n.victim = j.victim /\ n.lost = j.lost
    BY <1>1 DEF Job
  <2> HIDE DEF n
  <2>3. MayWrite(n)
    BY <1>2, <2>1, <2>2, StillMayWrite DEF Entitled
  <2>4. MayTouch(n) /\ Consented(n) /\ ChoseCategory(n)
    BY <1>2, <2>1, <2>2 DEF Entitled, MayTouch, Consented, ChoseCategory
  <2>5. PlanReadAfter(n)
    BY <1>3, <2>1, <2>2, StillPlanned
  <2> QED BY <1>3, <2>1, <2>3, <2>4, <2>5, InformedUpdate DEF Entitled
<1>9. CASE CommitPost(w)
    BY <1>4, <1>9 DEF CommitPost, RecordExpense
<1>10. CASE CommitPatch(w)
    BY <1>4, <1>10 DEF CommitPatch, ReviseExpense
<1>11. CASE CommitDelete(w)
    BY <1>4, <1>11 DEF CommitDelete, RemoveExpense
<1>12. CASE ReplayAfterAbort(w) \/ Abandon(w)
    BY <1>4, <1>12 DEF ReplayAfterAbort, Abandon, tables
<1> QED BY <1>5, <1>6, <1>7, <1>8, <1>9, <1>10, <1>11, <1>12, InformedReceive DEF Step

(* What a request read of the account is what the account says by now, or has *)
(* an older period or revision that its batch compares (WriteGuard, Fits).   *)
THEOREM InformedInvariant == Spec => [](Shaped /\ Dated /\ Informed)
<1>1. Init => Informed
    BY DEF Init, Informed, Idle, Entitled, PlanRead
<1>2. Shaped /\ Shaped' /\ Informed /\ [Next]_vars => Informed'
  <2> SUFFICES ASSUME Shaped, Shaped', Informed, [Next]_vars PROVE Informed'
    OBVIOUS
  <2>1. CASE Administration /\ UNCHANGED <<job, answers>>
    <3>1. AccountAdvances
      BY <2>1, AdministrationAdvancesAccount DEF Shaped, TypeOK
    <3>2. ASSUME NEW v \in Workers PROVE Entitled(job'[v]) /\ PlanReadAfter(job'[v])
      <4>1. job'[v] = job[v] /\ job[v] \in Job /\ JobShape(job[v])
        BY <2>1 DEF Shaped, TypeOK
      <4>2. Entitled(job[v]) /\ PlanRead(job[v])
        BY DEF Informed
      <4>3. PlanReadAfter(job[v])
        BY <3>1, <4>1, <4>2, PlanReadKept
      <4> QED BY <4>1, <4>2, <4>3
    <3> QED BY <3>2 DEF Informed, Entitled, MayWrite, MayTouch, ChoseCategory, Consented, PlanRead, PlanReadAfter
  <2>2. ASSUME NEW w \in Workers, Step(w) PROVE Informed'
    BY <2>2, InformedStep
  <2>3. CASE UNCHANGED vars
    BY <2>3 DEF vars, tables, Informed, Entitled, MayWrite, MayTouch, ChoseCategory, Consented, PlanRead
  <2> QED BY <2>1, <2>2, <2>3 DEF Next
<1> QED BY <1>1, <1>2, DatedInvariant, PTL DEF Spec

-----------------------------------------------------------------------------
(* Every batch is the abstract step of the same expense.                     *)

(* The guards of a batch turn what was read into what holds.                 *)
LEMMA StillAllowed ==
    ASSUME NEW j, j.cred \in Credentials, MayWrite(j), WriteGuard(j)
    PROVE  CanWrite(j.cred)
BY DEF MayWrite, WriteGuard, CanWrite, MemberOf

LEMMA StillInForce ==
    ASSUME NEW j, j.pc # "idle", PlanRead(j), WriteGuard(j)
    PROVE  j.plan \in {user.plan, EffectivePlan}
BY DEF PlanRead, WriteGuard, EffectivePlan

LEMMA FewIds == IsFiniteSet(ActiveIds) /\ Cardinality(ActiveIds) \in Nat
<1>1. ActiveIds \subseteq Ids
    BY DEF ActiveIds
<1> QED BY <1>1, IdAssumption, FS_Subset, FS_CardinalityType

LEMMA AdministrationIsAtomic == Administration => Atomic!Administration
BY DEF Administration, SetRetention, ChangePlan, PlanLapses, RevokeCredential, ChangeMember, PatchProject,
       ArchiveCategory, EraseProject, RowsOf, EventsOf, ErasedReplay, Holds, Roles, Actors,
       Atomic!Administration, Atomic!SetRetention, Atomic!ChangePlan, Atomic!PlanLapses,
       Atomic!RevokeCredential, Atomic!ChangeMember, Atomic!PatchProject, Atomic!ArchiveCategory,
       Atomic!EraseProject, Atomic!RowsOf, Atomic!EventsOf, Atomic!ErasedReplay, Atomic!Holds,
       Atomic!Roles, Atomic!Actors

(* The abstract module counts with its own instance of Cardinality.          *)
LEMMA SameCount == \A S : Atomic!Cardinality(S) = Cardinality(S)
BY DEF Cardinality, Atomic!Cardinality

LEMMA SameActive ==
    /\ Atomic!Cardinality(Atomic!ActiveIds) = Cardinality(ActiveIds)
    /\ \A i : Atomic!IsOldest(i) = IsOldest(i)
<1>1. Atomic!ActiveIds = ActiveIds
    BY DEF ActiveIds, TargetExists, Atomic!ActiveIds, Atomic!TargetExists
<1>2. \A i, k : Atomic!Older(i, k) = Older(i, k)
    BY Zenon DEF Older, Atomic!Older
<1>3. ASSUME NEW i PROVE Atomic!IsOldest(i) = IsOldest(i)
    BY <1>1, <1>2, ZenonT(40) DEF IsOldest, Atomic!IsOldest
<1> QED BY <1>1, <1>3, SameCount

LEMMA CreationIsAtomic ==
    ASSUME Shaped, Dated, Informed, NEW w \in Workers, CommitPost(w)
    PROVE  \E c \in Credentials : Atomic!Write(c)
<1> DEFINE j == job[w]
           c == j.cred
<1>1. j \in Job /\ JobShape(j) /\ TablesTypeOK /\ Entitled(j) /\ PlanRead(j)
      /\ Seen(j.lost, j.victim)
    BY DEF Shaped, TypeOK, Informed, Dated
<1>2. j.pc = "ready" /\ j.method = "POST" /\ PostGuard(j) /\ Fits(j)
    BY DEF CommitPost
<1>3. PICK id \in Ids \ used : RecordExpense(Holder[c], j.key, j.body, j.category, id, j.victim, j.lost)
    BY DEF CommitPost
<1> HIDE DEF j
<1>4. c \in Credentials /\ j.key \in Keys /\ j.body \in Body /\ j.category \in Categories /\ j.plan \in Plans
      /\ j.victim \in Ids \cup {Null}
    BY <1>1, <1>2 DEF JobShape, Job
<1>5. CanWrite(c)
    BY <1>1, <1>2, <1>4, StillAllowed DEF Entitled, PostGuard
<1>6. j.plan \in {user.plan, EffectivePlan}
    BY <1>1, <1>2, StillInForce DEF PostGuard
<1>7. j.body.target \in Allowed[c] /\ TargetActive(j.body.target) /\ j.category \notin archived
      /\ replay[<<Holder[c], j.key>>] = Null
    BY <1>1, <1>2 DEF Entitled, MayTouch, PostGuard, TargetGuard
<1>8. j.body.category = j.category \/ (j.body.category = Inferred /\ j.plan \in Paid)
    BY <1>1, <1>2 DEF Entitled, ChoseCategory
<1>9. \/ j.victim = Null /\ Cardinality(ActiveIds) < Cap[j.plan]
      \/ /\ j.victim # Null /\ Cardinality(ActiveIds) = Cap[j.plan] /\ user.auto
         /\ IsOldest(j.victim) /\ expense[j.victim] = j.lost /\ expense[j.victim].target \in Allowed[c]
  <2>1. CASE j.victim = Null
    <3>1. Cap[j.plan] \in Nat
      BY <1>4, PlanAssumption
    <3> QED BY <1>2, <2>1, <3>1, FewIds DEF Fits, CountAfter
  <2>2. CASE j.victim # Null
    <3>1. IsOldest(j.victim) /\ expense[j.victim].rev = j.lost.rev /\ Cardinality(ActiveIds) = Cap[j.plan]
      BY <1>2, <2>2 DEF PostGuard, RetirementGuard
    <3>2. expense[j.victim] # Null /\ j.lost \in Row
      BY <1>1, <2>2, <3>1 DEF IsOldest, ActiveIds, JobShape
    <3>3. expense[j.victim] = j.lost
      BY <1>1, <2>2, <3>1, <3>2, NullAssumption DEF Seen, Coherent
    <3>4. user.auto /\ j.lost.target \in Allowed[c]
      BY <1>1, <1>2, <2>2 DEF Entitled, Consented, MayTouch, PostGuard, WriteGuard
    <3> QED BY <2>2, <3>1, <3>3, <3>4
  <2> QED BY <2>1, <2>2
<1>10. Atomic!CanWrite(c) /\ Atomic!TargetActive(j.body.target)
    BY <1>5, <1>7 DEF CanWrite, TargetActive, Atomic!CanWrite, Atomic!TargetActive
<1>11. j.plan \in Atomic!PlanInForce
    BY <1>6 DEF EffectivePlan, Atomic!PlanInForce, Atomic!EffectivePlan
<1>12. Atomic!Room(c, j.victim, j.plan)
    BY <1>9, SameActive DEF Atomic!Room
<1>13. Atomic!RecordExpense(Holder[c], j.key, j.body, j.category, id, j.victim,
                            IF j.victim = Null THEN Null ELSE expense[j.victim])
  <2>1. RetireEvent(j.victim, j.lost)
          = Atomic!RetireEvent(j.victim, IF j.victim = Null THEN Null ELSE expense[j.victim])
    BY <1>9 DEF RetireEvent, Atomic!RetireEvent
  <2>2. /\ NewRow(j.body, j.category) = Atomic!NewRow(j.body, j.category)
        /\ \A i \in Ids : RetiredRow(j.victim, i) = Atomic!RetiredRow(j.victim, i)
    BY DEF NewRow, RetiredRow, Removed, Atomic!NewRow, Atomic!RetiredRow, Atomic!Removed
  <2> QED BY <1>3, <2>1, <2>2 DEF RecordExpense, Atomic!RecordExpense
<1>14. Atomic!Create(c, j.key, j.body, j.category, id, j.victim)
  <2>1. j.body.category = j.category \/ (j.body.category = Inferred /\ Atomic!PlanInForce \cap Paid # {})
    BY <1>8, <1>11
  <2>2. \E plan \in Atomic!PlanInForce : Atomic!Room(c, j.victim, plan)
    BY <1>11, <1>12
  <2> QED BY <1>7, <1>10, <1>13, <2>1, <2>2, ZenonT(40) DEF Atomic!Create
<1>15. j.body \in Bodies
    BY <1>1, <1>2 DEF Entitled, MayTouch
<1> QED BY <1>4, <1>14, <1>15 DEF Atomic!Write

(* An edit and a removal find the row their request read: it is still there, *)
(* and nothing of it has changed.                                            *)
LEMMA RevisionIsAtomic ==
    ASSUME Shaped, Dated, Informed, NEW w \in Workers, CommitPatch(w)
    PROVE  \E c \in Credentials : Atomic!Write(c)
<1> DEFINE j == job[w]
           c == j.cred
<1>1. j \in Job /\ JobShape(j) /\ TablesTypeOK /\ Entitled(j) /\ PlanRead(j)
    BY DEF Shaped, TypeOK, Informed
<1>2. /\ j.pc = "ready" /\ j.method = "PATCH" /\ WriteGuard(j) /\ CategoryGuard(j) /\ RowGuard(j)
      /\ NewTarget(j) => TargetGuard(j)
      /\ ReviseExpense(j.id, j.body, j.category, j.row)
    BY DEF CommitPatch
<1>3. expense[j.id] = j.row /\ j.id \in Ids
    BY <1>2, ImageIsRow
<1> HIDE DEF j
<1>4. c \in Credentials /\ j.body \in Bodies /\ j.category \in Categories
    BY <1>1, <1>2 DEF JobShape, Entitled, MayTouch
<1>5. CanWrite(c)
    BY <1>1, <1>2, <1>4, StillAllowed DEF Entitled
<1>6. j.plan \in {user.plan, EffectivePlan}
    BY <1>1, <1>2, StillInForce
<1>7. {expense[j.id].target, j.body.target} \subseteq Allowed[c]
    BY <1>1, <1>2, <1>3 DEF Entitled, MayTouch
<1>8. j.body.target # expense[j.id].target => TargetActive(j.body.target)
    BY <1>2, <1>3 DEF NewTarget, TargetGuard
<1>9. j.category # expense[j.id].category => j.category \notin archived
    BY <1>2, <1>3 DEF CategoryGuard
<1>10. j.body.category = j.category \/ (j.body.category = Inferred /\ j.plan \in Paid)
    BY <1>1, <1>2 DEF Entitled, ChoseCategory
<1>11. Atomic!CanWrite(c) /\ (j.body.target # expense[j.id].target => Atomic!TargetActive(j.body.target))
    BY <1>5, <1>8 DEF CanWrite, TargetActive, Atomic!CanWrite, Atomic!TargetActive
<1>12. j.plan \in Atomic!PlanInForce
    BY <1>6 DEF EffectivePlan, Atomic!PlanInForce, Atomic!EffectivePlan
<1>13. Atomic!Live(j.id)
    BY <1>2 DEF RowGuard, TargetExists, Atomic!Live, Atomic!TargetExists
<1>14. Atomic!ReviseExpense(j.id, j.body, j.category, expense[j.id])
    BY <1>2, <1>3 DEF ReviseExpense, Edited, Atomic!ReviseExpense, Atomic!Edited
<1>15. j.body.category = j.category \/ (j.body.category = Inferred /\ Atomic!PlanInForce \cap Paid # {})
    BY <1>10, <1>12
<1>16. Atomic!Revise(c, j.id, j.body, j.category)
    BY <1>7, <1>9, <1>11, <1>13, <1>14, <1>15, ZenonT(40) DEF Atomic!Revise
<1> QED BY <1>3, <1>4, <1>16 DEF Atomic!Write

LEMMA RemovalIsAtomic ==
    ASSUME Shaped, Dated, Informed, NEW w \in Workers, CommitDelete(w)
    PROVE  \E c \in Credentials : Atomic!Write(c)
<1> DEFINE j == job[w]
           c == j.cred
<1>1. j \in Job /\ JobShape(j) /\ Entitled(j)
    BY DEF Shaped, TypeOK, Informed
<1>2. /\ j.pc = "ready" /\ j.method = "DELETE" /\ WriteGuard(j) /\ RowGuard(j)
      /\ RemoveExpense(j.id, j.row)
    BY DEF CommitDelete
<1>3. expense[j.id] = j.row /\ j.id \in Ids
    BY <1>2, ImageIsRow
<1> HIDE DEF j
<1>4. c \in Credentials /\ expense[j.id].target \in Allowed[c]
    BY <1>1, <1>2, <1>3 DEF JobShape, Entitled, MayTouch
<1>5. CanWrite(c)
    BY <1>1, <1>2, <1>4, StillAllowed DEF Entitled
<1>6. Atomic!CanWrite(c)
    BY <1>5 DEF CanWrite, Atomic!CanWrite
<1>7. Atomic!Live(j.id)
    BY <1>2 DEF RowGuard, TargetExists, Atomic!Live, Atomic!TargetExists
<1>8. Atomic!RemoveExpense(j.id, expense[j.id])
    BY <1>2, <1>3 DEF RemoveExpense, Removed, Atomic!RemoveExpense, Atomic!Removed
<1>9. Atomic!Remove(c, j.id)
    BY <1>4, <1>6, <1>7, <1>8 DEF Atomic!Remove
<1> QED BY <1>3, <1>4, <1>9 DEF Atomic!Write

LEMMA NextIsAtomic ==
    ASSUME Shaped, Dated, Informed, [Next]_vars
    PROVE  Atomic!Next \/ UNCHANGED tables
<1>1. CASE Administration
    BY <1>1, AdministrationIsAtomic DEF Atomic!Next
<1>2. ASSUME NEW w \in Workers, Step(w) PROVE Atomic!Next \/ UNCHANGED tables
  <2>1. CASE CommitPost(w) \/ CommitPatch(w) \/ CommitDelete(w)
    BY <2>1, CreationIsAtomic, RevisionIsAtomic, RemovalIsAtomic DEF Atomic!Next
  <2>2. CASE Receive(w)
    BY <2>2 DEF Receive, ReceivePost, ReplayPost, ReceivePatch, ReceiveDelete
  <2>3. CASE \/ Validate(w) \/ CountRecords(w) \/ ChooseVictim(w) \/ AbortPost(w)
             \/ ReplayAfterAbort(w) \/ Abandon(w)
    BY <2>3 DEF Validate, CountRecords, ChooseVictim, AbortPost, ReplayAfterAbort, Abandon
  <2> QED BY <1>2, <2>1, <2>2, <2>3 DEF Step
<1>3. CASE UNCHANGED vars
    BY <1>3 DEF vars
<1> QED BY <1>1, <1>2, <1>3 DEF Next

(* Every change of the tables, whichever request or neighbour makes it, is one *)
(* a server without concurrency could make: authority, target, category, room *)
(* and row are right in the very batch that writes.                          *)
THEOREM WritesAreAtomic == Spec => StepsAreAtomic
<1>1. Shaped /\ Dated /\ Informed /\ [Next]_vars => [Atomic!Next]_tables
    BY NextIsAtomic
<1> QED BY <1>1, InformedInvariant, PTL DEF Spec, StepsAreAtomic

(* The handlers implement the abstract ledger, from its initial states on.   *)
THEOREM ImplementsLedger == Spec => ImplementsAtomicLedger
<1>1. Init => Atomic!TablesInit
    BY DEF Init, TablesInit, Atomic!TablesInit, Actors, Atomic!Actors
<1>2. [Atomic!Next]_tables => [Atomic!Next]_(Atomic!tables)
    BY DEF tables, Atomic!tables
<1> QED BY <1>1, <1>2, WritesAreAtomic, PTL
        DEF Spec, StepsAreAtomic, ImplementsAtomicLedger, Atomic!AtomicSpec

-----------------------------------------------------------------------------
(* The limit of active records.                                              *)

LEMMA AtMostOneMore ==
    ASSUME NEW S, NEW x, IsFiniteSet(S)
    PROVE  IsFiniteSet(S \cup {x}) /\ Cardinality(S \cup {x}) \in Nat /\ Cardinality(S \cup {x}) <= Cardinality(S) + 1
<1>1. IsFiniteSet(S \cup {x}) /\ Cardinality(S) \in Nat
    BY FS_AddElement, FS_CardinalityType
<1>2. Cardinality(S \cup {x}) \in Nat
    BY <1>1, FS_CardinalityType
<1>3. Cardinality(S \cup {x}) = IF x \in S THEN Cardinality(S) ELSE Cardinality(S) + 1
    BY FS_AddElement
<1> QED BY <1>1, <1>2, <1>3

LEMMA FewerActive == ASSUME ActiveIds' \subseteq ActiveIds PROVE Cardinality(ActiveIds') <= Cardinality(ActiveIds)
BY FewIds, FS_Subset

LEMMA AdministrationAddsNone ==
    ASSUME Shaped, Administration
    PROVE  ActiveIds' \subseteq ActiveIds
<1>1. ASSUME NEW p \in Projects, NEW status \in {"active", "archived"}, PatchProject(p, status)
      PROVE  ActiveIds' \subseteq ActiveIds
    BY <1>1, TargetAssumption DEF PatchProject, ActiveIds, TargetExists, Shaped, TypeOK, TablesTypeOK, Row, Targets
<1>2. ASSUME NEW p \in Projects, EraseProject(p) PROVE ActiveIds' \subseteq ActiveIds
  <2>1. project' = [project EXCEPT ![p].status = "gone"]
        /\ \A i \in Ids : expense'[i] = Null \/ expense'[i] = expense[i]
    BY <1>2 DEF EraseProject
  <2>2. \A t : TargetExists(t)' => TargetExists(t)
    BY <1>2, <2>1 DEF EraseProject, TargetExists, Shaped, TypeOK, TablesTypeOK, Project
  <2> QED BY <2>1, <2>2 DEF ActiveIds
<1> QED BY <1>1, <1>2 DEF Administration, SetRetention, ChangePlan, PlanLapses, RevokeCredential, ChangeMember,
           ArchiveCategory, ActiveIds, TargetExists

LEMMA EditAddsNone ==
    ASSUME Shaped, NEW w \in Workers, CommitPatch(w) \/ CommitDelete(w)
    PROVE  ActiveIds' \subseteq ActiveIds
<1> DEFINE j == job[w]
<1>1. RowGuard(j) /\ project' = project
      /\ (ReviseExpense(j.id, j.body, j.category, j.row) \/ RemoveExpense(j.id, j.row))
    BY DEF CommitPatch, CommitDelete, ReviseExpense, RemoveExpense
<1>2. j.id \in Ids
    BY DEF CommitPatch, CommitDelete, Shaped, TypeOK, JobShape
<1> HIDE DEF j
<1>3. j.id \in ActiveIds
    BY <1>1, <1>2 DEF RowGuard, ActiveIds
<1>4. \A i \in Ids \ {j.id} : expense'[i] = expense[i]
    BY <1>1, <1>2 DEF ReviseExpense, RemoveExpense, Shaped, TypeOK, TablesTypeOK
<1> QED BY <1>1, <1>3, <1>4 DEF ActiveIds, TargetExists

LEMMA CreationAddsOne ==
    ASSUME Shaped, Dated, Informed, NEW w \in Workers, CommitPost(w),
           Cardinality(ActiveIds') > Cardinality(ActiveIds)
    PROVE  \E plan \in {user.plan, EffectivePlan} : Cardinality(ActiveIds') <= Cap[plan]
<1> DEFINE j == job[w]
<1>1. j \in Job /\ JobShape(j) /\ PlanRead(j)
    BY DEF Shaped, TypeOK, Informed
<1>2. j.pc = "ready" /\ j.method = "POST" /\ PostGuard(j) /\ Fits(j)
    BY DEF CommitPost
<1>3. PICK id \in Ids \ used :
          RecordExpense(Holder[j.cred], j.key, j.body, j.category, id, j.victim, j.lost)
    BY DEF CommitPost
<1> HIDE DEF j
<1>4. project' = project /\ expense' = [i \in Ids |-> IF i = id THEN NewRow(j.body, j.category)
                                                      ELSE RetiredRow(j.victim, i)]
    BY <1>3 DEF RecordExpense
<1>5. j.plan \in {user.plan, EffectivePlan} /\ Cap[j.plan] \in Nat
    BY <1>1, <1>2, StillInForce, PlanAssumption DEF PostGuard, JobShape
<1>7. CASE j.victim = Null
  <2>1. ActiveIds' \subseteq ActiveIds \cup {id}
    BY <1>4, <1>7, NullAssumption DEF ActiveIds, TargetExists, RetiredRow
  <2>2. IsFiniteSet(ActiveIds \cup {id}) /\ Cardinality(ActiveIds \cup {id}) <= Cardinality(ActiveIds) + 1
        /\ Cardinality(ActiveIds \cup {id}) \in Nat
    BY FewIds, AtMostOneMore
  <2>3. Cardinality(ActiveIds') <= Cardinality(ActiveIds \cup {id}) /\ Cardinality(ActiveIds') \in Nat
    BY <2>1, <2>2, FS_Subset, FS_CardinalityType
  <2>4. Cardinality(ActiveIds) + 1 <= Cap[j.plan]
    BY <1>2, <1>7 DEF Fits, CountAfter
  <2>5. Cardinality(ActiveIds') <= Cap[j.plan]
    BY <1>5, <2>2, <2>3, <2>4, FewIds
  <2> QED BY <1>5, <2>5
<1>8. CASE j.victim # Null
  <2> DEFINE v == j.victim
  <2>1. v \in ActiveIds /\ expense[v] \in Row /\ v # id
    BY <1>2, <1>8 DEF PostGuard, RetirementGuard, IsOldest, ActiveIds, Shaped, TypeOK, TablesTypeOK, Dated, Stored
  <2>2. ActiveIds' \subseteq (ActiveIds \ {v}) \cup {id}
    <3>1. v \notin ActiveIds'
      BY <1>4, <2>1 DEF ActiveIds, RetiredRow, Removed, Row
    <3>2. \A i \in Ids : i # v /\ i # id => expense'[i] = expense[i]
      BY <1>4 DEF RetiredRow
    <3> QED BY <1>4, <3>1, <3>2 DEF ActiveIds, TargetExists
  <2>3. IsFiniteSet(ActiveIds \ {v}) /\ Cardinality(ActiveIds \ {v}) = Cardinality(ActiveIds) - 1
    BY <2>1, FewIds, FS_RemoveElement
  <2>4. IsFiniteSet((ActiveIds \ {v}) \cup {id})
        /\ Cardinality((ActiveIds \ {v}) \cup {id}) <= Cardinality(ActiveIds \ {v}) + 1
    BY <2>3, AtMostOneMore
  <2>5. Cardinality(ActiveIds') <= Cardinality((ActiveIds \ {v}) \cup {id}) /\ Cardinality(ActiveIds') \in Nat
        /\ Cardinality((ActiveIds \ {v}) \cup {id}) \in Nat
    BY <2>2, <2>4, FS_Subset, FS_CardinalityType
  <2> QED BY <2>3, <2>4, <2>5, FewIds
<1> QED BY <1>7, <1>8

(* However many creations found room together, and whether the owner lets the *)
(* oldest record go or not, active records only grow within a plan in force. *)
THEOREM StaysWithinLimit == Spec => NeverGrowsPastLimit
<1> DEFINE Within ==
        Cardinality(ActiveIds') > Cardinality(ActiveIds) =>
            \E plan \in {user.plan, EffectivePlan} : Cardinality(ActiveIds') <= Cap[plan]
<1>1. Shaped /\ Dated /\ Informed /\ [Next]_vars => Within
  <2> SUFFICES ASSUME Shaped, Dated, Informed, [Next]_vars PROVE Within
    OBVIOUS
  <2>1. ASSUME ActiveIds' \subseteq ActiveIds PROVE Within
    <3>1. IsFiniteSet(ActiveIds') /\ Cardinality(ActiveIds') \in Nat
      BY <2>1, FewIds, FS_Subset, FS_CardinalityType
    <3> QED BY <2>1, <3>1, FewerActive, FewIds
  <2>2. ASSUME UNCHANGED tables PROVE ActiveIds' \subseteq ActiveIds
    BY <2>2 DEF tables, ActiveIds, TargetExists
  <2>3. CASE Administration
    BY <2>1, <2>3, AdministrationAddsNone
  <2>4. ASSUME NEW w \in Workers, Step(w) PROVE Within
    <3>1. CASE CommitPost(w)
      BY <3>1, CreationAddsOne
    <3>2. CASE CommitPatch(w) \/ CommitDelete(w)
      BY <2>1, <3>2, EditAddsNone
    <3>3. CASE Receive(w)
      BY <2>1, <2>2, <3>3 DEF Receive, ReceivePost, ReplayPost, ReceivePatch, ReceiveDelete
    <3>4. CASE \/ Validate(w) \/ CountRecords(w) \/ ChooseVictim(w) \/ AbortPost(w)
               \/ ReplayAfterAbort(w) \/ Abandon(w)
      BY <2>1, <2>2, <3>4 DEF Validate, CountRecords, ChooseVictim, AbortPost, ReplayAfterAbort, Abandon
    <3> QED BY <2>4, <3>1, <3>2, <3>3, <3>4 DEF Step
  <2>5. CASE UNCHANGED vars
    BY <2>1, <2>2, <2>5 DEF vars
  <2> QED BY <2>3, <2>4, <2>5 DEF Next
<1> QED BY <1>1, InformedInvariant, PTL DEF Spec, NeverGrowsPastLimit

-----------------------------------------------------------------------------
(* The audit trail. AuditChain row by row, of given events and a given row.   *)

Erased == \E p \in Projects : project[p].status = "gone"

Trail(i, log, row, gaps) ==
    /\ \A e, f \in log : e.id = i /\ f.id = i /\ Number(e) = Number(f) => e = f
    /\ \A e, f \in log : e.id = i /\ f.id = i /\ Number(f) = Number(e) + 1 => f.before = e.after
    /\ \A e \in log : e.id = i => Number(e) <= row.rev
    /\ \A e \in log : e.id = i /\ Number(e) = row.rev => e.after = IF row.deleted THEN Null ELSE row
    /\ (\A n \in 1..row.rev : \E e \in log : e.id = i /\ Number(e) = n) \/ gaps

LEMMA ChainOfTrails == AuditChain <=> \A i \in Ids : expense[i] # Null => Trail(i, events, expense[i], Erased)
BY DEF AuditChain, Trail, Erased

LEMMA NumberType == \A e \in Event : Number(e) \in Nat
BY DEF Number, Event, Row

(* Erasure leaves gaps, and breaks nothing else.                             *)
LEMMA TrailThins ==
    ASSUME NEW i, NEW log, NEW rest \in SUBSET log, NEW row, NEW gaps, Trail(i, log, row, gaps)
    PROVE  Trail(i, rest, row, TRUE)
BY DEF Trail

LEMMA TrailStays ==
    ASSUME NEW i, NEW log, NEW more, \A e \in more : e.id # i,
           NEW row, NEW gaps, Trail(i, log, row, gaps)
    PROVE  Trail(i, log \cup more, row, gaps)
BY DEF Trail

LEMMA TrailStarts ==
    ASSUME NEW i, NEW log, \A e \in log : e.id # i, NEW row \in Row, row.rev = 1, ~row.deleted, NEW gaps
    PROVE  Trail(i, log \cup {[id |-> i, before |-> Null, after |-> row]}, row, gaps)
<1> DEFINE new == [id |-> i, before |-> Null, after |-> row]
<1>1. Number(new) = 1 /\ new.id = i /\ new.after = row
    BY DEF Number
<1> HIDE DEF new
<1>2. Trail(i, log \cup {new}, row, gaps)
    BY <1>1 DEF Trail
<1> QED BY <1>2 DEF new

LEMMA TrailGrows ==
    ASSUME NEW i \in Ids, NEW log \in SUBSET Event, NEW row \in Row, ~row.deleted, NEW gaps, Trail(i, log, row, gaps),
           NEW next \in Row, next.rev = row.rev + 1, NEW after, after = IF next.deleted THEN Null ELSE next
    PROVE  Trail(i, log \cup {[id |-> i, before |-> row, after |-> after]}, next, gaps)
<1> DEFINE new == [id |-> i, before |-> row, after |-> after]
<1>1. row.rev \in Nat /\ next.rev = row.rev + 1
    BY DEF Row
<1>2. Number(new) = row.rev + 1 /\ new.id = i /\ new.before = row /\ new.after = after
    BY NullAssumption DEF Number
<1>3. \A e \in log : Number(e) \in Nat /\ (e.id = i => Number(e) <= row.rev)
    BY NumberType DEF Trail
<1> HIDE DEF new
<1> DEFINE all == log \cup {new}
<1>4. ASSUME NEW e \in all, NEW f \in all, e.id = i, f.id = i, Number(e) = Number(f) PROVE e = f
    BY <1>1, <1>2, <1>3, <1>4 DEF Trail
<1>5. ASSUME NEW e \in all, NEW f \in all, e.id = i, f.id = i, Number(f) = Number(e) + 1
      PROVE  f.before = e.after
  <2>1. CASE e \in log /\ f \in log
    BY <1>5, <2>1 DEF Trail
  <2>2. CASE e \in log /\ f = new
    BY <1>1, <1>2, <1>3, <1>5, <2>2 DEF Trail
  <2>3. CASE e = new
    BY <1>1, <1>2, <1>3, <1>5, <2>3
  <2> QED BY <2>1, <2>2, <2>3
<1>6. ASSUME NEW e \in all, e.id = i
      PROVE  Number(e) <= next.rev /\ (Number(e) = next.rev => e.after = IF next.deleted THEN Null ELSE next)
    BY <1>1, <1>2, <1>3, <1>6
<1>7. ASSUME ~gaps, NEW n \in 1..next.rev PROVE \E e \in all : e.id = i /\ Number(e) = n
  <2>1. CASE n = row.rev + 1
    BY <1>2, <2>1
  <2>2. CASE n # row.rev + 1
    <3>1. n \in 1..row.rev
      BY <1>1, <1>7, <2>2
    <3> QED BY <1>7, <3>1 DEF Trail
  <2> QED BY <2>1, <2>2
<1>8. Trail(i, all, next, gaps)
    BY <1>4, <1>5, <1>6, <1>7 DEF Trail
<1> QED BY <1>8 DEF new

LEMMA AuditAdministration ==
    ASSUME Shaped, AuditChain, Administration
    PROVE  AuditChain'
<1>1. ASSUME expense' = expense, events' = events, Erased => Erased' PROVE AuditChain'
    BY <1>1 DEF AuditChain, Erased
<1>2. ASSUME NEW p \in Projects, EraseProject(p) PROVE AuditChain'
  <2>1. Erased'
    BY <1>2 DEF EraseProject, Erased, Shaped, TypeOK, TablesTypeOK
  <2>2. ASSUME NEW i \in Ids, expense'[i] # Null PROVE Trail(i, events, expense[i], Erased) /\ expense'[i] = expense[i]
    BY <1>2, <2>2, ChainOfTrails DEF EraseProject
  <2>3. events' \subseteq events
    BY <1>2 DEF EraseProject
  <2>4. ASSUME NEW i \in Ids, expense'[i] # Null PROVE Trail(i, events', expense'[i], TRUE)
    BY <2>2, <2>3, <2>4, TrailThins
  <2> QED BY <2>1, <2>4 DEF AuditChain, Trail, Erased
<1>3. ASSUME NEW p \in Projects, NEW status \in {"active", "archived"}, PatchProject(p, status) PROVE Erased => Erased'
    BY <1>3 DEF PatchProject, Erased, Shaped, TypeOK, TablesTypeOK
<1> QED BY <1>1, <1>2, <1>3 DEF Administration, SetRetention, ChangePlan, PlanLapses, RevokeCredential,
           ChangeMember, PatchProject, ArchiveCategory, Erased

(* One row takes one event and one revision; every other row keeps its trail.  *)
LEMMA AuditOne ==
    ASSUME Shaped, AuditChain, NEW id \in Ids, expense[id] \in Row, ~expense[id].deleted,
           NEW next \in Row, next.rev = expense[id].rev + 1,
           expense' = [expense EXCEPT ![id] = next], project' = project,
           events' = events \cup {[id |-> id, before |-> expense[id], after |-> IF next.deleted THEN Null ELSE next]}
    PROVE  AuditChain'
<1> DEFINE new == [id |-> id, before |-> expense[id], after |-> IF next.deleted THEN Null ELSE next]
<1>1. expense[id] # Null /\ events \subseteq Event
    BY NullAssumption DEF Shaped, TypeOK, TablesTypeOK
<1>2. \A i \in Ids : expense[i] # Null => Trail(i, events, expense[i], Erased)
    BY ChainOfTrails
<1>3. Trail(id, events \cup {new}, next, Erased)
    BY <1>1, <1>2, TrailGrows
<1>4. new.id = id /\ events' = events \cup {new}
    OBVIOUS
<1> HIDE DEF new
<1>5. ASSUME NEW i \in Ids, i # id, expense[i] # Null PROVE Trail(i, events \cup {new}, expense[i], Erased)
  <2>1. \A e \in {new} : e.id # i
    BY <1>4, <1>5
  <2> QED BY <1>2, <1>5, <2>1, TrailStays
<1>6. \A i \in Ids : expense'[i] = IF i = id THEN next ELSE expense[i]
    BY DEF Shaped, TypeOK, TablesTypeOK
<1>7. Erased' = Erased
    BY DEF Erased
<1>8. ASSUME NEW i \in Ids, expense'[i] # Null PROVE Trail(i, events', expense'[i], Erased')
    BY <1>3, <1>4, <1>5, <1>6, <1>7, <1>8
<1> QED BY <1>8 DEF AuditChain, Trail, Erased

LEMMA AuditRevise ==
    ASSUME Shaped, Dated, AuditChain, NEW w \in Workers, CommitPatch(w) \/ CommitDelete(w)
    PROVE  AuditChain'
<1> DEFINE j == job[w]
<1>1. j \in Job /\ JobShape(j)
    BY DEF Shaped, TypeOK
<1>2. expense[j.id] = j.row /\ j.id \in Ids /\ j.row \in Row
    BY ImageIsRow DEF CommitPatch, CommitDelete
<1>3. j.pc = "ready" /\ RowGuard(j)
    BY DEF CommitPatch, CommitDelete
<1>4. CASE CommitPatch(w)
  <2>1. j.method = "PATCH" /\ ReviseExpense(j.id, j.body, j.category, j.row)
    BY <1>4 DEF CommitPatch
  <2> HIDE DEF j
  <2> DEFINE next == Edited(j.row, j.body, j.category)
  <2>2. j.body \in Body /\ j.category \in Categories
    BY <1>1, <1>3, <2>1 DEF JobShape
  <2>3. next \in Row /\ next.rev = j.row.rev + 1
    BY <1>2, <2>2, EditedType, EditedRevision
  <2>4. ~j.row.deleted /\ ~next.deleted
    BY <1>2, <1>3 DEF RowGuard, Edited, Row
  <2>5. /\ expense' = [expense EXCEPT ![j.id] = next] /\ project' = project
        /\ events' = events \cup {[id |-> j.id, before |-> j.row, after |-> next]}
    BY <1>2, <2>1 DEF ReviseExpense
  <2> HIDE DEF next
  <2> QED BY <1>2, <2>3, <2>4, <2>5, AuditOne
<1>5. CASE CommitDelete(w)
  <2>1. RemoveExpense(j.id, j.row)
    BY <1>5 DEF CommitDelete
  <2> HIDE DEF j
  <2> DEFINE next == Removed(j.row)
  <2>2. next \in Row /\ next.rev = j.row.rev + 1
    BY <1>2, RemovedType, RemovedRevision
  <2>3. ~j.row.deleted /\ next.deleted
    BY <1>2, <1>3 DEF RowGuard, Removed, Row
  <2>4. /\ expense' = [expense EXCEPT ![j.id] = next] /\ project' = project
        /\ events' = events \cup {[id |-> j.id, before |-> j.row, after |-> Null]}
    BY <1>2, <2>1 DEF RemoveExpense
  <2> HIDE DEF next
  <2> QED BY <1>2, <2>2, <2>3, <2>4, AuditOne
<1> QED BY <1>4, <1>5

LEMMA AuditRecord ==
    ASSUME Shaped, Dated, ErasureComplete, AuditChain, NEW w \in Workers, CommitPost(w)
    PROVE  AuditChain'
<1> DEFINE j == job[w]
<1>1. j \in Job /\ JobShape(j) /\ TablesTypeOK /\ Seen(j.lost, j.victim) /\ Stored
    BY DEF Shaped, TypeOK, Dated
<1>2. j.pc = "ready" /\ j.method = "POST" /\ PostGuard(j)
    BY DEF CommitPost
<1>3. PICK id \in Ids \ used :
          RecordExpense(Holder[j.cred], j.key, j.body, j.category, id, j.victim, j.lost)
    BY DEF CommitPost
<1> HIDE DEF j
<1> DEFINE row == NewRow(j.body, j.category)
           first == [id |-> id, before |-> Null, after |-> row]
           v == j.victim
           last == [id |-> v, before |-> j.lost, after |-> Null]
           more == IF v = Null THEN {} ELSE {last}
<1>4. row \in Row /\ row.rev = 1 /\ ~row.deleted
    BY <1>1, <1>2, NewRowType DEF JobShape, NewRow
<1>5. /\ project' = project
      /\ expense' = [i \in Ids |-> IF i = id THEN row ELSE RetiredRow(v, i)]
      /\ events' = (events \cup more) \cup {first}
    BY <1>3 DEF RecordExpense, RetireEvent
<1>6. expense[id] = Null /\ \A e \in events : e.id # id
    BY <1>1 DEF Stored, ErasureComplete
<1>7. v # Null => /\ v \in Ids /\ v # id /\ expense[v] = j.lost /\ j.lost \in Row /\ ~j.lost.deleted
  <2> SUFFICES ASSUME v # Null PROVE v \in Ids /\ v # id /\ expense[v] = j.lost /\ j.lost \in Row /\ ~j.lost.deleted
    OBVIOUS
  <2>1. v \in ActiveIds /\ expense[v].rev = j.lost.rev
    BY <1>2 DEF PostGuard, RetirementGuard, IsOldest
  <2>2. j.lost \in Row
    BY <1>1 DEF JobShape
  <2> QED BY <1>1, <1>6, <2>1, <2>2, NullAssumption DEF ActiveIds, Seen, Coherent
<1>8. first.id = id /\ last.id = v /\ \A e \in more : e = last
    OBVIOUS
<1>9. events \subseteq Event /\ \A i \in Ids : expense[i] # Null => Trail(i, events, expense[i], Erased)
    BY <1>1, ChainOfTrails DEF TablesTypeOK
<1>10. Erased' = Erased
    BY <1>5 DEF Erased
<1>11. Trail(id, (events \cup more) \cup {first}, row, Erased)
  <2>1. \A e \in events \cup more : e.id # id
    BY <1>6, <1>7, <1>8
  <2> HIDE DEF row, more
  <2> QED BY <1>4, <2>1, TrailStarts
<1>12. ASSUME NEW i \in Ids, i # id, i # v, expense[i] # Null
       PROVE  Trail(i, (events \cup more) \cup {first}, expense[i], Erased)
  <2>1. (\A e \in more : e.id # i) /\ (\A e \in {first} : e.id # i)
    BY <1>8, <1>12
  <2> HIDE DEF more, first
  <2>2. Trail(i, events, expense[i], Erased)
    BY <1>9, <1>12
  <2>3. Trail(i, events \cup more, expense[i], Erased)
    BY <2>1, <2>2, TrailStays
  <2> QED BY <2>1, <2>3, TrailStays
<1>13. v # Null => Trail(v, (events \cup more) \cup {first}, Removed(j.lost), Erased)
  <2> SUFFICES ASSUME v # Null PROVE Trail(v, (events \cup more) \cup {first}, Removed(j.lost), Erased)
    OBVIOUS
  <2>1. Trail(v, events, j.lost, Erased)
    BY <1>7, <1>9, NullAssumption
  <2>2. Removed(j.lost) \in Row /\ Removed(j.lost).rev = j.lost.rev + 1 /\ Removed(j.lost).deleted
    BY <1>7, RemovedType, RemovedRevision DEF Removed, Row
  <2>3. Trail(v, events \cup {last}, Removed(j.lost), Erased)
    BY <1>7, <1>9, <2>1, <2>2, TrailGrows
  <2>4. \A e \in {first} : e.id # v
    BY <1>7, <1>8
  <2> HIDE DEF first, last
  <2> QED BY <2>3, <2>4, TrailStays
<1> HIDE DEF row, first, more
<1>14. ASSUME NEW i \in Ids, expense'[i] # Null PROVE Trail(i, events', expense'[i], Erased')
  <2>1. CASE i = id
    BY <1>5, <1>10, <1>11, <2>1
  <2>2. CASE i # id /\ i = v
    BY <1>5, <1>7, <1>10, <1>13, <2>2, NullAssumption DEF RetiredRow
  <2>3. CASE i # id /\ i # v
    BY <1>5, <1>10, <1>12, <1>14, <2>3 DEF RetiredRow
  <2> QED BY <2>1, <2>2, <2>3
<1> QED BY <1>14 DEF AuditChain, Trail, Erased

(* The audit trail is the history of every stored row, retired and moved ones *)
(* included: an image a request read long before its batch is still the row.  *)
THEOREM AuditIsComplete == Spec => []AuditChain
<1>1. Init => AuditChain
    BY DEF Init, TablesInit, AuditChain
<1>2. Shaped /\ Dated /\ ErasureComplete /\ AuditChain /\ [Next]_vars => AuditChain'
  <2> SUFFICES ASSUME Shaped, Dated, ErasureComplete, AuditChain, [Next]_vars PROVE AuditChain'
    OBVIOUS
  <2>1. CASE UNCHANGED tables
    BY <2>1 DEF tables, AuditChain
  <2>2. CASE Administration
    BY <2>2, AuditAdministration
  <2>3. ASSUME NEW w \in Workers, Step(w) PROVE AuditChain'
    <3>1. CASE CommitPost(w)
      BY <3>1, AuditRecord
    <3>2. CASE CommitPatch(w) \/ CommitDelete(w)
      BY <3>2, AuditRevise
    <3>3. CASE Receive(w)
      BY <2>1, <3>3 DEF Receive, ReceivePost, ReplayPost, ReceivePatch, ReceiveDelete
    <3>4. CASE \/ Validate(w) \/ CountRecords(w) \/ ChooseVictim(w) \/ AbortPost(w)
               \/ ReplayAfterAbort(w) \/ Abandon(w)
      BY <2>1, <3>4 DEF Validate, CountRecords, ChooseVictim, AbortPost, ReplayAfterAbort, Abandon
    <3> QED BY <2>3, <3>1, <3>2, <3>3, <3>4 DEF Step
  <2>4. CASE UNCHANGED vars
    BY <2>1, <2>4 DEF vars
  <2> QED BY <2>2, <2>3, <2>4 DEF Next
<1> QED BY <1>1, <1>2, InformedInvariant, ErasureIsComplete, PTL DEF Spec
=============================================================================
