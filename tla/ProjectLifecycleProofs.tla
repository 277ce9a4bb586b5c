----------------------- MODULE ProjectLifecycleProofs -----------------------
(***************************************************************************)
(* Theorems about the projects and the usage row of one account, for every  *)
(* set of projects, repositories and concurrent requests, every plan and    *)
(* every length of a month. The invariant says how the usage row sums up    *)
(* the batches behind it, and what a request still knows of the project it  *)
(* read.                                                                    *)
(***************************************************************************)
EXTENDS ProjectLifecycle, FiniteSetTheorems, TLAPS

(* The usage row sums up the batches of its minute and month, and nothing was *)
(* charged to a later one.                                                  *)
Sums ==
    /\ usage.minute \in Minutes /\ usage.minute <= clock /\ usage.month = MonthOf(usage.minute)
    /\ \A m \in Minutes : m > usage.minute => charged[m] = 0
    /\ \A k \in Months : k > usage.month => reserved[k] = 0
    /\ usage.minuteWrites = charged[usage.minute]
    /\ usage.writes = Total(charged, usage.month)
    /\ usage.jev = reserved[usage.month] * JevCost
    /\ usage.projects = projects /\ usage.records = records

Unused == (\A m \in Minutes : charged[m] = 0) /\ (\A k \in Months : reserved[k] = 0)

PlanInv ==
    /\ PlanTypeOK
    /\ \A w \in Workers : job[w].now <= clock
    /\ usage = Null => Unused
    /\ usage # Null => Sums
    /\ \A k \in Months : IsFiniteSet(BatchesIn(charged, k))

(* The active expenses one by one: each pool's are numbered.                *)
Held == {e \in Pools \X (1..MaxHeld) : e[2] <= held[e[1]]}

(* A repository has one home, and only a project there is has repositories. *)
OneHome ==
    /\ \A b \in bound : b[1] \in Live
    /\ \A b, c \in bound : b[2] = c[2] => b = c

KindOf(op) ==
    CASE op = "create" -> "project"
      [] op \in {"patch", "erase"} -> "edit"
      [] op = "record" -> "expense"
      [] OTHER -> "remove"

AskShape(w) == LET a == ask[w] IN
    /\ a.op = "none" <=> job[w].pc = "idle"
    /\ a.op # "none" => job[w].kind = KindOf(a.op)
    /\ a.op \in {"create", "patch", "erase"} => a.id \in Ids
    /\ a.op = "create" =>
         /\ a.links # Keep /\ a.id \notin Live \cup gone
         /\ \A v \in Workers \ {w} : ask[v].op = "create" => ask[v].id # a.id
    /\ a.op = "patch" =>
         /\ a.id \in Live \cup gone
         /\ a.id \in Live => a.rev <= row[a.id].rev /\ (a.rev = row[a.id].rev => a.had = Bound(a.id))

Counted == IsFiniteSet(Held) /\ Cardinality(Held) = records

LifeInv ==
    /\ PlanInv
    /\ LifeConsistent
    /\ OneHome
    /\ Counted
    /\ usage = Null => Live = {}
    /\ \A w \in Workers : AskShape(w)

-----------------------------------------------------------------------------
(* Months, and the batches charged to them.                                 *)

LEMMA MonthIsNat == \A t \in Nat : MonthOf(t) \in Nat
<1>1. \A a \in Nat, b \in Nat \ {0} : a \div b \in Nat
    OBVIOUS
<1> QED BY <1>1, PlanAssumption DEF MonthOf

LEMMA MonthGrows == \A s, t \in Nat : s <= t => MonthOf(s) <= MonthOf(t)
<1>1. MinutesPerMonth \in Nat \ {0}
    BY PlanAssumption
<1>2. ASSUME NEW s \in Nat, NEW t \in Nat, s <= t, NEW d \in Nat \ {0}
      PROVE  s \div d <= t \div d
  <2> DEFINE p == s \div d
             q == t \div d
  <2>1. p \in Nat /\ q \in Nat /\ s % d \in Nat /\ t % d \in Nat /\ t % d < d
    OBVIOUS
  <2>2. s = d * p + (s % d) /\ t = d * q + (t % d)
    OBVIOUS
  <2> HIDE DEF p, q
  <2>3. ASSUME q < p PROVE FALSE
    <3>1. q + 1 <= p
      BY <2>1, <2>3
    <3>2. d * (q + 1) <= d * p
      BY <2>1, <3>1, SMTT(30)
    <3>3. d * (q + 1) = d * q + d
      BY <2>1
    <3>4. d * p \in Nat /\ d * q \in Nat
      BY <2>1
    <3> QED BY <1>2, <2>1, <2>2, <3>2, <3>3, <3>4
  <2>4. p <= q
    BY <2>1, <2>3
  <2> QED BY <2>4 DEF p, q
<1> QED BY <1>1, <1>2 DEF MonthOf

LEMMA BatchesAre ==
    \A f, k : \A e : e \in BatchesIn(f, k) <=>
        e[1] \in Minutes /\ MonthOf(e[1]) = k /\ e[2] \in 1..f[e[1]] /\ e = <<e[1], e[2]>>
BY DEF BatchesIn

(* One batch more is one element more of its month.                         *)
LEMMA OneBatchMore ==
    ASSUME NEW f \in [Minutes -> Nat], NEW m \in Minutes, NEW d \in {0, 1},
           \A k \in Months : IsFiniteSet(BatchesIn(f, k)),
           NEW g \in [Minutes -> Nat], g[m] = f[m] + d, \A n \in Minutes \ {m} : g[n] = f[n]
    PROVE  /\ \A k \in Months : /\ IsFiniteSet(BatchesIn(g, k))
                                /\ Total(g, k) = Total(f, k) + IF k = MonthOf(m) THEN d ELSE 0
<1>1. g[m] = f[m] + d /\ \A n \in Minutes \ {m} : g[n] = f[n]
    OBVIOUS
<1>2. f[m] \in Nat
    OBVIOUS
<1>3. ASSUME NEW k \in Months
      PROVE  IsFiniteSet(BatchesIn(g, k)) /\ Total(g, k) = Total(f, k) + IF k = MonthOf(m) THEN d ELSE 0
  <2>0. IsFiniteSet(BatchesIn(f, k)) /\ Cardinality(BatchesIn(f, k)) \in Nat
    BY FS_CardinalityType
  <2>1. CASE d = 0 \/ k # MonthOf(m)
    <3>1. \A n \in Minutes : MonthOf(n) = k => g[n] = f[n]
      BY <1>1, <1>2, <2>1
    <3>2. ASSUME NEW e PROVE e \in BatchesIn(g, k) <=> e \in BatchesIn(f, k)
      BY <3>1, BatchesAre
    <3>3. BatchesIn(g, k) = BatchesIn(f, k)
      BY <3>2
    <3> QED BY <2>0, <2>1, <3>3 DEF Total
  <2>2. CASE d = 1 /\ k = MonthOf(m)
    <3> DEFINE x == <<m, f[m] + 1>>
    <3>1. x \notin BatchesIn(f, k)
      BY <1>2, BatchesAre
    <3>2. ASSUME NEW e PROVE e \in BatchesIn(g, k) <=> e \in BatchesIn(f, k) \/ e = x
      <4>1. CASE e[1] = m
        <5>1. e[2] \in 1..g[m] <=> e[2] \in 1..f[m] \/ e[2] = f[m] + 1
          BY <1>1, <1>2, <2>2
        <5>2. e \in BatchesIn(g, k) <=> e[2] \in 1..g[m] /\ e = <<m, e[2]>>
          BY <2>2, <4>1, BatchesAre
        <5>3. e \in BatchesIn(f, k) <=> e[2] \in 1..f[m] /\ e = <<m, e[2]>>
          BY <2>2, <4>1, BatchesAre
        <5> QED BY <5>1, <5>2, <5>3
      <4>2. CASE e[1] # m
        <5>1. e # x
          BY <4>2
        <5>2. e[1] \in Minutes => g[e[1]] = f[e[1]]
          BY <1>1, <4>2
        <5> QED BY <5>1, <5>2, BatchesAre
      <4> QED BY <4>1, <4>2
    <3>3. BatchesIn(g, k) = BatchesIn(f, k) \cup {x}
      BY <3>2
    <3> HIDE DEF x
    <3>4. IsFiniteSet(BatchesIn(g, k)) /\ Cardinality(BatchesIn(g, k)) = Cardinality(BatchesIn(f, k)) + 1
      BY <2>0, <3>1, <3>3, FS_AddElement
    <3> QED BY <2>2, <3>4 DEF Total
  <2> QED BY <2>1, <2>2
<1> QED BY <1>1, <1>3

LEMMA NoBatches ==
    ASSUME NEW f \in [Minutes -> Nat], NEW k, \A m \in Minutes : MonthOf(m) = k => f[m] = 0
    PROVE  BatchesIn(f, k) = {} /\ Total(f, k) = 0
<1>1. \A e : e \notin BatchesIn(f, k)
    BY BatchesAre
<1>2. BatchesIn(f, k) = {}
    BY <1>1
<1> QED BY <1>2, FS_EmptySet DEF Total

-----------------------------------------------------------------------------
(* The usage row.                                                           *)

LEMMA PlanTypes ==
    ASSUME PlanTypeOK
    PROVE  /\ clock \in Nat /\ Minutes \subseteq Nat /\ \A m \in Minutes : MonthOf(m) \in Months /\ MonthOf(m) \in Nat
           /\ usage # Null =>
                /\ usage \in Usage /\ usage.minute \in Nat /\ usage.month \in Nat /\ usage.writes \in Nat
                /\ usage.minuteWrites \in Nat /\ usage.jev \in Nat
           /\ Months \subseteq Nat
BY MonthIsNat, PlanAssumption DEF PlanTypeOK, Usage, Minutes, Months

LEMMA JobTypes ==
    ASSUME PlanTypeOK, NEW w \in Workers
    PROVE  /\ job[w] \in Job /\ job[w].now \in Minutes /\ job[w].now \in Nat /\ job[w].kind \in Kinds
           /\ job[w].account \in Account
BY PlanTypes DEF PlanTypeOK, Job

LEMMA IdleJob == Idle \in Job /\ Idle.now = 0 /\ Idle.pc = "idle"
BY PlanAssumption DEF Idle, Job, Kinds, Account, Minutes

(* Steps that leave the usage row and what was charged alone.               *)
LEMMA Uncharged ==
    ASSUME PlanInv, UNCHANGED <<usage, projects, records, history>>, account' \in Account,
           clock' \in Minutes, clock <= clock', job' \in [Workers -> Job], \A w \in Workers : job'[w].now <= clock'
    PROVE  PlanInv'
<1>1. PlanTypeOK'
    BY DEF PlanInv, PlanTypeOK, history
<1>2. UNCHANGED <<usage, projects, records, charged, reserved>>
    BY DEF history
<1>3. usage # Null => Sums'
  <2>1. usage # Null => usage.minute <= clock'
    <3>1. clock \in Nat /\ clock' \in Nat /\ (usage # Null => usage.minute \in Nat /\ usage.minute <= clock)
      BY PlanTypes DEF PlanInv, Sums, PlanTypeOK, Minutes
    <3> QED BY <3>1
  <2>2. \A f, k : Total(f, k)' = Total(f, k)
    BY DEF Total, BatchesIn
  <2> QED BY <1>2, <2>1 DEF PlanInv, Sums, Total, BatchesIn
<1>4. Unused => Unused'
    BY <1>2 DEF Unused
<1>5. (\A k \in Months : IsFiniteSet(BatchesIn(charged, k)))'
    BY <1>2 DEF PlanInv, BatchesIn
<1> QED BY <1>1, <1>2, <1>3, <1>4, <1>5 DEF PlanInv

LEMMA JobStep ==
    ASSUME PlanInv, NEW w \in Workers, NEW k \in Job, k.now <= clock, job' = [job EXCEPT ![w] = k],
           UNCHANGED <<tables, clock, history>>
    PROVE  PlanInv'
<1>1. job' \in [Workers -> Job] /\ \A v \in Workers : job'[v].now <= clock'
    BY DEF PlanInv, PlanTypeOK
<1>2. account' \in Account /\ clock' \in Minutes /\ clock <= clock'
    BY PlanTypes DEF PlanInv, PlanTypeOK, tables
<1> QED BY <1>1, <1>2, Uncharged DEF tables

LEMMA ReceiveKeeps == ASSUME PlanInv, NEW w \in Workers, NEW kind \in Kinds, Receive(w, kind) PROVE PlanInv'
<1> DEFINE k == [Idle EXCEPT !.pc = "read", !.kind = kind, !.now = clock, !.account = account]
<1>1. job' = [job EXCEPT ![w] = k] /\ UNCHANGED <<tables, clock, history>>
    BY DEF Receive
<1>2. k \in Job /\ k.now = clock
    BY IdleJob DEF PlanInv, PlanTypeOK, Job
<1> HIDE DEF k
<1>3. k.now <= clock
    BY <1>2, PlanTypes DEF PlanInv
<1> QED BY <1>1, <1>2, <1>3, JobStep

LEMMA SeenIsNat ==
    ASSUME PlanTypeOK, NEW j, NEW window PROVE SeenIn(j, window) \in Nat
BY PlanTypes DEF SeenIn

LEMMA InspectKeeps == ASSUME PlanInv, NEW w \in Workers, Inspect(w) PROVE PlanInv'
<1> DEFINE j == job[w]
           a == SeenIn(j, "minute")
           b == SeenIn(j, "month")
           k == [j EXCEPT !.pc = "priced", !.minuteSeen = a, !.monthSeen = b]
<1>0. PlanTypeOK /\ j \in Job /\ j.now <= clock
    BY JobTypes DEF PlanInv
<1>1. job' = [job EXCEPT ![w] = k] /\ UNCHANGED <<tables, clock, history>>
    BY DEF Inspect, PlanTypeOK
<1>2. a \in Nat /\ b \in Nat
    BY <1>0, SeenIsNat
<1> HIDE DEF j, a, b
<1>3. k \in Job /\ k.now = j.now
    BY <1>0, <1>2 DEF Job
<1> HIDE DEF k
<1> QED BY <1>0, <1>1, <1>3, JobStep

LEMMA AbandonKeeps == ASSUME PlanInv, NEW w \in Workers, Abandon(w) PROVE PlanInv'
<1>1. clock \in Nat
    BY PlanTypes DEF PlanInv
<1>2. Idle.now <= clock
    BY <1>1, IdleJob
<1> QED BY <1>2, IdleJob, JobStep DEF Abandon

LEMMA EnvironmentKeeps == ASSUME PlanInv, Environment PROVE PlanInv'
<1>0. /\ PlanTypeOK /\ clock \in Nat /\ MaxMinute \in Nat
    BY PlanTypes, PlanAssumption DEF PlanInv
<1>1. \A w \in Workers : job[w].now \in Nat
    BY <1>0, JobTypes
<1>2. CASE UNCHANGED <<usage, projects, records, clock, job, history>> /\ account' \in Account
    BY <1>0, <1>2, Uncharged DEF PlanInv, PlanTypeOK
<1>3. CASE \E until \in Ends \ {account.until} : ChangePlan(until)
    BY <1>0, <1>2, <1>3, PlanAssumption DEF ChangePlan, Account, PlanTypeOK
<1>4. CASE \E enabled \in BOOLEAN : SetJev(enabled)
    BY <1>0, <1>2, <1>4 DEF SetJev, Account, PlanTypeOK
<1>5. CASE Tick
  <2>1. clock' \in Minutes /\ clock <= clock' /\ UNCHANGED <<tables, job, history>>
    BY <1>0, <1>5 DEF Tick, Minutes
  <2>2. \A w \in Workers : job[w].now <= clock /\ clock' = clock + 1
    BY <1>5 DEF Tick, PlanInv
  <2>3. \A w \in Workers : job'[w].now <= clock'
    BY <1>0, <1>1, <2>1, <2>2
  <2> QED BY <1>0, <2>1, <2>3, Uncharged DEF tables, PlanTypeOK
<1> QED BY <1>3, <1>4, <1>5 DEF Environment

-----------------------------------------------------------------------------
(* What any batch does to the counters: d writes and e reserved calls, at the *)
(* time its request arrived.                                                *)

LEMMA ChargeKeeps ==
    ASSUME PlanInv, NEW w \in Workers, NEW t \in Minutes, t = job[w].now, NEW d \in {0, 1}, NEW e \in {0, 1},
           NEW new \in Usage, usage' = new, ClockFence(job[w], new),
           new.month = MonthOf(t), new.minute = t,
           new.writes = (IF usage # Null /\ usage.month = MonthOf(t) THEN usage.writes ELSE 0) + d,
           new.minuteWrites = (IF usage # Null /\ usage.minute = t THEN usage.minuteWrites ELSE 0) + d,
           new.jev = (IF usage # Null /\ usage.month = MonthOf(t) THEN usage.jev ELSE 0) + e * JevCost,
           charged' = [charged EXCEPT ![t] = @ + d],
           reserved' = [reserved EXCEPT ![MonthOf(t)] = @ + e],
           projects' \in Nat, records' \in Nat, new.projects = projects', new.records = records',
           job' = [job EXCEPT ![w] = Idle], UNCHANGED <<account, clock>>
    PROVE  PlanInv' /\ usage' # Null
<1> DEFINE M == MonthOf(t)
<1>0. /\ PlanTypeOK /\ clock \in Nat /\ t \in Nat /\ t <= clock /\ M \in Months /\ M \in Nat
      /\ Months \subseteq Nat /\ Minutes \subseteq Nat /\ charged \in [Minutes -> Nat] /\ reserved \in [Months -> Nat]
    BY PlanTypes DEF PlanInv, PlanTypeOK
<1>1. new # Null
    BY UsageAssumption
<1>2. usage # Null => Sums /\ usage.minute <= t /\ usage.month <= M /\ usage.minute \in Nat /\ usage.month \in Nat
                      /\ usage.month \in Months
    BY <1>0, PlanTypes DEF PlanInv, ClockFence, Sums
<1>3. usage = Null => Unused
    BY DEF PlanInv
<1>4. /\ charged' \in [Minutes -> Nat] /\ \A k \in Months : IsFiniteSet(BatchesIn(charged', k))
      /\ Total(charged', M) = Total(charged, M) + d
  <2>1. \A k \in Months : IsFiniteSet(BatchesIn(charged, k))
    BY DEF PlanInv
  <2>2. /\ charged' \in [Minutes -> Nat] /\ charged'[t] = charged[t] + d
        /\ \A n \in Minutes \ {t} : charged'[n] = charged[n]
    BY <1>0
  <2>3. ASSUME NEW f \in [Minutes -> Nat], NEW g \in [Minutes -> Nat], \A k \in Months : IsFiniteSet(BatchesIn(f, k)),
               g[t] = f[t] + d, \A n \in Minutes \ {t} : g[n] = f[n], NEW k \in Months
        PROVE  IsFiniteSet(BatchesIn(g, k)) /\ Total(g, k) = Total(f, k) + IF k = MonthOf(t) THEN d ELSE 0
    <3> HIDE DEF M
    <3> QED BY <2>3, OneBatchMore
  <2>4. \A k \in Months : /\ IsFiniteSet(BatchesIn(charged', k))
                          /\ Total(charged', k) = Total(charged, k) + IF k = MonthOf(t) THEN d ELSE 0
    BY <1>0, <2>1, <2>2, <2>3
  <2> QED BY <1>0, <2>2, <2>4
<1>5. reserved' \in [Months -> Nat]
    BY <1>0
<1>6. job' \in [Workers -> Job] /\ \A v \in Workers : job'[v].now <= clock'
    BY <1>0, IdleJob DEF PlanInv, PlanTypeOK
<1>7. PlanTypeOK'
    BY <1>0, <1>4, <1>5, <1>6 DEF PlanTypeOK
<1>8. \A m \in Minutes : m > t => charged'[m] = 0
  <2>1. ASSUME NEW m \in Minutes, m > t PROVE charged'[m] = 0
    <3>1. m \in Nat /\ m # t /\ charged'[m] = charged[m]
      BY <1>0, <2>1
    <3>2. usage # Null => m > usage.minute
      BY <1>0, <1>2, <2>1, <3>1
    <3> QED BY <1>2, <1>3, <3>1, <3>2 DEF Sums, Unused
  <2> QED BY <2>1
<1>9. \A k \in Months : k > M => reserved'[k] = 0
  <2>1. ASSUME NEW k \in Months, k > M PROVE reserved'[k] = 0
    <3>1. k \in Nat /\ k # M /\ reserved'[k] = reserved[k]
      BY <1>0, <2>1
    <3>2. usage # Null => k > usage.month
      BY <1>0, <1>2, <2>1, <3>1
    <3> QED BY <1>2, <1>3, <3>1, <3>2 DEF Sums, Unused
  <2> QED BY <2>1
<1>10. new.minuteWrites = charged'[t]
  <2>1. charged'[t] = charged[t] + d /\ charged[t] \in Nat
    BY <1>0
  <2>2. usage = Null => charged[t] = 0
    BY <1>3 DEF Unused
  <2>3. usage # Null /\ usage.minute # t => charged[t] = 0
    BY <1>0, <1>2 DEF Sums
  <2>4. usage # Null /\ usage.minute = t => usage.minuteWrites = charged[t]
    BY <1>2 DEF Sums
  <2> QED BY <2>1, <2>2, <2>3, <2>4
<1>11. new.writes = Total(charged', M)
  <2>1. ASSUME usage = Null \/ usage.month # M PROVE Total(charged, M) = 0
    <3>1. ASSUME NEW m \in Minutes, MonthOf(m) = M PROVE charged[m] = 0
      <4>1. CASE usage = Null
        BY <1>3, <4>1 DEF Unused
      <4>2. CASE usage # Null
        <5>1. m \in Nat /\ usage.minute \in Nat /\ MonthOf(usage.minute) = usage.month /\ usage.month < M
          <6>1. MonthOf(usage.minute) = usage.month
            BY <1>2, <4>2 DEF Sums
          <6>2. usage.month # M /\ usage.month <= M /\ usage.month \in Nat /\ M \in Nat
            BY <1>0, <1>2, <2>1, <4>2
          <6> HIDE DEF M
          <6>3. usage.month < M
            BY <6>2
          <6>4. m \in Nat /\ usage.minute \in Nat
            BY <1>0, <1>2, <4>2
          <6> QED BY <6>1, <6>3, <6>4
        <5>2. ~(m <= usage.minute)
          <6> SUFFICES ASSUME m <= usage.minute PROVE FALSE
            OBVIOUS
          <6>1. MonthOf(m) <= MonthOf(usage.minute)
            BY <5>1, MonthGrows
          <6>2. MonthOf(usage.minute) < MonthOf(m) /\ MonthOf(m) \in Nat /\ MonthOf(usage.minute) \in Nat
            BY <3>1, <5>1, MonthIsNat
          <6> QED BY <6>1, <6>2
        <5>3. m > usage.minute
          BY <5>1, <5>2
        <5> QED BY <1>2, <4>2, <5>3 DEF Sums
      <4> QED BY <4>1, <4>2
    <3> QED BY <1>0, <3>1, NoBatches
  <2>2. usage # Null /\ usage.month = M => usage.writes = Total(charged, M)
    BY <1>2 DEF Sums
  <2> QED BY <1>4, <2>1, <2>2
<1>12. new.jev = reserved'[M] * JevCost
  <2>0. JevCost \in Nat /\ reserved[M] \in Nat /\ reserved'[M] = reserved[M] + e
    BY <1>0, PlanAssumption
  <2>1. usage = Null => reserved[M] = 0
    BY <1>0, <1>3 DEF Unused
  <2>2. usage # Null /\ usage.month # M => reserved[M] = 0
    BY <1>0, <1>2 DEF Sums
  <2>3. usage # Null /\ usage.month = M => usage.jev = reserved[M] * JevCost
    BY <1>2 DEF Sums
  <2>4. \A a, b, c \in Nat : (a + b) * c = a * c + b * c
    OBVIOUS
  <2>5. (reserved[M] + e) * JevCost = reserved[M] * JevCost + e * JevCost
    BY <2>0, <2>4
  <2>6. 0 * JevCost = 0
    BY <2>0
  <2> QED BY <2>0, <2>1, <2>2, <2>3, <2>5, <2>6
<1>13. Sums'
  <2>1. \A k : Total(charged, k)' = Total(charged', k)
    BY DEF Total, BatchesIn
  <2> QED BY <1>0, <1>8, <1>9, <1>10, <1>11, <1>12, <2>1 DEF Sums
<1>14. (\A k \in Months : IsFiniteSet(BatchesIn(charged, k)))'
    BY <1>4 DEF BatchesIn
<1> QED BY <1>1, <1>6, <1>7, <1>13, <1>14 DEF PlanInv

LEMMA DeltaTypes ==
    ASSUME NEW j \in Job
    PROVE  /\ Write(j) \in {0, 1} /\ Adds(j, "reserve") \in {0, 1} /\ Adds(j, "project") \in {0, 1}
           /\ Adds(j, "expense") \in {0, 1} /\ Adds(j, "remove") \in {0, 1}
           /\ JevDelta(j) = Adds(j, "reserve") * JevCost /\ JevDelta(j) \in Nat
BY PlanAssumption DEF Write, Adds, JevDelta

LEMMA RecordsStay ==
    ASSUME PlanTypeOK, NEW j \in Job, DomainFence(j)
    PROVE  records + RecordDelta(j) \in Nat
BY DEF PlanTypeOK, DomainFence, RecordDelta, Adds

LEMMA CommitKeeps == ASSUME PlanInv, NEW w \in Workers, Commit(w) PROVE PlanInv' /\ usage' # Null
<1> DEFINE j == job[w]
           new == Upsert(j)
<1>0. PlanTypeOK /\ j \in Job /\ j.now \in Minutes /\ MonthOf(j.now) \in Nat /\ j.now \in Nat
    BY JobTypes, PlanTypes DEF PlanInv
<1>1. /\ DomainFence(j) /\ ClockFence(j, new) /\ usage' = new /\ projects' = projects + Adds(j, "project")
      /\ records' = records + RecordDelta(j) /\ charged' = [charged EXCEPT ![j.now] = @ + Write(j)]
      /\ reserved' = [reserved EXCEPT ![MonthOf(j.now)] = @ + Adds(j, "reserve")]
      /\ job' = [job EXCEPT ![w] = Idle] /\ UNCHANGED <<account, clock>>
    BY DEF Commit, Checks
<1>2. projects' \in Nat /\ records' \in Nat
    BY <1>0, <1>1, DeltaTypes, RecordsStay DEF PlanTypeOK
<1>3. /\ new.month = MonthOf(j.now) /\ new.minute = j.now
      /\ new.writes = (IF usage # Null /\ usage.month = MonthOf(j.now) THEN usage.writes ELSE 0) + Write(j)
      /\ new.minuteWrites = (IF usage # Null /\ usage.minute = j.now THEN usage.minuteWrites ELSE 0) + Write(j)
      /\ new.jev = (IF usage # Null /\ usage.month = MonthOf(j.now) THEN usage.jev ELSE 0) + Adds(j, "reserve") * JevCost
      /\ new.projects = (IF usage = Null THEN projects ELSE usage.projects) + Adds(j, "project")
      /\ new.records = records + RecordDelta(j)
    BY DEF Upsert, JevDelta
<1>4. new.projects = projects' /\ new.records = records'
    BY <1>1, <1>3 DEF PlanInv, Sums
<1>5. new \in Usage
  <2>1. new.writes \in Nat /\ new.minuteWrites \in Nat /\ new.jev \in Nat /\ new.month \in Nat /\ new.minute \in Nat
    BY <1>0, <1>3, DeltaTypes, PlanTypes
  <2>2. new = [projects |-> new.projects, records |-> new.records, month |-> new.month, minute |-> new.minute,
               writes |-> new.writes, minuteWrites |-> new.minuteWrites, jev |-> new.jev]
    BY DEF Upsert
  <2> HIDE DEF new
  <2> QED BY <1>2, <1>4, <2>1, <2>2 DEF Usage
<1> HIDE DEF new
<1> QED BY <1>0, <1>1, <1>2, <1>3, <1>4, <1>5, DeltaTypes, ChargeKeeps

-----------------------------------------------------------------------------
(* The expenses held and their count.                                       *)

LEMMA LifeTypes ==
    ASSUME LifeTypeOK
    PROVE  /\ \A id \in Live : /\ id \in Ids /\ row[id] \in Row /\ row[id].rev \in 1..MaxRev /\ row[id].rev \in Nat
                               /\ row[id].status \in {"active", "archived"} /\ row[id].anchor \in Repos \cup {Null}
           /\ \A pool \in Pools : held[pool] \in 0..MaxHeld /\ held[pool] \in Nat
           /\ \A id \in Ids : id \in Pools /\ (id \in Live <=> row[id] # Null)
           /\ MaxRev \in Nat /\ MaxHeld \in Nat /\ MaxAsked \in Nat
<1>0. MaxRev \in Nat /\ MaxHeld \in Nat /\ MaxAsked \in Nat
    BY LifecycleAssumption
<1>1. \A id \in Live : id \in Ids /\ row[id] \in Row
    BY DEF LifeTypeOK, Live
<1>2. \A r \in Row : /\ r.rev \in 1..MaxRev /\ r.rev \in Nat /\ r.status \in {"active", "archived"}
                     /\ r.anchor \in Repos \cup {Null}
    BY <1>0 DEF Row
<1>3. \A pool \in Pools : held[pool] \in 0..MaxHeld /\ held[pool] \in Nat
    BY <1>0 DEF LifeTypeOK
<1>4. \A id \in Ids : id \in Pools /\ (id \in Live <=> row[id] # Null)
    BY DEF Pools, Live
<1> QED BY <1>0, <1>1, <1>2, <1>3, <1>4

LEMMA LiveRevisions == LifeTypeOK => \A id \in Live : row[id].rev \in Nat
BY LifeTypes

LEMMA AskTypes ==
    ASSUME LifeTypeOK, NEW w \in Workers
    PROVE  /\ ask[w] \in Ask /\ ask[w].id \in Pools /\ ask[w].rev \in Nat /\ ask[w].had \subseteq Repos
           /\ ask[w].links # Keep => ask[w].links \subseteq Repos
           /\ ask[w].status \in {"active", "archived"}
           /\ ask[w].op \in {"none", "create", "patch", "erase", "record", "remove"}
<1>1. ask[w] \in Ask /\ MaxRev \in Nat
    BY LifeTypes DEF LifeTypeOK
<1>2. ASSUME NEW a \in Ask
      PROVE  /\ a.id \in Pools /\ a.rev \in Nat /\ a.had \subseteq Repos
             /\ a.links # Keep => a.links \subseteq Repos
             /\ a.status \in {"active", "archived"} /\ a.op \in {"none", "create", "patch", "erase", "record", "remove"}
  <2>1. /\ a.id \in Pools /\ a.rev \in 0..MaxRev /\ a.had \in SUBSET Repos /\ a.links \in (SUBSET Repos) \cup {Keep}
        /\ a.status \in {"active", "archived"} /\ a.op \in {"none", "create", "patch", "erase", "record", "remove"}
    BY DEF Ask
  <2>2. a.rev \in Nat
    BY <1>1, <2>1
  <2>3. a.links # Keep => a.links \in SUBSET Repos
    <3>1. a.links \in (SUBSET Repos) \cup {Keep}
      BY <2>1
    <3> QED BY <3>1, Zenon
  <2> QED BY <2>1, <2>2, <2>3
<1> QED BY <1>1, <1>2, Zenon

LEMMA HeldIs ==
    \A e : e \in Held <=> e[1] \in Pools /\ e[2] \in 1..MaxHeld /\ e = <<e[1], e[2]>> /\ e[2] <= held[e[1]]
BY DEF Held

(* What a pool holds, one by one, is part of what is held.                  *)
LEMMA HeldOf ==
    ASSUME LifeTypeOK, NEW pool \in Pools
    PROVE  LET Mine == {pool} \X (1..held[pool]) IN
           /\ Mine \subseteq Held /\ IsFiniteSet(Mine) /\ Cardinality(Mine) = held[pool]
<1> DEFINE Mine == {pool} \X (1..held[pool])
<1>1. held[pool] \in Nat /\ MaxHeld \in Nat /\ held[pool] <= MaxHeld
    BY LifeTypes
<1>2. ASSUME NEW e \in Mine PROVE e \in Held
    BY <1>1, HeldIs
<1>3. IsFiniteSet({pool}) /\ Cardinality({pool}) = 1
    BY FS_Singleton
<1>4. IsFiniteSet(1..held[pool]) /\ Cardinality(1..held[pool]) = held[pool]
  <2>1. ASSUME NEW n \in Nat PROVE IsFiniteSet(1..n) /\ Cardinality(1..n) = n
    <3>1. IsFiniteSet(1..n) /\ Cardinality(1..n) = IF 1 > n THEN 0 ELSE n - 1 + 1
      BY FS_Interval, 1 \in Int, n \in Int
    <3> QED BY <3>1
  <2> QED BY <1>1, <2>1
<1>5. IsFiniteSet(Mine) /\ Cardinality(Mine) = 1 * held[pool]
    BY <1>3, <1>4, FS_Product
<1> QED BY <1>1, <1>2, <1>5

LEMMA CountIsNat == ASSUME Counted PROVE records \in Nat
BY FS_CardinalityType DEF Counted

(* One expense more, one less, and a pool emptied.                          *)
LEMMA OneMore ==
    ASSUME LifeTypeOK, Counted, NEW pool \in Pools, held[pool] < MaxHeld,
           held' = [held EXCEPT ![pool] = held[pool] + 1], records' = records + 1
    PROVE  Counted' /\ held' \in [Pools -> 0..MaxHeld]
<1> DEFINE x == <<pool, held[pool] + 1>>
<1>1. held \in [Pools -> 0..MaxHeld] /\ MaxHeld \in Nat /\ held[pool] \in Nat
    BY LifeTypes DEF LifeTypeOK
<1>2. held' \in [Pools -> 0..MaxHeld]
    BY <1>1
<1>3. held'[pool] = held[pool] + 1 /\ \A p \in Pools \ {pool} : held'[p] = held[p]
    BY <1>1
<1>4. x \notin Held
    BY <1>1, HeldIs
<1>5. ASSUME NEW e PROVE e \in Held' <=> e \in Held \/ e = x
  <2>1. e \in Held' <=> e[1] \in Pools /\ e[2] \in 1..MaxHeld /\ e = <<e[1], e[2]>> /\ e[2] <= held'[e[1]]
    BY DEF Held
  <2>2. CASE e[1] = pool
    <3>1. e[2] \in 1..MaxHeld /\ e[2] <= held[pool] + 1 <=> (e[2] \in 1..MaxHeld /\ e[2] <= held[pool]) \/ e[2] = held[pool] + 1
      BY <1>1
    <3> QED BY <1>3, <2>1, <2>2, <3>1, HeldIs
  <2>3. CASE e[1] # pool
    BY <1>3, <2>1, <2>3, HeldIs
  <2> QED BY <2>2, <2>3
<1>6. Held' = Held \cup {x}
    BY <1>5
<1> HIDE DEF x
<1> QED BY <1>2, <1>4, <1>6, FS_AddElement DEF Counted

LEMMA OneLess ==
    ASSUME LifeTypeOK, Counted, NEW pool \in Pools, held[pool] > 0,
           held' = [held EXCEPT ![pool] = held[pool] - 1], records' = records - 1
    PROVE  Counted' /\ held' \in [Pools -> 0..MaxHeld]
<1> DEFINE x == <<pool, held[pool]>>
<1>1. held \in [Pools -> 0..MaxHeld] /\ MaxHeld \in Nat /\ held[pool] \in 1..MaxHeld
    BY LifeTypes DEF LifeTypeOK
<1>2. held' \in [Pools -> 0..MaxHeld]
    BY <1>1
<1>3. held'[pool] = held[pool] - 1 /\ \A p \in Pools \ {pool} : held'[p] = held[p]
    BY <1>1
<1>4. x \in Held
    BY <1>1, HeldIs
<1>5. ASSUME NEW e PROVE e \in Held' <=> e \in Held /\ e # x
  <2>1. e \in Held' <=> e[1] \in Pools /\ e[2] \in 1..MaxHeld /\ e = <<e[1], e[2]>> /\ e[2] <= held'[e[1]]
    BY DEF Held
  <2>2. CASE e[1] = pool
    <3>1. e[2] \in 1..MaxHeld => (e[2] <= held[pool] - 1 <=> e[2] <= held[pool] /\ e[2] # held[pool])
      BY <1>1
    <3> QED BY <1>3, <2>1, <2>2, <3>1, HeldIs
  <2>3. CASE e[1] # pool
    BY <1>3, <2>1, <2>3, HeldIs
  <2> QED BY <2>2, <2>3
<1>6. Held' = Held \ {x}
    BY <1>5
<1> HIDE DEF x
<1> QED BY <1>2, <1>4, <1>6, FS_RemoveElement DEF Counted

LEMMA NoneLeft ==
    ASSUME LifeTypeOK, Counted, NEW pool \in Pools,
           held' = [held EXCEPT ![pool] = 0], records' = records - held[pool]
    PROVE  Counted' /\ held' \in [Pools -> 0..MaxHeld] /\ records' \in Nat
<1> DEFINE Mine == {pool} \X (1..held[pool])
<1>1. held \in [Pools -> 0..MaxHeld] /\ MaxHeld \in Nat /\ held[pool] \in 0..MaxHeld
    BY LifeTypes DEF LifeTypeOK
<1>2. held' \in [Pools -> 0..MaxHeld]
    BY <1>1
<1>3. held'[pool] = 0 /\ \A p \in Pools \ {pool} : held'[p] = held[p]
    BY <1>1
<1>4. Mine \subseteq Held /\ IsFiniteSet(Mine) /\ Cardinality(Mine) = held[pool]
    BY HeldOf
<1>5. ASSUME NEW e PROVE e \in Held' <=> e \in Held \ Mine
  <2>1. e \in Held' <=> e[1] \in Pools /\ e[2] \in 1..MaxHeld /\ e = <<e[1], e[2]>> /\ e[2] <= held'[e[1]]
    BY DEF Held
  <2>2. CASE e[1] = pool
    <3>1. e[2] \in 1..MaxHeld => ~(e[2] <= 0)
      BY <1>1
    <3>2. e[2] \in 1..MaxHeld /\ e[2] <= held[pool] => e[2] \in 1..held[pool]
      BY <1>1
    <3>3. e \in Held => e \in Mine
      BY <2>2, <3>2, HeldIs
    <3> QED BY <1>3, <2>1, <2>2, <3>1, <3>3
  <2>3. CASE e[1] # pool
    <3>1. e \notin Mine
      BY <2>3
    <3> QED BY <1>3, <2>1, <2>3, <3>1, HeldIs
  <2> QED BY <2>2, <2>3
<1>6. Held' = Held \ Mine /\ Held \cap Mine = Mine
    BY <1>4, <1>5
<1> HIDE DEF Mine
<1>7. IsFiniteSet(Held') /\ Cardinality(Held') = Cardinality(Held) - Cardinality(Mine)
    BY <1>6, FS_Difference DEF Counted
<1>8. Counted'
    BY <1>4, <1>7 DEF Counted
<1>9. records' \in Nat
    BY <1>7, <1>4, FS_CardinalityType DEF Counted
<1> QED BY <1>2, <1>8, <1>9

LEMMA SameCount == ASSUME Counted, UNCHANGED <<held, records>> PROVE Counted'
BY DEF Counted, Held

-----------------------------------------------------------------------------
(* What a request still knows of its project, whatever the others do.       *)

LEMMA AsksStand ==
    ASSUME LifeInv, LifeTypeOK', NEW w \in Workers,
           \A v \in Workers \ {w} : ask'[v] = ask[v] /\ job'[v].pc = job[v].pc /\ job'[v].kind = job[v].kind,
           \A id \in Live \cup gone : id \in Live' \cup gone',
           \A v \in Workers \ {w} : ask[v].op = "create" => ask[v].id \notin Live' \cup gone',
           \A id \in Live' \cap (Live \cup gone) :
               id \in Live /\ row[id].rev <= row'[id].rev /\ (row'[id].rev = row[id].rev => Bound(id)' = Bound(id)),
           AskShape(w)'
    PROVE  \A v \in Workers : AskShape(v)'
<1> SUFFICES ASSUME NEW v \in Workers, v # w PROVE AskShape(v)'
    OBVIOUS
<1> DEFINE a == ask[v]
<1>0. ask'[v] = a /\ job'[v].pc = job[v].pc /\ job'[v].kind = job[v].kind /\ AskShape(v)
    BY DEF LifeInv
<1>1. /\ a.op = "none" <=> job[v].pc = "idle"
      /\ a.op # "none" => job[v].kind = KindOf(a.op)
      /\ a.op \in {"create", "patch", "erase"} => a.id \in Ids
    BY <1>0 DEF AskShape
<1>2. a.op = "create" =>
         /\ a.links # Keep /\ a.id \notin Live' \cup gone'
         /\ \A u \in Workers \ {v} : ask'[u].op = "create" => ask'[u].id # a.id
  <2>1. SUFFICES ASSUME a.op = "create"
                 PROVE  /\ a.links # Keep /\ a.id \notin Live' \cup gone'
                        /\ \A u \in Workers \ {v} : ask'[u].op = "create" => ask'[u].id # a.id
    OBVIOUS
  <2>2. a.links # Keep /\ \A u \in Workers \ {v} : ask[u].op = "create" => ask[u].id # a.id
    BY <1>0, <2>1 DEF AskShape
  <2>3. ask'[w].op = "create" => ask'[w].id # a.id
    <3>1. ask'[w].op = "create" => \A u \in Workers \ {w} : ask'[u].op = "create" => ask'[u].id # ask'[w].id
      BY DEF AskShape
    <3> QED BY <1>0, <2>1, <3>1
  <2>4. \A u \in Workers \ {v} : ask'[u].op = "create" => ask'[u].id # a.id
    BY <2>2, <2>3
  <2> QED BY <2>1, <2>2, <2>4
<1>3. a.op = "patch" =>
         /\ a.id \in Live' \cup gone'
         /\ a.id \in Live' => a.rev <= row'[a.id].rev /\ (a.rev = row'[a.id].rev => a.had = Bound(a.id)')
  <2>1. SUFFICES ASSUME a.op = "patch"
                 PROVE  /\ a.id \in Live' \cup gone'
                        /\ a.id \in Live' => a.rev <= row'[a.id].rev /\ (a.rev = row'[a.id].rev => a.had = Bound(a.id)')
    OBVIOUS
  <2>2. /\ a.id \in Live \cup gone
        /\ a.id \in Live => a.rev <= row[a.id].rev /\ (a.rev = row[a.id].rev => a.had = Bound(a.id))
    BY <1>0, <2>1 DEF AskShape
  <2>3. CASE a.id \in Live'
    <3>1. /\ a.id \in Live /\ row[a.id].rev <= row'[a.id].rev
          /\ row'[a.id].rev = row[a.id].rev => Bound(a.id)' = Bound(a.id)
      BY <2>2, <2>3
    <3>2. a.rev \in Nat /\ row[a.id].rev \in Nat
      <4>1. LifeTypeOK
        BY DEF LifeInv, LifeConsistent
      <4>2. a.rev \in Nat
        BY <4>1, AskTypes
      <4>3. row[a.id].rev \in Nat
        BY <3>1, <4>1, LifeTypes
      <4> QED BY <4>2, <4>3
    <3>3. (LifeTypeOK => \A id \in Live : row[id].rev \in Nat)'
      BY LiveRevisions, PTL
    <3>4. row'[a.id].rev \in Nat
      BY <2>3, <3>3
    <3> HIDE DEF a
    <3> QED BY <2>2, <3>1, <3>2, <3>4
  <2> QED BY <2>2, <2>3
<1> QED BY <1>0, <1>1, <1>2, <1>3 DEF AskShape

(* Steps that write no table but the requests' own state.                   *)
LEMMA QuietKeeps ==
    ASSUME LifeInv, PlanInv', UNCHANGED <<projectTables, gone, usage, records>>,
           ask' \in [Workers -> Ask], asked' \in 0..MaxAsked, \A v \in Workers : AskShape(v)'
    PROVE  LifeInv'
<1>1. /\ UNCHANGED <<row, bound, held, activity, gone, usage, records>>
      /\ Live' = Live /\ \A id : Bound(id)' = Bound(id)
    BY DEF projectTables, Live, Bound
<1>2. LifeTypeOK'
    BY <1>1 DEF LifeInv, LifeConsistent, LifeTypeOK, PlanInv
<1>3. AnchorIsBound' /\ GoneForGood' /\ OneHome'
    BY <1>1 DEF LifeInv, LifeConsistent, AnchorIsBound, GoneForGood, OneHome
<1>4. Counted'
    BY <1>1, SameCount DEF LifeInv
<1> QED BY <1>1, <1>2, <1>3, <1>4 DEF LifeInv, LifeConsistent

(* The usual ones also leave every other request alone.                     *)
LEMMA QuietStep ==
    ASSUME LifeInv, PlanInv', UNCHANGED <<projectTables, gone, tables>>, NEW w \in Workers, NEW a \in Ask, NEW j \in Job,
           ask' = [ask EXCEPT ![w] = a], job' = [job EXCEPT ![w] = j], asked' \in 0..MaxAsked, AskShape(w)'
    PROVE  LifeInv'
<1>1. /\ UNCHANGED <<row, bound, gone, held, activity, usage, records>>
      /\ Live' = Live /\ \A id : Bound(id)' = Bound(id)
    BY DEF projectTables, Live, Bound, tables
<1>2. ask' \in [Workers -> Ask]
    BY DEF LifeInv, LifeConsistent, LifeTypeOK
<1>3. LifeTypeOK'
    BY <1>1, <1>2 DEF LifeInv, LifeConsistent, LifeTypeOK, PlanInv
<1>4. \A v \in Workers \ {w} : ask'[v] = ask[v] /\ job'[v] = job[v]
    BY DEF LifeInv, LifeConsistent, LifeTypeOK, PlanTypeOK
<1>5. \A v \in Workers \ {w} : ask[v].op = "create" => ask[v].id \notin Live \cup gone
    BY DEF LifeInv, AskShape
<1>6. \A id \in Live' \cap (Live \cup gone) :
          id \in Live /\ row[id].rev <= row'[id].rev /\ (row'[id].rev = row[id].rev => Bound(id)' = Bound(id))
    BY <1>1, LifeTypes DEF LifeInv, LifeConsistent
<1>7. \A v \in Workers : AskShape(v)'
    BY <1>1, <1>3, <1>4, <1>5, <1>6, AsksStand
<1> QED BY <1>1, <1>2, <1>7, QuietKeeps

-----------------------------------------------------------------------------
(* The first steps of a request, and its end without a batch.               *)

LEMMA AskIs ==
    Ask = [op : {"none", "create", "patch", "erase", "record", "remove"}, id : Pools, rev : 0..MaxRev,
           had : SUBSET Repos, links : (SUBSET Repos) \cup {Keep}, status : {"active", "archived"}]
BY DEF Ask

LEMMA NoAskIs == NoAsk \in Ask /\ NoAsk.op = "none"
<1>1. 0 \in 0..MaxRev
    BY LifecycleAssumption
<1>2. {} \in SUBSET Repos /\ Keep \in (SUBSET Repos) \cup {Keep} /\ Shared \in Pools
    BY DEF Pools
<1> HIDE DEF Pools
<1> QED BY <1>1, <1>2 DEF NoAsk, Ask

LEMMA WantedIs ==
    ASSUME LifeTypeOK, NEW id \in Pools, NEW op \in {"create", "patch", "erase", "record", "remove"},
           NEW links \in (SUBSET Repos) \cup {Keep}, NEW status \in {"active", "archived"}
    PROVE  LET a == Wanted(op, id, links, status) IN
           /\ a \in Ask /\ a.op = op /\ a.id = id /\ a.links = links /\ a.status = status
           /\ id \in Live => a.rev = row[id].rev /\ a.had = Bound(id)
<1> DEFINE rev == IF id \in Live THEN row[id].rev ELSE 0
           had == IF id \in Live THEN Bound(id) ELSE {}
           a == [op |-> op, id |-> id, rev |-> rev, had |-> had, links |-> links, status |-> status]
<1>1. rev \in 0..MaxRev
    BY LifeTypes, LifecycleAssumption
<1>2. had \in SUBSET Repos
    BY DEF Bound
<1>3. Wanted(op, id, links, status) = a
    BY DEF Wanted
<1>4. id \in Live => rev = row[id].rev /\ had = Bound(id)
    OBVIOUS
<1> HIDE DEF rev, had
<1>5. a \in Ask
    BY <1>1, <1>2 DEF Ask
<1> QED BY <1>3, <1>4, <1>5

LEMMA BeginKeeps ==
    ASSUME LifeInv, NEW w \in Workers, NEW kind \in Kinds, NEW a \in Ask, Begin(w, kind, a),
           a.op # "none", kind = KindOf(a.op),
           a.op \in {"create", "patch", "erase"} => a.id \in Ids,
           a.op = "create" => a.links # Keep /\ Fresh(a.id),
           a.op = "patch" => a.id \in Live /\ a.rev = row[a.id].rev /\ a.had = Bound(a.id)
    PROVE  LifeInv'
<1> DEFINE j == [Idle EXCEPT !.pc = "read", !.kind = kind, !.now = clock, !.account = account]
<1>0. LifeTypeOK /\ PlanTypeOK /\ job \in [Workers -> Job] /\ ask \in [Workers -> Ask]
    BY DEF LifeInv, LifeConsistent, LifeTypeOK, PlanTypeOK
<1>1. Receive(w, kind) /\ asked < MaxAsked /\ ask' = [ask EXCEPT ![w] = a] /\ asked' = asked + 1
      /\ UNCHANGED <<projectTables, gone>>
    BY DEF Begin
<1>2. PlanInv'
    BY <1>1, ReceiveKeeps DEF LifeInv
<1>3. job' = [job EXCEPT ![w] = j] /\ UNCHANGED tables
    BY <1>1 DEF Receive
<1>4. j \in Job /\ j.pc = "read" /\ j.kind = kind
  <2>1. clock \in Minutes /\ account \in Account
    BY <1>0 DEF PlanTypeOK
  <2>2. Idle \in Job
    BY IdleJob
  <2> QED BY <2>1, <2>2 DEF Job, Idle
<1> HIDE DEF j
<1>5. asked' \in 0..MaxAsked
    BY <1>0, <1>1, LifeTypes DEF LifeTypeOK
<1>6. /\ UNCHANGED <<row, bound, gone>> /\ Live' = Live /\ \A id : Bound(id)' = Bound(id)
    BY <1>1 DEF projectTables, Live, Bound
<1>7. ask'[w] = a /\ job'[w] = j /\ \A v \in Workers \ {w} : ask'[v] = ask[v]
    BY <1>0, <1>1, <1>3
<1>8. AskShape(w)'
  <2>1. /\ (a.op = "none" <=> j.pc = "idle") /\ (a.op # "none" => j.kind = KindOf(a.op))
        /\ a.op \in {"create", "patch", "erase"} => a.id \in Ids
    BY <1>4
  <2>2. a.op = "create" => /\ a.links # Keep /\ a.id \notin Live' \cup gone'
                           /\ \A v \in Workers \ {w} : ask'[v].op = "create" => ask'[v].id # a.id
    BY <1>6, <1>7 DEF Fresh
  <2>3. a.op = "patch" => /\ a.id \in Live' \cup gone'
                          /\ a.id \in Live' => /\ a.rev <= row'[a.id].rev
                                               /\ a.rev = row'[a.id].rev => a.had = Bound(a.id)'
    BY <1>0, <1>6, LifeTypes
  <2> QED BY <1>7, <2>1, <2>2, <2>3 DEF AskShape
<1> QED BY <1>1, <1>2, <1>3, <1>4, <1>5, <1>8, QuietStep

LEMMA StartsKeep ==
    ASSUME LifeInv, NEW w \in Workers,
           \/ \E id \in Ids :
                  \/ \E links \in SUBSET Repos : Create(w, id, links)
                  \/ \E links \in (SUBSET Repos) \cup {Keep}, status \in {"active", "archived"} : Patch(w, id, links, status)
                  \/ Erase(w, id)
           \/ \E pool \in Pools : Record(w, pool) \/ Remove(w, pool)
    PROVE  LifeInv'
<1>0. LifeTypeOK
    BY DEF LifeInv, LifeConsistent
<1>1. \A id \in Ids : id \in Pools
    BY DEF Pools
<1>2. Keep \in (SUBSET Repos) \cup {Keep} /\ "active" \in {"active", "archived"}
    OBVIOUS
<1>3. ASSUME NEW id \in Ids, NEW links \in SUBSET Repos, Create(w, id, links) PROVE LifeInv'
  <2> DEFINE a == Wanted("create", id, links, "active")
  <2>2. links # Keep /\ links \in (SUBSET Repos) \cup {Keep}
    BY LifecycleAssumption
  <2>3. a \in Ask /\ a.op = "create" /\ a.id = id /\ a.links = links
    BY <1>0, <1>1, <2>2, WantedIs
  <2>4. Fresh(id) /\ Begin(w, "project", a)
    BY <1>3 DEF Create
  <2> HIDE DEF a
  <2> QED BY <2>2, <2>3, <2>4, BeginKeeps DEF KindOf, Kinds
<1>4. ASSUME NEW id \in Ids, NEW links \in (SUBSET Repos) \cup {Keep}, NEW status \in {"active", "archived"},
             Patch(w, id, links, status)
      PROVE  LifeInv'
  <2> DEFINE a == Wanted("patch", id, links, status)
  <2>1. id \in Live /\ Begin(w, "edit", a)
    BY <1>4 DEF Patch
  <2>2. a \in Ask /\ a.op = "patch" /\ a.id = id /\ a.rev = row[id].rev /\ a.had = Bound(id)
    BY <1>0, <1>1, <2>1, WantedIs
  <2> HIDE DEF a
  <2> QED BY <2>1, <2>2, BeginKeeps DEF KindOf, Kinds
<1>5. ASSUME NEW id \in Ids, Erase(w, id) PROVE LifeInv'
  <2> DEFINE a == Wanted("erase", id, Keep, "active")
  <2>1. Begin(w, "edit", a)
    BY <1>5 DEF Erase
  <2>2. a \in Ask /\ a.op = "erase" /\ a.id = id
    BY <1>0, <1>1, <1>2, WantedIs
  <2> HIDE DEF a
  <2> QED BY <2>1, <2>2, BeginKeeps DEF KindOf, Kinds
<1>6. ASSUME NEW pool \in Pools, Record(w, pool) PROVE LifeInv'
  <2> DEFINE a == Wanted("record", pool, Keep, "active")
  <2>1. Begin(w, "expense", a)
    BY <1>6 DEF Record
  <2>2. a \in Ask /\ a.op = "record" /\ a.id = pool
    BY <1>0, <1>2, WantedIs
  <2> HIDE DEF a
  <2> QED BY <2>1, <2>2, BeginKeeps DEF KindOf, Kinds
<1>7. ASSUME NEW pool \in Pools, Remove(w, pool) PROVE LifeInv'
  <2> DEFINE a == Wanted("remove", pool, Keep, "active")
  <2>1. Begin(w, "remove", a)
    BY <1>7 DEF Remove
  <2>2. a \in Ask /\ a.op = "remove" /\ a.id = pool
    BY <1>0, <1>2, WantedIs
  <2> HIDE DEF a
  <2> QED BY <2>1, <2>2, BeginKeeps DEF KindOf, Kinds
<1> QED BY <1>3, <1>4, <1>5, <1>6, <1>7

LEMMA CheckKeeps ==
    ASSUME LifeInv, NEW w \in Workers, NEW shown \in SUBSET Repos, Check(w, shown) PROVE LifeInv'
<1> DEFINE a == ask[w]
           e == Evidence(a)
           j == [job[w] EXCEPT !.pc = "priced", !.minuteSeen = SeenIn(job[w], "minute"), !.monthSeen = SeenIn(job[w], "month")]
<1>0. LifeTypeOK /\ PlanTypeOK /\ job \in [Workers -> Job] /\ ask \in [Workers -> Ask] /\ a \in Ask /\ job[w] \in Job
    BY DEF LifeInv, LifeConsistent, LifeTypeOK, PlanTypeOK
<1>1. Inspect(w) /\ Usable(a, shown) /\ ask' = [ask EXCEPT ![w] = e] /\ UNCHANGED <<projectTables, gone, asked>>
    BY DEF Check
<1>2. PlanInv'
    BY <1>1, InspectKeeps DEF LifeInv
<1>3. job[w].pc = "read" /\ job' = [job EXCEPT ![w] = j] /\ UNCHANGED tables
    BY <1>0, <1>1 DEF Inspect
<1>4. j \in Job /\ j.pc = "priced" /\ j.kind = job[w].kind
  <2>1. SeenIn(job[w], "minute") \in Nat /\ SeenIn(job[w], "month") \in Nat
    BY <1>0, SeenIsNat
  <2> QED BY <1>0, <2>1 DEF Job
<1>5. e \in Ask /\ e.op = a.op /\ e.id = a.id /\ (e = a \/ a.op = "record")
  <2>1. CASE a.op = "record" /\ a.id # Shared
    <3>1. a.id \in Live
      BY <1>1, <2>1 DEF Usable
    <3>2. row[a.id].rev \in 0..MaxRev
      BY <1>0, <3>1, LifeTypes
    <3>3. e = [a EXCEPT !.rev = row[a.id].rev]
      BY <2>1 DEF Evidence
    <3> HIDE DEF e
    <3> QED BY <1>0, <2>1, <3>2, <3>3 DEF Ask
  <2>2. CASE ~(a.op = "record" /\ a.id # Shared)
    BY <1>0, <2>2 DEF Evidence
  <2> QED BY <2>1, <2>2
<1> HIDE DEF j, e
<1>6. asked' \in 0..MaxAsked
    BY <1>0, <1>1 DEF LifeTypeOK
<1>7. /\ UNCHANGED <<row, bound, gone>> /\ Live' = Live /\ \A id : Bound(id)' = Bound(id)
    BY <1>1 DEF projectTables, Live, Bound
<1>8. ask'[w] = e /\ job'[w] = j /\ \A v \in Workers \ {w} : ask'[v] = ask[v]
    BY <1>0, <1>1, <1>3
<1>9. AskShape(w)'
  <2>0. AskShape(w)
    BY DEF LifeInv
  <2>1. /\ (e.op = "none" <=> j.pc = "idle") /\ (e.op # "none" => j.kind = KindOf(e.op))
        /\ e.op \in {"create", "patch", "erase"} => e.id \in Ids
    BY <1>3, <1>4, <1>5, <2>0 DEF AskShape
  <2>2. e.op = "create" => /\ e.links # Keep /\ e.id \notin Live' \cup gone'
                           /\ \A v \in Workers \ {w} : ask'[v].op = "create" => ask'[v].id # e.id
    BY <1>5, <1>7, <1>8, <2>0 DEF AskShape
  <2>3. ASSUME e.op = "patch"
        PROVE  /\ e.id \in Live \cup gone
               /\ e.id \in Live => e.rev <= row[e.id].rev /\ (e.rev = row[e.id].rev => e.had = Bound(e.id))
    <3>1. e = a
      BY <1>5, <2>3
    <3>2. /\ a.id \in Live \cup gone
          /\ a.id \in Live => a.rev <= row[a.id].rev /\ (a.rev = row[a.id].rev => a.had = Bound(a.id))
      BY <2>0, <2>3, <3>1 DEF AskShape
    <3> QED BY <3>1, <3>2
  <2>4. PICK q : q = e
    OBVIOUS
  <2>5. q.op = "patch" => /\ q.id \in Live' \cup gone'
                          /\ q.id \in Live' => /\ q.rev <= row'[q.id].rev
                                               /\ q.rev = row'[q.id].rev => q.had = Bound(q.id)'
    BY <1>7, <2>3, <2>4
  <2> QED BY <1>8, <2>1, <2>2, <2>4, <2>5 DEF AskShape
<1> QED BY <1>1, <1>2, <1>3, <1>4, <1>5, <1>6, <1>9, QuietStep

(* Where a request ends, nothing is left of it.                             *)
LEMMA EndedShape ==
    ASSUME LifeTypeOK, NEW w \in Workers, ask' = [ask EXCEPT ![w] = NoAsk], job' = [job EXCEPT ![w] = Idle]
    PROVE  /\ AskShape(w)' /\ ask' \in [Workers -> Ask]
           /\ \A v \in Workers \ {w} : ask'[v] = ask[v] /\ job'[v] = job[v]
<1>1. ask \in [Workers -> Ask] /\ job \in [Workers -> Job]
    BY DEF LifeTypeOK, PlanTypeOK
<1>2. ask'[w] = NoAsk /\ job'[w] = Idle
    BY <1>1
<1>3. NoAsk.op = "none" /\ Idle.pc = "idle"
    BY NoAskIs, IdleJob
<1>4. AskShape(w)'
    BY <1>2, <1>3 DEF AskShape
<1> QED BY <1>1, <1>4, NoAskIs

LEMMA DropKeeps == ASSUME LifeInv, NEW w \in Workers, Drop(w) PROVE LifeInv'
<1>0. LifeTypeOK
    BY DEF LifeInv, LifeConsistent
<1>1. /\ Abandon(w) /\ ask' = [ask EXCEPT ![w] = NoAsk] /\ asked' = asked /\ UNCHANGED <<projectTables, gone>>
    BY DEF Drop, Finish
<1>2. job' = [job EXCEPT ![w] = Idle] /\ UNCHANGED tables
    BY <1>1 DEF Abandon
<1>3. PlanInv'
    BY <1>1, AbandonKeeps DEF LifeInv
<1>4. asked' \in 0..MaxAsked
    BY <1>0, <1>1 DEF LifeTypeOK
<1> QED BY <1>0, <1>1, <1>2, <1>3, <1>4, NoAskIs, IdleJob, EndedShape, QuietStep

LEMMA OutsideKeeps == ASSUME LifeInv, LifeEnvironment PROVE LifeInv'
<1>1. Environment /\ UNCHANGED <<projectTables, gone, ask, asked>>
    BY DEF LifeEnvironment, Environment
<1>2. PlanInv'
    BY <1>1, EnvironmentKeeps DEF LifeInv
<1>3. UNCHANGED <<usage, records, job>>
    BY DEF LifeEnvironment, ChangePlan, Tick, tables
<1>4. ask' \in [Workers -> Ask] /\ asked' \in 0..MaxAsked
    BY <1>1 DEF LifeInv, LifeConsistent, LifeTypeOK
<1>5. \A v \in Workers : AskShape(v)'
    BY <1>1, <1>3 DEF LifeInv, AskShape, projectTables, Live, Bound
<1> QED BY <1>1, <1>2, <1>3, <1>4, <1>5, QuietKeeps

-----------------------------------------------------------------------------
(* The batches.                                                             *)

LEMMA CommitParts ==
    ASSUME LifeInv, NEW w \in Workers, Commit(w)
    PROVE  /\ PlanInv' /\ usage' # Null /\ job' = [job EXCEPT ![w] = Idle]
           /\ ask[w].op = "none" \/ job[w].kind = KindOf(ask[w].op)
           /\ job[w].kind \in {"project", "edit"} => records' = records
           /\ job[w].kind = "expense" => records' = records + 1
           /\ job[w].kind = "remove" => records' = records - 1
           /\ projects' = projects + IF job[w].kind = "project" THEN 1 ELSE 0
<1>1. PlanInv' /\ usage' # Null
    BY CommitKeeps DEF LifeInv
<1>2. /\ job' = [job EXCEPT ![w] = Idle] /\ records' = records + RecordDelta(job[w])
      /\ projects' = projects + Adds(job[w], "project")
    BY DEF Commit
<1>3. records \in Nat
    BY DEF LifeInv, PlanInv, PlanTypeOK
<1>4. ask[w].op = "none" \/ job[w].kind = KindOf(ask[w].op)
    BY DEF LifeInv, AskShape
<1> QED BY <1>1, <1>2, <1>3, <1>4 DEF RecordDelta, Adds

LEMMA BatchKeeps ==
    ASSUME LifeInv, NEW w \in Workers, PlanInv', usage' # Null,
           job' = [job EXCEPT ![w] = Idle], ask' = [ask EXCEPT ![w] = NoAsk], UNCHANGED asked,
           row' \in [Ids -> Row \cup {Null}], bound' \subseteq Ids \X Repos, held' \in [Pools -> 0..MaxHeld],
           activity' \subseteq Ids, gone' \subseteq Ids,
           AnchorIsBound', GoneForGood', OneHome', Counted',
           \A id \in Live \cup gone : id \in Live' \cup gone',
           \A v \in Workers \ {w} : ask[v].op = "create" => ask[v].id \notin Live' \cup gone',
           \A id \in Live' \cap (Live \cup gone) :
               id \in Live /\ row[id].rev <= row'[id].rev /\ (row'[id].rev = row[id].rev => Bound(id)' = Bound(id))
    PROVE  LifeInv'
<1>0. LifeTypeOK
    BY DEF LifeInv, LifeConsistent
<1>1. AskShape(w)' /\ ask' \in [Workers -> Ask] /\ \A v \in Workers \ {w} : ask'[v] = ask[v] /\ job'[v] = job[v]
    BY <1>0, EndedShape
<1>2. LifeTypeOK'
    BY <1>0, <1>1 DEF LifeTypeOK, PlanInv
<1>3. \A v \in Workers : AskShape(v)'
    BY <1>1, <1>2, AsksStand
<1> QED BY <1>2, <1>3 DEF LifeInv, LifeConsistent

(* A project's row is written.                                              *)
LEMMA RowWritten ==
    ASSUME LifeTypeOK, NEW id \in Ids, NEW new \in Row, row' = [row EXCEPT ![id] = new]
    PROVE  /\ row' \in [Ids -> Row \cup {Null}] /\ row'[id] = new /\ \A o \in Ids \ {id} : row'[o] = row[o]
           /\ Live' = Live \cup {id}
<1>1. row \in [Ids -> Row \cup {Null}]
    BY DEF LifeTypeOK
<1>2. row' \in [Ids -> Row \cup {Null}] /\ row'[id] = new /\ \A o \in Ids \ {id} : row'[o] = row[o]
    BY <1>1
<1>3. new # Null
    BY RowAssumption
<1>4. \A o : o \in Live' <=> o \in Live \cup {id}
    BY <1>2, <1>3 DEF Live
<1> QED BY <1>2, <1>4

LEMMA NewRow ==
    ASSUME NEW status \in {"active", "archived"}, NEW rev \in 1..MaxRev, NEW anchor \in Repos \cup {Null}
    PROVE  [status |-> status, rev |-> rev, anchor |-> anchor] \in Row
BY DEF Row

LEMMA BoundIs == \A id, r : r \in Bound(id) <=> r \in Repos /\ <<id, r>> \in bound
BY DEF Bound

LEMMA CreateKeeps == ASSUME LifeInv, NEW w \in Workers, CommitCreate(w) PROVE LifeInv'
<1> DEFINE a == ask[w]
           id == a.id
<1>0. LifeTypeOK /\ AnchorIsBound /\ GoneForGood /\ OneHome /\ Counted /\ AskShape(w) /\ \A v \in Workers : AskShape(v)
    BY DEF LifeInv, LifeConsistent
<1>1. PICK first \in Anchors(a.links) :
        /\ a.op = "create" /\ Commit(w) /\ FreeIn(bound, a.links)
        /\ row' = [row EXCEPT ![id] = [status |-> "active", rev |-> 1, anchor |-> first]]
        /\ bound' = bound \cup ({id} \X a.links) /\ Published(id)
        /\ ask' = [ask EXCEPT ![w] = NoAsk] /\ UNCHANGED <<asked, held, gone>>
    BY DEF CommitCreate, Finish
<1>2. /\ id \in Ids /\ a.links \subseteq Repos /\ id \notin Live /\ id \notin gone
      /\ \A v \in Workers \ {w} : ask[v].op = "create" => ask[v].id # id
    BY <1>0, <1>1, AskTypes DEF AskShape
<1>3. /\ PlanInv' /\ usage' # Null /\ job' = [job EXCEPT ![w] = Idle] /\ records' = records
    BY <1>1, CommitParts DEF KindOf
<1>4. first \in Repos \cup {Null} /\ (first = Null <=> a.links = {}) /\ (first # Null => first \in a.links)
    BY <1>2, LifecycleAssumption DEF Anchors
<1>5. PICK new \in Row : row' = [row EXCEPT ![id] = new] /\ new.rev = 1 /\ new.anchor = first
  <2>1. 1 \in 1..MaxRev
    BY LifecycleAssumption
  <2> QED BY <1>1, <1>4, <2>1, NewRow
<1> HIDE DEF id, a
<1>6. /\ row' \in [Ids -> Row \cup {Null}] /\ row'[id] = new /\ \A o \in Ids \ {id} : row'[o] = row[o]
      /\ Live' = Live \cup {id}
    BY <1>0, <1>2, <1>5, RowWritten
<1>7. /\ bound' \subseteq Ids \X Repos
      /\ \A o, r : r \in Bound(o)' <=> r \in Repos /\ <<o, r>> \in bound'
    BY <1>0, <1>1, <1>2 DEF LifeTypeOK, Bound
<1>8. Bound(id) = {} /\ \A o : o \notin Live => Bound(o) = {}
    BY <1>0, <1>2 DEF OneHome, Bound
<1>9. \A o : Bound(o)' = IF o = id THEN a.links ELSE Bound(o)
  <2> SUFFICES ASSUME NEW o PROVE Bound(o)' = IF o = id THEN a.links ELSE Bound(o)
    OBVIOUS
  <2>1. ASSUME NEW r PROVE r \in Bound(o)' <=> r \in IF o = id THEN a.links ELSE Bound(o)
    BY <1>1, <1>2, <1>7, <1>8, BoundIs
  <2> QED BY <2>1
<1>10. AnchorIsBound'
  <2>1. ASSUME NEW o \in Live' PROVE IF row'[o].anchor = Null THEN Bound(o)' = {} ELSE row'[o].anchor \in Bound(o)'
    BY <1>0, <1>4, <1>5, <1>6, <1>9, LifeTypes DEF AnchorIsBound
  <2> QED BY <2>1 DEF AnchorIsBound
<1>11. GoneForGood' /\ activity' \subseteq Ids
  <2>1. \A o \in activity' : o \in activity \/ o = id
    BY <1>1 DEF Published
  <2>2. \A o \in gone : row'[o] = Null /\ Bound(o)' = {} /\ held'[o] = 0 /\ o \notin activity'
    BY <1>0, <1>1, <1>2, <1>6, <1>9, <2>1 DEF GoneForGood, LifeTypeOK
  <2>3. \A o \in Ids : row'[o] = Null => held'[o] = 0
    BY <1>0, <1>1, <1>2, <1>5, <1>6, RowAssumption DEF GoneForGood
  <2> QED BY <1>0, <1>1, <1>2, <2>1, <2>2, <2>3 DEF GoneForGood, LifeTypeOK
<1>12. OneHome'
  <2>1. \A b \in bound' : b \in bound \/ (b[1] = id /\ b[2] \in a.links /\ b = <<id, b[2]>>)
    BY <1>1
  <2>2. \A b \in bound' : b[1] \in Live'
    BY <1>0, <1>6, <2>1 DEF OneHome
  <2>3. \A b \in bound : b[2] \notin a.links
  <3>1. ASSUME NEW b \in bound PROVE b[2] \notin a.links
      <4>1. b = <<b[1], b[2]>> /\ b[1] \in Ids
        BY <1>0 DEF LifeTypeOK
      <4> QED BY <1>1, <4>1 DEF FreeIn
    <3> QED BY <3>1
  <2>4. \A b, c \in bound' : b[2] = c[2] => b = c
    BY <1>0, <2>1, <2>3 DEF OneHome
  <2> QED BY <2>2, <2>4 DEF OneHome
<1>13. Counted'
    BY <1>0, <1>1, <1>3, SameCount
<1>14. held' \in [Pools -> 0..MaxHeld] /\ gone' \subseteq Ids
    BY <1>0, <1>1 DEF LifeTypeOK
<1>15. \A o \in Live \cup gone : o \in Live' \cup gone'
    BY <1>1, <1>6
<1>16. \A v \in Workers \ {w} : ask[v].op = "create" => ask[v].id \notin Live' \cup gone'
    BY <1>0, <1>1, <1>2, <1>6 DEF AskShape
<1>17. \A o \in Live' \cap (Live \cup gone) :
          o \in Live /\ row[o].rev <= row'[o].rev /\ (row'[o].rev = row[o].rev => Bound(o)' = Bound(o))
  <2>1. ASSUME NEW o \in Live', o \in Live \cup gone
        PROVE  o \in Live /\ row[o].rev <= row'[o].rev /\ (row'[o].rev = row[o].rev => Bound(o)' = Bound(o))
    <3>1. o \in Live /\ o # id /\ o \in Ids /\ row[o].rev \in Nat
      BY <1>0, <1>2, <1>6, <2>1, LifeTypes
    <3> QED BY <1>6, <1>9, <3>1
  <2> QED BY <2>1
<1>18. ask' = [ask EXCEPT ![w] = NoAsk] /\ UNCHANGED asked
    BY <1>1
<1> QED BY <1>3, <1>6, <1>7, <1>10, <1>11, <1>12, <1>13, <1>14, <1>15, <1>16, <1>17, <1>18, BatchKeeps

Moved(id, links) == \A b : b \in bound' <=> (b \in bound /\ b[1] # id) \/ (b = <<id, b[2]>> /\ b[2] \in links)

(* An edit moves all of a project's repositories at once, to ones that were *)
(* free or its own.                                                         *)
LEMMA PatchMoves ==
    ASSUME LifeInv, NEW w \in Workers, CommitPatch(w)
    PROVE  LET id == ask[w].id IN
           /\ id \in Ids /\ id \in Live /\ id \notin gone /\ Live' = Live
           /\ \E links \in SUBSET Repos, new \in Row :
                /\ row' = [row EXCEPT ![id] = new] /\ new.rev = row[id].rev + 1
                /\ (new.anchor = Null <=> links = {}) /\ (new.anchor # Null => new.anchor \in links)
                /\ Moved(id, links)
                /\ \A r \in links : \A b \in bound : b[2] = r => b[1] = id
<1> DEFINE a == ask[w]
           id == a.id
           kept == bound \ ({id} \X a.had)
           links == IF a.links = Keep THEN Bound(id) ELSE a.links
<1>0. LifeTypeOK /\ AnchorIsBound /\ GoneForGood /\ OneHome /\ Counted /\ AskShape(w) /\ \A v \in Workers : AskShape(v)
    BY DEF LifeInv, LifeConsistent
<1>1. PICK first \in IF a.links = Keep THEN {row[id].anchor} ELSE Anchors(a.links) :
        /\ a.op = "patch" /\ Commit(w) /\ RevisionHolds(a) /\ a.rev < MaxRev
        /\ a.links # Keep => FreeIn(kept, a.links)
        /\ row' = [row EXCEPT ![id] = [status |-> a.status, rev |-> a.rev + 1, anchor |-> first]]
        /\ bound' = (IF a.links = Keep THEN bound ELSE kept \cup ({id} \X a.links)) /\ Published(id)
        /\ ask' = [ask EXCEPT ![w] = NoAsk] /\ UNCHANGED <<asked, held, gone>>
    BY DEF CommitPatch, Finish
<1>2. /\ id \in Ids /\ id \in Live /\ id \notin gone /\ row[id].rev = a.rev /\ a.had = Bound(id)
      /\ a.rev \in Nat /\ MaxRev \in Nat /\ row[id].anchor \in Repos \cup {Null}
      /\ a.links # Keep => a.links \subseteq Repos
      /\ a.status \in {"active", "archived"}
  <2>1. id \in Ids /\ id \in Live /\ row[id].rev = a.rev /\ (a.rev <= row[id].rev /\ (a.rev = row[id].rev => a.had = Bound(id)))
    BY <1>0, <1>1 DEF RevisionHolds, AskShape
  <2>2. a.rev \in Nat /\ MaxRev \in Nat /\ row[id].anchor \in Repos \cup {Null}
    BY <1>0, <2>1, AskTypes, LifeTypes
  <2>3. (a.links # Keep => a.links \subseteq Repos) /\ a.status \in {"active", "archived"}
    BY <1>0, AskTypes
  <2>4. id \notin gone
    BY <1>0, <2>1 DEF GoneForGood, Live
  <2> QED BY <2>1, <2>2, <2>3, <2>4
<1>4. first \in Repos \cup {Null} /\ (first = Null <=> links = {}) /\ (first # Null => first \in links)
  <2>1. CASE a.links = Keep
    BY <1>0, <1>1, <1>2, <2>1, LifecycleAssumption DEF AnchorIsBound, Bound
  <2>2. CASE a.links # Keep
    BY <1>1, <1>2, <2>2, LifecycleAssumption DEF Anchors
  <2> QED BY <2>1, <2>2
<1>5. PICK new \in Row : row' = [row EXCEPT ![id] = new] /\ new.rev = a.rev + 1 /\ new.anchor = first
  <2>1. a.rev + 1 \in 1..MaxRev
    BY <1>1, <1>2
  <2> QED BY <1>1, <1>2, <1>4, <2>1, NewRow
<1>6. /\ row' \in [Ids -> Row \cup {Null}] /\ row'[id] = new /\ \A o \in Ids \ {id} : row'[o] = row[o]
      /\ Live' = Live
  <2> HIDE DEF id
  <2>1. /\ row' \in [Ids -> Row \cup {Null}] /\ row'[id] = new /\ \A o \in Ids \ {id} : row'[o] = row[o]
        /\ Live' = Live \cup {id}
    BY <1>0, <1>2, <1>5, RowWritten
  <2> QED BY <1>2, <2>1
<1> HIDE DEF id, a
<1>7. ASSUME NEW b PROVE b \in bound' <=> \/ b \in bound /\ b[1] # id
                                          \/ b = <<id, b[2]>> /\ b[2] \in links
  <2>1. b \in bound => b = <<b[1], b[2]>> /\ b[1] \in Ids /\ b[2] \in Repos
    BY <1>0 DEF LifeTypeOK
  <2>2. b \in bound /\ b[1] = id <=> b = <<id, b[2]>> /\ b[2] \in Bound(id)
    BY <2>1, BoundIs
  <2>3. CASE a.links = Keep
    BY <1>1, <2>2, <2>3
  <2>4. CASE a.links # Keep
    <3>1. b \in {id} \X a.had <=> b = <<id, b[2]>> /\ b[2] \in Bound(id)
      BY <1>2
    <3>2. b \in kept <=> b \in bound /\ b[1] # id
      BY <2>2, <3>1
    <3>3. b \in bound' <=> b \in kept \/ (b = <<id, b[2]>> /\ b[2] \in a.links)
      BY <1>1, <2>4
    <3> QED BY <2>4, <3>2, <3>3
  <2> QED BY <2>3, <2>4
<1>8. links \subseteq Repos /\ (\A r \in links : \A b \in bound : b[2] = r => b[1] = id)
  <2>1. CASE a.links = Keep
    <3>1. \A r \in Bound(id) : r \in Repos /\ <<id, r>> \in bound
      BY BoundIs
    <3>2. ASSUME NEW r \in Bound(id), NEW b \in bound, b[2] = r PROVE b[1] = id
      <4>1. b = <<id, r>>
        BY <1>0, <3>1, <3>2 DEF OneHome
      <4> QED BY <4>1
    <3>3. links = Bound(id)
      BY <2>1
    <3> HIDE DEF links
    <3> QED BY <3>1, <3>2, <3>3
  <2>2. CASE a.links # Keep
    <3>1. ASSUME NEW r \in a.links, NEW b \in bound, b[2] = r, b[1] # id PROVE FALSE
      <4>1. b = <<b[1], r>> /\ b[1] \in Ids
        BY <1>0, <3>1 DEF LifeTypeOK
      <4>2. b \in kept
        BY <3>1
      <4> QED BY <1>1, <2>2, <4>1, <4>2 DEF FreeIn
    <3> QED BY <1>2, <2>2, <3>1
  <2> QED BY <2>1, <2>2
<1> HIDE DEF links, kept
<1>9. new.rev = row[id].rev + 1 /\ (new.anchor = Null <=> links = {}) /\ (new.anchor # Null => new.anchor \in links)
    BY <1>2, <1>4, <1>5
<1>10. Moved(id, links)
    BY <1>7 DEF Moved
<1>11. links \in SUBSET Repos
    BY <1>8
<1>12. /\ id \in Ids /\ id \in Live /\ id \notin gone /\ Live' = Live
       /\ \E l \in SUBSET Repos, n \in Row :
            /\ row' = [row EXCEPT ![id] = n] /\ n.rev = row[id].rev + 1
            /\ (n.anchor = Null <=> l = {}) /\ (n.anchor # Null => n.anchor \in l)
            /\ Moved(id, l)
            /\ \A r \in l : \A b \in bound : b[2] = r => b[1] = id
    BY <1>2, <1>5, <1>6, <1>8, <1>9, <1>10, <1>11
<1> QED BY <1>12 DEF id, a

LEMMA PatchKeeps == ASSUME LifeInv, NEW w \in Workers, CommitPatch(w) PROVE LifeInv'
<1> DEFINE a == ask[w]
           id == a.id
<1>0. LifeTypeOK /\ AnchorIsBound /\ GoneForGood /\ OneHome /\ Counted /\ AskShape(w) /\ \A v \in Workers : AskShape(v)
    BY DEF LifeInv, LifeConsistent
<1>1. /\ a.op = "patch" /\ Commit(w) /\ Published(id)
      /\ ask' = [ask EXCEPT ![w] = NoAsk] /\ UNCHANGED <<asked, held, gone>>
    BY DEF CommitPatch, Finish
<1>2. id \in Ids /\ id \in Live /\ id \notin gone /\ Live' = Live
    BY PatchMoves
<1>3. /\ PlanInv' /\ usage' # Null /\ job' = [job EXCEPT ![w] = Idle] /\ records' = records
    BY <1>1, CommitParts DEF KindOf
<1>4. PICK links \in SUBSET Repos, new \in Row :
        /\ row' = [row EXCEPT ![id] = new] /\ new.rev = row[id].rev + 1
        /\ (new.anchor = Null <=> links = {}) /\ (new.anchor # Null => new.anchor \in links)
        /\ Moved(id, links)
        /\ \A r \in links : \A b \in bound : b[2] = r => b[1] = id
    BY PatchMoves
<1>5. ASSUME NEW b PROVE b \in bound' <=> (b \in bound /\ b[1] # id) \/ (b = <<id, b[2]>> /\ b[2] \in links)
    BY <1>4 DEF Moved
<1> HIDE DEF id, a
<1>6. /\ row' \in [Ids -> Row \cup {Null}] /\ row'[id] = new /\ \A o \in Ids \ {id} : row'[o] = row[o]
      /\ Live' = Live
    BY <1>0, <1>2, <1>4, RowWritten
<1>9. bound' \subseteq Ids \X Repos
  <2>1. ASSUME NEW b \in bound' PROVE b \in Ids \X Repos
    BY <1>0, <1>2, <1>5 DEF LifeTypeOK
  <2> QED BY <2>1
<1>10. \A o : Bound(o)' = IF o = id THEN links ELSE Bound(o)
  <2> SUFFICES ASSUME NEW o PROVE Bound(o)' = IF o = id THEN links ELSE Bound(o)
    OBVIOUS
  <2>1. ASSUME NEW r PROVE r \in Bound(o)' <=> r \in IF o = id THEN links ELSE Bound(o)
    <3>1. r \in Bound(o)' <=> r \in Repos /\ <<o, r>> \in bound'
      BY DEF Bound
    <3>2. <<o, r>> \in bound' <=> (<<o, r>> \in bound /\ o # id) \/ (o = id /\ r \in links)
      <4>1. ASSUME NEW b, b = <<o, r>> PROVE b \in bound' <=> (b \in bound /\ o # id) \/ (o = id /\ r \in links)
        <5>1. b[1] = o /\ b[2] = r
          BY <4>1
        <5> QED BY <1>5, <4>1, <5>1
      <4> QED BY <4>1
    <3> QED BY <3>1, <3>2, BoundIs
  <2> QED BY <2>1
<1>11. AnchorIsBound'
  <2>1. ASSUME NEW o \in Live' PROVE IF row'[o].anchor = Null THEN Bound(o)' = {} ELSE row'[o].anchor \in Bound(o)'
    <3>1. o \in Live /\ o \in Ids
      BY <1>0, <1>6, <2>1, LifeTypes
    <3> QED BY <1>0, <1>4, <1>6, <1>10, <3>1 DEF AnchorIsBound
  <2> QED BY <2>1 DEF AnchorIsBound
<1>12. GoneForGood' /\ activity' \subseteq Ids
  <2>1. \A o \in activity' : o \in activity \/ o = id
    BY <1>1 DEF Published
  <2>2. \A o \in gone : row'[o] = Null /\ Bound(o)' = {} /\ held'[o] = 0 /\ o \notin activity'
    BY <1>0, <1>1, <1>2, <1>6, <1>10, <2>1 DEF GoneForGood, LifeTypeOK
  <2>3. \A o \in Ids : row'[o] = Null => held'[o] = 0
    BY <1>0, <1>1, <1>6, RowAssumption DEF GoneForGood
  <2> QED BY <1>0, <1>1, <1>2, <2>1, <2>2, <2>3 DEF GoneForGood, LifeTypeOK
<1>13. OneHome'
  <2>1. \A b \in bound' : b[1] \in Live'
    BY <1>0, <1>2, <1>5 DEF OneHome
  <2>2. \A b, c \in bound' : b[2] = c[2] => b = c
    BY <1>0, <1>4, <1>5 DEF OneHome
  <2> QED BY <2>1, <2>2 DEF OneHome
<1>14. Counted'
    BY <1>0, <1>1, <1>3, SameCount
<1>15. held' \in [Pools -> 0..MaxHeld] /\ gone' \subseteq Ids
    BY <1>0, <1>1 DEF LifeTypeOK
<1>16. \A o \in Live \cup gone : o \in Live' \cup gone'
    BY <1>1, <1>6
<1>17. \A v \in Workers \ {w} : ask[v].op = "create" => ask[v].id \notin Live' \cup gone'
    BY <1>0, <1>1, <1>6 DEF AskShape
<1>18. \A o \in Live' \cap (Live \cup gone) :
          o \in Live /\ row[o].rev <= row'[o].rev /\ (row'[o].rev = row[o].rev => Bound(o)' = Bound(o))
  <2>1. ASSUME NEW o \in Live', o \in Live \cup gone
        PROVE  o \in Live /\ row[o].rev <= row'[o].rev /\ (row'[o].rev = row[o].rev => Bound(o)' = Bound(o))
    <3>1. o \in Live /\ o \in Ids /\ row[o].rev \in Nat
      BY <1>0, <1>6, <2>1, LifeTypes
    <3> QED BY <1>2, <1>4, <1>6, <1>10, <3>1
  <2> QED BY <2>1
<1>19. ask' = [ask EXCEPT ![w] = NoAsk] /\ UNCHANGED asked
    BY <1>1
<1> QED BY <1>3, <1>6, <1>9, <1>11, <1>12, <1>13, <1>14, <1>15, <1>16, <1>17, <1>18, <1>19, BatchKeeps

(* Batches that write expenses only.                                        *)
LEMMA ExpenseKeeps ==
    ASSUME LifeInv, NEW w \in Workers, Commit(w), ask' = [ask EXCEPT ![w] = NoAsk], UNCHANGED <<asked, row, bound, gone>>,
           NEW pool \in Pools, pool # Shared => pool \in Ids \ gone,
           IF pool = Shared THEN UNCHANGED activity ELSE Published(pool),
           \A p \in Pools \ {pool} : held'[p] = held[p], pool \in Ids => row[pool] # Null \/ held'[pool] = 0,
           held' \in [Pools -> 0..MaxHeld], Counted'
    PROVE  LifeInv'
<1>0. LifeTypeOK /\ AnchorIsBound /\ GoneForGood /\ OneHome /\ \A v \in Workers : AskShape(v)
    BY DEF LifeInv, LifeConsistent
<1>1. PlanInv' /\ usage' # Null /\ job' = [job EXCEPT ![w] = Idle]
    BY CommitParts
<1>2. Live' = Live /\ \A o : Bound(o)' = Bound(o)
    BY DEF Live, Bound
<1>3. AnchorIsBound' /\ OneHome'
    BY <1>0, <1>2 DEF AnchorIsBound, OneHome
<1>4. activity' \subseteq Ids /\ \A o \in activity' : o \in activity \/ (o = pool /\ pool # Shared)
    BY <1>0 DEF Published, LifeTypeOK
<1>5. \A o \in Ids : o \in Pools /\ (row'[o] = Null => held'[o] = 0)
    BY <1>0 DEF GoneForGood, Pools
<1>6. GoneForGood'
  <2>1. \A o \in gone : row'[o] = Null /\ Bound(o)' = {} /\ held'[o] = 0 /\ o \notin activity'
    BY <1>0, <1>2, <1>4, <1>5 DEF GoneForGood, LifeTypeOK
  <2> QED BY <1>5, <2>1 DEF GoneForGood
<1>7. /\ row' \in [Ids -> Row \cup {Null}] /\ bound' \subseteq Ids \X Repos /\ gone' \subseteq Ids
    BY <1>0 DEF LifeTypeOK
<1>8. \A v \in Workers \ {w} : ask[v].op = "create" => ask[v].id \notin Live' \cup gone'
    BY <1>0, <1>2 DEF AskShape
<1>9. \A o \in Live' \cap (Live \cup gone) :
          o \in Live /\ row[o].rev <= row'[o].rev /\ (row'[o].rev = row[o].rev => Bound(o)' = Bound(o))
    BY <1>0, <1>2, LifeTypes
<1>10. \A o \in Live \cup gone : o \in Live' \cup gone'
    BY <1>2
<1> QED BY <1>1, <1>3, <1>4, <1>6, <1>7, <1>8, <1>9, <1>10, BatchKeeps

LEMMA RecordKeeps == ASSUME LifeInv, NEW w \in Workers, CommitRecord(w) PROVE LifeInv'
<1> DEFINE pool == ask[w].id
<1>0. LifeTypeOK /\ GoneForGood /\ Counted /\ pool \in Pools
    BY AskTypes DEF LifeInv, LifeConsistent
<1>1. /\ ask[w].op = "record" /\ Commit(w) /\ TargetHolds(ask[w]) /\ held[pool] < MaxHeld
      /\ held' = [held EXCEPT ![pool] = held[pool] + 1]
      /\ IF pool = Shared THEN UNCHANGED activity ELSE Published(pool)
      /\ ask' = [ask EXCEPT ![w] = NoAsk] /\ UNCHANGED <<asked, row, bound, gone>>
    BY DEF CommitRecord, Finish
<1>2. pool # Shared => pool \in Ids /\ row[pool] # Null
    BY <1>1 DEF TargetHolds, RevisionHolds, Live
<1>3. records' = records + 1
    BY <1>1, CommitParts DEF KindOf
<1> HIDE DEF pool
<1>4. Counted' /\ held' \in [Pools -> 0..MaxHeld]
    BY <1>0, <1>1, <1>3, OneMore
<1>5. \A p \in Pools \ {pool} : held'[p] = held[p]
    BY <1>0, <1>1 DEF LifeTypeOK
<1>6. pool # Shared => pool \in Ids \ gone
    BY <1>0, <1>2 DEF GoneForGood
<1>7. pool \in Ids => row[pool] # Null
    BY <1>2, LifecycleAssumption
<1> QED BY <1>0, <1>1, <1>4, <1>5, <1>6, <1>7, ExpenseKeeps

LEMMA RemoveKeeps == ASSUME LifeInv, NEW w \in Workers, CommitRemove(w) PROVE LifeInv'
<1> DEFINE pool == ask[w].id
<1>0. LifeTypeOK /\ GoneForGood /\ Counted /\ pool \in Pools
    BY AskTypes DEF LifeInv, LifeConsistent
<1>1. /\ ask[w].op = "remove" /\ Commit(w) /\ held[pool] > 0
      /\ held' = [held EXCEPT ![pool] = held[pool] - 1]
      /\ IF pool = Shared THEN UNCHANGED activity ELSE Published(pool)
      /\ ask' = [ask EXCEPT ![w] = NoAsk] /\ UNCHANGED <<asked, row, bound, gone>>
    BY DEF CommitRemove, Finish
<1>2. records' = records - 1
    BY <1>1, CommitParts DEF KindOf
<1>3. pool # Shared => pool \in Ids /\ pool \notin gone
    BY <1>0, <1>1 DEF GoneForGood, Pools
<1>4. pool \in Ids => row[pool] # Null
    BY <1>0, <1>1 DEF GoneForGood
<1> HIDE DEF pool
<1>5. Counted' /\ held' \in [Pools -> 0..MaxHeld]
    BY <1>0, <1>1, <1>2, OneLess
<1>6. \A p \in Pools \ {pool} : held'[p] = held[p]
    BY <1>0, <1>1 DEF LifeTypeOK
<1> QED BY <1>0, <1>1, <1>3, <1>4, <1>5, <1>6, ExpenseKeeps

LEMMA EraseCharges == ASSUME LifeInv, NEW w \in Workers, CommitErase(w) PROVE PlanInv' /\ usage' # Null /\ Counted'
                                                                     /\ held' \in [Pools -> 0..MaxHeld]
<1> DEFINE id == ask[w].id
           j == job[w]
           new == Erased(j, id)
<1>0. LifeTypeOK /\ PlanTypeOK /\ PlanInv /\ Counted /\ id \in Pools /\ j \in Job /\ j.now \in Minutes /\ j.now \in Nat
      /\ MonthOf(j.now) \in Nat /\ MonthOf(j.now) \in Months
    BY AskTypes, JobTypes, PlanTypes DEF LifeInv, LifeConsistent, LifeTypeOK
<1>1. /\ ClockFence(j, new) /\ usage' = new /\ records' = records - held[id]
      /\ charged' = [charged EXCEPT ![j.now] = @ + 1] /\ job' = [job EXCEPT ![w] = Idle]
      /\ held' = [held EXCEPT ![id] = 0] /\ UNCHANGED <<account, projects, clock, reserved>>
      /\ id \in Live
    BY DEF CommitErase, Checks, RevisionHolds
<1>2. usage # Null /\ usage.projects = projects /\ projects \in Nat
    BY <1>0, <1>1 DEF LifeInv, PlanInv, Sums, PlanTypeOK
<1>3. /\ new.projects = projects /\ new.records = records - held[id] /\ new.month = MonthOf(j.now) /\ new.minute = j.now
      /\ new.writes = (IF usage # Null /\ usage.month = MonthOf(j.now) THEN usage.writes ELSE 0) + 1
      /\ new.minuteWrites = (IF usage # Null /\ usage.minute = j.now THEN usage.minuteWrites ELSE 0) + 1
      /\ new.jev = (IF usage # Null /\ usage.month = MonthOf(j.now) THEN usage.jev ELSE 0)
    BY <1>2 DEF Erased
<1>4. new = [projects |-> new.projects, records |-> new.records, month |-> new.month, minute |-> new.minute,
             writes |-> new.writes, minuteWrites |-> new.minuteWrites, jev |-> new.jev]
    BY DEF Erased
<1> HIDE DEF new, id
<1>5. Counted' /\ held' \in [Pools -> 0..MaxHeld] /\ records' \in Nat
    BY <1>0, <1>1, NoneLeft
<1>6. new.writes \in Nat /\ new.minuteWrites \in Nat /\ new.jev \in Nat
    BY <1>0, <1>3, PlanTypes
<1>7. new \in Usage
    BY <1>0, <1>1, <1>2, <1>3, <1>4, <1>5, <1>6 DEF Usage
<1>8. reserved' = [reserved EXCEPT ![MonthOf(j.now)] = @ + 0]
  <2>1. reserved \in [Months -> Nat] /\ reserved[MonthOf(j.now)] \in Nat
    BY <1>0 DEF PlanTypeOK
  <2>2. reserved[MonthOf(j.now)] + 0 = reserved[MonthOf(j.now)]
    BY <2>1
  <2> QED BY <1>1, <2>1, <2>2
<1>9. new.jev = (IF usage # Null /\ usage.month = MonthOf(j.now) THEN usage.jev ELSE 0) + 0 * JevCost
  <2>1. 0 * JevCost = 0
    BY PlanAssumption
  <2> QED BY <1>3, <1>6, <2>1
<1>10. projects' = projects /\ UNCHANGED <<account, clock>>
    BY <1>1
<1>11. PlanInv' /\ usage' # Null
  <2>1. 0 \in {0, 1} /\ 1 \in {0, 1}
    OBVIOUS
  <2> QED BY <1>0, <1>1, <1>2, <1>3, <1>5, <1>7, <1>8, <1>9, <1>10, <2>1, ChargeKeeps
<1> QED BY <1>5, <1>11

LEMMA EraseKeeps == ASSUME LifeInv, NEW w \in Workers, CommitErase(w) PROVE LifeInv'
<1> DEFINE id == ask[w].id
<1>0. LifeTypeOK /\ AnchorIsBound /\ GoneForGood /\ OneHome /\ Counted /\ AskShape(w) /\ \A v \in Workers : AskShape(v)
    BY DEF LifeInv, LifeConsistent
<1>1. /\ ask[w].op = "erase" /\ RevisionHolds(ask[w])
      /\ job' = [job EXCEPT ![w] = Idle] /\ ask' = [ask EXCEPT ![w] = NoAsk] /\ UNCHANGED asked
      /\ row' = [row EXCEPT ![id] = Null] /\ bound' = bound \ ({id} \X Repos)
      /\ held' = [held EXCEPT ![id] = 0] /\ activity' = activity \ {id} /\ gone' = gone \cup {id}
    BY DEF CommitErase, Finish
<1>2. id \in Ids /\ id \in Live /\ id \in Pools
    BY <1>0, <1>1, LifeTypes DEF RevisionHolds
<1>3. PlanInv' /\ usage' # Null /\ Counted' /\ held' \in [Pools -> 0..MaxHeld]
    BY EraseCharges
<1> HIDE DEF id
<1>4. /\ row' \in [Ids -> Row \cup {Null}] /\ row'[id] = Null /\ \A o \in Ids \ {id} : row'[o] = row[o]
    BY <1>0, <1>1, <1>2 DEF LifeTypeOK
<1>5. Live' = Live \ {id}
  <2>1. \A o : o \in Live' <=> o \in Live /\ o # id
    BY <1>4 DEF Live
  <2> QED BY <2>1
<1>6. ASSUME NEW b PROVE b \in bound' <=> b \in bound /\ b[1] # id
  <2>1. b \in bound => b = <<b[1], b[2]>> /\ b[2] \in Repos
    BY <1>0 DEF LifeTypeOK
  <2> QED BY <1>1, <2>1
<1>7. bound' \subseteq Ids \X Repos /\ gone' \subseteq Ids /\ activity' \subseteq Ids
    BY <1>0, <1>1, <1>2 DEF LifeTypeOK
<1>8. \A o : Bound(o)' = IF o = id THEN {} ELSE Bound(o)
  <2> SUFFICES ASSUME NEW o PROVE Bound(o)' = IF o = id THEN {} ELSE Bound(o)
    OBVIOUS
  <2>1. ASSUME NEW r PROVE r \in Bound(o)' <=> r \in IF o = id THEN {} ELSE Bound(o)
    <3>1. r \in Bound(o)' <=> r \in Repos /\ <<o, r>> \in bound'
      BY DEF Bound
    <3>2. <<o, r>> \in bound' <=> <<o, r>> \in bound /\ o # id
      BY <1>6
    <3> QED BY <3>1, <3>2, BoundIs
  <2> QED BY <2>1
<1>9. AnchorIsBound'
  <2>1. ASSUME NEW o \in Live' PROVE IF row'[o].anchor = Null THEN Bound(o)' = {} ELSE row'[o].anchor \in Bound(o)'
    <3>1. o \in Live /\ o \in Ids /\ o # id
      BY <1>0, <1>5, <2>1, LifeTypes
    <3> QED BY <1>0, <1>4, <1>8, <3>1 DEF AnchorIsBound
  <2> QED BY <2>1 DEF AnchorIsBound
<1>10. held'[id] = 0 /\ \A o \in Pools \ {id} : held'[o] = held[o]
    BY <1>0, <1>1, <1>2 DEF LifeTypeOK
<1>11. GoneForGood'
  <2>1. \A o \in Ids : o \in Pools
    BY DEF Pools
  <2>2. \A o \in gone' : row'[o] = Null /\ Bound(o)' = {} /\ held'[o] = 0 /\ o \notin activity'
    BY <1>0, <1>1, <1>2, <1>4, <1>8, <1>10, <2>1 DEF GoneForGood, LifeTypeOK
  <2>3. \A o \in Ids : row'[o] = Null => held'[o] = 0
    BY <1>0, <1>4, <1>10, <2>1 DEF GoneForGood
  <2> QED BY <2>2, <2>3 DEF GoneForGood
<1>12. OneHome'
    BY <1>0, <1>5, <1>6 DEF OneHome
<1>13. \A o \in Live \cup gone : o \in Live' \cup gone'
    BY <1>1, <1>5
<1>14. \A v \in Workers \ {w} : ask[v].op = "create" => ask[v].id \notin Live' \cup gone'
    BY <1>0, <1>1, <1>2, <1>5 DEF AskShape
<1>15. \A o \in Live' \cap (Live \cup gone) :
          o \in Live /\ row[o].rev <= row'[o].rev /\ (row'[o].rev = row[o].rev => Bound(o)' = Bound(o))
  <2>1. ASSUME NEW o \in Live'
        PROVE  o \in Live /\ row[o].rev <= row'[o].rev /\ (row'[o].rev = row[o].rev => Bound(o)' = Bound(o))
    <3>1. o \in Live /\ o \in Ids /\ o # id /\ row[o].rev \in Nat
      BY <1>0, <1>5, <2>1, LifeTypes
    <3> QED BY <1>4, <1>8, <3>1
  <2> QED BY <2>1
<1> QED BY <1>1, <1>3, <1>4, <1>7, <1>9, <1>11, <1>12, <1>13, <1>14, <1>15, BatchKeeps

-----------------------------------------------------------------------------
(* The invariant is inductive.                                              *)

LEMMA PlanStarts == PlanInit => PlanInv
<1> SUFFICES ASSUME PlanInit PROVE PlanInv
    OBVIOUS
<1>1. 0 \in Minutes /\ Idle \in Job /\ Idle.now = 0
    BY IdleJob, PlanAssumption DEF Minutes
<1>2. account \in Account /\ TRUE \in BOOLEAN
    BY PlanAssumption DEF PlanInit, Account
<1>3. records \in Nat /\ projects \in Nat
    BY DEF PlanInit
<1>4. job = [w \in Workers |-> Idle] /\ clock = 0 /\ usage = Null
      /\ charged = [m \in Minutes |-> 0] /\ reserved = [k \in Months |-> 0]
    BY DEF PlanInit
<1>5. PlanTypeOK
    BY <1>1, <1>2, <1>3, <1>4 DEF PlanTypeOK
<1>6. \A w \in Workers : job[w].now <= clock
    BY <1>1, <1>4
<1>7. Unused
    BY <1>4 DEF Unused
<1>8. \A k \in Months : IsFiniteSet(BatchesIn(charged, k))
  <2>1. charged \in [Minutes -> Nat] /\ \A m \in Minutes : charged[m] = 0
    BY <1>4
  <2>2. ASSUME NEW k \in Months PROVE BatchesIn(charged, k) = {}
    BY <2>1, NoBatches
  <2> QED BY <2>2, FS_EmptySet
<1> QED BY <1>4, <1>5, <1>6, <1>7, <1>8 DEF PlanInv

LEMMA LifeStarts == LifeInit => LifeInv
<1> SUFFICES ASSUME LifeInit PROVE LifeInv
    OBVIOUS
<1>0. PlanInv
    BY PlanStarts DEF LifeInit
<1>1. /\ row = [id \in Ids |-> Null] /\ bound = {} /\ activity = {} /\ gone = {} /\ asked = 0
      /\ held = [pool \in Pools |-> IF pool = Shared THEN records ELSE 0] /\ ask = [w \in Workers |-> NoAsk]
    BY DEF LifeInit
<1>2. records \in 0..1 /\ job = [w \in Workers |-> Idle]
    BY DEF LifeInit, PlanInit
<1>3. 0 \in 0..MaxHeld /\ 1 \in 0..MaxHeld /\ 0 \in 0..MaxAsked /\ MaxHeld \in Nat \ {0}
    BY LifecycleAssumption
<1>4. Live = {} /\ \A o : Bound(o) = {}
    BY <1>1 DEF Live, Bound
<1>5. held \in [Pools -> 0..MaxHeld]
    BY <1>1, <1>2, <1>3
<1>6. LifeTypeOK
    BY <1>0, <1>1, <1>3, <1>5, NoAskIs DEF LifeTypeOK, PlanInv
<1>7. \A id \in Ids : id \in Pools /\ held[id] = 0
    BY <1>1, LifecycleAssumption DEF Pools
<1>8. AnchorIsBound /\ GoneForGood /\ OneHome
    BY <1>1, <1>4, <1>7 DEF AnchorIsBound, GoneForGood, OneHome
<1>9. Counted
  <2>1. Shared \in Pools /\ held[Shared] = records /\ \A p \in Pools \ {Shared} : held[p] = 0
    BY <1>1 DEF Pools
  <2>2. CASE records = 0
    <3>1. \A e : e \notin Held
      BY <2>1, <2>2, <1>3, HeldIs
    <3> QED BY <2>2, <3>1, FS_EmptySet DEF Counted
  <2>3. CASE records = 1
    <3>1. \A e : e \in Held <=> e = <<Shared, 1>>
      BY <2>1, <2>3, <1>3, HeldIs
    <3>2. Held = {<<Shared, 1>>}
      BY <3>1
    <3> QED BY <2>3, <3>2, FS_Singleton DEF Counted
  <2> QED BY <1>2, <2>2, <2>3
<1>10. \A w \in Workers : AskShape(w)
  <2>1. \A w \in Workers : ask[w].op = "none" /\ job[w].pc = "idle"
    BY <1>1, <1>2, NoAskIs, IdleJob
  <2> QED BY <2>1 DEF AskShape
<1> QED BY <1>0, <1>4, <1>6, <1>8, <1>9, <1>10 DEF LifeInv, LifeConsistent

LEMMA LifeStays == LifeInv /\ [LifeNext]_lifeVars => LifeInv'
<1> SUFFICES ASSUME LifeInv, [LifeNext]_lifeVars PROVE LifeInv'
    OBVIOUS
<1>1. ASSUME NEW w \in Workers, LifeStep(w) PROVE LifeInv'
  <2>1. CASE \/ \E id \in Ids :
                  \/ \E links \in SUBSET Repos : Create(w, id, links)
                  \/ \E links \in (SUBSET Repos) \cup {Keep}, status \in {"active", "archived"} : Patch(w, id, links, status)
                  \/ Erase(w, id)
             \/ \E pool \in Pools : Record(w, pool) \/ Remove(w, pool)
    BY <2>1, StartsKeep
  <2>2. CASE \E shown \in SUBSET Repos : Check(w, shown)
    BY <2>2, CheckKeeps
  <2>3. CASE Drop(w)
    BY <2>3, DropKeeps
  <2>4. CASE CommitCreate(w)
    BY <2>4, CreateKeeps
  <2>5. CASE CommitPatch(w)
    BY <2>5, PatchKeeps
  <2>6. CASE CommitErase(w)
    BY <2>6, EraseKeeps
  <2>7. CASE CommitRecord(w)
    BY <2>7, RecordKeeps
  <2>8. CASE CommitRemove(w)
    BY <2>8, RemoveKeeps
  <2> QED BY <1>1, <2>1, <2>2, <2>3, <2>4, <2>5, <2>6, <2>7, <2>8 DEF LifeStep
<1>2. CASE LifeEnvironment
    BY <1>2, OutsideKeeps
<1>3. CASE UNCHANGED lifeVars
  <2>1. UNCHANGED <<account, usage, projects, records, clock, job, charged, reserved,
                    row, bound, held, activity, gone, ask, asked>>
    BY <1>3 DEF lifeVars, planVars, tables, history, projectTables
  <2>2. PlanInv'
    BY <2>1, Uncharged DEF LifeInv, PlanInv, PlanTypeOK, Sums, Unused, Total, BatchesIn
  <2>3. \A v \in Workers : AskShape(v)'
    BY <2>1 DEF LifeInv, AskShape, Live, Bound
  <2> QED BY <2>1, <2>2, <2>3, QuietKeeps DEF LifeInv, LifeConsistent, LifeTypeOK, projectTables
<1> QED BY <1>1, <1>2, <1>3 DEF LifeNext

LEMMA LifeInvHolds == LifeSpec => []LifeInv
BY LifeStarts, LifeStays, PTL DEF LifeSpec

(* However requests interleave, a project's anchor is one of its             *)
(* repositories, and nothing of an erased project is left or comes back.    *)
THEOREM ProjectsConsistent == LifeSpec => []LifeConsistent
<1>1. LifeInv => LifeConsistent
    BY DEF LifeInv
<1> QED BY <1>1, LifeInvHolds, PTL

-----------------------------------------------------------------------------
(* The usage row, under its own specification and under the projects'.      *)

LEMMA Exact == PlanInv => CountersExact
<1> SUFFICES ASSUME PlanInv PROVE CountersExact
    OBVIOUS
<1> DEFINE M == MonthOf(clock)
<1>0. /\ PlanTypeOK /\ clock \in Nat /\ M \in Months /\ M \in Nat /\ reserved \in [Months -> Nat] /\ reserved[M] \in Nat
      /\ JevCost \in Nat /\ 0 * JevCost = 0
    BY PlanTypes, PlanAssumption DEF PlanInv, PlanTypeOK
<1>1. CASE usage = Null
  <2>1. reserved[M] = 0
    BY <1>0, <1>1 DEF PlanInv, Unused
  <2> HIDE DEF M
  <2>2. ShownUsage = [projects |-> projects, jev |-> reserved[M] * JevCost]
    BY <1>0, <1>1, <2>1 DEF ShownUsage
  <2> QED BY <1>1, <2>2 DEF CountersExact, UsageShownIsTrue, M
<1>2. CASE usage # Null
  <2>1. Sums
    BY <1>2 DEF PlanInv
  <2>2. usage.month \in Nat /\ usage.minute \in Nat /\ usage.minute <= clock /\ usage.month = MonthOf(usage.minute)
    BY <1>0, <1>2, <2>1, PlanTypes DEF Sums
  <2>3. usage.month <= M
    BY <1>0, <2>2, MonthGrows
  <2>4. usage.month # M => reserved[M] = 0
    <3>1. usage.month # M => M > usage.month
      BY <1>0, <2>2, <2>3
    <3> QED BY <1>0, <2>1, <3>1 DEF Sums
  <2>5. usage.month = M => usage.jev = reserved[M] * JevCost
    BY <2>1 DEF Sums
  <2>6. usage.projects = projects
    BY <2>1 DEF Sums
  <2>7. ShownUsage = [projects |-> projects, jev |-> IF usage.month = M THEN usage.jev ELSE 0]
    BY <1>2, <2>6 DEF ShownUsage
  <2> HIDE DEF M
  <2>8. ShownUsage = [projects |-> projects, jev |-> reserved[M] * JevCost]
    BY <1>0, <2>4, <2>5, <2>7
  <2> QED BY <2>1, <2>3, <2>8 DEF CountersExact, UsageShownIsTrue, Sums, M
<1> QED BY <1>1, <1>2

LEMMA PlanStays == PlanInv /\ [PlanNext]_planVars => PlanInv'
<1> SUFFICES ASSUME PlanInv, [PlanNext]_planVars PROVE PlanInv'
    OBVIOUS
<1>1. ASSUME NEW w \in Workers, (\E kind \in Kinds : Receive(w, kind)) \/ Inspect(w) \/ Commit(w) \/ Abandon(w)
      PROVE  PlanInv'
    BY <1>1, ReceiveKeeps, InspectKeeps, CommitKeeps, AbandonKeeps
<1>2. CASE Environment
    BY <1>2, EnvironmentKeeps
<1>3. CASE UNCHANGED planVars
  <2>1. UNCHANGED <<account, usage, projects, records, clock, job, charged, reserved>>
    BY <1>3 DEF planVars, tables, history
  <2> QED BY <2>1 DEF PlanInv, PlanTypeOK, Sums, Unused, Total, BatchesIn
<1> QED BY <1>1, <1>2, <1>3 DEF PlanNext

(* A batch is within the plan the account has in it, at its request's time.  *)
Within ==
    LET t == usage'.minute
        limit == Allowance[PlanOf(account, t)] IN
    /\ charged'[t] > charged[t] =>
           charged'[t] <= limit.minute /\ Total(charged', MonthOf(t)) <= limit.month
    /\ projects' > projects => projects' <= limit.projects
    /\ records' > records => records' <= limit.records
    /\ reserved' # reserved => reserved'[MonthOf(t)] * JevCost <= limit.jev

LEMMA ChecksSuffice ==
    ASSUME PlanInv', NEW w \in Workers, NEW new, usage' = new, new # Null, NEW t, NEW j, j = job[w], t = j.now,
           account = j.account, new.minute = t, new.month = MonthOf(t), LimitChecks(j, new),
           charged'[t] > charged[t] => Write(j) = 1,
           projects' > projects => j.kind = "project", records' > records => j.kind = "expense",
           reserved' # reserved => j.kind = "reserve"
    PROVE  Within
<1>1. Sums'
    BY DEF PlanInv
<1>2. /\ new.minuteWrites = charged'[t] /\ new.jev = reserved'[MonthOf(t)] * JevCost
      /\ new.projects = projects' /\ new.records = records'
    BY <1>1 DEF Sums
<1>3. new.writes = Total(charged', MonthOf(t))
  <2>1. \A k : Total(charged, k)' = Total(charged', k)
    BY DEF Total, BatchesIn
  <2> QED BY <1>1, <2>1 DEF Sums
<1>4. Limits(j) = Allowance[PlanOf(account, t)]
    BY DEF Limits
<1> QED BY <1>2, <1>3, <1>4 DEF Within, LimitChecks

LEMMA CommitWithin == ASSUME PlanInv, NEW w \in Workers, Commit(w) PROVE Within
<1> DEFINE j == job[w]
           new == Upsert(j)
<1>0. PlanTypeOK /\ j \in Job /\ projects \in Nat /\ records \in Nat /\ charged \in [Minutes -> Nat] /\ reserved \in [Months -> Nat]
      /\ j.now \in Minutes /\ MonthOf(j.now) \in Months
    BY JobTypes, PlanTypes DEF PlanInv, PlanTypeOK
<1>1. /\ usage' = new /\ account = j.account /\ LimitChecks(j, new)
      /\ projects' = projects + Adds(j, "project") /\ records' = records + RecordDelta(j)
      /\ charged' = [charged EXCEPT ![j.now] = @ + Write(j)]
      /\ reserved' = [reserved EXCEPT ![MonthOf(j.now)] = @ + Adds(j, "reserve")]
    BY DEF Commit, Checks
<1>2. PlanInv' /\ new # Null
    BY <1>1, CommitKeeps
<1>3. new.minute = j.now /\ new.month = MonthOf(j.now)
    BY DEF Upsert
<1>4. charged'[j.now] > charged[j.now] => Write(j) = 1
    BY <1>0, <1>1 DEF Write
<1>5. (projects' > projects => j.kind = "project") /\ (records' > records => j.kind = "expense")
    BY <1>0, <1>1 DEF Adds, RecordDelta
<1>6. reserved' # reserved => j.kind = "reserve"
  <2>1. ASSUME j.kind # "reserve" PROVE reserved' = reserved
    <3>1. Adds(j, "reserve") = 0
      BY <2>1 DEF Adds
    <3>2. reserved[MonthOf(j.now)] + 0 = reserved[MonthOf(j.now)]
      BY <1>0
    <3> QED BY <1>0, <1>1, <3>1, <3>2
  <2> QED BY <2>1
<1> HIDE DEF new
<1> QED BY <1>1, <1>2, <1>3, <1>4, <1>5, <1>6, ChecksSuffice

LEMMA EraseWithin == ASSUME LifeInv, NEW w \in Workers, CommitErase(w) PROVE Within
<1> DEFINE j == job[w]
           new == Erased(j, ask[w].id)
<1>1. /\ usage' = new /\ account = j.account /\ LimitChecks(j, new) /\ records' = records - held[ask[w].id]
      /\ projects' = projects /\ reserved' = reserved /\ ask[w].op = "erase"
    BY DEF CommitErase, Checks
<1>2. PlanInv' /\ new # Null
    BY <1>1, EraseCharges
<1>3. new.minute = j.now /\ new.month = MonthOf(j.now)
    BY DEF Erased
<1>4. j.kind = "edit"
    BY <1>1 DEF LifeInv, AskShape, KindOf
<1>5. ~(projects' > projects) /\ ~(records' > records)
  <2>1. projects \in Nat /\ records \in Nat /\ held[ask[w].id] \in Nat
    BY AskTypes, LifeTypes DEF LifeInv, LifeConsistent, PlanInv, PlanTypeOK
  <2> QED BY <1>1, <2>1
<1> HIDE DEF new
<1>6. Write(j) = 1
    BY <1>4 DEF Write
<1> QED BY <1>1, <1>2, <1>3, <1>5, <1>6, ChecksSuffice

LEMMA LifeStepWithin == LifeInv /\ [LifeNext]_lifeVars => (usage' # usage => Within)
<1> SUFFICES ASSUME LifeInv, [LifeNext]_lifeVars, usage' # usage PROVE Within
    OBVIOUS
<1>1. PlanInv
    BY DEF LifeInv
<1>2. ~UNCHANGED lifeVars /\ ~LifeEnvironment
    BY DEF lifeVars, planVars, tables, LifeEnvironment, ChangePlan, Tick
<1>3. PICK w \in Workers : LifeStep(w)
    BY <1>2 DEF LifeNext
<1>4. Commit(w) \/ CommitErase(w)
    BY <1>3 DEF LifeStep, Create, Patch, Erase, Record, Remove, Begin, Receive, Check, Inspect, Drop, Abandon, tables,
                CommitCreate, CommitPatch, CommitRecord, CommitRemove
<1> QED BY <1>1, <1>4, CommitWithin, EraseWithin

LEMMA PlanStepWithin == PlanInv /\ [PlanNext]_planVars => (usage' # usage => Within)
<1> SUFFICES ASSUME PlanInv, [PlanNext]_planVars, usage' # usage PROVE Within
    OBVIOUS
<1>1. \E w \in Workers : Commit(w)
    BY DEF PlanNext, Receive, Inspect, Abandon, Environment, ChangePlan, SetJev, Tick, planVars, tables
<1> QED BY <1>1, CommitWithin

(* The usage row holds exactly what was committed, for every kind of batch,  *)
(* model calls included, and it is what the account is shown.               *)
THEOREM UsageIsExact == PlanSpec => []CountersExact
<1>1. PlanSpec => []PlanInv
    BY PlanStarts, PlanStays, PTL DEF PlanSpec
<1> QED BY <1>1, Exact, PTL

(* Several requests may find room for the same place: what each adds is      *)
(* within the plan the account has in its very batch, at its request's time. *)
THEOREM UsageIsWithin == PlanSpec => WithinAllowance
<1>1. PlanSpec => []PlanInv
    BY PlanStarts, PlanStays, PTL DEF PlanSpec
<1>2. PlanInv /\ [PlanNext]_planVars => [usage' # usage => Within]_planVars
    BY PlanStepWithin
<1> QED BY <1>1, <1>2, PTL DEF PlanSpec, WithinAllowance, Within

(* The counters stay exact with projects behind them: creations, edits,      *)
(* expenses and erasures, whatever interleaves with them.                   *)
THEOREM CountersStayExact == LifeSpec => []CountersExact
<1>1. LifeInv => CountersExact
    BY Exact DEF LifeInv
<1> QED BY <1>1, LifeInvHolds, PTL

(* No creation, expense or erasure is charged past the plan either.         *)
THEOREM BatchesWithinAllowance == LifeSpec => WithinAllowance
<1>1. LifeInv /\ [LifeNext]_lifeVars => [usage' # usage => Within]_planVars
    BY LifeStepWithin
<1> QED BY <1>1, LifeInvHolds, PTL DEF LifeSpec, WithinAllowance, Within

-----------------------------------------------------------------------------
(* Every batch is one step of RepositoryHomes, or none.                      *)

Home == [r \in Repos |-> IF \E id \in Ids : <<id, r>> \in bound
                         THEN CHOOSE id \in Ids : <<id, r>> \in bound ELSE Null]

LEMMA HomeIs ==
    ASSUME OneHome, bound \subseteq Ids \X Repos, NEW r \in Repos
    PROVE  /\ \A id \in Ids : <<id, r>> \in bound => Home[r] = id
           /\ (\A id \in Ids : <<id, r>> \notin bound) => Home[r] = Null
<1>1. ASSUME NEW id \in Ids, <<id, r>> \in bound PROVE Home[r] = id
  <2>1. \A o \in Ids : <<o, r>> \in bound => o = id
    <3>1. ASSUME NEW o \in Ids, <<o, r>> \in bound PROVE o = id
      <4>1. <<o, r>> = <<id, r>>
        BY <1>1, <3>1 DEF OneHome
      <4> QED BY <4>1
    <3> QED BY <3>1
  <2>2. (CHOOSE o \in Ids : <<o, r>> \in bound) = id
    BY <1>1, <2>1
  <2> QED BY <1>1, <2>2 DEF Home
<1> QED BY <1>1 DEF Home

LEMMA HomesAre ==
    OneHome /\ bound \subseteq Ids \X Repos => \A r \in Repos :
         /\ \A o \in Ids : <<o, r>> \in bound => Home[r] = o
         /\ (\A o \in Ids : <<o, r>> \notin bound) => Home[r] = Null
<1> SUFFICES ASSUME OneHome, bound \subseteq Ids \X Repos, NEW r \in Repos
             PROVE  /\ \A o \in Ids : <<o, r>> \in bound => Home[r] = o
                    /\ (\A o \in Ids : <<o, r>> \notin bound) => Home[r] = Null
    OBVIOUS
<1> QED BY HomeIs

LEMMA HomesStart == LifeInit => Homes!Init
<1> SUFFICES ASSUME LifeInit PROVE Homes!Init
    OBVIOUS
<1>1. row = [id \in Ids |-> Null] /\ bound = {} /\ gone = {} /\ projects = 0
    BY DEF LifeInit
<1>2. Live = {}
    BY <1>1 DEF Live
<1> QED BY <1>1, <1>2 DEF Homes!Init

(* What a move of bindings does to the homes.                               *)
LEMMA Rehomes ==
    ASSUME LifeInv, LifeInv', NEW id \in Ids, NEW links \in SUBSET Repos, Moved(id, links),
           \A r \in links : \A b \in bound : b[2] = r => b[1] = id
    PROVE  Homes!Free(id, links) /\ Home' = Homes!Rehomed(id, links)
<1>0. OneHome /\ bound \subseteq Ids \X Repos /\ Null \notin Ids
    BY LifecycleAssumption DEF LifeInv, LifeConsistent, LifeTypeOK
<1>1. OneHome' /\ bound' \subseteq Ids \X Repos
    BY DEF LifeInv, LifeConsistent, LifeTypeOK
<1>2. (OneHome /\ bound \subseteq Ids \X Repos => \A r \in Repos :
         /\ \A o \in Ids : <<o, r>> \in bound => Home[r] = o
         /\ (\A o \in Ids : <<o, r>> \notin bound) => Home[r] = Null)'
    BY HomesAre, PTL
<1>3. ASSUME NEW o \in Ids, NEW r \in Repos
      PROVE  <<o, r>> \in bound' <=> (<<o, r>> \in bound /\ o # id) \/ (o = id /\ r \in links)
  <2>1. ASSUME NEW b, b = <<o, r>> PROVE b \in bound' <=> (b \in bound /\ o # id) \/ (o = id /\ r \in links)
    <3>1. b[1] = o /\ b[2] = r
      BY <2>1
    <3> QED BY <2>1, <3>1 DEF Moved
  <2> QED BY <2>1
<1>4. ASSUME NEW r \in links PROVE Home[r] \in {id, Null}
  <2>1. \A o \in Ids : <<o, r>> \in bound => o = id
    <3>1. ASSUME NEW o \in Ids, NEW b \in bound, b = <<o, r>> PROVE o = id
      <4>1. b[1] = o /\ b[2] = r
        BY <3>1
      <4> QED BY <4>1
    <3> QED BY <3>1
  <2>2. r \in Repos
    OBVIOUS
  <2> QED BY <1>0, <2>1, <2>2, HomeIs
<1>5. ASSUME NEW r \in Repos
      PROVE  Home'[r] = IF r \in links THEN id ELSE IF Home[r] = id THEN Null ELSE Home[r]
  <2>1. CASE r \in links
    BY <1>1, <1>2, <1>3, <2>1
  <2>2. CASE r \notin links /\ Home[r] = id
    <3>1. \A o \in Ids : <<o, r>> \in bound => o = id
      BY <1>0, <2>2, HomeIs
    <3>2. \A o \in Ids : <<o, r>> \notin bound'
      BY <1>3, <2>2, <3>1
    <3> QED BY <1>1, <1>2, <2>2, <3>2
  <2>3. CASE r \notin links /\ Home[r] # id
    <3>1. CASE \E o \in Ids : <<o, r>> \in bound
      <4>1. PICK o \in Ids : <<o, r>> \in bound
        BY <3>1
      <4>2. Home[r] = o
        BY <1>0, <4>1, HomeIs
      <4>3. <<o, r>> \in bound'
        BY <1>3, <2>3, <4>1, <4>2
      <4> QED BY <1>1, <1>2, <2>3, <4>2, <4>3
    <3>2. CASE \A o \in Ids : <<o, r>> \notin bound
      <4>1. Home[r] = Null
        BY <1>0, <3>2, HomeIs
      <4>2. \A o \in Ids : <<o, r>> \notin bound'
        BY <1>3, <2>3, <3>2
      <4> QED BY <1>1, <1>2, <2>3, <4>1, <4>2
    <3> QED BY <3>1, <3>2
  <2> QED BY <2>1, <2>2, <2>3
<1>6. Homes!Free(id, links)
    BY <1>4 DEF Homes!Free, Home
<1>7. Homes!Rehomed(id, links) = [r \in Repos |-> IF r \in links THEN id ELSE IF Home[r] = id THEN Null ELSE Home[r]]
    BY DEF Homes!Rehomed, Home
<1>8. Home' = [r \in Repos |-> Home'[r]]
    BY DEF Home
<1> QED BY <1>5, <1>6, <1>7, <1>8

LEMMA CreateOpens ==
    ASSUME LifeInv, LifeInv', NEW w \in Workers, CommitCreate(w)
    PROVE  \E id \in Ids, links \in SUBSET Repos : Homes!Open(id, links)
<1> DEFINE a == ask[w]
           id == a.id
<1>0. LifeTypeOK /\ OneHome /\ AskShape(w)
    BY DEF LifeInv, LifeConsistent
<1>1. PICK first \in Anchors(a.links) :
        /\ a.op = "create" /\ Commit(w) /\ FreeIn(bound, a.links)
        /\ row' = [row EXCEPT ![id] = [status |-> "active", rev |-> 1, anchor |-> first]]
        /\ bound' = bound \cup ({id} \X a.links) /\ UNCHANGED gone
    BY DEF CommitCreate
<1>2. id \in Ids /\ a.links \in SUBSET Repos /\ id \notin Live /\ id \notin gone
    BY <1>0, <1>1, AskTypes DEF AskShape
<1>3. projects' = projects + 1
    BY <1>1, CommitParts DEF KindOf
<1>4. Live' = Live \cup {id}
  <2>1. first \in Repos \cup {Null} /\ 1 \in 1..MaxRev
    BY <1>2, LifecycleAssumption DEF Anchors
  <2>2. [status |-> "active", rev |-> 1, anchor |-> first] \in Row
    BY <2>1, NewRow
  <2> HIDE DEF id
  <2> QED BY <1>0, <1>1, <1>2, <2>2, RowWritten
<1>5. Moved(id, a.links)
  <2>1. \A b \in bound : b[1] # id
    BY <1>0, <1>2 DEF OneHome
  <2> QED BY <1>1, <2>1 DEF Moved
<1>6. \A r \in a.links : \A b \in bound : b[2] = r => b[1] = id
  <2>1. ASSUME NEW b \in bound PROVE b[2] \notin a.links
    <3>1. b = <<b[1], b[2]>> /\ b[1] \in Ids
      BY <1>0 DEF LifeTypeOK
    <3> QED BY <1>1, <3>1 DEF FreeIn
  <2> QED BY <2>1
<1>7. PICK i \in Ids, links \in SUBSET Repos : i = id /\ links = a.links
    BY <1>2
<1> HIDE DEF id, a
<1>8. Homes!Free(i, links) /\ Home' = Homes!Rehomed(i, links)
    BY <1>2, <1>5, <1>6, <1>7, Rehomes
<1>9. Homes!Open(i, links)
    BY <1>1, <1>2, <1>3, <1>4, <1>7, <1>8 DEF Homes!Open, Home
<1> QED BY <1>9

LEMMA PatchRelinks ==
    ASSUME LifeInv, LifeInv', NEW w \in Workers, CommitPatch(w)
    PROVE  \E id \in Ids, links \in SUBSET Repos : Homes!Relink(id, links)
<1>1. PICK id : id = ask[w].id
    OBVIOUS
<1>2. id \in Ids /\ id \in Live /\ Live' = Live
    BY <1>1, PatchMoves
<1>3. PICK links \in SUBSET Repos : Moved(id, links) /\ \A r \in links : \A b \in bound : b[2] = r => b[1] = id
    BY <1>1, PatchMoves
<1>4. Homes!Free(id, links) /\ Home' = Homes!Rehomed(id, links)
    BY <1>2, <1>3, Rehomes
<1>5. projects' = projects /\ gone' = gone
  <2>1. Commit(w) /\ ask[w].op = "patch" /\ gone' = gone
    BY DEF CommitPatch
  <2>2. projects' = projects + 0 /\ projects \in Nat
    BY <2>1, CommitParts DEF KindOf, LifeInv, PlanInv, PlanTypeOK
  <2> QED BY <2>1, <2>2
<1>6. Homes!Relink(id, links)
    BY <1>2, <1>4, <1>5 DEF Homes!Relink, Home
<1> QED BY <1>2, <1>6

LEMMA EraseErases ==
    ASSUME LifeInv, LifeInv', NEW w \in Workers, CommitErase(w)
    PROVE  \E id \in Ids : Homes!Erase(id)
<1>0. LifeTypeOK
    BY DEF LifeInv, LifeConsistent
<1>1. PICK id : id = ask[w].id
    OBVIOUS
<1>2. /\ id \in Live /\ row' = [row EXCEPT ![id] = Null] /\ bound' = bound \ ({id} \X Repos)
      /\ gone' = gone \cup {id} /\ projects' = projects
    BY <1>1 DEF CommitErase, RevisionHolds
<1>3. id \in Ids /\ Live' = Live \ {id}
  <2>1. id \in Ids /\ row'[id] = Null /\ \A o \in Ids \ {id} : row'[o] = row[o]
    BY <1>0, <1>2 DEF LifeTypeOK, Live
  <2>2. \A o : o \in Live' <=> o \in Live /\ o # id
    BY <2>1 DEF Live
  <2> QED BY <2>1, <2>2
<1>4. Moved(id, {})
  <2>1. ASSUME NEW b PROVE b \in bound' <=> b \in bound /\ b[1] # id
    <3>1. b \in bound => b = <<b[1], b[2]>> /\ b[2] \in Repos
      BY <1>0 DEF LifeTypeOK
    <3> QED BY <1>2, <3>1
  <2> QED BY <2>1 DEF Moved
<1>5. Home' = Homes!Rehomed(id, {})
    BY <1>3, <1>4, Rehomes
<1>6. Homes!Erase(id)
    BY <1>2, <1>3, <1>5 DEF Homes!Erase, Home
<1> QED BY <1>3, <1>6

LEMMA StepHomes == LifeInv /\ LifeInv' /\ [LifeNext]_lifeVars => [Homes!Next]_(Homes!vars)
<1> SUFFICES ASSUME LifeInv, LifeInv', [LifeNext]_lifeVars PROVE [Homes!Next]_(Homes!vars)
    OBVIOUS
<1>1. ASSUME UNCHANGED <<row, bound, gone, projects>> PROVE UNCHANGED Homes!vars
    BY <1>1 DEF Homes!vars, Live
<1>2. ASSUME NEW w \in Workers, LifeStep(w) PROVE [Homes!Next]_(Homes!vars)
  <2>1. CASE CommitCreate(w)
    BY <2>1, CreateOpens DEF Homes!Next
  <2>2. CASE CommitPatch(w)
    BY <2>2, PatchRelinks DEF Homes!Next
  <2>3. CASE CommitErase(w)
    BY <2>3, EraseErases DEF Homes!Next
  <2>4. CASE CommitRecord(w) \/ CommitRemove(w)
    <3>1. Commit(w) /\ ask[w].op \in {"record", "remove"} /\ UNCHANGED <<row, bound, gone>>
      BY <2>4 DEF CommitRecord, CommitRemove
    <3>2. projects' = projects + 0 /\ projects \in Nat
      BY <3>1, CommitParts DEF KindOf, LifeInv, PlanInv, PlanTypeOK
    <3> QED BY <1>1, <3>1, <3>2
  <2>5. CASE ~(CommitCreate(w) \/ CommitPatch(w) \/ CommitErase(w) \/ CommitRecord(w) \/ CommitRemove(w))
    <3>1. UNCHANGED <<row, bound, gone, projects>>
      BY <1>2, <2>5 DEF LifeStep, Create, Patch, Erase, Record, Remove, Begin, Receive, Check, Inspect, Drop, Abandon,
                        tables, projectTables
    <3> QED BY <1>1, <3>1
  <2> QED BY <2>1, <2>2, <2>3, <2>4, <2>5
<1>3. CASE LifeEnvironment
    BY <1>1, <1>3 DEF LifeEnvironment, ChangePlan, Tick, tables, projectTables
<1>4. CASE UNCHANGED lifeVars
    BY <1>1, <1>4 DEF lifeVars, planVars, tables, projectTables
<1> QED BY <1>2, <1>3, <1>4 DEF LifeNext

(* A repository has one home, moves all at once to a project that may have   *)
(* it, and an erased project's place stays taken: every batch of the code   *)
(* is one step of that, or none.                                            *)
THEOREM ProjectsImplementHomes == LifeSpec => ImplementsHomes
<1>1. LifeInv /\ LifeInv' /\ [LifeNext]_lifeVars => [Homes!Next]_(Homes!vars)
    BY StepHomes
<1> QED BY <1>1, HomesStart, LifeInvHolds, PTL DEF LifeSpec, ImplementsHomes, Homes!Spec
=============================================================================
