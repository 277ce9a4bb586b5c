--------------------------- MODULE BillingProofs ---------------------------
(***************************************************************************)
(* Theorems about one account and its payment provider, for every number of *)
(* subscriptions, handlers, events, requests and crashes. The inductive     *)
(* invariant adds to Consistent and CleanProjection what the account has    *)
(* heard of its current subscription, what it may still hear, and what a    *)
(* request under way has read.                                              *)
(***************************************************************************)
EXTENDS Billing, TLAPS

(* What the provider has said never ends, and is in order of time.           *)
LogOrdered ==
    /\ \A i, k \in Emitted : i <= k => log[i].created <= log[k].created
    /\ \A i \in Emitted : provider[log[i].sub] # Null

(* An account, now or as somebody read it, is not ahead of the provider.     *)
NotAhead(a) ==
    /\ a.seen \subseteq Emitted
    /\ a.bill = Null => a.seen = {} /\ a.claim = Null
    /\ a.bill # Null =>
         /\ provider[a.bill.sub] # Null /\ a.bill.sub \in a.records
         /\ a.bill.last <= Now

(* An event of the current subscription that the account has yet to hear.    *)
Echo(a) == \E id \in Emitted \ a.seen : log[id].sub = a.bill.sub /\ a.bill.last <= log[id].created

(* What was heard of the current subscription is no newer than the account;  *)
(* a former one never becomes current again.                                 *)
Heard(a) ==
    a.bill # Null => \A id \in a.seen :
        log[id].created <= a.bill.last \/ log[id].sub \in a.records \ {a.bill.sub}

(* The state of the current subscription is that of an event heard, of one   *)
(* still to come, or of the time before any.                                 *)
Told(a) ==
    a.bill # Null =>
        \/ \E id \in a.seen : /\ log[id].sub = a.bill.sub /\ log[id].created = a.bill.last
                              /\ log[id].status = a.bill.status /\ log[id].plan = a.bill.plan
        \/ Echo(a)
        \/ a.bill.last = 0 /\ \A id \in a.seen : log[id].sub # a.bill.sub

(* What a request has read, by what it is about to do.                       *)
Reading(j) ==
    /\ j.pc \in {"park", "read", "settle"} => j.event \in Emitted
    /\ j.pc \in {"settle", "refresh", "claim", "post", "restore", "write"} =>
         j.account \in Account /\ NotAhead(j.account)
    /\ j.pc \in {"claim", "post", "restore", "write"} => j.kind # "webhook"
    /\ j.pc \in {"claim", "restore"} => j.kind = "upgrade"
    /\ j.pc = "write" => j.kind # "upgrade"
    /\ j.pc = "post" => j.kind # "grant"

(* The subscription of a request is as the request found it.                 *)
Asking(j) ==
    j.pc \in {"claim", "post", "restore", "write"} =>
        /\ j.kind = "checkout" => j.request \in Requests
        /\ j.kind \in {"cancel", "resume", "upgrade"} => j.account.bill # Null
        /\ j.kind = "cancel" => j.account.bill.status = "active"
        /\ j.kind = "resume" => j.account.bill.status = "canceling"
        /\ j.pc = "claim" => j.account.claim = Null \/ j.account.claim.sub # j.account.bill.sub
        /\ j.pc = "write" /\ j.kind \in {"cancel", "resume"} => Echo(j.account)

(* Of the account as it is all three hold; of what was read, the first.      *)
AccountSound == NotAhead(account) /\ Heard(account) /\ Told(account)
JobsSound == \A h \in Handlers : Reading(job[h]) /\ Asking(job[h])

(* The inductive invariant.                                                  *)
BillingInv ==
    /\ TypeOK /\ LogOrdered /\ AccountSound /\ JobsSound
    /\ ReceiptsMatchAccount /\ CleanProjection

-----------------------------------------------------------------------------
(* The log only grows.                                                       *)

Grows ==
    /\ Emitted \subseteq Emitted' /\ \A id \in Emitted : log'[id] = log[id]
    /\ Now <= Now'
    /\ \A s \in Subscriptions : provider[s] # Null => provider'[s] # Null

LEMMA LogFacts ==
    ASSUME TypeOK, LogOrdered
    PROVE  /\ Len(log) \in Nat /\ Emitted = 1 .. Len(log) /\ Emitted \subseteq Events
           /\ \A id \in Emitted : log[id] \in Event
           /\ Now \in Nat /\ \A id \in Emitted : log[id].created <= Now
<1>1. Len(log) \in Nat /\ Emitted = 1 .. Len(log) /\ \A id \in Emitted : log[id] \in Event
    BY DEF TypeOK, Emitted
<1>2. Emitted \subseteq Events
    BY <1>1, BillingAssumption DEF TypeOK, Events
<1>3. \A id \in Emitted : log[id].created \in Nat
    BY <1>1 DEF Event
<1>4. CASE log = <<>>
    BY <1>1, <1>2, <1>4 DEF Now
<1>5. CASE log # <<>>
    <2>1. Len(log) \in Emitted
        BY <1>1, <1>5 DEF TypeOK
    <2> QED BY <1>1, <1>2, <1>3, <1>5, <2>1 DEF Now, LogOrdered
<1> QED BY <1>4, <1>5

LEMMA Reported ==
    ASSUME TypeOK, LogOrdered, NEW s \in Subscriptions, NEW c \in Contract,
           NEW r \in Requests \cup {Null}, Report(s, c, r)
    PROVE  /\ provider' \in [Subscriptions -> Contract \cup {Null}]
           /\ log' \in Seq(Event) /\ Len(log') <= MaxEvents
           /\ Grows /\ LogOrdered' /\ Now' \in Nat
           /\ \E id \in Emitted' \ Emitted : log'[id].sub = s /\ Now <= log'[id].created
<1>1. PICK tick \in 0..1, named \in Marks :
        log' = Append(log, [sub |-> s, status |-> c.status, plan |-> c.plan,
                            created |-> Now + tick, request |-> r, named |-> named])
    BY DEF Report
<1> DEFINE e == [sub |-> s, status |-> c.status, plan |-> c.plan,
                 created |-> Now + tick, request |-> r, named |-> named]
<1>2. Now \in Nat /\ Len(log) \in Nat /\ Emitted = 1 .. Len(log) /\ Emitted \subseteq Events
      /\ (\A id \in Emitted : log[id] \in Event)
      /\ \A id \in Emitted : log[id].created <= Now
    BY LogFacts
<1>3. e \in Event /\ e.sub = s /\ e.created = Now + tick
    BY <1>2, BillingAssumption DEF Event, Contract
<1>4. /\ provider' = [provider EXCEPT ![s] = c] /\ Len(log) < MaxEvents
      /\ provider \in [Subscriptions -> Contract \cup {Null}] /\ log \in Seq(Event)
    BY DEF Report, TypeOK
<1>5. provider' \in [Subscriptions -> Contract \cup {Null}]
      /\ \A x \in Subscriptions : provider[x] # Null => provider'[x] # Null
    BY <1>4, NullAssumption
<1>6. log' = Append(log, e)
    BY <1>1
<1> HIDE DEF e
<1>7. log' \in Seq(Event) /\ Len(log') = Len(log) + 1
      /\ log'[Len(log) + 1] = e /\ \A id \in 1 .. Len(log) : log'[id] = log[id]
    BY <1>3, <1>4, <1>6
<1>8. Emitted' = 1 .. Len(log) + 1 /\ Len(log) + 1 \in Emitted' \ Emitted
      /\ Emitted \subseteq Emitted'
    BY <1>2, <1>7 DEF Emitted
<1>9. log' # <<>> /\ Now' = e.created /\ Now <= e.created /\ Now' \in Nat
    BY <1>2, <1>3, <1>7 DEF Now
<1>10. Grows
    BY <1>2, <1>5, <1>7, <1>8, <1>9, <1>3 DEF Grows
<1>11. \A id \in Emitted' : id \in Emitted \/ id = Len(log) + 1
    BY <1>2, <1>8
<1>12. \A id \in Emitted' : provider'[log'[id].sub] # Null
    <2> TAKE id \in Emitted'
    <2>1. CASE id \in Emitted
        BY <1>2, <1>5, <1>7, <2>1 DEF LogOrdered, Event
    <2>2. CASE id = Len(log) + 1
        BY <1>3, <1>4, <1>7, <2>2, NullAssumption
    <2> QED BY <1>11, <2>1, <2>2
<1>13. \A i, k \in Emitted' : i <= k => log'[i].created <= log'[k].created
    <2> TAKE i, k \in Emitted'
    <2> HAVE i <= k
    <2>1. CASE k \in Emitted
        <3>1. i \in Emitted
            BY <1>2, <1>8, <2>1
        <3> QED BY <1>2, <1>7, <2>1, <3>1 DEF LogOrdered
    <2>2. CASE k = Len(log) + 1 /\ i = k
        BY <1>3, <1>2, <1>7, <2>2
    <2>3. CASE k = Len(log) + 1 /\ i \in Emitted
        <3>1. log[i].created <= Now /\ log[i].created \in Nat
            BY <1>2, <2>3 DEF Event
        <3> QED BY <1>2, <1>3, <1>7, <2>3, <3>1
    <2> QED BY <1>11, <2>1, <2>2, <2>3
<1>14. \E id \in Emitted' \ Emitted : log'[id].sub = s /\ Now <= log'[id].created
    BY <1>3, <1>7, <1>8, <1>9
<1>15. Len(log') <= MaxEvents
    BY <1>2, <1>4, <1>7, BillingAssumption
<1> QED BY <1>5, <1>7, <1>9, <1>10, <1>12, <1>13, <1>14, <1>15 DEF LogOrdered

LEMMA AccountFields ==
    ASSUME NEW a \in Account
    PROVE  /\ a.bill \in Bill \cup {Null} /\ a.records \in SUBSET Subscriptions
           /\ a.seen \in SUBSET Events /\ a.claim \in Claim \cup {Null}
           /\ a.checkout \in Requests \cup {Null} /\ a.grant \in BOOLEAN
           /\ a.bill # Null => /\ a.bill \in Bill /\ a.bill.sub \in Subscriptions
                               /\ a.bill.status \in Statuses /\ a.bill.plan \in {"pro", "max"}
                               /\ a.bill.last \in Nat
           /\ a.claim # Null => a.claim.sub \in Subscriptions /\ a.claim.plan = "max"
BY DEF Account, Bill, Claim

(* What a reader knows stays true while the log grows.                       *)
LEMMA StillNotAhead ==
    ASSUME TypeOK, LogOrdered, Grows, Now' \in Nat, NEW a \in Account, NotAhead(a)
    PROVE  NotAhead(a)'
<1>1. Now \in Nat
    BY LogFacts
<1> QED BY <1>1, AccountFields DEF NotAhead, Grows

LEMMA StillHeard ==
    ASSUME Grows, NEW a \in Account, NotAhead(a), Heard(a)
    PROVE  Heard(a)'
BY AccountFields DEF NotAhead, Heard, Grows

LEMMA StillEchoes ==
    ASSUME Grows, NEW a \in Account, Echo(a)
    PROVE  Echo(a)'
BY DEF Echo, Grows

LEMMA StillTold ==
    ASSUME Grows, NEW a \in Account, NotAhead(a), Told(a)
    PROVE  Told(a)'
BY StillEchoes, AccountFields DEF NotAhead, Told, Grows

(* The account keeps what it has heard while the log grows.                 *)
LEMMA SoundKept ==
    ASSUME TypeOK, LogOrdered, Grows, Now' \in Nat, UNCHANGED account, AccountSound
    PROVE  AccountSound'
<1> DEFINE a == account
<1>1. a \in Account
    BY DEF TypeOK
<1>2. NotAhead(a) /\ Heard(a) /\ Told(a)
    BY DEF AccountSound
<1>3. /\ a.bill # Null => a.bill.sub \in Subscriptions /\ a.bill.last \in Nat
      /\ Now \in Nat
    BY <1>1, AccountFields, LogFacts
<1>4. NotAhead(account)'
    BY <1>2, <1>3 DEF NotAhead, Grows
<1>5. Heard(account)'
    BY <1>2, <1>3 DEF NotAhead, Heard, Grows
<1>6. Told(account)'
    BY <1>2, <1>3 DEF NotAhead, Told, Echo, Grows
<1> QED BY <1>4, <1>5, <1>6 DEF AccountSound

LEMMA Quiet ==
    ASSUME TypeOK, LogOrdered, UNCHANGED outside
    PROVE  Grows /\ LogOrdered' /\ Now' = Now /\ Now' \in Nat /\ Emitted' = Emitted
           /\ provider' \in [Subscriptions -> Contract \cup {Null}] /\ sold' \subseteq Requests
           /\ log' \in Seq(Event) /\ Len(log') <= MaxEvents
<1>1. log' = log /\ provider' = provider /\ sold' = sold
    BY DEF outside
<1>2. Now' = Now /\ Emitted' = Emitted /\ LogOrdered'
    BY <1>1 DEF Now, Emitted, LogOrdered
<1>3. Now \in Nat
    BY LogFacts
<1> QED BY <1>1, <1>2, <1>3 DEF Grows, TypeOK

-----------------------------------------------------------------------------
(* What an event does to the account.                                        *)

LEMMA ReducedCases ==
    ASSUME NEW a \in Account, NEW id \in Events, log[id] \in Event
    PROVE  LET e == log[id]  b == Reduced(a, id) IN
           /\ b \in Account /\ b.seen = a.seen \cup {id}
           /\ b.checkout = a.checkout /\ b.grant = a.grant
           /\ \/ /\ Foreign(a, e) /\ b.bill = a.bill /\ b.claim = a.claim
                 /\ b.records = a.records \cup {e.sub}
              \/ /\ ~Foreign(a, e) /\ Stale(a, e)
                 /\ b.bill = a.bill /\ b.claim = a.claim /\ b.records = a.records
              \/ /\ ~Foreign(a, e) /\ ~Stale(a, e) /\ b.bill # Null
                 /\ b.bill.sub = e.sub /\ b.bill.status = e.status /\ b.bill.plan = e.plan
                 /\ b.bill.last = e.created /\ b.claim \in {Null, a.claim}
                 /\ b.records = a.records \cup {e.sub}
                                  \cup (IF a.bill = Null THEN {} ELSE {a.bill.sub})
<1> DEFINE e == log[id]
           heard == [a EXCEPT !.seen = @ \cup {id}]
           bill == [sub |-> e.sub, status |-> e.status, plan |-> e.plan, last |-> e.created]
           records == a.records \cup {e.sub} \cup (IF a.bill = Null THEN {} ELSE {a.bill.sub})
           claim == IF Settles(a.claim, e) THEN Null ELSE a.claim
           far == [heard EXCEPT !.records = @ \cup {e.sub}]
           new == [heard EXCEPT !.bill = bill, !.records = records, !.claim = claim]
<1>1. /\ e.sub \in Subscriptions /\ e.status \in Statuses /\ e.plan \in {"pro", "max"}
      /\ e.created \in Nat
    BY DEF Event
<1>2. /\ a.bill \in Bill \cup {Null} /\ a.records \in SUBSET Subscriptions
      /\ a.seen \in SUBSET Events /\ a.claim \in Claim \cup {Null}
      /\ a.bill # Null => a.bill.sub \in Subscriptions
    BY AccountFields
<1>3. bill \in Bill /\ bill # Null
    BY <1>1, NullAssumption DEF Bill
<1>4. records \in SUBSET Subscriptions /\ claim \in Claim \cup {Null}
    BY <1>1, <1>2
<1>5. heard \in Account /\ heard.seen = a.seen \cup {id} /\ heard.bill = a.bill /\ heard.claim = a.claim
      /\ heard.records = a.records /\ heard.checkout = a.checkout /\ heard.grant = a.grant
    BY <1>2 DEF Account
<1> HIDE DEF bill, records, claim, heard
<1>6. far \in Account /\ far.seen = heard.seen /\ far.bill = heard.bill /\ far.claim = heard.claim
      /\ far.records = a.records \cup {e.sub} /\ far.checkout = heard.checkout /\ far.grant = heard.grant
    BY <1>1, <1>2, <1>5 DEF Account
<1>7. new \in Account /\ new.seen = heard.seen /\ new.bill = bill /\ new.claim = claim
      /\ new.records = records /\ new.checkout = heard.checkout /\ new.grant = heard.grant
    BY <1>3, <1>4, <1>5 DEF Account
<1>8. Reduced(a, id) = IF Foreign(a, e) THEN far ELSE IF Stale(a, e) THEN heard ELSE new
    BY <1>5 DEF Reduced, heard, bill, records, claim
<1> HIDE DEF far, new
<1>9. CASE Foreign(a, e)
    BY <1>5, <1>6, <1>8, <1>9
<1>10. CASE ~Foreign(a, e) /\ Stale(a, e)
    BY <1>5, <1>8, <1>10
<1>11. CASE ~Foreign(a, e) /\ ~Stale(a, e)
    <2>1. /\ bill.sub = e.sub /\ bill.status = e.status /\ bill.plan = e.plan
          /\ bill.last = e.created
        BY DEF bill
    <2>2. claim \in {Null, a.claim}
        BY DEF claim
    <2> QED BY <1>3, <1>5, <1>7, <1>8, <1>11, <2>1, <2>2 DEF records
<1> QED BY <1>9, <1>10, <1>11

LEMMA ReducedSound ==
    ASSUME TypeOK, LogOrdered, NEW a \in Account, NotAhead(a), Heard(a), Told(a),
           NEW id \in Emitted
    PROVE  LET b == Reduced(a, id) IN
           b \in Account /\ b.seen = a.seen \cup {id} /\ NotAhead(b) /\ Heard(b) /\ Told(b)
<1> DEFINE e == log[id]
           b == Reduced(a, id)
<1>1. /\ id \in Events /\ e \in Event /\ Now \in Nat /\ e.created <= Now
      /\ \A k \in Emitted : log[k] \in Event
    BY LogFacts
<1>2. e.sub \in Subscriptions /\ e.created \in Nat /\ provider[e.sub] # Null
      /\ \A k \in Emitted : log[k].created \in Nat
    BY <1>1 DEF Event, LogOrdered
<1>3. /\ a.bill \in Bill \cup {Null} /\ a.records \in SUBSET Subscriptions
      /\ a.bill # Null => a.bill.sub \in Subscriptions /\ a.bill.last \in Nat
    BY AccountFields
<1>4. /\ b \in Account /\ b.seen = a.seen \cup {id}
      /\ \/ /\ Foreign(a, e) /\ b.bill = a.bill /\ b.claim = a.claim
            /\ b.records = a.records \cup {e.sub}
         \/ /\ ~Foreign(a, e) /\ Stale(a, e)
            /\ b.bill = a.bill /\ b.claim = a.claim /\ b.records = a.records
         \/ /\ ~Foreign(a, e) /\ ~Stale(a, e) /\ b.bill # Null
            /\ b.bill.sub = e.sub /\ b.bill.status = e.status /\ b.bill.plan = e.plan
            /\ b.bill.last = e.created /\ b.claim \in {Null, a.claim}
            /\ b.records = a.records \cup {e.sub}
                             \cup (IF a.bill = Null THEN {} ELSE {a.bill.sub})
    BY <1>1, ReducedCases
<1> HIDE DEF b
<1>5. a.seen \subseteq Emitted
    BY DEF NotAhead
<1>6. NotAhead(b) /\ Heard(b) /\ Told(b)
    <2>1. CASE Foreign(a, e) /\ b.bill = a.bill /\ b.claim = a.claim
               /\ b.records = a.records \cup {e.sub}
        <3>1. a.bill # Null /\ a.bill.sub # e.sub
            BY <2>1 DEF Foreign
        <3>2. NotAhead(b)
            BY <1>4, <2>1, <3>1 DEF NotAhead
        <3>3. Heard(b)
            BY <1>2, <1>3, <1>4, <2>1, <3>1 DEF Heard
        <3>4. Told(b)
            BY <1>4, <2>1, <3>1 DEF Told, Echo
        <3> QED BY <3>2, <3>3, <3>4
    <2>2. CASE ~Foreign(a, e) /\ Stale(a, e)
               /\ b.bill = a.bill /\ b.claim = a.claim /\ b.records = a.records
        <3>1. a.bill # Null /\ e.created < a.bill.last
            BY <2>2 DEF Stale
        <3>2. NotAhead(b)
            BY <1>4, <2>2, <3>1 DEF NotAhead
        <3>3. Heard(b)
            BY <1>2, <1>3, <1>4, <2>2, <3>1 DEF Heard
        <3>4. Told(b)
            <4>1. CASE \E k \in a.seen : /\ log[k].sub = a.bill.sub /\ log[k].created = a.bill.last
                             /\ log[k].status = a.bill.status /\ log[k].plan = a.bill.plan
                BY <1>4, <2>2, <4>1 DEF Told
            <4>2. CASE Echo(a)
                <5>1. PICK k \in Emitted \ a.seen :
                        log[k].sub = a.bill.sub /\ a.bill.last <= log[k].created
                    BY <4>2 DEF Echo
                <5>2. k # id
                    BY <1>2, <1>3, <3>1, <5>1
                <5> QED BY <1>4, <2>2, <5>1, <5>2 DEF Told, Echo
            <4>3. CASE a.bill.last = 0
                BY <1>2, <3>1, <4>3
            <4> QED BY <3>1, <4>1, <4>2, <4>3 DEF Told
        <3> QED BY <3>2, <3>3, <3>4
    <2>3. CASE /\ ~Foreign(a, e) /\ ~Stale(a, e) /\ b.bill # Null
               /\ b.bill.sub = e.sub /\ b.bill.status = e.status /\ b.bill.plan = e.plan
               /\ b.bill.last = e.created
               /\ b.records = a.records \cup {e.sub}
                                \cup (IF a.bill = Null THEN {} ELSE {a.bill.sub})
        <3>1. NotAhead(b)
            BY <1>1, <1>2, <1>4, <1>5, <2>3 DEF NotAhead
        <3>2. Told(b)
            BY <1>4, <2>3 DEF Told
        <3>3. Heard(b)
            <4>1. CASE a.bill = Null
                BY <1>2, <1>4, <2>3, <4>1 DEF Heard, NotAhead
            <4>2. CASE a.bill # Null
                <5>1. a.bill.last <= e.created
                    BY <1>2, <1>3, <2>3, <4>2 DEF Stale
                <5>2. a.bill.sub = e.sub \/ e.sub \notin a.records
                    BY <2>3, <4>2 DEF Foreign
                <5>3. a.bill.sub \in a.records
                    BY <4>2 DEF NotAhead
                <5>4. \A k \in a.seen : \/ log[k].created <= a.bill.last
                                        \/ log[k].sub \in a.records \ {a.bill.sub}
                    BY <4>2 DEF Heard
                <5>5. \A k \in a.seen : \/ log[k].created <= e.created
                                        \/ log[k].sub \in b.records \ {e.sub}
                    BY <1>2, <1>3, <1>5, <2>3, <4>2, <5>1, <5>2, <5>3, <5>4
                <5> QED BY <1>2, <1>4, <2>3, <5>5 DEF Heard
            <4> QED BY <4>1, <4>2
        <3> QED BY <3>1, <3>2, <3>3
    <2> QED BY <1>4, <2>1, <2>2, <2>3
<1> QED BY <1>4, <1>6 DEF b

-----------------------------------------------------------------------------
(* Requests.                                                                 *)

LEMMA IdleIsQuiet == Idle \in Job /\ Reading(Idle) /\ Asking(Idle)
<1>1. Idle \in Job
    BY DEF Idle, Job, Kinds
<1> QED BY <1>1 DEF Idle, Reading, Asking

LEMMA StillReading ==
    ASSUME TypeOK, LogOrdered, Grows, Now' \in Nat, NEW j \in Job, Reading(j), Asking(j)
    PROVE  Reading(j)' /\ Asking(j)'
<1>1. Reading(j)'
    BY StillNotAhead DEF Reading, Grows
<1>2. Asking(j)'
    BY StillEchoes DEF Reading, Asking
<1> QED BY <1>1, <1>2

LEMMA JobsKept ==
    ASSUME TypeOK, LogOrdered, Grows, Now' \in Nat, JobsSound, UNCHANGED job
    PROVE  JobsSound' /\ job' \in [Handlers -> Job]
<1>1. \A j \in Job : Reading(j) /\ Asking(j) => (Reading(j) /\ Asking(j))'
    BY StillReading
<1>2. ASSUME NEW h \in Handlers PROVE (Reading(job[h]) /\ Asking(job[h]))'
    <2>1. job[h] \in Job /\ Reading(job[h]) /\ Asking(job[h])
        BY DEF TypeOK, JobsSound
    <2> QED BY <1>1, <2>1
<1> QED BY <1>2 DEF TypeOK, JobsSound

LEMMA OneJob ==
    ASSUME TypeOK, LogOrdered, Grows, Now' \in Nat, JobsSound,
           NEW h \in Handlers, NEW j \in Job, (Reading(j) /\ Asking(j))',
           job' = [job EXCEPT ![h] = j]
    PROVE  JobsSound' /\ job' \in [Handlers -> Job]
<1>1. job \in [Handlers -> Job]
    BY DEF TypeOK
<1>2. job' \in [Handlers -> Job] /\ job'[h] = j /\ \A k \in Handlers \ {h} : job'[k] = job[k]
    BY <1>1
<1>3. \A k \in Job : Reading(k) /\ Asking(k) => (Reading(k) /\ Asking(k))'
    BY StillReading
<1>4. ASSUME NEW k \in Handlers PROVE (Reading(job[k]) /\ Asking(job[k]))'
    <2>1. CASE k = h
        BY <1>2, <2>1
    <2>2. CASE k # h
        <3>1. job[k] \in Job /\ Reading(job[k]) /\ Asking(job[k])
            BY <1>1 DEF JobsSound
        <3> QED BY <1>2, <1>3, <2>2, <3>1
    <2> QED BY <2>1, <2>2
<1> QED BY <1>2, <1>4 DEF JobsSound

LEMMA EndedJob ==
    ASSUME TypeOK, LogOrdered, Grows, Now' \in Nat, JobsSound, NEW h \in Handlers, Done(h)
    PROVE  JobsSound' /\ job' \in [Handlers -> Job]
<1>1. (Reading(Idle) /\ Asking(Idle))'
    BY IdleIsQuiet, StillReading
<1>2. job' = [job EXCEPT ![h] = Idle]
    BY DEF Done
<1> QED BY <1>1, <1>2, IdleIsQuiet, OneJob

(* A write of the account by its own requests keeps what it has heard.       *)
LEMMA SameBill ==
    ASSUME TypeOK, NEW a \in Account, NotAhead(a), Heard(a), Told(a),
           NEW b \in Account, b.bill = a.bill, b.records = a.records, b.seen = a.seen,
           a.bill = Null => b.claim = Null
    PROVE  NotAhead(b) /\ Heard(b) /\ Told(b)
<1>1. NotAhead(b)
    BY DEF NotAhead
<1>2. Heard(b)
    BY DEF Heard
<1>3. Told(b)
    BY DEF Told, Echo
<1> QED BY <1>1, <1>2, <1>3

LEMMA NewAccount ==
    ASSUME TypeOK, LogOrdered, UNCHANGED outside, NEW b \in Account,
           NotAhead(b), Heard(b), Told(b), account' = b
    PROVE  AccountSound'
<1>1. Grows /\ Now' \in Nat
    BY Quiet
<1>2. NotAhead(b)' /\ Heard(b)' /\ Told(b)'
    BY <1>1, StillNotAhead, StillHeard, StillTold
<1> QED BY <1>2 DEF AccountSound

LEMMA JobFields ==
    ASSUME NEW j \in Job
    PROVE  /\ j.pc \in {"idle", "park", "read", "settle", "authority", "refresh",
                        "claim", "post", "write", "restore"}
           /\ j.kind \in Kinds /\ j.event \in Events \cup {Null}
           /\ j.request \in Requests \cup {Null} /\ j.account \in Account \cup {Null}
           /\ j.rev \in Nat /\ j.parked \in BOOLEAN
BY DEF Job

(* A job goes on to its next step with what it has read.                     *)
LEMMA NextStep ==
    ASSUME NEW j \in Job, NEW pc \in {"idle", "park", "read", "settle", "authority", "refresh",
                                      "claim", "post", "write", "restore"}
    PROVE  LET k == [j EXCEPT !.pc = pc] IN
           /\ k \in Job /\ k.pc = pc /\ k.kind = j.kind /\ k.event = j.event
           /\ k.request = j.request /\ k.account = j.account /\ k.rev = j.rev
           /\ k.parked = j.parked
BY DEF Job

LEMMA GoesOn ==
    ASSUME NEW h \in Handlers, NEW pc, Goto(h, pc), job \in [Handlers -> Job]
    PROVE  job' = [job EXCEPT ![h] = [job[h] EXCEPT !.pc = pc]]
BY DEF Goto

-----------------------------------------------------------------------------
(* Steps that leave the stored records alone.                                *)

LEMMA Untouched ==
    ASSUME BillingInv, UNCHANGED stored, Grows, LogOrdered', Now' \in Nat,
           provider' \in [Subscriptions -> Contract \cup {Null}], sold' \subseteq Requests,
           log' \in Seq(Event), Len(log') <= MaxEvents,
           JobsSound', job' \in [Handlers -> Job], asks' \in 0..MaxAsks, crashes' \in 0..MaxCrashes
    PROVE  BillingInv'
<1>1. account' = account /\ receipt' = receipt /\ parked' = parked /\ authority' = authority
    BY DEF stored
<1>2. AccountSound'
    BY <1>1, SoundKept DEF BillingInv
<1>3. TypeOK'
    BY <1>1 DEF BillingInv, TypeOK
<1>4. ReceiptsMatchAccount' /\ CleanProjection'
    BY <1>1 DEF BillingInv, ReceiptsMatchAccount, CleanProjection, PlanOf
<1> QED BY <1>2, <1>3, <1>4 DEF BillingInv

LEMMA InitInv == Init => BillingInv
<1> SUFFICES ASSUME Init PROVE BillingInv
    OBVIOUS
<1> DEFINE new == [status |-> "active", plan |-> "pro"]
           some == CHOOSE s \in Subscriptions : provider[s] # Null
           bill == IF \A s \in Subscriptions : provider[s] = Null THEN Null
                   ELSE [sub |-> some, status |-> "active", plan |-> "pro", last |-> 0]
           records == {s \in Subscriptions : provider[s] # Null}
<1>1. new \in Contract /\ new # Null
    BY NullAssumption DEF Contract, Statuses, Entitled
<1>2. provider \in [Subscriptions -> Contract \cup {Null}]
    BY <1>1 DEF Init
<1>3. /\ log = <<>> /\ Emitted = {} /\ Now = 0 /\ log \in Seq(Event) /\ Len(log) = 0
    BY DEF Init, Emitted, Now
<1>4. LogOrdered
    BY <1>3 DEF LogOrdered
<1>5. account = [bill |-> bill, records |-> records, seen |-> {}, claim |-> Null,
                 checkout |-> Null, grant |-> FALSE]
    BY DEF Init
<1>6. /\ bill \in Bill \cup {Null}
      /\ bill # Null => bill.sub \in records /\ bill.last = 0 /\ provider[bill.sub] # Null
    <2>1. CASE \A s \in Subscriptions : provider[s] = Null
        BY <2>1
    <2>2. CASE \E s \in Subscriptions : provider[s] # Null
        <3>1. some \in Subscriptions /\ provider[some] # Null
            BY <2>2
        <3> HIDE DEF some
        <3>2. bill = [sub |-> some, status |-> "active", plan |-> "pro", last |-> 0]
            BY <2>2
        <3> QED BY <3>1, <3>2 DEF Bill, Statuses, Entitled
    <2> QED BY <2>1, <2>2
<1> HIDE DEF bill, records, some, new
<1>7. account \in Account
    <2>1. records \in SUBSET Subscriptions
        BY DEF records
    <2> QED BY <1>5, <1>6, <2>1 DEF Account
<1>8. NotAhead(account)
    BY <1>3, <1>5, <1>6 DEF NotAhead
<1>9. Heard(account) /\ Told(account)
    BY <1>5, <1>6 DEF Heard, Told
<1>10. authority \in [plan : Plans, dirty : BOOLEAN, rev : Nat] /\ authority.plan = PlanOf(account)
    <2>1. PlanOf(account) \in Plans
        BY <1>7, AccountFields DEF PlanOf, Plans
    <2> QED BY <2>1 DEF Init
<1>11. job \in [Handlers -> Job] /\ JobsSound
    <2>1. job = [h \in Handlers |-> Idle]
        BY DEF Init
    <2> QED BY <2>1, IdleIsQuiet DEF JobsSound
<1>12. receipt \in [Events -> {Null, "pending", "applied"}] /\ ReceiptsMatchAccount
    <2>1. receipt = [e \in Events |-> Null] /\ parked = {} /\ account.seen = {}
        BY <1>5 DEF Init
    <2> QED BY <2>1, BillingAssumption DEF ReceiptsMatchAccount
<1>13. TypeOK
    <2>1. sold = {} /\ parked = {} /\ asks = 0 /\ crashes = 0
        BY DEF Init
    <2> QED BY <1>2, <1>3, <1>7, <1>10, <1>11, <1>12, <2>1, BillingAssumption DEF TypeOK
<1> QED BY <1>4, <1>8, <1>9, <1>10, <1>11, <1>12, <1>13
        DEF BillingInv, AccountSound, CleanProjection

LEMMA ProviderSteps ==
    ASSUME BillingInv, NEW s \in Subscriptions,
           \/ \E r \in Requests : Purchase(s, r)
           \/ \E status \in Outcomes : Change(s, status)
    PROVE  BillingInv'
<1>1. PICK c \in Contract, r \in Requests \cup {Null} : Report(s, c, r)
    <2>1. CASE \E r \in Requests : Purchase(s, r)
        <3>1. [status |-> "active", plan |-> "pro"] \in Contract
            BY DEF Contract, Statuses, Entitled
        <3> QED BY <2>1, <3>1 DEF Purchase
    <2>2. CASE \E status \in Outcomes : Change(s, status)
        <3>1. PICK status \in Outcomes : Change(s, status)
            BY <2>2
        <3>2. provider[s] \in Contract /\ status \in Statuses
            BY <3>1, BillingAssumption DEF Change, BillingInv, TypeOK, Statuses, Entitled, Failing
        <3>3. [provider[s] EXCEPT !.status = status] \in Contract
            BY <3>2 DEF Contract
        <3> QED BY <3>1, <3>3 DEF Change
    <2> QED BY <2>1, <2>2
<1>2. UNCHANGED <<sold, stored, job, bounds>>
    BY DEF Purchase, Change
<1>3. /\ provider' \in [Subscriptions -> Contract \cup {Null}]
      /\ log' \in Seq(Event) /\ Len(log') <= MaxEvents /\ Grows /\ LogOrdered'
      /\ Now' \in Nat
    BY <1>1, Reported DEF BillingInv
<1>4. JobsSound' /\ job' \in [Handlers -> Job]
    BY <1>2, <1>3, JobsKept DEF BillingInv
<1> QED BY <1>2, <1>3, <1>4, Untouched DEF BillingInv, TypeOK, bounds

(* A step of one request that the provider and the stored records do not see. *)
LEMMA OnlyTheJob ==
    ASSUME BillingInv, UNCHANGED <<outside, stored>>, NEW h \in Handlers,
           NEW j \in Job, Reading(j), Asking(j), job' = [job EXCEPT ![h] = j],
           asks' \in 0..MaxAsks, crashes' \in 0..MaxCrashes
    PROVE  BillingInv'
<1>1. TypeOK /\ LogOrdered /\ JobsSound
    BY DEF BillingInv
<1>2. /\ Grows /\ LogOrdered' /\ Now' \in Nat
      /\ provider' \in [Subscriptions -> Contract \cup {Null}] /\ sold' \subseteq Requests
      /\ log' \in Seq(Event) /\ Len(log') <= MaxEvents
    BY <1>1, Quiet
<1>3. (Reading(j) /\ Asking(j))'
    BY <1>1, <1>2, StillReading
<1>4. JobsSound' /\ job' \in [Handlers -> Job]
    BY <1>1, <1>2, <1>3, OneJob
<1> QED BY <1>2, <1>4, Untouched

LEMMA JobBecomes ==
    ASSUME BillingInv, UNCHANGED outside, NEW h \in Handlers,
           NEW j \in Job, Reading(j), Asking(j), job' = [job EXCEPT ![h] = j]
    PROVE  JobsSound' /\ job' \in [Handlers -> Job]
<1>1. TypeOK /\ LogOrdered /\ JobsSound
    BY DEF BillingInv
<1>2. Grows /\ Now' \in Nat
    BY <1>1, Quiet
<1>3. (Reading(j) /\ Asking(j))'
    BY <1>1, <1>2, StillReading
<1> QED BY <1>1, <1>2, <1>3, OneJob

LEMMA BoundsKept ==
    ASSUME BillingInv, UNCHANGED bounds
    PROVE  asks' \in 0..MaxAsks /\ crashes' \in 0..MaxCrashes
BY DEF BillingInv, TypeOK, bounds

LEMMA CrashStep ==
    ASSUME BillingInv, NEW h \in Handlers, Crash(h)
    PROVE  BillingInv'
<1>1. asks' \in 0..MaxAsks /\ crashes' \in 0..MaxCrashes
    BY BillingAssumption DEF BillingInv, TypeOK, Crash
<1>2. job' = [job EXCEPT ![h] = Idle] /\ UNCHANGED <<outside, stored>>
    BY DEF Crash, Done
<1> QED BY <1>1, <1>2, IdleIsQuiet, OnlyTheJob

LEMMA ReadAccountStep ==
    ASSUME BillingInv, NEW h \in Handlers, ReadAccount(h)
    PROVE  BillingInv'
<1> DEFINE id == job[h].event
           read == [job[h] EXCEPT !.pc = "settle", !.account = account, !.rev = authority.rev,
                                  !.parked = id \in parked]
<1>1. /\ job[h] \in Job /\ account \in Account /\ authority.rev \in Nat
      /\ job[h].event \in Emitted /\ NotAhead(account)
    BY DEF BillingInv, TypeOK, JobsSound, Reading, AccountSound, ReadAccount
<1>2. read \in Job /\ read.pc = "settle" /\ read.event = job[h].event /\ read.account = account
    <2>1. [job[h] EXCEPT !.pc = "settle", !.account = account, !.rev = authority.rev] \in Job
        BY <1>1 DEF Job
    <2>2. \A j \in Job, b \in BOOLEAN : [j EXCEPT !.parked = b] \in Job
        BY DEF Job
    <2>3. (id \in parked) \in BOOLEAN
        OBVIOUS
    <2>4. [[job[h] EXCEPT !.pc = "settle", !.account = account, !.rev = authority.rev]
              EXCEPT !.parked = id \in parked] \in Job
        BY <2>1, <2>2, <2>3, Zenon
    <2> QED BY <1>1, <2>4 DEF Job
<1> HIDE DEF read
<1>3. Reading(read) /\ Asking(read)
    BY <1>1, <1>2 DEF Reading, Asking
<1>4. job' = [job EXCEPT ![h] = read] \/ job' = [job EXCEPT ![h] = Idle]
    BY DEF ReadAccount, read
<1>5. UNCHANGED <<outside, stored>> /\ UNCHANGED bounds
    BY DEF ReadAccount
<1> QED BY <1>2, <1>3, <1>4, <1>5, BoundsKept, IdleIsQuiet, OnlyTheJob

LEMMA ReadAuthorityStep ==
    ASSUME BillingInv, NEW h \in Handlers, ReadAuthority(h)
    PROVE  BillingInv'
<1> DEFINE read == [job[h] EXCEPT !.pc = "refresh", !.account = account, !.rev = authority.rev]
<1>1. /\ job[h] \in Job /\ account \in Account /\ authority.rev \in Nat /\ NotAhead(account)
    BY DEF BillingInv, TypeOK, AccountSound
<1>2. read \in Job /\ read.pc = "refresh" /\ read.account = account
    BY <1>1 DEF Job
<1> HIDE DEF read
<1>3. Reading(read) /\ Asking(read)
    BY <1>1, <1>2 DEF Reading, Asking
<1>4. job' = [job EXCEPT ![h] = read] \/ job' = [job EXCEPT ![h] = Idle]
    BY DEF ReadAuthority, read
<1>5. UNCHANGED <<outside, stored>> /\ UNCHANGED bounds
    BY DEF ReadAuthority
<1> QED BY <1>2, <1>3, <1>4, <1>5, BoundsKept, IdleIsQuiet, OnlyTheJob

LEMMA BeginStep ==
    ASSUME BillingInv, NEW h \in Handlers, NEW kind \in Kinds \ {"webhook"},
           NEW pc \in {"claim", "post", "write"}, NEW r \in Requests \cup {Null},
           Begin(h, kind, pc, r),
           pc = "claim" <=> kind = "upgrade", pc = "write" <=> kind = "grant",
           kind = "checkout" => r \in Requests,
           kind \in {"cancel", "resume", "upgrade"} => account.bill # Null,
           kind = "cancel" => account.bill.status = "active",
           kind = "resume" => account.bill.status = "canceling",
           kind = "upgrade" => Changeable
    PROVE  BillingInv'
<1> DEFINE j == [Idle EXCEPT !.pc = pc, !.kind = kind, !.request = r,
                             !.account = account, !.rev = authority.rev]
<1>1. account \in Account /\ authority.rev \in Nat /\ NotAhead(account)
    BY DEF BillingInv, TypeOK, AccountSound
<1>2. j \in Job /\ j.pc = pc /\ j.kind = kind /\ j.request = r /\ j.account = account
    BY <1>1 DEF Job, Idle
<1>3. job' = [job EXCEPT ![h] = j] /\ UNCHANGED <<outside, stored>>
    BY DEF Begin
<1> HIDE DEF j
<1>4. Reading(j)
    BY <1>1, <1>2 DEF Reading
<1>5. Asking(j)
    <2>1. pc = "claim" => account.claim = Null \/ account.claim.sub # account.bill.sub
        BY DEF Changeable
    <2> QED BY <1>2, <2>1 DEF Asking
<1>6. asks' \in 0..MaxAsks /\ crashes' \in 0..MaxCrashes
    BY BillingAssumption DEF BillingInv, TypeOK, Begin
<1> QED BY <1>2, <1>3, <1>4, <1>5, <1>6, OnlyTheJob

LEMMA AskSteps ==
    ASSUME BillingInv, NEW h \in Handlers,
           \/ \E r \in Requests : Checkout(h, r)
           \/ Cancel(h) \/ Resume(h) \/ Upgrade(h) \/ Grant(h)
    PROVE  BillingInv'
<1>1. CASE \E r \in Requests : Checkout(h, r)
    BY <1>1, BeginStep DEF Checkout, Kinds
<1>2. CASE Cancel(h)
    BY <1>2, BeginStep DEF Cancel, Changeable, Kinds
<1>3. CASE Resume(h)
    BY <1>3, BeginStep DEF Resume, Changeable, Kinds
<1>4. CASE Upgrade(h)
    BY <1>4, BeginStep DEF Upgrade, Changeable, Kinds
<1>5. CASE Grant(h)
    BY <1>5, BeginStep DEF Grant, Kinds
<1> QED BY <1>1, <1>2, <1>3, <1>4, <1>5

LEMMA PostStep ==
    ASSUME BillingInv, NEW h \in Handlers, Post(h)
    PROVE  BillingInv'
<1> DEFINE j == job[h]
           s == j.account.bill.sub
<1>1. /\ TypeOK /\ LogOrdered /\ JobsSound /\ j \in Job /\ Reading(j) /\ Asking(j)
      /\ j.pc = "post" /\ j.account \in Account /\ NotAhead(j.account)
    BY DEF BillingInv, TypeOK, JobsSound, Reading, Post
<1>2. j.kind \in Kinds \ {"webhook", "grant"}
    BY <1>1, JobFields DEF Reading
<1>3. UNCHANGED stored /\ UNCHANGED bounds
    BY DEF Post
<1>4. /\ Grows /\ LogOrdered' /\ Now' \in Nat
      /\ provider' \in [Subscriptions -> Contract \cup {Null}] /\ sold' \subseteq Requests
      /\ log' \in Seq(Event) /\ Len(log') <= MaxEvents
      /\ Perform(h) /\ j.kind \in {"cancel", "resume"} => \A a \in {j.account} : Echo(a)'
    <2>1. CASE UNCHANGED outside /\ ~Perform(h)
        BY <1>1, <2>1, Quiet
    <2>2. CASE Perform(h) /\ j.kind = "checkout"
        <3>1. sold' = sold \cup {j.request} /\ UNCHANGED <<provider, log>>
            BY <2>2 DEF Perform
        <3>2. j.request \in Requests
            BY <1>1, <2>2 DEF Asking
        <3>3. /\ Grows /\ LogOrdered' /\ Now' \in Nat
            BY <1>1, <3>1, LogFacts DEF Grows, LogOrdered, Emitted, Now
        <3> QED BY <1>1, <2>2, <3>1, <3>2, <3>3 DEF TypeOK
    <2>3. CASE Perform(h) /\ j.kind # "checkout"
        <3>1. j.kind \in {"upgrade", "cancel", "resume"}
            BY <1>2, <2>3 DEF Kinds
        <3>2. /\ j.account.bill # Null /\ s \in Subscriptions /\ provider[s] # Null
              /\ j.account.bill.last <= Now /\ j.account.bill.last \in Nat
              /\ j.account.seen \subseteq Emitted
            BY <1>1, <3>1, AccountFields DEF Asking, NotAhead
        <3>3. provider[s] \in Contract
            BY <1>1, <3>2 DEF TypeOK
        <3>4. PICK c \in Contract : Report(s, c, Null) /\ UNCHANGED sold
            <4>1. \A status \in Statuses : [provider[s] EXCEPT !.status = status] \in Contract
                BY <3>3 DEF Contract
            <4>2. [provider[s] EXCEPT !.plan = "max"] \in Contract
                BY <3>3 DEF Contract
            <4>3. {"active", "canceling"} \subseteq Statuses
                BY DEF Statuses, Entitled
            <4>4. CASE j.kind = "upgrade"
                BY <2>3, <4>2, <4>4 DEF Perform
            <4>5. CASE j.kind = "cancel"
                BY <2>3, <4>1, <4>3, <4>5 DEF Perform
            <4>6. CASE j.kind = "resume"
                BY <2>3, <4>1, <4>3, <4>6 DEF Perform
            <4> QED BY <3>1, <4>4, <4>5, <4>6
        <3>5. /\ provider' \in [Subscriptions -> Contract \cup {Null}]
              /\ log' \in Seq(Event) /\ Len(log') <= MaxEvents
              /\ Grows /\ LogOrdered' /\ Now' \in Nat
              /\ \E id \in Emitted' \ Emitted : log'[id].sub = s /\ Now <= log'[id].created
            BY <1>1, <3>2, <3>4, Reported
        <3>6. PICK id \in Emitted' \ Emitted : log'[id].sub = s /\ Now <= log'[id].created
            BY <3>5
        <3>7. log'[id].created \in Nat /\ Now \in Nat
            <4>1. id \in 1 .. Len(log')
                BY <3>5, <3>6 DEF Emitted
            <4>2. log'[id] \in Event
                BY <3>5, <4>1
            <4>3. Now \in Nat
                BY <1>1, LogFacts
            <4> QED BY <4>2, <4>3 DEF Event
        <3>8. ASSUME NEW a \in {j.account} PROVE Echo(a)'
            <4>1. a.bill.last <= Now /\ a.bill.last \in Nat /\ a.seen \subseteq Emitted
                  /\ a.bill.sub = s
                BY <3>2
            <4> QED BY <3>6, <3>7, <4>1 DEF Echo
        <3> QED BY <1>1, <3>4, <3>5, <3>8 DEF TypeOK
    <2> QED BY <2>1, <2>2, <2>3 DEF Post
<1>5. ASSUME NEW k \in Job, (Reading(k) /\ Asking(k))', job' = [job EXCEPT ![h] = k]
      PROVE  BillingInv'
    <2>1. JobsSound' /\ job' \in [Handlers -> Job]
        BY <1>1, <1>4, <1>5, OneJob
    <2> QED BY <1>3, <1>4, <2>1, BoundsKept, Untouched
<1>6. CASE Done(h)
    <2>1. (Reading(Idle) /\ Asking(Idle))'
        BY <1>1, <1>4, IdleIsQuiet, StillReading
    <2> QED BY <1>5, <1>6, <2>1, IdleIsQuiet DEF Done
<1>7. ASSUME NEW pc \in {"restore", "write"}, Goto(h, pc),
             pc = "restore" <=> j.kind = "upgrade", pc = "write" => Perform(h)
      PROVE  BillingInv'
    <2> DEFINE k == [j EXCEPT !.pc = pc]
    <2>1. /\ k \in Job /\ k.pc = pc /\ k.kind = j.kind /\ k.account = j.account
          /\ k.request = j.request
        BY <1>1, <1>7 DEF Job
    <2>2. job' = [job EXCEPT ![h] = k]
        BY <1>1, <1>7, GoesOn DEF TypeOK
    <2> HIDE DEF k
    <2>3. ASSUME NEW x \in {k} PROVE (Reading(x) /\ Asking(x))'
        <3>1. /\ x \in Job /\ x.pc = pc /\ x.kind = j.kind /\ x.account = j.account
              /\ x.request = j.request
            BY <2>1, <2>3
        <3>2. NotAhead(x.account)'
            <4>1. \A a \in Account : NotAhead(a) => NotAhead(a)'
                BY <1>1, <1>4, StillNotAhead
            <4> QED BY <1>1, <3>1, <4>1
        <3>3. Reading(x)'
            BY <1>1, <1>2, <1>7, <3>1, <3>2 DEF Reading
        <3>4. pc = "write" /\ j.kind \in {"cancel", "resume"} => Echo(x.account)'
            BY <1>4, <1>7, <3>1
        <3>5. Asking(x)'
            BY <1>1, <1>7, <3>1, <3>4 DEF Asking
        <3> QED BY <3>3, <3>5
    <2> QED BY <1>5, <2>1, <2>2, <2>3
<1> QED BY <1>6, <1>7 DEF Post

-----------------------------------------------------------------------------
(* Steps that write the stored records.                                      *)

(* The provider sees none of them.                                           *)
LEMMA Stored ==
    ASSUME BillingInv, UNCHANGED <<outside, bounds>>,
           receipt' \in [Events -> {Null, "pending", "applied"}], parked' \subseteq Events,
           account' \in Account, authority' \in [plan : Plans, dirty : BOOLEAN, rev : Nat],
           AccountSound', JobsSound', job' \in [Handlers -> Job],
           ReceiptsMatchAccount', CleanProjection'
    PROVE  BillingInv'
<1>1. /\ LogOrdered' /\ provider' \in [Subscriptions -> Contract \cup {Null}]
      /\ sold' \subseteq Requests /\ log' \in Seq(Event) /\ Len(log') <= MaxEvents
    BY Quiet DEF BillingInv
<1>2. asks' \in 0..MaxAsks /\ crashes' \in 0..MaxCrashes
    BY BoundsKept
<1> QED BY <1>1, <1>2 DEF BillingInv, TypeOK

LEMMA DeliverStep ==
    ASSUME BillingInv, NEW h \in Handlers, NEW id \in Events, Deliver(h, id)
    PROVE  BillingInv'
<1> DEFINE pc == IF receipt[id] = "applied" THEN "authority"
                 ELSE IF IsOwner(account, log[id]) THEN "read" ELSE "park"
           j == [Idle EXCEPT !.kind = "webhook", !.event = id, !.pc = pc]
<1>1. TypeOK /\ LogOrdered /\ JobsSound /\ AccountSound
    BY DEF BillingInv
<1>2. UNCHANGED <<outside, parked, account, authority, bounds>> /\ id \in Emitted
      /\ job' = [job EXCEPT ![h] = j]
      /\ receipt' = [receipt EXCEPT ![id] = IF @ = Null THEN "pending" ELSE @]
    BY DEF Deliver, Recorded
<1>3. /\ Grows /\ LogOrdered' /\ Now' \in Nat
    BY <1>1, <1>2, Quiet
<1>4. pc \in {"authority", "read", "park"}
    OBVIOUS
<1> HIDE DEF pc
<1>5. j \in Job /\ j.pc = pc /\ j.event = id
    BY <1>4, IdleIsQuiet DEF Job, Kinds, Idle
<1> HIDE DEF j
<1>6. /\ j.pc \in {"authority", "read", "park"} /\ j.event \in Emitted
    BY <1>2, <1>4, <1>5
<1>7. Reading(j) /\ Asking(j)
    BY <1>6 DEF Reading, Asking
<1>8. JobsSound' /\ job' \in [Handlers -> Job]
    BY <1>2, <1>5, <1>7, JobBecomes
<1>9. AccountSound'
    BY <1>1, <1>2, <1>3, SoundKept
<1>10. receipt' \in [Events -> {Null, "pending", "applied"}] /\ ReceiptsMatchAccount'
    BY <1>2, BillingAssumption DEF BillingInv, TypeOK, ReceiptsMatchAccount
<1>11. CleanProjection'
    BY <1>2 DEF BillingInv, CleanProjection, PlanOf
<1> QED BY <1>2, <1>1, <1>8, <1>9, <1>10, <1>11, Stored DEF TypeOK

LEMMA ParkStep ==
    ASSUME BillingInv, NEW h \in Handlers, Park(h)
    PROVE  BillingInv'
<1>1. TypeOK /\ LogOrdered /\ JobsSound /\ AccountSound
    BY DEF BillingInv
<1>2. UNCHANGED <<outside, receipt, account, authority, bounds>> /\ Done(h)
    BY DEF Park
<1>3. /\ Grows /\ LogOrdered' /\ Now' \in Nat
    BY <1>1, <1>2, Quiet
<1>4. JobsSound' /\ job' \in [Handlers -> Job] /\ AccountSound'
    BY <1>1, <1>2, <1>3, EndedJob, SoundKept
<1>5. job[h].event \in Events
    BY <1>1, LogFacts DEF JobsSound, Reading, Park
<1>6. parked' \subseteq Events /\ ReceiptsMatchAccount'
    BY <1>2, <1>5 DEF BillingInv, TypeOK, ReceiptsMatchAccount, Park, MayPark
<1>7. CleanProjection'
    BY <1>2 DEF BillingInv, CleanProjection, PlanOf
<1> QED BY <1>1, <1>2, <1>4, <1>6, <1>7, Stored DEF TypeOK

LEMMA SettleStep ==
    ASSUME BillingInv, NEW h \in Handlers, Settle(h)
    PROVE  BillingInv'
<1> DEFINE id == job[h].event
           k == [job[h] EXCEPT !.pc = "authority"]
<1>1. TypeOK /\ LogOrdered /\ JobsSound /\ AccountSound /\ job[h] \in Job
    BY DEF BillingInv, TypeOK
<1>2. UNCHANGED <<outside, bounds>> /\ UNCHANGED outside
    BY DEF Settle
<1>3. /\ Grows /\ LogOrdered' /\ Now' \in Nat
    BY <1>1, <1>2, Quiet
<1>4. CASE Done(h) /\ UNCHANGED stored
    <2>1. JobsSound' /\ job' \in [Handlers -> Job] /\ AccountSound'
        BY <1>1, <1>3, <1>4, EndedJob, SoundKept DEF stored
    <2>2. ReceiptsMatchAccount' /\ CleanProjection'
        BY <1>4 DEF BillingInv, CleanProjection, PlanOf, ReceiptsMatchAccount, stored
    <2> QED BY <1>1, <1>2, <1>4, <2>1, <2>2, Stored DEF TypeOK, stored
<1>5. CASE /\ account' = Reduced(account, id)
           /\ authority' = [authority EXCEPT !.dirty = TRUE, !.rev = @ + 1]
           /\ receipt' = [receipt EXCEPT ![id] = "applied"]
           /\ parked' = parked \ {id}
           /\ Goto(h, "authority")
    <2>1. id \in Emitted /\ id \in Events
        BY <1>1, LogFacts DEF JobsSound, Reading, Settle
    <2>2. LET b == Reduced(account, id) IN
          b \in Account /\ b.seen = account.seen \cup {id} /\ NotAhead(b) /\ Heard(b) /\ Told(b)
        BY <1>1, <2>1, ReducedSound DEF AccountSound, TypeOK
    <2>3. AccountSound' /\ account' \in Account /\ account'.seen = account.seen \cup {id}
        BY <1>1, <1>2, <1>5, <2>2, NewAccount
    <2>4. k \in Job /\ k.pc = "authority" /\ job' = [job EXCEPT ![h] = k]
        <3>1. k \in Job /\ k.pc = "authority"
            BY <1>1 DEF Job
        <3>2. job' = [job EXCEPT ![h] = k]
            BY <1>1, <1>5, GoesOn DEF TypeOK
        <3> QED BY <3>1, <3>2
    <2> HIDE DEF k
    <2>5. Reading(k) /\ Asking(k)
        BY <2>4 DEF Reading, Asking
    <2>6. JobsSound' /\ job' \in [Handlers -> Job]
        BY <1>2, <2>4, <2>5, JobBecomes
    <2>7. authority' \in [plan : Plans, dirty : BOOLEAN, rev : Nat] /\ authority'.dirty
        <3>1. authority \in [plan : Plans, dirty : BOOLEAN, rev : Nat]
            BY <1>1 DEF TypeOK
        <3>2. authority' = [plan |-> authority.plan, dirty |-> TRUE, rev |-> authority.rev + 1]
            BY <1>5, <3>1
        <3> QED BY <3>1, <3>2
    <2>8. receipt' \in [Events -> {Null, "pending", "applied"}] /\ parked' \subseteq Events
        BY <1>1, <1>5 DEF TypeOK
    <2>9. ReceiptsMatchAccount'
        BY <1>1, <1>5, <2>1, <2>3 DEF BillingInv, TypeOK, ReceiptsMatchAccount
    <2>10. CleanProjection'
        BY <2>7 DEF CleanProjection
    <2> QED BY <1>2, <2>3, <2>6, <2>7, <2>8, <2>9, <2>10, Stored
<1> QED BY <1>4, <1>5 DEF Settle

LEMMA RefreshStep ==
    ASSUME BillingInv, NEW h \in Handlers, Refresh(h)
    PROVE  BillingInv'
<1> DEFINE fresh == [plan |-> PlanOf(account), dirty |-> FALSE, rev |-> authority.rev + 1]
<1>1. TypeOK /\ LogOrdered /\ JobsSound /\ AccountSound
    BY DEF BillingInv
<1>2. UNCHANGED <<outside, receipt, parked, account, bounds>> /\ Done(h)
      /\ (authority' = fresh \/ authority' = authority)
    BY DEF Refresh
<1>3. Grows /\ Now' \in Nat
    BY <1>1, <1>2, Quiet
<1>4. JobsSound' /\ job' \in [Handlers -> Job] /\ AccountSound'
    BY <1>1, <1>2, <1>3, EndedJob, SoundKept
<1>5. PlanOf(account) \in Plans
    BY <1>1, AccountFields DEF PlanOf, Plans, TypeOK
<1>6. fresh \in [plan : Plans, dirty : BOOLEAN, rev : Nat]
    BY <1>1, <1>5 DEF TypeOK
<1>7. PlanOf(account)' = PlanOf(account)
    BY <1>2 DEF PlanOf
<1>8. authority' \in [plan : Plans, dirty : BOOLEAN, rev : Nat] /\ CleanProjection'
    <2>1. CASE authority' = fresh
        BY <1>6, <1>7, <2>1 DEF CleanProjection
    <2>2. CASE authority' = authority
        BY <1>1, <1>7, <2>2 DEF BillingInv, CleanProjection, TypeOK
    <2> QED BY <1>2, <2>1, <2>2
<1>9. ReceiptsMatchAccount'
    BY <1>2 DEF BillingInv, ReceiptsMatchAccount
<1> QED BY <1>1, <1>2, <1>4, <1>8, <1>9, Stored DEF TypeOK

(* A write of the account that keeps its subscription and its grant.         *)
LEMMA SameSubscription ==
    ASSUME BillingInv, NEW h \in Handlers, Done(h) \/ (job[h].pc = "claim" /\ Goto(h, "post")),
           UNCHANGED <<outside, receipt, parked, bounds>>, UNCHANGED outside,
           NEW b \in Account, b.bill = account.bill, b.records = account.records,
           b.seen = account.seen, account.bill = Null => b.claim = Null, account' = b,
           authority' \in [plan : Plans, dirty : BOOLEAN, rev : Nat],
           ~authority'.dirty => authority'.plan = PlanOf(b)
    PROVE  BillingInv'
<1>1. TypeOK /\ LogOrdered /\ JobsSound /\ AccountSound /\ account \in Account
    BY DEF BillingInv, TypeOK
<1>2. Grows /\ Now' \in Nat
    BY <1>1, Quiet
<1>3. NotAhead(b) /\ Heard(b) /\ Told(b)
    BY <1>1, SameBill DEF AccountSound
<1>4. AccountSound'
    BY <1>1, <1>3, NewAccount
<1>5. JobsSound' /\ job' \in [Handlers -> Job]
    <2>1. CASE Done(h)
        BY <1>1, <1>2, <2>1, EndedJob
    <2>2. CASE job[h].pc = "claim" /\ Goto(h, "post")
        <3> DEFINE k == [job[h] EXCEPT !.pc = "post"]
        <3>1. job[h] \in Job /\ Reading(job[h]) /\ Asking(job[h])
            BY <1>1 DEF TypeOK, JobsSound
        <3>2. /\ k \in Job /\ k.pc = "post" /\ k.kind = job[h].kind /\ k.account = job[h].account
              /\ k.request = job[h].request
            BY <3>1 DEF Job
        <3>3. job' = [job EXCEPT ![h] = k]
            BY <1>1, <2>2, GoesOn DEF TypeOK
        <3> HIDE DEF k
        <3>4. Reading(k) /\ Asking(k)
            BY <2>2, <3>1, <3>2 DEF Reading, Asking
        <3> QED BY <3>2, <3>3, <3>4, JobBecomes
    <2> QED BY <2>1, <2>2
<1>6. ReceiptsMatchAccount'
    BY DEF BillingInv, ReceiptsMatchAccount
<1>7. CleanProjection'
    BY DEF CleanProjection
<1> QED BY <1>1, <1>4, <1>5, <1>6, <1>7, Stored DEF TypeOK

LEMMA AskedIsClaim ==
    ASSUME BillingInv, NEW h \in Handlers, job[h].pc \in {"claim", "restore"}
    PROVE  /\ Asked(h) \in Claim /\ job[h].account.bill # Null
           /\ Asked(h).sub = job[h].account.bill.sub
<1>1. job[h].account \in Account /\ job[h].account.bill # Null
    BY DEF BillingInv, JobsSound, Reading, Asking
<1> QED BY <1>1, AccountFields DEF Asked, Claim

LEMMA ClaimSteps ==
    ASSUME BillingInv, NEW h \in Handlers, ClaimChange(h) \/ Restore(h)
    PROVE  BillingInv'
<1>1. /\ UNCHANGED <<outside, receipt, parked, authority, bounds>> /\ UNCHANGED outside
      /\ job[h].pc \in {"claim", "restore"}
    BY DEF ClaimChange, Restore
<1>2. account \in Account /\ NotAhead(account) /\ account.claim \in Claim \cup {Null}
      /\ authority' \in [plan : Plans, dirty : BOOLEAN, rev : Nat]
    BY <1>1, AccountFields DEF BillingInv, TypeOK, AccountSound
<1>3. Asked(h) \in Claim /\ job[h].account.bill # Null
    BY <1>1, AskedIsClaim
<1>4. ASSUME NEW c \in Claim \cup {Null}, c # Null => account.bill # Null,
             account' = [account EXCEPT !.claim = c],
             Done(h) \/ (job[h].pc = "claim" /\ Goto(h, "post"))
      PROVE  BillingInv'
    <2> DEFINE b == [account EXCEPT !.claim = c]
    <2>1. /\ b \in Account /\ b.bill = account.bill /\ b.records = account.records
          /\ b.seen = account.seen /\ b.claim = c /\ b.grant = account.grant
        BY <1>2 DEF Account
    <2> HIDE DEF b
    <2>2. ~authority'.dirty => authority'.plan = PlanOf(b)
        BY <1>1, <2>1 DEF BillingInv, CleanProjection, PlanOf
    <2>3. account' = b
        BY <1>4 DEF b
    <2> QED BY <1>1, <1>2, <1>4, <2>1, <2>2, <2>3, SameSubscription
<1>5. CASE account' = account /\ Done(h)
    <2>1. account.bill = Null => account.claim = Null
        BY <1>2 DEF NotAhead
    <2>2. ~authority'.dirty => authority'.plan = PlanOf(account)
        BY <1>1 DEF BillingInv, CleanProjection
    <2> QED BY <1>1, <1>2, <1>5, <2>1, <2>2, SameSubscription
<1>6. CASE ClaimChange(h) /\ account = job[h].account
    BY <1>3, <1>4, <1>6 DEF ClaimChange
<1>7. CASE Restore(h) /\ account.claim = Asked(h)
    BY <1>4, <1>7 DEF Restore
<1> QED BY <1>5, <1>6, <1>7 DEF ClaimChange, Restore

LEMMA WriteStep ==
    ASSUME BillingInv, NEW h \in Handlers, Write(h)
    PROVE  BillingInv'
<1> DEFINE j == job[h]
           a == j.account
           granted == j.kind = "grant"
           holds == account = a /\ (granted => authority.rev = j.rev)
<1>1. /\ TypeOK /\ LogOrdered /\ JobsSound /\ AccountSound
      /\ UNCHANGED <<outside, receipt, parked, bounds>> /\ UNCHANGED outside /\ Done(h)
    BY DEF BillingInv, Write
<1>2. /\ j \in Job /\ j.pc = "write" /\ Reading(j) /\ Asking(j)
    BY <1>1 DEF TypeOK, JobsSound, Write
<1>3. j.kind \in {"checkout", "cancel", "resume", "grant"}
    BY <1>2, JobFields DEF Reading, Kinds
<1>4. /\ account \in Account /\ NotAhead(account) /\ Heard(account) /\ Told(account)
      /\ authority \in [plan : Plans, dirty : BOOLEAN, rev : Nat]
      /\ account.bill = Null => account.claim = Null
    BY <1>1 DEF TypeOK, AccountSound, NotAhead
<1>5. CASE ~holds
    <2>1. account' = account /\ authority' = authority
        BY <1>5 DEF Write
    <2>2. ~authority'.dirty => authority'.plan = PlanOf(account)
        BY <2>1 DEF BillingInv, CleanProjection
    <2> QED BY <1>1, <1>4, <2>1, <2>2, SameSubscription
<1>6. CASE holds /\ j.kind \in {"checkout", "grant"}
    <2> DEFINE b == Written(h)
    <2>1. /\ b \in Account /\ b.bill = account.bill /\ b.records = account.records
          /\ b.seen = account.seen /\ b.claim = account.claim
          /\ j.kind = "checkout" => b.grant = account.grant
        <3>1. CASE j.kind = "checkout"
            <4>1. b = [account EXCEPT !.checkout = j.request] /\ j.request \in Requests
                BY <1>2, <1>6, <3>1 DEF Written, Asking
            <4> QED BY <1>4, <4>1 DEF Account
        <3>2. CASE j.kind = "grant"
            <4>1. b = [account EXCEPT !.grant = TRUE]
                BY <1>6, <3>2 DEF Written
            <4> QED BY <1>4, <3>2, <4>1 DEF Account
        <3> QED BY <1>6, <3>1, <3>2
    <2>2. account' = b
        BY <1>6 DEF Write
    <2>3. PlanOf(b) \in Plans
        BY <2>1, AccountFields DEF PlanOf, Plans
    <2>4. authority' = IF granted
                       THEN [plan |-> PlanOf(b), dirty |-> FALSE, rev |-> authority.rev + 2]
                       ELSE authority
        BY <1>6 DEF Write
    <2> HIDE DEF b
    <2>5. authority' \in [plan : Plans, dirty : BOOLEAN, rev : Nat]
          /\ (~authority'.dirty => authority'.plan = PlanOf(b))
        <3>1. CASE granted
            BY <1>4, <2>3, <2>4, <3>1
        <3>2. CASE ~granted
            <4>1. PlanOf(b) = PlanOf(account)
                BY <1>6, <2>1, <3>2 DEF PlanOf
            <4> QED BY <1>4, <2>4, <3>2, <4>1 DEF BillingInv, CleanProjection
        <3> QED BY <3>1, <3>2
    <2> QED BY <1>1, <1>4, <2>1, <2>2, <2>5, SameSubscription
<1>7. CASE holds /\ j.kind \in {"cancel", "resume"}
    <2>1. PICK status \in Entitled : Written(h) = [account EXCEPT !.bill.status = status]
        BY <1>7 DEF Written, Entitled
    <2> DEFINE b == [account EXCEPT !.bill.status = status]
    <2>2. /\ account.bill \in Bill /\ account.bill # Null /\ account.bill.status \in Entitled
          /\ Echo(account)
        BY <1>2, <1>4, <1>7, AccountFields DEF Asking, Entitled
    <2>3. /\ [account.bill EXCEPT !.status = status] \in Bill
          /\ [account.bill EXCEPT !.status = status].sub = account.bill.sub
          /\ [account.bill EXCEPT !.status = status].plan = account.bill.plan
          /\ [account.bill EXCEPT !.status = status].last = account.bill.last
          /\ [account.bill EXCEPT !.status = status].status = status
        BY <2>2 DEF Bill, Statuses
    <2>4. b = [account EXCEPT !.bill = [account.bill EXCEPT !.status = status]]
        BY <1>4, <2>2 DEF Account, Bill
    <2>5. /\ b \in Account /\ b.bill # Null /\ b.records = account.records /\ b.seen = account.seen
          /\ b.bill.sub = account.bill.sub /\ b.bill.last = account.bill.last
          /\ b.bill.status = status /\ b.bill.plan = account.bill.plan /\ b.grant = account.grant
        <3> DEFINE n == [account.bill EXCEPT !.status = status]
        <3>1. n \in Bill /\ n # Null
            BY <2>3, NullAssumption
        <3> HIDE DEF n
        <3>2. [account EXCEPT !.bill = n] \in Account
            BY <1>4, <3>1 DEF Account
        <3> QED BY <1>4, <2>3, <2>4, <3>1, <3>2 DEF Account, n
    <2>6. account' = b /\ authority' = authority
        BY <1>7, <2>1 DEF Write
    <2> HIDE DEF b
    <2>7. NotAhead(b) /\ Heard(b) /\ Told(b)
        <3>1. NotAhead(b)
            BY <1>4, <2>2, <2>5 DEF NotAhead
        <3>2. Heard(b)
            BY <1>4, <2>2, <2>5 DEF Heard
        <3>3. Told(b)
            BY <2>2, <2>5 DEF Told, Echo
        <3> QED BY <3>1, <3>2, <3>3
    <2>8. AccountSound'
        BY <1>1, <2>5, <2>6, <2>7, NewAccount
    <2>9. JobsSound' /\ job' \in [Handlers -> Job]
        <3>1. Grows /\ Now' \in Nat
            BY <1>1, Quiet
        <3> QED BY <1>1, <3>1, EndedJob
    <2>10. ReceiptsMatchAccount'
        BY <1>1, <2>5, <2>6 DEF BillingInv, ReceiptsMatchAccount
    <2>11. CleanProjection'
        BY <2>2, <2>5, <2>6 DEF BillingInv, CleanProjection, PlanOf
    <2> QED BY <1>1, <1>4, <2>5, <2>6, <2>8, <2>9, <2>10, <2>11, Stored DEF TypeOK
<1> QED BY <1>3, <1>5, <1>6, <1>7

-----------------------------------------------------------------------------
(* Theorems.                                                                 *)

LEMMA StepInv == BillingInv /\ [Next]_vars => BillingInv'
<1> SUFFICES ASSUME BillingInv, [Next]_vars PROVE BillingInv'
    OBVIOUS
<1>1. CASE UNCHANGED vars
    <2>1. UNCHANGED <<outside, stored>> /\ UNCHANGED outside /\ UNCHANGED stored /\ UNCHANGED job
          /\ UNCHANGED bounds
        BY <1>1 DEF vars
    <2>2. TypeOK /\ LogOrdered /\ JobsSound
        BY DEF BillingInv
    <2>3. /\ Grows /\ LogOrdered' /\ Now' \in Nat
          /\ provider' \in [Subscriptions -> Contract \cup {Null}] /\ sold' \subseteq Requests
          /\ log' \in Seq(Event) /\ Len(log') <= MaxEvents
        BY <2>1, <2>2, Quiet
    <2>4. JobsSound' /\ job' \in [Handlers -> Job]
        BY <2>1, <2>2, <2>3, JobsKept
    <2> QED BY <2>1, <2>3, <2>4, BoundsKept, Untouched
<1>2. CASE \E s \in Subscriptions : \/ \E r \in Requests : Purchase(s, r)
                                    \/ \E status \in Outcomes : Change(s, status)
    BY <1>2, ProviderSteps
<1>3. CASE \E h \in Handlers :
             \/ \E id \in Events : Deliver(h, id)
             \/ \E r \in Requests : Checkout(h, r)
             \/ Cancel(h) \/ Resume(h) \/ Upgrade(h) \/ Grant(h)
             \/ Handle(h) \/ Crash(h)
    <2> PICK h \in Handlers :
             \/ \E id \in Events : Deliver(h, id)
             \/ \E r \in Requests : Checkout(h, r)
             \/ Cancel(h) \/ Resume(h) \/ Upgrade(h) \/ Grant(h)
             \/ Handle(h) \/ Crash(h)
        BY <1>3
    <2>1. CASE \E id \in Events : Deliver(h, id)
        BY <2>1, DeliverStep
    <2>2. CASE \/ \E r \in Requests : Checkout(h, r)
               \/ Cancel(h) \/ Resume(h) \/ Upgrade(h) \/ Grant(h)
        BY <2>2, AskSteps
    <2>3. CASE Handle(h)
        BY <2>3, ParkStep, ReadAccountStep, SettleStep, ReadAuthorityStep, RefreshStep,
           ClaimSteps, PostStep, WriteStep DEF Handle
    <2>4. CASE Crash(h)
        BY <2>4, CrashStep
    <2> QED BY <2>1, <2>2, <2>3, <2>4
<1> QED BY <1>1, <1>2, <1>3 DEF Next

(* It holds whatever the provider says, in whichever order, and whichever    *)
(* handler, request or crash comes next (Next).                              *)
THEOREM BillingInvariant == Spec => []BillingInv
<1>1. Init => BillingInv
    BY InitInv
<1>2. BillingInv /\ [Next]_vars => BillingInv'
    BY StepInv
<1> QED BY <1>1, <1>2, PTL DEF Spec

(* A state put together from events heard is that of a newest event.         *)
LEMMA InvConverges == BillingInv => Converged
<1> SUFFICES ASSUME BillingInv, account.bill # Null,
                    LET s == account.bill.sub IN
                    /\ {id \in Emitted : log[id].sub = s} # {}
                    /\ \A id \in Emitted : log[id].sub = s => receipt[id] = "applied"
             PROVE  LET s == account.bill.sub IN
                    \E id \in Newest(s) : /\ account.bill.status = log[id].status
                                          /\ account.bill.plan = log[id].plan
    BY DEF Converged
<1> DEFINE s == account.bill.sub
<1>1. /\ NotAhead(account) /\ Heard(account) /\ Told(account)
      /\ Emitted \subseteq Events
    BY LogFacts DEF BillingInv, AccountSound
<1>2. \A id \in Emitted : log[id].sub = s => id \in account.seen
    BY <1>1 DEF BillingInv, ReceiptsMatchAccount
<1>3. PICK id \in account.seen : /\ log[id].sub = s /\ log[id].created = account.bill.last
                                 /\ log[id].status = account.bill.status
                                 /\ log[id].plan = account.bill.plan
    BY <1>1, <1>2 DEF Told, Echo
<1>4. id \in Emitted
    BY <1>1, <1>3 DEF NotAhead
<1>5. \A k \in Emitted : log[k].sub = s => log[k].created <= log[id].created
    BY <1>1, <1>2, <1>3 DEF Heard
<1>6. id \in Newest(s)
    BY <1>3, <1>4, <1>5 DEF Newest
<1> QED BY <1>3, <1>6

(* The account ends up with the state of a newest event of its subscription, *)
(* and has heard of exactly the events whose receipt says so, whatever       *)
(* arrived late, twice or between the steps of its own requests              *)
(* (settle_webhook_receipt, reduce_billing_update, _write_user).             *)
THEOREM AccountAgrees == Spec => []Consistent
<1>1. BillingInv => Consistent
    BY InvConverges DEF BillingInv, Consistent
<1> QED BY <1>1, BillingInvariant, PTL

(* An entitlement that is not marked dirty is the one the account gives      *)
(* (refresh_account_entitlement, apply_preview_plan_grant).                  *)
THEOREM EntitlementIsClean == Spec => []CleanProjection
<1>1. BillingInv => CleanProjection
    BY DEF BillingInv
<1> QED BY <1>1, BillingInvariant, PTL

(* No step loses the claim of an upgrade but an event that settles it, the   *)
(* refusal of its own request, or an upgrade of a subscription that replaced *)
(* the claimed one (handle_billing_mutation, reduce_billing_update).         *)
THEOREM ClaimsAreKept == Spec => ClaimKept
<1> DEFINE Kept ==
        account.claim # Null /\ account'.claim # account.claim =>
          \/ \E id \in Events : receipt[id] = "pending" /\ receipt'[id] = "applied"
          \/ \E h \in Handlers : job[h].pc = "restore" /\ Asked(h) = account.claim
          \/ /\ account.claim.sub # account.bill.sub /\ account'.claim # Null
             /\ account'.claim.sub = account.bill.sub
<1>1. BillingInv /\ [Next]_vars => Kept
    <2> SUFFICES ASSUME BillingInv, [Next]_vars, account'.claim # account.claim
                 PROVE  Kept
        BY DEF Kept
    <2>1. PICK h \in Handlers : Settle(h) \/ ClaimChange(h) \/ Restore(h) \/ Write(h)
        BY DEF Next, vars, stored, Purchase, Change, Deliver, Checkout, Cancel, Resume, Upgrade,
               Grant, Begin, Crash, Handle, Park, ReadAccount, ReadAuthority, Refresh, Post
    <2>2. account \in Account /\ job[h] \in Job
        BY DEF BillingInv, TypeOK
    <2>3. CASE Settle(h)
        <3>1. job[h].event \in Events
            BY <2>3, LogFacts DEF BillingInv, JobsSound, Reading, Settle
        <3> QED BY <2>3, <3>1 DEF Settle, stored, BillingInv, TypeOK
    <2>4. CASE ClaimChange(h)
        <3>1. account = job[h].account /\ account' = [account EXCEPT !.claim = Asked(h)]
            BY <2>4 DEF ClaimChange
        <3>2. Asked(h) \in Claim /\ Asked(h).sub = account.bill.sub
            BY <2>4, <3>1, AskedIsClaim DEF ClaimChange
        <3>3. account.claim = Null \/ account.claim.sub # account.bill.sub
            BY <2>4, <3>1 DEF BillingInv, JobsSound, Asking, ClaimChange
        <3>4. account'.claim = Asked(h)
            BY <2>2, <3>1 DEF Account
        <3> QED BY <3>2, <3>3, <3>4, NullAssumption
    <2>5. CASE Restore(h)
        BY <2>5 DEF Restore
    <2>6. CASE Write(h)
        <3>1. account' = Written(h) /\ account = job[h].account
            BY <2>6 DEF Write
        <3>2. job[h].kind \in {"checkout", "cancel", "resume", "grant"}
            BY <2>2, <2>6, JobFields DEF BillingInv, JobsSound, Reading, Kinds, Write
        <3> QED BY <2>2, <3>1, <3>2 DEF Written, Account
    <2> QED BY <2>1, <2>3, <2>4, <2>5, <2>6
<1> QED BY <1>1, BillingInvariant, PTL DEF Spec, ClaimKept
=============================================================================
