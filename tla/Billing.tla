------------------------------ MODULE Billing ------------------------------
(***************************************************************************)
(* One account and its payment provider. The provider reports every change  *)
(* of a subscription in a signed event that may arrive late, again or out   *)
(* of order; the Creem handler records it, settles it on the account and    *)
(* refreshes the entitlement. The account's own requests (checkout, cancel, *)
(* resume, upgrade) call the provider between a read and a guarded write.   *)
(***************************************************************************)
EXTENDS Integers, Sequences, FiniteSets

CONSTANTS
    Handlers,       \* request slots of the Worker
    Subscriptions,  \* subscription ids the provider may hand out
    Requests,       \* checkout request ids
    Outcomes,       \* bound: what becomes of a subscription by itself
    Marks,          \* bound: whether events name the account in their metadata
    MaxEvents,      \* bound: events the provider emits
    MaxParked,      \* MAX_BILLING_PENDING_UPDATES
    MaxAsks,        \* bound: requests of the account's own
    MaxCrashes,     \* bound: handlers that die half way
    MaxTrouble,     \* bound: requests and crashes together
    Null

ASSUME BillingAssumption ==
    /\ {MaxEvents, MaxParked, MaxAsks, MaxCrashes, MaxTrouble} \subseteq Nat
    /\ Outcomes \subseteq {"active", "canceling", "past_due", "canceled"} /\ Marks \subseteq BOOLEAN
    /\ Null \notin Subscriptions \cup Requests \cup {"pending", "applied"}

VARIABLES
    provider,   \* provider[s]: the subscription as the provider has it, or Null
    sold,       \* checkouts the provider has created
    log,        \* the events it has emitted, oldest first
    receipt,    \* receipt[e]: state of the billing_webhook_receipts row of event e
    parked,     \* record:billingPendingUpdates rows
    account,    \* record:users row
    authority,  \* account_entitlement_authority row
    job,        \* job[h]: the request in slot h
    asks,       \* requests of the account's own so far
    crashes

stored == <<receipt, parked, account, authority>>
outside == <<provider, sold, log>>
bounds == <<asks, crashes>>
vars == <<outside, stored, job, bounds>>

Plans == {"free", "pro", "max"}
Entitled == {"active", "canceling"}     \* and trialing, which fares like active
Failing == {"past_due", "canceled"}     \* and unpaid, paused, which fare like past_due
Statuses == Entitled \cup Failing
Events == 1..MaxEvents
Emitted == DOMAIN log

Contract == [status : Statuses, plan : {"pro", "max"}]
Event == [sub : Subscriptions, status : Statuses, plan : {"pro", "max"}, created : Nat,
          request : Requests \cup {Null}, named : BOOLEAN]
Bill == [sub : Subscriptions, status : Statuses, plan : {"pro", "max"}, last : Nat]
Claim == [sub : Subscriptions, plan : {"max"}]
Account == [bill : Bill \cup {Null}, records : SUBSET Subscriptions, seen : SUBSET Events,
            claim : Claim \cup {Null}, checkout : Requests \cup {Null}, grant : BOOLEAN]

ASSUME NullAssumption == Null \notin Contract \cup Bill \cup Claim \cup Account

Kinds == {"webhook", "checkout", "cancel", "resume", "upgrade", "grant"}
Job == [pc : {"idle", "park", "read", "settle", "authority", "refresh",
              "claim", "post", "write", "restore"},
        kind : Kinds, event : Events \cup {Null}, request : Requests \cup {Null},
        account : Account \cup {Null}, rev : Nat, parked : BOOLEAN]
Idle == [pc |-> "idle", kind |-> "grant", event |-> Null, request |-> Null,
         account |-> Null, rev |-> 0, parked |-> FALSE]

TypeOK ==
    /\ provider \in [Subscriptions -> Contract \cup {Null}] /\ sold \subseteq Requests
    /\ log \in Seq(Event) /\ Len(log) <= MaxEvents
    /\ receipt \in [Events -> {Null, "pending", "applied"}] /\ parked \subseteq Events
    /\ account \in Account
    /\ authority \in [plan : Plans, dirty : BOOLEAN, rev : Nat]
    /\ job \in [Handlers -> Job]
    /\ asks \in 0..MaxAsks /\ crashes \in 0..MaxCrashes

(* effective_user_plan at a time no period bound falls due.                  *)
PlanOf(a) ==
    IF a.grant THEN "max"
    ELSE IF a.bill # Null /\ a.bill.status \in Entitled THEN a.bill.plan ELSE "free"

(* A new account, or one that has subscribed already.                        *)
Init ==
    /\ provider \in [Subscriptions -> {Null, [status |-> "active", plan |-> "pro"]}]
    /\ Cardinality({s \in Subscriptions : provider[s] # Null}) <= 1
    /\ account = [bill |-> IF \A s \in Subscriptions : provider[s] = Null THEN Null
                           ELSE [sub |-> CHOOSE s \in Subscriptions : provider[s] # Null,
                                 status |-> "active", plan |-> "pro", last |-> 0],
                  records |-> {s \in Subscriptions : provider[s] # Null},
                  seen |-> {}, claim |-> Null, checkout |-> Null, grant |-> FALSE]
    /\ authority = [plan |-> PlanOf(account), dirty |-> FALSE, rev |-> 1]
    /\ sold = {} /\ log = <<>> /\ parked = {} /\ asks = 0 /\ crashes = 0
    /\ receipt = [e \in Events |-> Null]
    /\ job = [h \in Handlers |-> Idle]

Goto(h, pc) == job' = [job EXCEPT ![h].pc = pc]
Done(h) == job' = [job EXCEPT ![h] = Idle]

-----------------------------------------------------------------------------
(* The provider. Two changes may carry the same time.                        *)

Now == IF log = <<>> THEN 0 ELSE log[Len(log)].created

Report(s, c, request) ==
    /\ Len(log) < MaxEvents
    /\ provider' = [provider EXCEPT ![s] = c]
    /\ \E tick \in 0..1, named \in Marks :
           log' = Append(log, [sub |-> s, status |-> c.status, plan |-> c.plan,
                               created |-> Now + tick, request |-> request, named |-> named])

Purchase(s, r) ==
    /\ provider[s] = Null /\ r \in sold
    /\ Report(s, [status |-> "active", plan |-> "pro"], r)
    /\ UNCHANGED <<sold, stored, job, bounds>>

(* Charges fail and recover, periods end, support staff step in.             *)
Change(s, status) ==
    /\ provider[s] # Null /\ provider[s].status \notin {status, "canceled"}
    /\ Report(s, [provider[s] EXCEPT !.status = status], Null)
    /\ UNCHANGED <<sold, stored, job, bounds>>

-----------------------------------------------------------------------------
(* What an event does to the account.                                        *)

(* billing_owner_for_update: by metadata, subscription or checkout request.  *)
IsOwner(a, e) ==
    \/ e.named
    \/ a.bill # Null /\ a.bill.sub = e.sub
    \/ e.request # Null /\ e.request = a.checkout

Foreign(a, e) ==
    /\ a.bill # Null /\ a.bill.sub # e.sub
    /\ e.sub \in a.records \/ e.status \notin Entitled

\* weakened: events count in the order they arrive
NeverStale(a, e) == FALSE

Stale(a, e) == a.bill # Null /\ e.created < a.bill.last

Settles(claim, e) ==
    claim # Null /\ claim.sub = e.sub /\ (claim.plan = e.plan \/ e.status \in Failing)

Reduced(a, id) ==
    LET e == log[id]
        heard == [a EXCEPT !.seen = @ \cup {id}] IN
    IF Foreign(a, e) THEN [heard EXCEPT !.records = @ \cup {e.sub}]
    ELSE IF Stale(a, e) THEN heard
    ELSE [heard EXCEPT
             !.bill = [sub |-> e.sub, status |-> e.status, plan |-> e.plan, last |-> e.created],
             !.records = @ \cup {e.sub} \cup (IF a.bill = Null THEN {} ELSE {a.bill.sub}),
             !.claim = IF Settles(@, e) THEN Null ELSE @]

-----------------------------------------------------------------------------
(* accept_signed_creem_webhook                                               *)

(* The row of a receipt is immutable: a replay leaves it as it is.           *)
Recorded(id) == [receipt EXCEPT ![id] = IF @ = Null THEN "pending" ELSE @]

\* weakened: a receipt that is there already is taken for a settled one
DeliverOnce(h, id) ==
    /\ job[h].pc = "idle" /\ id \in Emitted
    /\ receipt' = Recorded(id)
    /\ job' = [job EXCEPT ![h] = [Idle EXCEPT !.kind = "webhook", !.event = id,
                  !.pc = IF receipt[id] # Null THEN "authority"
                         ELSE IF IsOwner(account, log[id]) THEN "read" ELSE "park"]]
    /\ UNCHANGED <<outside, parked, account, authority, bounds>>

(* The receipt is recorded, its state read and its owner looked up.          *)
Deliver(h, id) ==
    /\ job[h].pc = "idle" /\ id \in Emitted
    /\ receipt' = Recorded(id)
    /\ job' = [job EXCEPT ![h] = [Idle EXCEPT !.kind = "webhook", !.event = id,
                  !.pc = IF receipt[id] = "applied" THEN "authority"
                         ELSE IF IsOwner(account, log[id]) THEN "read" ELSE "park"]]
    /\ UNCHANGED <<outside, parked, account, authority, bounds>>

(* Parked already, or parked now. A receipt settled meanwhile, or a full     *)
(* park, is an error.                                                        *)
MayPark(id) == receipt[id] = "pending" /\ (id \in parked \/ Cardinality(parked) < MaxParked)

Park(h) == LET id == job[h].event IN
    /\ job[h].pc = "park"
    /\ parked' = IF MayPark(id) THEN parked \cup {id} ELSE parked
    /\ Done(h)
    /\ UNCHANGED <<outside, receipt, account, authority, bounds>>

ReadAccount(h) ==
    LET id == job[h].event IN
    /\ job[h].pc = "read"
    /\ job' = [job EXCEPT ![h] =
           IF receipt[id] = "pending" /\ IsOwner(account, log[id])
           THEN [@ EXCEPT !.pc = "settle", !.account = account, !.rev = authority.rev,
                          !.parked = id \in parked]
           ELSE Idle]
    /\ UNCHANGED <<outside, stored, bounds>>

(* apply_webhook_receipt: one batch, all of its guards first.                *)
Settle(h) ==
    LET j == job[h]
        holds == /\ receipt[j.event] = "pending" /\ j.parked = (j.event \in parked)
                 /\ account = j.account /\ authority.rev = j.rev IN
    /\ j.pc = "settle"
    /\ \/ /\ holds
          /\ account' = Reduced(account, j.event)
          /\ authority' = [authority EXCEPT !.dirty = TRUE, !.rev = @ + 1]
          /\ receipt' = [receipt EXCEPT ![j.event] = "applied"]
          /\ parked' = parked \ {j.event}
          /\ Goto(h, "authority")
       \/ /\ ~holds
          /\ Done(h)
          /\ UNCHANGED stored
    /\ UNCHANGED <<outside, bounds>>

(* _refresh_dirty_owner.                                                     *)
ReadAuthority(h) ==
    /\ job[h].pc = "authority"
    /\ job' = [job EXCEPT ![h] =
           IF authority.dirty THEN [@ EXCEPT !.pc = "refresh", !.account = account, !.rev = authority.rev]
           ELSE Idle]
    /\ UNCHANGED <<outside, stored, bounds>>

\* weakened: the projection is published without its account guard
RefreshUnguarded(h) ==
    /\ job[h].pc = "refresh"
    /\ authority' = [plan |-> PlanOf(job[h].account), dirty |-> FALSE, rev |-> authority.rev + 1]
    /\ Done(h)
    /\ UNCHANGED <<outside, receipt, parked, account, bounds>>

Refresh(h) ==
    LET holds == account = job[h].account /\ authority.rev = job[h].rev IN
    /\ job[h].pc = "refresh"
    /\ authority' = IF holds THEN [plan |-> PlanOf(account), dirty |-> FALSE, rev |-> authority.rev + 1]
                    ELSE authority
    /\ Done(h)
    /\ UNCHANGED <<outside, receipt, parked, account, bounds>>

-----------------------------------------------------------------------------
(* handle_billing_mutation and apply_preview_plan_grant                      *)

Begin(h, kind, pc, r) ==
    /\ job[h].pc = "idle" /\ asks < MaxAsks /\ asks + crashes < MaxTrouble
    /\ asks' = asks + 1
    /\ job' = [job EXCEPT ![h] = [Idle EXCEPT !.pc = pc, !.kind = kind, !.request = r,
                                              !.account = account, !.rev = authority.rev]]
    /\ UNCHANGED <<outside, stored, crashes>>

Checkout(h, r) ==
    /\ ~(account.bill # Null /\ account.bill.status \in Entitled)
    /\ Begin(h, "checkout", "post", r)

(* No other change of the subscription is pending.                           *)
Changeable == account.bill # Null /\ ~(account.claim # Null /\ account.claim.sub = account.bill.sub)

Cancel(h) ==
    /\ Changeable /\ account.bill.status = "active"
    /\ Begin(h, "cancel", "post", Null)

Resume(h) ==
    /\ Changeable /\ account.bill.status = "canceling"
    /\ Begin(h, "resume", "post", Null)

Upgrade(h) ==
    /\ Changeable /\ account.bill.status = "active" /\ account.bill.plan = "pro"
    /\ Begin(h, "upgrade", "claim", Null)

Grant(h) ==
    /\ ~account.grant
    /\ Begin(h, "grant", "write", Null)

Asked(h) == [sub |-> job[h].account.bill.sub, plan |-> "max"]

(* Claim the change before sending a potentially chargeable request.         *)
ClaimChange(h) ==
    LET holds == account = job[h].account IN
    /\ job[h].pc = "claim"
    /\ account' = IF holds THEN [account EXCEPT !.claim = Asked(h)] ELSE account
    /\ IF holds THEN Goto(h, "post") ELSE Done(h)
    /\ UNCHANGED <<outside, receipt, parked, authority, bounds>>

(* The provider carries a request out and the answer may be lost; or the     *)
(* request is lost on its way; or the provider refuses it.                   *)
Perform(h) ==
    LET j == job[h]
        s == j.account.bill.sub IN
    CASE j.kind = "checkout" -> sold' = sold \cup {j.request} /\ UNCHANGED <<provider, log>>
      [] j.kind = "upgrade"  -> /\ provider[s].status \in Entitled
                                /\ Report(s, [provider[s] EXCEPT !.plan = "max"], Null)
                                /\ UNCHANGED sold
      [] j.kind = "cancel"   -> /\ provider[s].status = "active"
                                /\ Report(s, [provider[s] EXCEPT !.status = "canceling"], Null)
                                /\ UNCHANGED sold
      [] j.kind = "resume"   -> /\ provider[s].status = "canceling"
                                /\ Report(s, [provider[s] EXCEPT !.status = "active"], Null)
                                /\ UNCHANGED sold

Post(h) ==
    /\ job[h].pc = "post"
    /\ \/ Perform(h) /\ (IF job[h].kind = "upgrade" THEN Done(h) ELSE Goto(h, "write"))
       \/ Perform(h) /\ Done(h)
       \/ UNCHANGED outside /\ Done(h)
       \/ UNCHANGED outside /\ job[h].kind = "upgrade" /\ Goto(h, "restore")
    /\ UNCHANGED <<stored, bounds>>

(* A definite rejection ends the handler's own claim and no other.           *)
Restore(h) ==
    /\ job[h].pc = "restore"
    /\ account' = IF account.claim = Asked(h) THEN [account EXCEPT !.claim = Null] ELSE account
    /\ Done(h)
    /\ UNCHANGED <<outside, receipt, parked, authority, bounds>>

Written(h) ==
    LET a == job[h].account IN
    CASE job[h].kind = "checkout" -> [a EXCEPT !.checkout = job[h].request]
      [] job[h].kind = "cancel"   -> [a EXCEPT !.bill.status = "canceling"]
      [] job[h].kind = "resume"   -> [a EXCEPT !.bill.status = "active"]
      [] job[h].kind = "grant"    -> [a EXCEPT !.grant = TRUE]

\* weakened: the account is written as it was read, whatever happened to it since
WriteBlind(h) ==
    /\ job[h].pc = "write" /\ job[h].kind # "grant"
    /\ account' = Written(h)
    /\ Done(h)
    /\ UNCHANGED <<outside, receipt, parked, authority, bounds>>

(* _write_user with expected_user; a grant also carries its projection.      *)
Write(h) ==
    LET granted == job[h].kind = "grant"
        holds == account = job[h].account /\ (granted => authority.rev = job[h].rev) IN
    /\ job[h].pc = "write"
    /\ account' = IF holds THEN Written(h) ELSE account
    /\ authority' = IF holds /\ granted
                    THEN [plan |-> PlanOf(Written(h)), dirty |-> FALSE, rev |-> authority.rev + 2]
                    ELSE authority
    /\ Done(h)
    /\ UNCHANGED <<outside, receipt, parked, bounds>>

-----------------------------------------------------------------------------
(* A Worker dies, or a database call fails, between any two steps.           *)
Crash(h) ==
    /\ job[h].pc # "idle" /\ crashes < MaxCrashes /\ asks + crashes < MaxTrouble
    /\ crashes' = crashes + 1
    /\ Done(h)
    /\ UNCHANGED <<outside, stored, asks>>

Handle(h) ==
    \/ Park(h) \/ ReadAccount(h) \/ Settle(h) \/ ReadAuthority(h) \/ Refresh(h)
    \/ ClaimChange(h) \/ Post(h) \/ Restore(h) \/ Write(h)

Next ==
    \/ \E s \in Subscriptions :
           \/ \E r \in Requests : Purchase(s, r)
           \/ \E status \in Outcomes : Change(s, status)
    \/ \E h \in Handlers :
           \/ \E id \in Events : Deliver(h, id)
           \/ \E r \in Requests : Checkout(h, r)
           \/ Cancel(h) \/ Resume(h) \/ Upgrade(h) \/ Grant(h)
           \/ Handle(h) \/ Crash(h)

(* The provider sends an event again until its last delivery is answered.    *)
(* That answer is a parked event, or a settled one with a clean entitlement: *)
(* whoever leaves it dirty dies unanswered.                                  *)
Unanswered(id) == id \in Emitted /\ id \notin parked /\ (receipt[id] = "applied" => authority.dirty)

Fairness ==
    /\ \A h \in Handlers : WF_vars(Handle(h))
    /\ \A id \in Events : SF_vars(Unanswered(id) /\ \E h \in Handlers : Deliver(h, id))

Spec == Init /\ [][Next]_vars /\ Fairness

-----------------------------------------------------------------------------
(* Once every event of the current subscription is settled, the account has  *)
(* the state of a newest one: no late event and no write of a request that   *)
(* was under way has put an older state back.                                *)
Newest(s) == {id \in Emitted : log[id].sub = s /\ \A k \in Emitted : log[k].sub = s => log[k].created <= log[id].created}

Converged ==
    account.bill # Null =>
        LET s == account.bill.sub IN
        ({id \in Emitted : log[id].sub = s} # {} /\ \A id \in Emitted : log[id].sub = s => receipt[id] = "applied")
        => \E id \in Newest(s) : account.bill.status = log[id].status /\ account.bill.plan = log[id].plan

(* A clean entitlement is the one the account gives: every write that        *)
(* changes the plan leaves it dirty until a refresh of that very account.    *)
CleanProjection == ~authority.dirty => authority.plan = PlanOf(account)

(* The account has heard of exactly the events whose receipt is applied, and *)
(* none of them waits in the park.                                           *)
ReceiptsMatchAccount ==
    /\ \A id \in Events : receipt[id] = "applied" <=> id \in account.seen
    /\ \A id \in parked : receipt[id] = "pending"

(* The account agrees with what the provider said, and the receipts with the    *)
(* account.                                                                  *)
Consistent == TypeOK /\ Converged /\ ReceiptsMatchAccount

(* An upgrade stays claimed until an event settles it or its own request is  *)
(* refused, and only the claim of a former subscription gives way to one of  *)
(* the current: no concurrent request loses it.                              *)
ClaimKept ==
    [][ account.claim # Null /\ account'.claim # account.claim =>
          \/ \E id \in Events : receipt[id] = "pending" /\ receipt'[id] = "applied"
          \/ \E h \in Handlers : job[h].pc = "restore" /\ Asked(h) = account.claim
          \/ /\ account.claim.sub # account.bill.sub /\ account'.claim # Null
             /\ account'.claim.sub = account.bill.sub ]_vars

(* "A lost response remains pending; retrying it must not charge a second    *)
(* time": no upgrade is carried out on a subscription that has had it.       *)
UpgradedOnce ==
    [][ \A h \in Handlers :
          job[h].kind = "upgrade" /\ job[h].pc = "post" /\ job'[h].pc # "post" /\ log' # log
          => provider[Asked(h).sub].plan # "max" ]_vars

(* Every event is settled in the end, or parked when it names no account     *)
(* unless the park is full; and the entitlement follows.                     *)
EventuallyKnown ==
    \A id \in Events :
        id \in Emitted ~> receipt[id] = "applied" \/ id \in parked \/ Cardinality(parked) = MaxParked
EventuallyClean == []<>(~authority.dirty)

(* What the provider reports ends up in the account, and what the account gives *)
(* ends up in the entitlement: neither waits for ever behind a crash or a race.*)
EventuallySettled == EventuallyKnown /\ EventuallyClean
=============================================================================
