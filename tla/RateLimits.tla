----------------------------- MODULE RateLimits -----------------------------
(***************************************************************************)
(* The two admission counters of the coordinator: requests to the preview     *)
(* per caller and minute, and sign-in mails and code checks per address and   *)
(* source. Each call is one synchronous turn of the coordinator, but calls     *)
(* carry the time they were made with, in any order; rows expire and the       *)
(* tables are bounded.                                                       *)
(***************************************************************************)
EXTENDS Integers, FiniteSets

CONSTANTS
    Sources,      \* network addresses
    Addresses,    \* email addresses
    Limit,        \* Limit[b]: calls of a bucket b in one window
    Minute, Hour, \* windows, in ticks
    RateRows,     \* MAX_SUBJECTS of PreviewRateLimiter
    MailRows,     \* MAX_SUBJECTS of EmailRateLimiter
    Sweep,        \* CLEANUP_LIMIT
    MaxTick,      \* bound: times calls carry
    MaxCalls      \* bound: calls of one limiter

Never == -1

RateBuckets == {"ip", "credential", "oauth", "actor"}
MailBuckets == {"send", "sendIp", "sendAll", "verify", "verifyIp"}

ASSUME RateAssumption ==
    /\ Limit \in [RateBuckets \cup MailBuckets -> Nat \ {0}]
    /\ {Minute, Hour} \subseteq Nat \ {0} /\ Minute <= Hour
    /\ {RateRows, MailRows, Sweep, MaxTick, MaxCalls} \subseteq Nat

VARIABLES
    rates,      \* preview_request_rates: subject -> [minute, calls]
    rateClock,  \* preview_rate_clock.minute
    mails,      \* email_request_rates: subject -> [period, calls, last, expires]
    mailClock,  \* email_rate_clock.last_now
    turns,      \* how often each limiter was called
    tally,      \* history: tally[<<s, p>>], admissions of subject s in period p
    lastSent    \* history: when the last mail to an address was admitted

rateVars == <<rates, rateClock, mails, mailClock, turns, tally, lastSent>>

Times == 0..MaxTick
Later2(t, u) == IF t < u THEN u ELSE t

RateInit ==
    /\ rates = <<>> /\ rateClock = 0 /\ mails = <<>> /\ mailClock = 0
    /\ turns = [preview |-> 0, email |-> 0]
    /\ tally = <<>> /\ lastSent = [a \in Addresses |-> Never]

Called(limiter) == turns[limiter] < MaxCalls /\ turns' = [turns EXCEPT ![limiter] = @ + 1]

Counted(subjects, p) ==
    [k \in DOMAIN tally \cup {<<s, p>> : s \in subjects} |->
        (IF k \in DOMAIN tally THEN tally[k] ELSE 0) + (IF k[1] \in subjects /\ k[2] = p THEN 1 ELSE 0)]

-----------------------------------------------------------------------------
(* PreviewRateLimiter._check.                                                *)

(* A late call counts in the current minute.                                 *)
CurrentMinute(now) == Later2(now \div Minute, rateClock)

(* When the minute turns, rows older than the one before it are forgotten.   *)
Remembered(m) ==
    IF m > rateClock
    THEN [s \in {r \in DOMAIN rates : rates[r].minute + 1 >= m} |-> rates[s]]
    ELSE rates

Exhausted(table, subjects, m) ==
    \E s \in subjects \cap DOMAIN table : table[s].minute = m /\ table[s].calls >= Limit[s[1]]

Bumped(table, subjects, m) ==
    [s \in DOMAIN table \cup subjects |->
        IF s \in subjects
        THEN [minute |-> m,
              calls |-> IF s \in DOMAIN table /\ table[s].minute = m THEN table[s].calls + 1 ELSE 1]
        ELSE table[s]]

(* A refusal still turns the minute.                                         *)
Admit(subjects, now) ==
    LET m == CurrentMinute(now)
        table == Remembered(m)
    IN /\ Called("preview")
       /\ rateClock' = Later2(m, rateClock)
       /\ IF Exhausted(table, subjects, m) \/ Cardinality(DOMAIN table \cup subjects) > RateRows
          THEN rates' = table /\ UNCHANGED tally
          ELSE rates' = Bumped(table, subjects, m) /\ tally' = Counted(subjects, m)
       /\ UNCHANGED <<mails, mailClock, lastSent>>

(* ingress: the source, the credential if there is one, and a bucket of its   *)
(* own for the sign-in pages; then, once it is known who calls, the actor.    *)
Ingress(source, credential, signIn, now) ==
    Admit({<<"ip", source>>} \cup (IF credential THEN {<<"credential", source>>} ELSE {})
            \cup (IF signIn THEN {<<"oauth", source>>} ELSE {}), now)

(* Revocations have a channel of their own.                                  *)
ActorCall(channel, now) == Admit({<<"actor", channel>>}, now)

-----------------------------------------------------------------------------
(* EmailRateLimiter.email.                                                   *)

WindowOf(kind) == IF kind = "send" THEN Hour ELSE Minute
PeriodOf(kind, t) == (t \div WindowOf(kind)) * WindowOf(kind)

MailSubjects(kind, a, source) ==
    IF kind = "send" THEN {<<"send", a>>, <<"sendIp", source>>, <<"sendAll", "all">>}
    ELSE {<<"verify", a>>, <<"verifyIp", source>>}

Spent(kind, subjects, t) ==
    \E s \in subjects \cap DOMAIN mails :
        mails[s].period = PeriodOf(kind, t) /\ mails[s].calls >= Limit[s[1]]

(* A minute between two mails to one address, across hours too.              *)
Cooling(kind, a, t) ==
    kind = "send" /\ <<"send", a>> \in DOMAIN mails /\ mails[<<"send", a>>].last + Minute > t

\* weakened: the row of an address expires with its hour
ExpiryByWindow(kind, s, t) == PeriodOf(kind, t) + WindowOf(kind)
(* The row of an address outlives its hour while the address is cooling.     *)
Expiry(kind, s, t) ==
    IF s[1] = "send" THEN Later2(PeriodOf(kind, t) + WindowOf(kind), t + Minute)
    ELSE PeriodOf(kind, t) + WindowOf(kind)

(* The oldest expired rows of others, at most Sweep of them.                 *)
Swept(subjects, t) ==
    LET expired == {s \in DOMAIN mails \ subjects : mails[s].expires <= t} IN
    {S \in SUBSET expired :
        /\ Cardinality(S) = IF Cardinality(expired) < Sweep THEN Cardinality(expired) ELSE Sweep
        /\ \A s \in S, r \in expired \ S : mails[s].expires <= mails[r].expires}

NewMailRow(kind, s, t) ==
    [period |-> PeriodOf(kind, t),
     calls |-> IF s \in DOMAIN mails /\ mails[s].period = PeriodOf(kind, t) THEN mails[s].calls + 1 ELSE 1,
     last |-> t, expires |-> Expiry(kind, s, t)]

(* A refusal changes nothing at all.                                         *)
Email(kind, a, source, now) ==
    LET t == Later2(now, mailClock)
        subjects == MailSubjects(kind, a, source)
    IN /\ Called("email")
       /\ \E swept \in Swept(subjects, t) :
            LET kept == DOMAIN mails \ swept IN
            IF Spent(kind, subjects, t) \/ Cooling(kind, a, t) \/ Cardinality(kept \cup subjects) > MailRows
            THEN UNCHANGED <<mails, mailClock, tally, lastSent>>
            ELSE /\ mails' = [s \in kept \cup subjects |->
                                IF s \in subjects THEN NewMailRow(kind, s, t) ELSE mails[s]]
                 /\ mailClock' = t
                 /\ tally' = Counted(subjects, PeriodOf(kind, t))
                 /\ lastSent' = IF kind = "send" THEN [lastSent EXCEPT ![a] = t] ELSE lastSent
       /\ UNCHANGED <<rates, rateClock>>

PreviewCalls ==
    \/ \E source \in Sources, credential, signIn \in BOOLEAN, now \in Times : Ingress(source, credential, signIn, now)
    \/ \E channel \in {"read", "write", "security"}, now \in Times : ActorCall(channel, now)

MailCalls ==
    \E kind \in {"send", "verify"}, a \in Addresses, source \in Sources, now \in Times : Email(kind, a, source, now)

RateNext == PreviewCalls \/ MailCalls

RateSpec == RateInit /\ [][RateNext]_rateVars

-----------------------------------------------------------------------------
(* What the counters promise.                                                *)

\* No bucket admits more calls in one window than its limit, whatever the order in
\* which late and early calls arrive, rows expire and are swept; the tables stay
\* within their bounds; two mails to one address are a minute apart, across the hour
\* at which all counts start again; and no clock runs backwards.
RatesHold ==
    /\ [](\A k \in DOMAIN tally : tally[k] <= Limit[k[1][1]])
    /\ [](Cardinality(DOMAIN rates) <= RateRows /\ Cardinality(DOMAIN mails) <= MailRows)
    /\ [][/\ rateClock' >= rateClock /\ mailClock' >= mailClock
          /\ \A a \in Addresses : lastSent'[a] # lastSent[a] /\ lastSent[a] # Never =>
                lastSent'[a] >= lastSent[a] + Minute]_rateVars
=============================================================================
