----------------------- MODULE RecurringNotifications -----------------------
(***************************************************************************)
(* What the handlers of RecurringRules do once they have retained a failure: *)
(* they tell the actor of the rule, by one mail at most or else by the inbox,*)
(* before they answer or go on with the tick. The retained failure is itself *)
(* the notice; telling is a read, a claim, a mail and a settlement, and the  *)
(* handler may die between any two of them.                                 *)
(*                                                                          *)
(* The records a claim compares with those it read (the recipient's account, *)
(* the workspace's, the membership) are those the actor's authority to write  *)
(* rests on as well: they count as one, with the revision of its grant. A     *)
(* viewer may read what it no longer may write.                              *)
(***************************************************************************)
EXTENDS RecurringRules

CONSTANTS
    MaxNotifications, \* MAX_NOTIFICATIONS
    Foreign           \* rows other workspaces, or its other keys, may hold for an actor

(* What orders a row of the inbox. A day stands for the instant its handler    *)
(* began.                                                                   *)
Listing == [at : Nat, rule : Nat, period : Period]

ASSUME InboxAssumption == MaxNotifications \in Nat /\ IsFiniteSet(Foreign) /\ Foreign \subseteq Listing

VARIABLES
    notice,  \* notice[f]: notification_state, recipient_user_id and created_at
    readers, \* the actors that may read the workspace
    note,    \* note[w]: what the handler in slot w is telling
    mailed   \* history: mailed[f] counts the mails about failure f

noticeVars == <<notice, readers, note, mailed>>
allVars    == <<vars, noticeVars>>

NoticeState == {"pending", "sending", "email", "inbox"}
Notice      == [state : NoticeState, to : Grants, at : Nat]

Quiet == [pc |-> "quiet", failure |-> Null, rev |-> 0, delivery |-> Null]

NoticeTypeOK ==
    /\ TypeOK
    /\ DOMAIN notice = pending
    /\ \A f \in pending : notice[f] \in Notice
    /\ readers \subseteq Grants
    /\ \A w \in Slots : /\ note[w].pc \in {"quiet", "read", "claim", "send", "settle"}
                        /\ note[w].failure \in Failure \cup {Null}
                        /\ note[w].delivery \in {"email", "inbox", Null}

NoticeInit ==
    /\ Init
    /\ notice = <<>>
    /\ readers = Grants
    /\ note = [w \in Slots |-> Quiet]
    /\ mailed = <<>>

-----------------------------------------------------------------------------
(* A step of RecurringRules, with the notices of the failures it retains.    *)

(* The recipient is the actor the rule had when the failure was retained.    *)
Noticed(w) ==
    LET new == [state |-> "pending", to |-> job[w].by, at |-> job[w].now] IN
    [f \in pending' |-> IF f \in pending THEN notice[f] ELSE new]

Kept == [f \in pending' |-> notice[f]]

Handle(w) ==
    /\ note[w] = Quiet
    /\ IF w = Ticker THEN Tick ELSE Request(w)
    /\ notice' = Noticed(w)
    /\ note' = [note EXCEPT ![w] = IF pending' \ pending = {} THEN Quiet
                    ELSE [Quiet EXCEPT !.pc = "read", !.failure = CHOOSE f \in pending' \ pending : TRUE]]
    /\ UNCHANGED <<readers, mailed>>

(* A disconnect, a dead isolate: whatever was being told stays as it is.      *)
Kill(w) ==
    /\ job[w] # Idle \/ note[w] # Quiet
    /\ job' = [job EXCEPT ![w] = Idle]
    /\ note' = [note EXCEPT ![w] = Quiet]
    /\ UNCHANGED <<tables, around, notice, readers, mailed>>

(* With its authority an actor may lose sight of the workspace, or find it.   *)
ReadersAfter ==
    LET revised == {g \in Grants : grant'[g] # grant[g]}
        writers == {g \in revised : grant'[g].ok} IN
    {(readers \ revised) \cup kept : kept \in {writers, revised}}

Elsewhere ==
    /\ Around
    /\ notice' = Kept
    /\ readers' \in ReadersAfter
    /\ UNCHANGED <<note, mailed>>

-----------------------------------------------------------------------------
(* notify_recurring_failure.                                                 *)

Told(f) == rule[f.rule] # Null /\ rule[f.rule].status # "canceled" /\ Visible(rule[f.rule].target)

Telling(w, pc) == note[w].pc = pc /\ UNCHANGED <<vars, readers>>

ReadNotice(w) == LET f == note[w].failure IN
    /\ Telling(w, "read")
    /\ note' = [note EXCEPT ![w] =
           IF f \in pending /\ notice[f].state = "pending" /\ Told(f) /\ notice[f].to \in readers
           THEN [@ EXCEPT !.pc = "claim", !.rev = grant[notice[f].to].rev] ELSE Quiet]
    /\ UNCHANGED <<notice, mailed>>

\* weakened: the recipient is trusted as it was read
ClaimHoldsAsRead(w, f) == f \in pending /\ notice[f].state = "pending" /\ Told(f)

ClaimHolds(w, f) ==
    /\ f \in pending /\ notice[f].state = "pending" /\ Told(f)
    /\ grant[notice[f].to].rev = note[w].rev

ClaimNotice(w) == LET f == note[w].failure IN
    /\ Telling(w, "claim")
    /\ IF ClaimHolds(w, f)
       THEN /\ notice' = [notice EXCEPT ![f].state = "sending"]
            /\ note' = [note EXCEPT ![w].pc = "send"]
       ELSE /\ note' = [note EXCEPT ![w] = Quiet]
            /\ UNCHANGED notice
    /\ UNCHANGED mailed

(* Only a mail the gateway answered for counts as told. A provider that failed *)
(* may have sent it all the same. No verified address or no gateway: no mail. *)
Send(w) == LET f == note[w].failure IN
    /\ Telling(w, "send")
    /\ \E sent, answered \in BOOLEAN :
          /\ answered => sent
          /\ mailed' = IF sent THEN [g \in DOMAIN mailed \cup {f} |->
                                        (IF g \in DOMAIN mailed THEN mailed[g] ELSE 0) + (IF g = f THEN 1 ELSE 0)]
                       ELSE mailed
          /\ note' = [note EXCEPT ![w].pc = "settle", ![w].delivery = IF answered THEN "email" ELSE "inbox"]
    /\ UNCHANGED notice

SettleNotice(w) == LET f == note[w].failure IN
    /\ Telling(w, "settle")
    /\ notice' = IF f \in pending /\ notice[f].state = "sending"
                 THEN [notice EXCEPT ![f].state = note[w].delivery] ELSE notice
    /\ note' = [note EXCEPT ![w] = Quiet]
    /\ UNCHANGED mailed

Tell(w) == ReadNotice(w) \/ ClaimNotice(w) \/ Send(w) \/ SettleNotice(w)

(* GET recurring-expense-notifications, for the actor of g, of whom `others`   *)
(* await an answer as well: the oldest rows, and whether there are more.       *)
Awaiting(g) == {f \in pending : notice[f].to = g /\ notice[f].state \in {"pending", "sending", "inbox"}
                                    /\ Told(f) /\ g \in readers}

Entry(f) == [at |-> notice[f].at, rule |-> f.rule, period |-> f.period]

KeyBefore(p, q) == p.number < q.number \/ (p.number = q.number /\ p.every < q.every)

Precedes(a, b) ==
    \/ a.at < b.at
    \/ a.at = b.at /\ a.rule < b.rule
    \/ a.at = b.at /\ a.rule = b.rule /\ KeyBefore(a.period, b.period)

Listed(g, others)  == {Entry(f) : f \in Awaiting(g)} \cup others
Older(list, e)     == {x \in list : Precedes(x, e)}
Inbox(g, others)   == {e \in Listed(g, others) : Cardinality(Older(Listed(g, others), e)) < MaxNotifications}
HasMore(g, others) == Cardinality(Listed(g, others)) > MaxNotifications

-----------------------------------------------------------------------------
NoticeNext ==
    \/ \E w \in Slots : Handle(w) \/ Tell(w) \/ Kill(w)
    \/ Elsewhere

NoticeSpec == NoticeInit /\ [][NoticeNext]_allVars

(* The hourly trigger keeps coming, a tick in progress goes on and so does its *)
(* telling (the gateway bounds a mail), and from some time on ticks are no     *)
(* longer killed.                                                            *)
TickStep == Handle(Ticker) \/ Tell(Ticker)

NoticeFairSpec ==
    /\ NoticeSpec
    /\ WF_allVars(TickStep)
    /\ <>[][<<tick, note[Ticker]>>' # <<tick, note[Ticker]>> => TickStep]_allVars

-----------------------------------------------------------------------------
(* Properties.                                                               *)

\* A reader finds a failure in its inbox, unless the page is full of older ones that
\* await an answer too, of which there are MaxNotifications, and says there are more.
FoundOrBehind(f, others) == LET page == Inbox(notice[f].to, others) IN
    \/ Entry(f) \in page
    \/ /\ Cardinality(page) = MaxNotifications
       /\ \A e \in page : Precedes(e, Entry(f))
       /\ HasMore(notice[f].to, others)

\* A failure is mailed at most once, though its handler may die at any point and the
\* provider's answer may be lost; and unless a mail went out for it, an actor who may
\* read the workspace finds it in the inbox for as long as it is retained, or behind
\* a full page of older ones, whatever else awaits the actor.
ToldOnce ==
    /\ NoticeTypeOK
    /\ \A f \in DOMAIN mailed : mailed[f] <= 1
    /\ \A f \in pending : Told(f) /\ notice[f].to \in readers =>
           \/ f \in DOMAIN mailed /\ mailed[f] = 1
           \/ \A others \in SUBSET Foreign : FoundOrBehind(f, others)

\* A mail is only claimed for a recipient who may read the workspace at that moment,
\* about a rule that is not canceled.
ClaimedForReader ==
    [][\A f \in pending \cap pending' :
        notice[f].state = "pending" /\ notice'[f].state = "sending" =>
            notice[f].to \in readers /\ Told(f)]_allVars

\* Whoever may hear of a failure hears of it, oldest first, once, and nobody else does.
NoticesReach == []ToldOnce /\ ClaimedForReader
=============================================================================
