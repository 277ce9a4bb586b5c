----------------------------- MODULE JevReview -----------------------------
(***************************************************************************)
(* The model's review of one saved expense, and its suggestion for a draft, *)
(* over the allowances of PlanUsage: read the context, reserve a call in a  *)
(* batch of its own, ask the provider outside any transaction, read again,  *)
(* and publish the hints in a last fenced batch. Ordinary requests change   *)
(* the expense, a possible duplicate and the categories at any point in     *)
(* between.                                                                 *)
(***************************************************************************)
EXTENDS PlanUsage

CONSTANT Reviewer    \* the slot of PlanUsage's requests that reserves for reviews
ASSUME ReviewerAssumption == Reviewer \in Workers

VARIABLES
    source,     \* the expense under review
    twin,       \* an expense with the same date, amount and currency, if live
    category,   \* whether the category the model may choose is not archived
    review,     \* what the review or suggestion has read, and how far it is
    events,     \* expense_suggestion_events
    calls       \* history: calls[k], requests sent to the provider in month k

reviewTables == <<source, twin, category, events>>
jevVars == <<planVars, reviewTables, review, calls>>

Row == [rev : Nat, live : BOOLEAN]
(* A category is only taken from a validated answer.                         *)
Hints == {h \in [category : BOOLEAN, answered : BOOLEAN] : h.category => h.answered}
NoHints == [category |-> FALSE, answered |-> FALSE]
(* A suggestion is for a draft, or for an expense as it was just written: it *)
(* follows no revision, Null.                                                *)
Subjects == Nat \cup {Null}
NoReview == [pc |-> "idle", now |-> 0, account |-> Idle.account, src |-> 0, hints |-> NoHints, twin |-> Null]

JevTypeOK ==
    /\ PlanTypeOK
    /\ source \in Row /\ twin \in Row /\ category \in BOOLEAN
    /\ review \in [pc : {"idle", "reserving", "asking", "answered", "checked"}, now : Minutes,
                   account : Account, src : Subjects, hints : Hints, twin : Row \cup {Null}]
    /\ events \subseteq [src : Subjects, hints : Hints, twin : Row \cup {Null}, decided : BOOLEAN]
    /\ calls \in [Months -> Nat]

JevInit ==
    /\ PlanInit
    /\ source = [rev |-> 0, live |-> TRUE] /\ twin = [rev |-> 0, live |-> TRUE]
    /\ category = TRUE /\ review = NoReview /\ events = {}
    /\ calls = [k \in Months |-> 0]

-----------------------------------------------------------------------------
(* Ordinary requests, with what their batch does to the rows reviewed here.  *)

Revised(row) == [row EXCEPT !.rev = @ + 1]
Removed(row) == [row EXCEPT !.rev = @ + 1, !.live = FALSE]

Touch(kind) ==
    CASE kind = "edit" ->
           \/ source.live /\ source' = Revised(source) /\ UNCHANGED <<twin, category>>
           \/ twin.live /\ twin' = Revised(twin) /\ UNCHANGED <<source, category>>
           \/ category /\ category' = FALSE /\ UNCHANGED <<source, twin>>
      [] kind = "remove" ->
           \/ source.live /\ source' = Removed(source) /\ UNCHANGED <<twin, category>>
           \/ twin.live /\ twin' = Removed(twin) /\ UNCHANGED <<source, category>>
      [] OTHER -> UNCHANGED <<source, twin, category>>

(* Another suggestion reserves in a slot of its own; it is not followed.     *)
Request(w) ==
    /\ w # Reviewer
    /\ \/ /\ (\E kind \in Kinds : Receive(w, kind)) \/ Inspect(w) \/ Abandon(w)
          /\ UNCHANGED <<reviewTables, review, calls>>
       \/ Commit(w) /\ Touch(job[w].kind) /\ UNCHANGED <<events, review, calls>>

-----------------------------------------------------------------------------
(* The review, or suggestion. Its proof, the account and the expense it read, *)
(* must be the current one in every later batch and every later read.        *)

Reviewing == review.src # Null
SourceUnchanged == Reviewing => source.live /\ source.rev = review.src
Same(row, read) == row.live /\ row.rev = read.rev

(* _review and its first _fresh_snapshot.                                    *)
ReadSource ==
    /\ review.pc = "idle"
    /\ source.live
    /\ PlanOf(account, clock) = "paid" /\ account.jev
    /\ Receive(Reviewer, "reserve")
    /\ review' = [NoReview EXCEPT !.pc = "reserving", !.now = clock, !.account = account, !.src = source.rev]
    /\ UNCHANGED <<reviewTables, calls>>

(* handle_suggestion_request: a draft needs a category to choose from.       *)
ReadDraft ==
    /\ review.pc = "idle"
    /\ category
    /\ PlanOf(account, clock) = "paid" /\ account.jev
    /\ Receive(Reviewer, "reserve")
    /\ review' = [NoReview EXCEPT !.pc = "reserving", !.now = clock, !.account = account, !.src = Null]
    /\ UNCHANGED <<reviewTables, calls>>

Price ==
    /\ review.pc = "reserving"
    /\ Inspect(Reviewer)
    /\ UNCHANGED <<reviewTables, review, calls>>

Reserve ==
    /\ review.pc = "reserving"
    /\ SourceUnchanged
    /\ Commit(Reviewer)
    /\ review' = [review EXCEPT !.pc = "asking"]
    /\ UNCHANGED <<reviewTables, calls>>

(* The provider answers, or does not: transport errors only lose the hints.  *)
Ask(hints) ==
    /\ review.pc = "asking"
    /\ calls' = [calls EXCEPT ![MonthOf(review.now)] = @ + 1]
    /\ review' = [review EXCEPT !.pc = "answered", !.hints = hints]
    /\ UNCHANGED <<planVars, reviewTables>>

(* A suggestion that was not answered looks for no duplicate.                *)
FoundTwin == IF twin.live /\ (Reviewing \/ review.hints.answered) THEN twin ELSE Null
TwinHolds == review.twin # Null => Same(twin, review.twin)

(* The second _fresh_snapshot: what archived or removed rows still support.  *)
(* A suggestion does not look at the category again: whoever decides it must *)
(* name one that is not archived.                                            *)
ReadAgain ==
    /\ review.pc = "answered"
    /\ account = review.account /\ PlanOf(account, review.now) = "paid"
    /\ SourceUnchanged
    /\ review' = [review EXCEPT !.pc = "checked",
                      !.hints.category = @ /\ (Reviewing => category),
                      !.twin = FoundTwin]
    /\ UNCHANGED <<planVars, reviewTables, calls>>

Event == [src |-> review.src, hints |-> review.hints, twin |-> review.twin, decided |-> FALSE]

\* weakened: publishes what the second read found, fenced by the source alone
PublishUnfenced ==
    /\ review.pc = "checked"
    /\ account = review.account /\ SourceUnchanged
    /\ events' = events \cup {Event}
    /\ review' = NoReview
    /\ UNCHANGED <<planVars, source, twin, category, calls>>

Publish ==
    /\ review.pc = "checked"
    /\ account = review.account /\ SourceUnchanged
    /\ TwinHolds
    /\ Reviewing /\ review.hints.category => category
    /\ events' = events \cup {Event}
    /\ review' = NoReview
    /\ UNCHANGED <<planVars, source, twin, category, calls>>

(* A conflict, a failed fence, a denial or a restart; a reservation is kept. *)
GiveUp ==
    /\ review.pc # "idle"
    /\ review' = NoReview
    /\ job' = IF review.pc = "reserving" THEN [job EXCEPT ![Reviewer] = Idle] ELSE job
    /\ UNCHANGED <<tables, clock, history, reviewTables, calls>>

(* handle_suggestion_decision: the person's own choice, once.                *)
Decide(e) ==
    /\ e.hints.answered /\ ~e.decided
    /\ category
    /\ events' = (events \ {e}) \cup {[e EXCEPT !.decided = TRUE]}
    /\ UNCHANGED <<planVars, source, twin, category, review, calls>>

JevNext ==
    \/ \E w \in Workers : Request(w)
    \/ Environment /\ UNCHANGED <<reviewTables, review, calls>>
    \/ ReadSource \/ ReadDraft \/ Price \/ Reserve \/ ReadAgain \/ Publish \/ GiveUp
    \/ \E hints \in Hints : Ask(hints)
    \/ \E e \in events : Decide(e)

JevSpec == JevInit /\ [][JevNext]_jevVars

-----------------------------------------------------------------------------
(* Properties.                                                               *)

\* No request reaches the provider that the month's allowance had not counted
\* before, however the review or suggestion that sent it was interrupted (_evaluate,
\* handle_suggestion_request).
PaidBeforeAsked == \A k \in Months : calls[k] <= reserved[k]

\* Every row and job has its type, and no request went out unpaid.
JevConsistent == JevTypeOK /\ PaidBeforeAsked

\* What is published is still true of the rows in the batch that publishes it: the
\* expense revision reviewed with the category chosen for it, and the duplicate named,
\* although all were read before or after an unfenced provider call (_review). Of a
\* draft only the duplicate: its category is compared when it is decided
\* (handle_suggestion_request, handle_suggestion_decision).
PublishedHintsHold == [][\A e \in events' \ events :
    /\ ~e.decided /\ e.src # Null =>
           source.live /\ source.rev = e.src /\ (e.hints.category => category)
    /\ ~e.decided /\ e.twin # Null => twin.live /\ twin.rev = e.twin.rev
    /\ e.decided => category]_jevVars

\* Reviews hold in both directions: nothing is asked of the provider that was not paid
\* for, and nothing it answered is published that stopped being true (_review, _evaluate).
ReviewsHold == []JevConsistent /\ PublishedHintsHold
=============================================================================
