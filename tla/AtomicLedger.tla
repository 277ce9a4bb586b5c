---------------------------- MODULE AtomicLedger ----------------------------
(***************************************************************************)
(* What the expense handlers promise: every expense that appears, changes   *)
(* or is removed does so in one step of a server that has no requests in    *)
(* flight, and every condition of that step holds of the rows as they are   *)
(* at that moment. The detailed handlers of ExpenseLedger implement it.     *)
(***************************************************************************)
EXTENDS LedgerTables

(* The plan a write is measured by: the account's, or the free one when its    *)
(* period had ended as the request arrived.                                  *)
PlanInForce == {user.plan, EffectivePlan}

(* Room for one more record: below the plan's limit, or exactly at it with    *)
(* the owner's consent to retire the oldest one, which the caller may touch.  *)
Room(c, victim, plan) ==
    \/ victim = Null /\ Cardinality(ActiveIds) < Cap[plan]
    \/ /\ victim # Null
       /\ Cardinality(ActiveIds) = Cap[plan]
       /\ user.auto
       /\ IsOldest(victim)
       /\ expense[victim].target \in Allowed[c]

Create(c, key, body, category, id, victim) ==
    /\ CanWrite(c)
    /\ body.target \in Allowed[c]
    /\ TargetActive(body.target)
    /\ category \notin archived
    /\ body.category = category \/ (body.category = Inferred /\ PlanInForce \cap Paid # {})
    /\ replay[<<Holder[c], key>>] = Null
    /\ id \notin used
    /\ \E plan \in PlanInForce : Room(c, victim, plan)
    /\ RecordExpense(Holder[c], key, body, category, id, victim,
                     IF victim = Null THEN Null ELSE expense[victim])

Live(id) == expense[id] # Null /\ ~expense[id].deleted /\ TargetExists(expense[id].target)

Revise(c, id, body, category) ==
    /\ CanWrite(c)
    /\ Live(id)
    /\ {expense[id].target, body.target} \subseteq Allowed[c]
    /\ body.target # expense[id].target => TargetActive(body.target)
    /\ category # expense[id].category => category \notin archived
    /\ body.category = category \/ (body.category = Inferred /\ PlanInForce \cap Paid # {})
    /\ ReviseExpense(id, body, category, expense[id])

Remove(c, id) ==
    /\ CanWrite(c)
    /\ Live(id)
    /\ expense[id].target \in Allowed[c]
    /\ RemoveExpense(id, expense[id])

Write(c) ==
    \/ \E key \in Keys, body \in Bodies, category \in Categories, id \in Ids, victim \in Ids \cup {Null} :
           Create(c, key, body, category, id, victim)
    \/ \E id \in Ids, body \in Bodies, category \in Categories : Revise(c, id, body, category)
    \/ \E id \in Ids : Remove(c, id)

Next == Administration \/ \E c \in Credentials : Write(c)

AtomicSpec == TablesInit /\ [][Next]_tables
=============================================================================
