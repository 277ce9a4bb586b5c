-------------------------- MODULE MCExpenseLedger ---------------------------
(***************************************************************************)
(* Two workspaces. Keyed: the owner has a browser session and an API key for *)
(* the shared pool only. Member: a member works through an API key bound to   *)
(* the first membership revision.                                            *)
(***************************************************************************)
EXTENDS ExpenseLedger, TLC

CONSTANTS owner, mia, cookie, apikey, free, max, p1, c1, c2, k1, k2, k3, w1, w2

PlanCap == [plan \in Plans |-> IF plan = free THEN 1 ELSE 2]

KeyedHolder   == (cookie :> owner) @@ (apikey :> owner)
KeyedAllowed  == (cookie :> Targets) @@ (apikey :> {Shared})
KeyedRevision == (cookie :> 0) @@ (apikey :> 0)

MemberHolder   == apikey :> mia
MemberAllowed  == apikey :> Targets
MemberRevision == apikey :> 1

ProjectBodies ==
    { [target |-> Shared, category |-> c1, day |-> 2],
      [target |-> p1, category |-> Inferred, day |-> 1] }
OneBody == {[target |-> Shared, category |-> c1, day |-> 1]}

(* The same workspace later on: a recurring charge (it carries no key) took one *)
(* of its two places, and the owner agreed to lose the oldest record for a    *)
(* next one.                                                                 *)
FullRow == [target |-> Shared, category |-> c1, day |-> 2, rev |-> 1, deleted |-> FALSE]
FullInit ==
    /\ user = [plan |-> max, period |-> 1, auto |-> TRUE, autoRev |-> 2]
    /\ lapsed = FALSE /\ archived = {} /\ used = {1}
    /\ live = [c \in Credentials |-> TRUE]
    /\ member = [m \in Members |-> [role |-> "editor", rev |-> 1]]
    /\ project = [p \in Projects |-> [status |-> "active", rev |-> 1]]
    /\ expense = [i \in Ids |-> IF i \in used THEN FullRow ELSE Null]
    /\ events = {[id |-> i, before |-> Null, after |-> FullRow] : i \in used}
    /\ replay = [sent \in Actors \X Keys |-> Null]
    /\ answers = {}
    /\ job = [w \in Workers |-> Idle]
FullSpec == FullInit /\ [][Next]_vars

SlotSymmetry == Permutations({w1, w2})
SlotAndKeySymmetry == SlotSymmetry \cup Permutations({k1, k2})
=============================================================================
