-------------------------- MODULE RepositoryHomes --------------------------
(***************************************************************************)
(* What the projects of one account promise: every repository has at most   *)
(* one home, a project takes the repositories it asked for all at once or    *)
(* not at all, only free ones or its own, and an erased project never opens  *)
(* again although its place in the plan stays taken.                         *)
(***************************************************************************)
EXTENDS Integers

CONSTANTS Ids, Repos, Nowhere

VARIABLES
    home,       \* home[r]: the project repository r is bound to, or Nowhere
    open,       \* the projects there are
    closed,     \* the projects that were erased
    opened      \* how many there ever were

vars == <<home, open, closed, opened>>

Init ==
    /\ home = [r \in Repos |-> Nowhere]
    /\ open = {} /\ closed = {}
    /\ opened \in Nat

Free(id, links) == \A r \in links : home[r] \in {id, Nowhere}

Rehomed(id, links) ==
    [r \in Repos |-> IF r \in links THEN id ELSE IF home[r] = id THEN Nowhere ELSE home[r]]

Open(id, links) ==
    /\ id \notin open \cup closed
    /\ Free(id, links)
    /\ open' = open \cup {id} /\ opened' = opened + 1
    /\ home' = Rehomed(id, links)
    /\ UNCHANGED closed

Relink(id, links) ==
    /\ id \in open
    /\ Free(id, links)
    /\ home' = Rehomed(id, links)
    /\ UNCHANGED <<open, closed, opened>>

Erase(id) ==
    /\ id \in open
    /\ open' = open \ {id} /\ closed' = closed \cup {id}
    /\ home' = Rehomed(id, {})
    /\ UNCHANGED opened

Next == \E id \in Ids : Erase(id) \/ \E links \in SUBSET Repos : Open(id, links) \/ Relink(id, links)

Spec == Init /\ [][Next]_vars
=============================================================================
