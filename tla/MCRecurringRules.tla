-------------------------- MODULE MCRecurringRules --------------------------
(***************************************************************************)
(* Small workspaces for RecurringRules. The schedule falls on the second day *)
(* of two-day periods but starts on a first one, in the shared pool or in a   *)
(* project.                                                                  *)
(***************************************************************************)
EXTENDS RecurringRules, TLC

CONSTANTS ana, bob, p1, c1, w1, w2

Uneven == [sched |-> [every |-> 2, at |-> 1, start |-> 1, end |-> Null], target |-> Shared, category |-> c1]
InProject == [Uneven EXCEPT !.target = p1]

OneDraft      == {Uneven}
ProjectDrafts == {InProject}

SlotSymmetry == Permutations({w1, w2})

\* One change from outside at a time: of an authority, of a project or of a category.
OneChange ==
    Cardinality({g \in Grants : grant[g].rev > 1} \cup archived
        \cup {p \in Projects : project[p].rev > 1 \/ project[p].status = "gone"}) <= 1
=============================================================================
