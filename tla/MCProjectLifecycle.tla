------------------------- MODULE MCProjectLifecycle -------------------------
(* A small instance of ProjectLifecycle for TLC. *)
EXTENDS ProjectLifecycle, TLC

CONSTANTS p1, p2, r1, r2, w1, w2

Symmetry == Permutations(Workers) \cup Permutations(Ids) \cup Permutations(Repos)

MCAllowance == [
    free |-> [projects |-> 1, records |-> 1, minute |-> 1, month |-> 2, jev |-> 0],
    paid |-> [projects |-> 2, records |-> 2, minute |-> 2, month |-> 2, jev |-> 2]]
=============================================================================
