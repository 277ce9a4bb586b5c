----------------------- MODULE MCWorkspaceGovernance -----------------------
(* Small instances of WorkspaceGovernance for TLC. *)
EXTENDS WorkspaceGovernance, TLC

Symmetry == Permutations(Workers) \cup Permutations(Invites) \cup Permutations(People)

\* One person at a time is in other workspaces, so that both keep room to join;
\* two applications, for one link or for two.
CONSTANT MaxElsewhere
Bound ==
    /\ \A p \in People : elsewhere[p] <= MaxElsewhere
    /\ Cardinality({p \in People : elsewhere[p] > 0}) <= 1
    /\ Cardinality({ip \in Invites \X People : requests[ip] # Null}) <= 2
=============================================================================
