-------------------------- MODULE IdentityRegistry --------------------------
(***************************************************************************)
(* What sign-in promises, whatever the requests read and when: an identity *)
(* proved by somebody belongs to one user for ever, nobody has a session   *)
(* without an account and an identity of their own, and each session is    *)
(* new.                                                                    *)
(***************************************************************************)
EXTENDS Naturals

CONSTANTS Identities, Users

VARIABLES
    owner,      \* whom an identity belongs to, 0 for nobody yet
    accounts,   \* users with an account
    sessions,   \* who is signed in, by session
    issued      \* sessions that have ever been opened

registry == <<owner, accounts, sessions, issued>>

Known(u) == \E i \in Identities : owner[i] = u

Init ==
    /\ owner \in [Identities -> Users \cup {0}]
    /\ accounts = {u \in Users : Known(u)}
    /\ issued = DOMAIN sessions
    /\ \A s \in DOMAIN sessions : sessions[s] \in accounts

\* Somebody proves an identity that is free; the proof is also a way in.
Bind(i, u) ==
    /\ owner[i] = 0
    /\ owner' = [owner EXCEPT ![i] = u]

Open(u) ==
    /\ Known(u) /\ accounts' = accounts \cup {u}
    /\ UNCHANGED <<owner, sessions, issued>>

EnterAs(s, u) ==
    /\ s \notin issued /\ issued' = issued \cup {s}
    /\ \E i \in Identities : owner'[i] = u
    /\ u \in accounts'
    /\ sessions' = [x \in DOMAIN sessions \cup {s} |-> IF x = s THEN u ELSE sessions[x]]

Learn(i, u) == Bind(i, u) /\ UNCHANGED <<accounts, sessions, issued>>

Enter(s, u) == EnterAs(s, u) /\ UNCHANGED <<owner, accounts>>

\* A new user arrives: identity, account and session in one step.
Arrive(i, u, s) ==
    /\ Bind(i, u) /\ ~Known(u)
    /\ accounts' = accounts \cup {u}
    /\ EnterAs(s, u)

Leave(s) ==
    /\ s \in DOMAIN sessions
    /\ sessions' = [x \in DOMAIN sessions \ {s} |-> sessions[x]]
    /\ UNCHANGED <<owner, accounts, issued>>

Next ==
    \/ \E i \in Identities, u \in Users : Learn(i, u)
    \/ \E u \in Users : Open(u)
    \/ \E u \in Users : \E s \in Users : Enter(s, u)
    \/ \E i \in Identities, u, s \in Users : Arrive(i, u, s)
    \/ \E s \in DOMAIN sessions : Leave(s)

Spec == Init /\ [][Next]_registry
=============================================================================
