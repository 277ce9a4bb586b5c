---------------------------- MODULE ReservedUse ----------------------------
(***************************************************************************)
(* What a metered database promises its owner, whatever protocol keeps the *)
(* books: rows are set aside before a call may read them, a call that was  *)
(* sent keeps its share until its use is known, and once an outcome is     *)
(* unknown nothing is sent any more.                                       *)
(***************************************************************************)
EXTENDS Naturals

VARIABLES
    reserved,   \* rows set aside so far
    used,       \* rows the database has really read
    pending,    \* rows that calls already sent may still read
    unknown     \* TRUE once the outcome of some call can no longer be learnt

book == <<reserved, used, pending, unknown>>

Covered == used + pending <= reserved

Init ==
    /\ reserved \in Nat /\ used \in Nat
    /\ pending = 0
    /\ unknown \in BOOLEAN
    /\ Covered

\* A reservation may be followed by sending a call of at most that size.
Send ==
    /\ ~unknown
    /\ reserved' \in Nat /\ reserved' >= reserved
    /\ pending' \in Nat /\ pending' >= pending
    /\ UNCHANGED <<used, unknown>>
    /\ Covered'

\* The database carries out a call: what it does not read stays reserved.
Use ==
    /\ pending' \in Nat /\ pending' < pending
    /\ used' \in used .. used + (pending - pending')
    /\ UNCHANGED <<reserved, unknown>>

\* A margin is given back only while every outcome is known.
Release ==
    /\ ~unknown
    /\ reserved' \in Nat /\ reserved' < reserved
    /\ UNCHANGED <<used, pending, unknown>>
    /\ Covered'

Lose == unknown' = TRUE /\ UNCHANGED <<reserved, used, pending>>

Next == Send \/ Use \/ Release \/ Lose

Spec == Init /\ [][Next]_book
============================================================================
