------------------------------- MODULE PointLog -------------------------------
(***************************************************************************)
(* What a writer of data points promises: a log that accepts points        *)
(* numbered in order of arrival and settles each of them once, as stored   *)
(* or as lost.  Points are stored in order of arrival: a point is stored   *)
(* only when no earlier one is still waiting.  What is stored stays        *)
(* stored, and what is lost never comes back.                              *)
(***************************************************************************)
EXTENDS Integers

CONSTANTS MaxPoints, MaxBatch

VARIABLES accepted, stored, lost

vars == <<accepted, stored, lost>>

\* Accepted points of which nothing has been decided.
Waiting == (1 .. accepted) \ (stored \union lost)

Init == accepted = 0 /\ stored = {} /\ lost = {}

Accept(k) ==
    /\ accepted + k <= MaxPoints
    /\ accepted' = accepted + k
    /\ UNCHANGED <<stored, lost>>

\* The points of S are stored, those of L are lost; every waiting point earlier
\* than one of S is decided too.
Settle(S, L) ==
    /\ S \intersect L = {}
    /\ \A p \in S, q \in Waiting : q < p => q \in S \union L
    /\ stored' = stored \union S
    /\ lost' = lost \union L
    /\ UNCHANGED accepted

Next ==
    \/ \E k \in 1 .. MaxBatch : Accept(k)
    \/ \E S, L \in SUBSET Waiting : Settle(S, L)

Spec == Init /\ [][Next]_vars

=============================================================================
