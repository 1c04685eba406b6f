------------------------------ MODULE Ordering -------------------------------
(***************************************************************************)
(* Sequences cut from finite sets: the elements of a set in an order, and  *)
(* the elements of a sequence at chosen places.  An order is given as the  *)
(* set of the elements that come before each one.                          *)
(***************************************************************************)
EXTENDS Naturals, Sequences, FiniteSets

\* How many elements come before x.
Rank(before, x) == Cardinality(before[x])

\* The elements of S, each behind those that come before it.
InOrder(S, before) ==
    [i \in 1..Cardinality(S) |-> CHOOSE x \in S : 1 + Rank(before, x) = i]

Ascending(S) == [n \in S |-> {m \in S : m < n}]

\* The elements of a sequence at these places, in their order.  The set of one
\* has TLC work out the places once.
Picked(s, places) ==
    CHOOSE picked \in
        {[i \in 1..Cardinality(P) |-> s[InOrder(P, Ascending(P))[i]]] : P \in {places}} : TRUE
=============================================================================
