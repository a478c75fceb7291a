---------------------------- MODULE Arrangements ----------------------------
(***************************************************************************)
(* Python's sorted() and list comprehensions with a condition, as they act *)
(* on sequences.                                                           *)
(***************************************************************************)
EXTENDS Naturals, FiniteSets, Sequences

\* The elements of a finite set in the order that a set of pairs tells: each has
\* the place that the number of those before it gives.
InOrder(S, before) ==
    LET earlier == [x \in S |-> Cardinality({y \in S : <<y, x>> \in before})]
    IN [k \in 1 .. Cardinality(S) |-> CHOOSE x \in S : earlier[x] = k - 1]

\* What q has at some of its places, in an order of these.
Arranged(q, places, before) ==
    LET order == InOrder(places, before)
    IN [k \in DOMAIN order |-> q[order[k]]]

\* Pairs of places of q, of which the first is to come first; equal elements
\* stay in the order they are in.
SortedPairs(q, Before(_, _)) ==
    {pair \in (DOMAIN q) \X (DOMAIN q) :
       \/ Before(q[pair[1]], q[pair[2]])
       \/ ~ Before(q[pair[2]], q[pair[1]]) /\ pair[1] < pair[2]}

Sorted(q, Before(_, _)) == Arranged(q, DOMAIN q, SortedPairs(q, Before))

\* What q has at some of its places, in the order of q.
AtPlaces(q, places) ==
    Arranged(q, places, {pair \in places \X places : pair[1] < pair[2]})
=============================================================================
