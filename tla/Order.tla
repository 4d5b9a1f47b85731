------------------------------- MODULE Order -------------------------------
(***************************************************************************)
(* What a filter, a sort or a BTreeSet of the code comes to: numbers in    *)
(* increasing order, and what is at some places of a list, in its order.   *)
(***************************************************************************)
EXTENDS Integers, FiniteSets, Sequences

\* The numbers of a finite set in increasing order.
InOrder(S) ==
    [k \in 1..Cardinality(S) |-> CHOOSE n \in S : Cardinality({m \in S : m < n}) = k - 1]

\* What a list has at some places.
Picked(list, places) ==
    LET order == InOrder(places)
    IN  [k \in DOMAIN order |-> list[order[k]]]

=============================================================================
