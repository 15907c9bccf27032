------------------------------ MODULE Ordering ------------------------------
(***************************************************************************)
(* The elements of a finite set in an order, as a sorted list has them.    *)
(* The order is a set of pairs, strict and total on the set.               *)
(***************************************************************************)
EXTENDS Integers, FiniteSets

\* How many elements come before x.
Place(S, R, x) == Cardinality({y \in S : <<y, x>> \in R})

InOrder(S, R) == [n \in 1 .. Cardinality(S) |-> CHOOSE x \in S : Place(S, R, x) = n - 1]

Ascending(S) == {p \in S \X S : p[1] < p[2]}
=============================================================================
