----------------------------- MODULE Iteration ------------------------------
(* The order in which the stores of the contract and of the registry go      *)
(* through ids: keys are the ids in big-endian bytes, so by number.          *)
EXTENDS Integers, FiniteSets

Below(S, x) == {y \in S : y < x}

\* The elements of a set of numbers, from the smallest to the largest.
Ascending(S) ==
    [i \in 1 .. Cardinality(S) |-> CHOOSE x \in S : Cardinality(Below(S, x)) = i - 1]
=============================================================================
