------------------------------- MODULE Orders -------------------------------
(* A finite set of numbers as a sequence, the smallest first: addresses    *)
(* after a std::sort, or as a std::map of them is gone through.            *)
EXTENDS Integers, FiniteSets

InOrder(S) == [n \in 1..Cardinality(S) |-> CHOOSE x \in S : Cardinality({y \in S : y <= x}) = n]
=============================================================================
