----------------------------- MODULE NumberOrder -----------------------------
(* A finite set of numbers in ascending order, without repetition.            *)
EXTENDS Naturals, FiniteSets

\* The place of a number is how many there are up to it.
UpTo(numbers, n) == {m \in numbers : m <= n}

InOrder(numbers) ==
  [i \in 1 .. Cardinality(numbers) |-> CHOOSE n \in numbers : Cardinality(UpTo(numbers, n)) = i]
=============================================================================
