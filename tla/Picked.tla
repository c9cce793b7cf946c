------------------------------- MODULE Picked -------------------------------
(***************************************************************************)
(* What is left of a sequence when only the elements at some of its         *)
(* positions are kept: a filter, as in a list comprehension with a          *)
(* condition, or sorted.  They are SelectSeq and a sort without recursion;  *)
(* PickedFacts says what the proofs need of them.                           *)
(***************************************************************************)
EXTENDS Integers, Sequences, FiniteSets

\* How many numbers of I are at most i.
Rank(I, i) == Cardinality({j \in I : j <= i})

\* The elements of s at the positions I, in their order; SubSeq has TLC tabulate
\* them once.
Pick(s, I) ==
    LET picked == [k \in 1..Cardinality(I) |-> s[CHOOSE i \in I : Rank(I, i) = k]]
    IN  SubSeq(picked, 1, Cardinality(I))

\* The members of S in the order of the relation R, a set of pairs.
Ranked(S, R) == [k \in 1..Cardinality(S) |-> CHOOSE x \in S : Cardinality({y \in S : <<y, x>> \in R}) = k - 1]
=============================================================================
