---------------------------- MODULE Subsequences -----------------------------
(* SelectSeq by positions and without recursion, so that what it returns can *)
(* be proved.                                                                 *)
EXTENDS Naturals, Sequences, FiniteSets

\* How many of the positions I come no later than i.
Rank(I, i) == Cardinality({j \in I : j <= i})

\* The elements of s at the positions I, in their order.
Sub(s, I) == [k \in 1 .. Cardinality(I) |-> s[CHOOSE i \in I : Rank(I, i) = k]]
==============================================================================
