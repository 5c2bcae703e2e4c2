------------------------------ MODULE Positions ------------------------------
(* Positions of a sequence, in order.                                        *)
EXTENDS Naturals, FiniteSets

\* How many of S come up to i.
Rank(S, i) == Cardinality({j \in S : j <= i})

\* S from the first to the last.
InOrder(S) == [k \in 1..Cardinality(S) |-> CHOOSE i \in S : Rank(S, i) = k]
=============================================================================
