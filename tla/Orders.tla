-------------------------------- MODULE Orders --------------------------------
EXTENDS Naturals, FiniteSets, Sequences

\* The members of a finite set of numbers, the least first.
InOrder(K) == [j \in 1 .. Cardinality(K) |-> CHOOSE k \in K : Cardinality({i \in K : i <= k}) = j]

\* The elements of a sequence at the positions of K, in their order: a filter.
Those(seq, K) == [j \in 1 .. Cardinality(K) |-> seq[InOrder(K)[j]]]
=============================================================================
