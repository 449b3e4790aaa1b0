----------------------------- MODULE Ascending -----------------------------
(* Rows in the order of their numbers, as the tables and files list them.    *)
EXTENDS Integers, FiniteSets

\* The members of a finite set of numbers, in ascending order.
InOrder(S) ==
    [n \in 1..Cardinality(S) |-> CHOOSE k \in S : Cardinality({j \in S : j < k}) = n - 1]

\* In the order of their keys, and in ascending order where keys are equal.
InOrderBy(S, key) ==
    [n \in 1..Cardinality(S) |->
        CHOOSE k \in S : Cardinality({j \in S : key[j] < key[k] \/ (key[j] = key[k] /\ j < k)}) = n - 1]

=============================================================================
