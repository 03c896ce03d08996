------------------------------- MODULE ListOps ------------------------------
(***************************************************************************)
(* Lists and searches that several components use.                         *)
(***************************************************************************)
EXTENDS Integers, Sequences, FiniteSets

\* What a search upward from the smallest index finds first.
least(S) == CHOOSE m \in S : \A k \in S : m <= k

Elems(q) == {q[i] : i \in 1..Len(q)}

\* list_remove() of every element in gone: the others keep their order.
list_without(q, gone) ==
    LET stay == {i \in 1 .. Len(q) : q[i] \notin gone}
        elem == CHOOSE f \in [1 .. Cardinality(stay) -> stay] :
                  \A i, j \in 1 .. Cardinality(stay) : i < j => f[i] < f[j]
    IN  [i \in 1 .. Cardinality(stay) |-> q[elem[i]]]
=============================================================================
