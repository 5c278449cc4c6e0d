----------------------------- MODULE Selections -----------------------------
(***************************************************************************)
(* What a loop keeps of a sequence when it passes over elements with       *)
(* continue: the elements at a set of positions, in their order.           *)
(***************************************************************************)
EXTENDS Integers, Sequences, FiniteSets

\* The ways to list a finite set of numbers in increasing order: there is one.
Listing(S) ==
    {f \in [1..Cardinality(S) -> S] :
        /\ \A x \in S : \E i \in DOMAIN f : f[i] = x
        /\ \A i, j \in DOMAIN f : i < j => f[i] < f[j]}

Ordered(S) == CHOOSE f \in Listing(S) : TRUE

\* The elements of the sequence s at the positions in S.
Select(s, S) ==
    LET o == Ordered(S) IN [i \in 1..Cardinality(S) |-> s[o[i]]]

=============================================================================
