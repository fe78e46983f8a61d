-------------------------------- MODULE Ranks --------------------------------
(***************************************************************************)
(* The members of a finite set of numbers in ascending order: which entries *)
(* of a sequence are kept, in their order.                                 *)
(***************************************************************************)
EXTENDS Integers, FiniteSets

\* The members of R up to m.
UpTo(R, m) == {j \in R : j <= m}

\* The kth is the one with k members up to it.
Ascending(R) ==
    [k \in 1..Cardinality(R) |-> CHOOSE i \in R : Cardinality(UpTo(R, i)) = k]

=============================================================================
