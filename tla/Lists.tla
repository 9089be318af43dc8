-------------------------------- MODULE Lists --------------------------------
(***************************************************************************)
(* Removing entries from a list, as Vec::retain and Vec::remove leave it,  *)
(* written without the recursion that SelectSeq is defined by.             *)
(***************************************************************************)
EXTENDS Integers, Sequences, FiniteSets

\* The place of a position among the kept ones.
Rank(kept, i) == Cardinality({k \in kept : k <= i})

\* The entries of the list at the kept positions, in their order.
KeepAt(list, kept) ==
    [j \in 1..Cardinality(kept) |-> list[CHOOSE i \in kept : Rank(kept, i) = j]]
=============================================================================
