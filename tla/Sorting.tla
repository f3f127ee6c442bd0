------------------------------- MODULE Sorting -------------------------------
(***************************************************************************)
(* Sorting, told by how many elements come before each one: the sort of    *)
(* the community modules ends in TLC's SortSeq, which has no definition    *)
(* that a proof could expand.                                              *)
(***************************************************************************)
EXTENDS Naturals, FiniteSets

\* The elements of a finite set in the strict order Before, the first one first.
Sorted(S, Before(_, _)) ==
    [k \in 1..Cardinality(S) |->
        CHOOSE x \in S : Cardinality({y \in S : Before(y, x)}) = k - 1]
=============================================================================
