------------------------------ MODULE MCResolve ------------------------------
(* Small instances of Resolve for TLC. *)
EXTENDS Resolve, TLC

CONSTANTS p1, p2

TwoPartitions == {p1, p2}

Symmetry == Permutations(TwoPartitions)
=============================================================================
