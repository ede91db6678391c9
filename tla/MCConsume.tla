------------------------------ MODULE MCConsume ------------------------------
(* Small instances of Consume for TLC. *)
EXTENDS ConsumeInv, TLC

CONSTANTS p1, p2

TwoPartitions == {p1, p2}

AllModes == {"query", "sample", "schema"}

QueryOnly == {"query"}

Symmetry == Permutations(TwoPartitions)
=============================================================================
