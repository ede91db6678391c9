---------------------------- MODULE MCParquetCache ----------------------------
(* Small instances of ParquetCache for TLC. *)
EXTENDS ParquetCache, TLC

CONSTANTS c1, c2

TwoCommands == {c1, c2}

Symmetry == Permutations(TwoCommands)
=============================================================================
