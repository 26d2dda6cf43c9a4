----------------------------- MODULE MCFileTable -----------------------------
(* Small descriptor tables for TLC. *)
EXTENDS FileTableProps, TLC

CONSTANTS r1, r2, f1, f2

Records == {r1, r2}
Files == {f1, f2}

Targets == {-1, 1, 4}

Symmetry == Permutations(Records) \cup Permutations(Files)

=============================================================================
