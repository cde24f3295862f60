--------------------------- MODULE AsyncSQLite_MC ---------------------------
(* AsyncSQLite called by a few tasks. *)
EXTENDS AsyncSQLite, TLC

Symmetry == Permutations(Tasks)
=============================================================================
