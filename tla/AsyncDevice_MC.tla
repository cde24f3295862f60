--------------------------- MODULE AsyncDevice_MC ---------------------------
(* AsyncDevice with two application tasks. *)
EXTENDS AsyncDevice
=============================================================================
