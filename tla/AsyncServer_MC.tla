--------------------------- MODULE AsyncServer_MC ---------------------------
(* AsyncServer with an application task and two request tasks. *)
EXTENDS AsyncServer
=============================================================================
