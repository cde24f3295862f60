------------------------- MODULE ServerLifecycle_MC -------------------------
(* ServerLifecycle with an application thread and a request thread. *)
EXTENDS ServerLifecycle
=============================================================================
