------------------------- MODULE DeviceLifecycle_MC -------------------------
(* DeviceLifecycle with two application threads. *)
EXTENDS DeviceLifecycle
=============================================================================
