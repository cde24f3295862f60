------------------------- MODULE CacheMiddleware_MC -------------------------
(* CacheMiddleware used by the two threads a device has: its heartbeat thread and
   a thread that reports. *)
EXTENDS CacheMiddleware, TLC

Symmetry == Permutations(Payloads) \cup Permutations(Threads)
=============================================================================
