--------------------------- MODULE SendPipeline_MC ---------------------------
(* SendPipeline with the heartbeat thread, which has its path to itself, and two
   threads that report and share theirs. *)
EXTENDS SendPipeline, TLC

CONSTANTS hb, r1, r2

Paths == (hb :> "/api/heartbeat") @@ (r1 :> "/api/report") @@ (r2 :> "/api/report")
Sends == (hb :> 2) @@ (r1 :> 1) @@ (r2 :> 1)
RetryThenCache == <<"retry", "cache">>

\* Bound: two of the three threads send, on their own paths or on a shared one.
OnePairSends == send[hb] = 0 \/ send[r2] = 0
=============================================================================
