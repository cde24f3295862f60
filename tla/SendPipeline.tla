---------------------------- MODULE SendPipeline ----------------------------
(***************************************************************************)
(* A device's sends from end to end: RISELDevice._send with its retry loop *)
(* (client/device.py), RetryMiddleware and CacheMiddleware.on_error        *)
(* (client/middleware.py), HTTPTransport.send over a network that loses    *)
(* and delays, and the server storing what it handles.                     *)
(*                                                                         *)
(* The heartbeat thread and the threads that call report() share the       *)
(* middleware objects; RetryMiddleware._attempts is read before its        *)
(* back-off sleep and written after it.  A client that times out does not  *)
(* take its request back: the server may still handle it later.            *)
(***************************************************************************)
EXTENDS Naturals, Sequences, FiniteSets

CONSTANTS
  Threads,      \* threads that send
  Endpoint,     \* [Threads -> endpoints]: the path each thread posts to
  Pipeline,     \* the registered middlewares, a sequence of "retry", "cache"
  MaxRetries,   \* RetryMiddleware.max_retries
  MaxEntries,   \* CacheMiddleware.max_entries
  Truncation,   \* TRUE: a response may be cut in its body (IncompleteRead)
  MaxSends,     \* [Threads -> Nat], a bound: how often each thread sends
  MaxTries      \* bound: attempts of one send that are told apart

ASSUME PipelineAssumption == Pipeline \in Seq({"retry", "cache"})
ASSUME RetriesAssumption == /\ {MaxRetries, MaxEntries} \subseteq Nat
                            /\ MaxTries \in Nat \ {0}
                            /\ MaxSends \in [Threads -> Nat]
ASSUME TruncationAssumption == Truncation \in BOOLEAN
ASSUME EndpointAssumption == Threads \subseteq DOMAIN Endpoint

VARIABLES
  pc,        \* where each thread is in _send
  send,      \* the number of each thread's current or last send
  try,       \* the attempt it is on, from 1
  mw,        \* the middleware whose on_error it runs next
  seen,      \* RetryMiddleware.on_error's local `attempts`
  retry,     \* _send's local `should_retry`
  attempts,  \* RetryMiddleware._attempts, 0 for no entry
  cache,     \* CacheMiddleware._cache
  refused,   \* history: sends a full cache had no room for
  wire,      \* requests that the server may still receive
  replies,   \* responses on their way back to a waiting client
  stored,    \* how often the server stored each send
  result     \* history: how each send ended

vars == <<pc, send, try, mw, seen, retry, attempts, cache, refused, wire,
          replies, stored, result>>

Msgs == UNION {{<<t, n>> : n \in 1..MaxSends[t]} : t \in Threads}
Requests == [msg : Msgs, try : 1..MaxTries]
Msg(t) == <<t, send[t]>>
Request(t) == [msg |-> Msg(t), try |-> try[t]]
EP(t) == Endpoint[t]
Endpoints == {Endpoint[t] : t \in Threads}

Init ==
  /\ pc = [t \in Threads |-> "idle"]
  /\ send = [t \in Threads |-> 0]
  /\ try = [t \in Threads |-> 1]
  /\ mw = [t \in Threads |-> 1]
  /\ seen = [t \in Threads |-> 0]
  /\ retry = [t \in Threads |-> FALSE]
  /\ attempts = [e \in Endpoints |-> 0]
  /\ cache = <<>>
  /\ refused = {}
  /\ wire = {} /\ replies = {}
  /\ stored = [m \in Msgs |-> 0]
  /\ result = [m \in Msgs |-> "none"]

Client == <<send, try, mw, seen, retry>>
Shared == <<attempts, cache, refused>>
Network == <<wire, replies, stored>>

Cached == {cache[i] : i \in 1..Len(cache)}

Goto(t, l) == pc' = [pc EXCEPT ![t] = l]
Finish(t, r) == /\ Goto(t, "idle")
                /\ result' = [result EXCEPT ![Msg(t)] = r]

-----------------------------------------------------------------------------
(* The client. *)

\* report() or _send_heartbeat() calls _send: the first attempt.
StartSend(t) ==
  /\ pc[t] = "idle" /\ send[t] < MaxSends[t]
  /\ send' = [send EXCEPT ![t] = @ + 1]
  /\ try' = [try EXCEPT ![t] = 1]
  /\ Goto(t, "post")
  /\ UNCHANGED <<mw, seen, retry, Shared, Network, result>>

\* transport.send posts the payload; what reaches the server is the network's.
Post(t) ==
  /\ pc[t] = "post"
  /\ wire' = wire \cup {Request(t)}
  /\ Goto(t, "wait")
  /\ UNCHANGED <<Client, Shared, replies, stored, result>>

\* A 2xx response: every after_send runs, RetryMiddleware's clears its counter.
ResponseArrives(t) ==
  /\ pc[t] = "wait"
  /\ Request(t) \in replies
  /\ replies' = replies \ {Request(t)}
  /\ attempts' = [attempts EXCEPT ![EP(t)] = 0]
  /\ Finish(t, "ok")
  /\ UNCHANGED <<Client, cache, refused, wire, stored>>

\* TransportError: no connection, a timeout, or a non-2xx status.  The request
\* may be lost, handled already, or handled later.
TransportFails(t) ==
  /\ pc[t] = "wait"
  /\ replies' = replies \ {Request(t)}
  /\ \/ wire' = wire \ {Request(t)}
     \/ UNCHANGED wire
  /\ mw' = [mw EXCEPT ![t] = 1]
  /\ retry' = [retry EXCEPT ![t] = FALSE]
  /\ Goto(t, "on_error")
  /\ UNCHANGED <<send, try, seen, Shared, stored, result>>

\* The connection breaks inside the response body: http.client.IncompleteRead
\* is not an OSError, so it leaves _send without any middleware seeing it.
ResponseCut(t) ==
  /\ Truncation
  /\ pc[t] = "wait"
  /\ Request(t) \in replies
  /\ replies' = replies \ {Request(t)}
  /\ Finish(t, "raised")
  /\ UNCHANGED <<Client, Shared, wire, stored>>

FullCache == Len(cache) >= MaxEntries

\* CacheMiddleware.on_error, as a single step (CacheMiddleware.tla opens it up).
CacheOnError(t) ==
  /\ pc[t] = "on_error" /\ mw[t] <= Len(Pipeline) /\ Pipeline[mw[t]] = "cache"
  /\ IF FullCache
     THEN refused' = refused \cup {Msg(t)} /\ UNCHANGED cache
     ELSE cache' = Append(cache, Msg(t)) /\ UNCHANGED refused
  /\ mw' = [mw EXCEPT ![t] = @ + 1]
  /\ UNCHANGED <<pc, send, try, seen, retry, attempts, Network, result>>

\* Mutant: a counter that is used up is not cleared.
RetryKeepsCount(t) ==
  /\ pc[t] = "on_error" /\ mw[t] <= Len(Pipeline) /\ Pipeline[mw[t]] = "retry"
  /\ IF attempts[EP(t)] >= MaxRetries
     THEN /\ mw' = [mw EXCEPT ![t] = @ + 1]
          /\ UNCHANGED <<pc, seen, attempts>>
     ELSE /\ seen' = [seen EXCEPT ![t] = attempts[EP(t)]]
          /\ Goto(t, "backoff")
          /\ UNCHANGED <<attempts, mw>>
  /\ UNCHANGED <<send, try, retry, cache, refused, Network, result>>

\* RetryMiddleware.on_error up to its sleep: give up, or back off.
RetryOnError(t) ==
  /\ pc[t] = "on_error" /\ mw[t] <= Len(Pipeline) /\ Pipeline[mw[t]] = "retry"
  /\ IF attempts[EP(t)] >= MaxRetries
     THEN /\ attempts' = [attempts EXCEPT ![EP(t)] = 0]
          /\ mw' = [mw EXCEPT ![t] = @ + 1]
          /\ UNCHANGED <<pc, seen>>
     ELSE /\ seen' = [seen EXCEPT ![t] = attempts[EP(t)]]
          /\ Goto(t, "backoff")
          /\ UNCHANGED <<attempts, mw>>
  /\ UNCHANGED <<send, try, retry, cache, refused, Network, result>>

\* Mutant: the counter is not incremented.
BackoffUncounted(t) ==
  /\ pc[t] = "backoff"
  /\ retry' = [retry EXCEPT ![t] = TRUE]
  /\ mw' = [mw EXCEPT ![t] = @ + 1]
  /\ Goto(t, "on_error")
  /\ UNCHANGED <<send, try, seen, Shared, Network, result>>

\* ... and after its sleep: self._attempts[endpoint] = attempts + 1.
BackoffEnds(t) ==
  /\ pc[t] = "backoff"
  /\ attempts' = [attempts EXCEPT ![EP(t)] = seen[t] + 1]
  /\ retry' = [retry EXCEPT ![t] = TRUE]
  /\ mw' = [mw EXCEPT ![t] = @ + 1]
  /\ Goto(t, "on_error")
  /\ UNCHANGED <<send, try, seen, cache, refused, Network, result>>

\* Mutant: the loop over the middlewares stops at the first that answers False.
OnErrorStops(t) == \/ mw[t] > Len(Pipeline)
                   \/ mw[t] > 1 /\ ~retry[t]

OnErrorDone(t) == mw[t] > Len(Pipeline)

\* Every middleware has been asked: repeat the pipeline or raise.
DecideRetry(t) ==
  /\ pc[t] = "on_error" /\ OnErrorDone(t)
  /\ IF retry[t]
     THEN /\ try' = [try EXCEPT ![t] = IF @ < MaxTries THEN @ + 1 ELSE @]
          /\ Goto(t, "post") /\ UNCHANGED result
     ELSE Finish(t, "failed") /\ UNCHANGED try
  /\ UNCHANGED <<send, mw, seen, retry, Shared, Network>>

-----------------------------------------------------------------------------
(* The network and the server. *)

Waiting(r) == \E t \in Threads : pc[t] = "wait" /\ Request(t) = r

\* Mutant: the server answers 200 before, and whether or not, it stores.
ServerAnswersFirst(r) ==
  /\ r \in wire
  /\ wire' = wire \ {r}
  /\ replies' = IF Waiting(r) THEN replies \cup {r} ELSE replies
  /\ UNCHANGED <<pc, Client, Shared, stored, result>>

\* The server handles a request that reaches it and answers.  The answer is of
\* use only to a client that still waits for it.
ServerStores(r) ==
  /\ r \in wire
  /\ wire' = wire \ {r}
  /\ stored' = [stored EXCEPT ![r.msg] = @ + 1]
  /\ replies' = IF Waiting(r) THEN replies \cup {r} ELSE replies
  /\ UNCHANGED <<pc, Client, Shared, result>>

\* A request whose client gave up is lost on the way.
RequestLost(r) ==
  /\ r \in wire /\ ~Waiting(r)
  /\ wire' = wire \ {r}
  /\ UNCHANGED <<pc, Client, Shared, replies, stored, result>>

ClientStep(t) ==
  \/ Post(t) \/ ResponseArrives(t) \/ TransportFails(t) \/ ResponseCut(t)
  \/ CacheOnError(t) \/ RetryOnError(t) \/ BackoffEnds(t) \/ DecideRetry(t)

Next ==
  \/ \E t \in Threads : StartSend(t)
  \/ \E t \in Threads : ClientStep(t)
  \/ \E r \in wire : ServerStores(r)
  \/ \E r \in wire : RequestLost(r)

\* The transport's timeout ends every wait, and the scheduler runs every
\* client thread; the network and the server owe nothing.
Fairness == \A t \in Threads : WF_vars(ClientStep(t))

Spec == Init /\ [][Next]_vars /\ Fairness

-----------------------------------------------------------------------------
(* Correctness. *)

TypeOK ==
  /\ pc \in [Threads -> {"idle", "post", "wait", "on_error", "backoff"}]
  /\ \A t \in Threads : send[t] \in 0..MaxSends[t]
  /\ try \in [Threads -> 1..MaxTries]
  /\ mw \in [Threads -> 1..(Len(Pipeline) + 1)]
  /\ seen \in [Threads -> Nat] /\ retry \in [Threads -> BOOLEAN]
  /\ attempts \in [Endpoints -> 0..MaxRetries]
  /\ cache \in Seq(Msgs) /\ Len(cache) <= MaxEntries /\ refused \subseteq Msgs
  /\ wire \subseteq Requests /\ replies \subseteq Requests
  /\ stored \in [Msgs -> Nat]
  /\ result \in [Msgs -> {"none", "ok", "failed", "raised"}]

\* What report() returned True for is in the server's store, whatever was lost,
\* delayed or retried on the way.
AckedIsStored == \A m \in Msgs : result[m] = "ok" => stored[m] >= 1

\* No other thread posts to t's path, so that none moves the counter t uses.
OwnPath(t) == \A u \in Threads \ {t} : EP(u) # EP(t)

\* A send is stored at most once per attempt that its budget allows, although
\* every attempt that timed out may still be handled later.  Threads that share a
\* path reset the counter for each other, and may send more often.
CopiesBounded == \A m \in Msgs : OwnPath(m[1]) => stored[m] <= MaxRetries + 1

\* ... and no earlier send of t ended in an exception that RetryMiddleware did not
\* see, and left its count to the next.
OwnBudget(t) ==
  OwnPath(t) /\ \A n \in 1..(send[t] - 1) : result[<<t, n>>] # "raised"

\* A thread with a path to itself never makes more attempts than its budget allows,
\* not even with a count that an earlier send left behind; a send that starts with a
\* fresh budget has used it up, all of it, when it fails.  On a shared path neither
\* holds, and an inherited count makes a send fail early.
RetryBudget ==
  \A t \in Threads : OwnPath(t) /\ send[t] > 0 =>
    /\ try[t] <= MaxRetries + 1
    /\ OwnBudget(t) /\ result[Msg(t)] = "failed" => try[t] = MaxRetries + 1

\* A send that failed for good is in the cache, unless the cache was full.
FailedIsCached ==
  \A m \in Msgs : result[m] = "failed" => m \in Cached \cup refused

=============================================================================
