------------------------ MODULE SendPipeline_proofs ------------------------
(***************************************************************************)
(* Proofs about SendPipeline for any threads, endpoints, pipeline, cache   *)
(* size, retry budget and bounds.                                          *)
(***************************************************************************)
EXTENDS SendPipeline, FiniteSetTheorems, TLAPS

USE PipelineAssumption, RetriesAssumption, TruncationAssumption, EndpointAssumption

\* A thread within _send has a send, one that backs off is in the middle of the
\* pipeline, and the count it read was within the budget.
InSend ==
  /\ send \in [Threads -> Nat]
  /\ \A t \in Threads :
       /\ pc[t] # "idle" => send[t] >= 1
       /\ pc[t] = "backoff" => /\ mw[t] <= Len(Pipeline) /\ Pipeline[mw[t]] = "retry"
                               /\ seen[t] < MaxRetries

TypeInv == TypeOK /\ InSend

LEMMA PipelineLength == Len(Pipeline) \in Nat
  OBVIOUS

LEMMA MsgsSends == \A t \in Threads, n \in Nat : <<t, n>> \in Msgs <=> n \in 1..MaxSends[t]
BY DEF Msgs

\* What a thread within _send refers to exists.
LEMMA Referred ==
  ASSUME TypeInv, NEW t \in Threads
  PROVE  /\ pc[t] # "idle" => Msg(t) \in Msgs /\ Request(t) \in Requests
         /\ EP(t) \in Endpoints
<1>1. EP(t) \in Endpoints
  BY DEF EP, Endpoints
<1>2. ASSUME pc[t] # "idle" PROVE Msg(t) \in Msgs
  BY <1>2, MsgsSends DEF TypeInv, InSend, TypeOK, Msg
<1>3. ASSUME pc[t] # "idle" PROVE Request(t) \in Requests
  BY <1>2, <1>3 DEF TypeInv, InSend, TypeOK, Request, Requests
<1> QED
  BY <1>1, <1>2, <1>3

\* The next middleware's turn.
LEMMA NextMiddleware ==
  ASSUME mw \in [Threads -> 1..(Len(Pipeline) + 1)], NEW t \in Threads,
         mw[t] <= Len(Pipeline)
  PROVE  [mw EXCEPT ![t] = mw[t] + 1] \in [Threads -> 1..(Len(Pipeline) + 1)]
BY PipelineLength

Onward(t) ==
  /\ pc' \in [Threads -> {"idle", "post", "wait", "on_error", "backoff"}]
  /\ \A u \in Threads : /\ pc'[u] # "idle" => pc[u] # "idle"
                        /\ pc'[u] = "backoff" => pc[u] = "backoff" /\ u # t

\* A thread within _send goes on, but not into the back-off, or ends.
LEMMA Goes ==
  ASSUME TypeInv, NEW t \in Threads, pc[t] # "idle",
         NEW l \in {"idle", "post", "wait", "on_error"}, Goto(t, l)
  PROVE  Onward(t)
BY DEF TypeInv, InSend, TypeOK, Goto, Onward

LEMMA OnwardKeeps ==
  ASSUME TypeInv, NEW t \in Threads, Onward(t), UNCHANGED <<send, seen>>,
         \A u \in Threads \ {t} : mw'[u] = mw[u]
  PROVE  InSend' /\ \A u \in Threads : send'[u] \in 0..MaxSends[u]
<1>1. \A u \in Threads : send'[u] \in 0..MaxSends[u]
  BY DEF TypeInv, InSend, TypeOK
<1>2. send' \in [Threads -> Nat]
  BY DEF TypeInv, InSend
<1>3. ASSUME NEW u \in Threads, pc'[u] # "idle" PROVE send'[u] >= 1
  BY <1>3 DEF TypeInv, InSend, Onward
<1>4. ASSUME NEW u \in Threads, pc'[u] = "backoff"
      PROVE  mw'[u] <= Len(Pipeline) /\ Pipeline[mw'[u]] = "retry" /\ seen'[u] < MaxRetries
  BY <1>4 DEF TypeInv, InSend, Onward
<1> QED
  BY <1>1, <1>2, <1>3, <1>4 DEF InSend

\* It ends with a result.
LEMMA Ends ==
  ASSUME TypeInv, NEW t \in Threads, pc[t] # "idle",
         NEW r \in {"ok", "failed", "raised"}, Finish(t, r)
  PROVE  /\ Onward(t)
         /\ result' \in [Msgs -> {"none", "ok", "failed", "raised"}]
<1>1. Goto(t, "idle") /\ result' = [result EXCEPT ![Msg(t)] = r]
  BY DEF Finish
<1> QED
  BY <1>1, Goes, Referred DEF TypeInv, InSend, TypeOK

LEMMA TypeInit == Init => TypeInv
<1> SUFFICES ASSUME Init PROVE TypeInv
  OBVIOUS
<1> QED
  BY DEF Init, TypeInv, InSend, TypeOK, Endpoints

LEMMA TypeStep == TypeInv /\ [Next]_vars => TypeInv'
<1> SUFFICES ASSUME TypeInv, [Next]_vars PROVE TypeInv'
  OBVIOUS
<1> USE DEF Client, Shared, Network
<1>1. ASSUME NEW t \in Threads, StartSend(t) PROVE TypeInv'
  <2>1. /\ pc' = [pc EXCEPT ![t] = "post"] /\ send' = [send EXCEPT ![t] = send[t] + 1]
        /\ send[t] < MaxSends[t] /\ try' = [try EXCEPT ![t] = 1]
        /\ UNCHANGED <<mw, seen, retry, attempts, cache, refused, wire, replies, stored, result>>
    BY <1>1 DEF StartSend, Goto
  <2>2. TypeOK'
    <3>1. /\ pc' \in [Threads -> {"idle", "post", "wait", "on_error", "backoff"}]
          /\ try' \in [Threads -> 1..MaxTries]
      BY <2>1 DEF TypeInv, TypeOK
    <3>2. \A u \in Threads : send'[u] \in 0..MaxSends[u]
      BY <2>1 DEF TypeInv, InSend, TypeOK
    <3> QED
      BY <2>1, <3>1, <3>2 DEF TypeInv, TypeOK
  <2>3. send' \in [Threads -> Nat]
    BY <2>1 DEF TypeInv, InSend
  <2>7. \A u \in Threads : /\ pc'[u] # "idle" => pc[u] # "idle" \/ u = t
                           /\ pc'[u] = "backoff" => pc[u] = "backoff"
    BY <2>1 DEF TypeInv, TypeOK
  <2>8. \A u \in Threads : send'[u] >= send[u] /\ send'[t] >= 1
    BY <2>1 DEF TypeInv, InSend
  <2>4. \A u \in Threads : /\ pc'[u] # "idle" => pc[u] # "idle" \/ u = t
                           /\ pc'[u] = "backoff" => pc[u] = "backoff"
                           /\ send'[u] >= send[u] /\ send'[t] >= 1
    BY <2>7, <2>8
  <2>5. \A u \in Threads : send[u] \in Nat /\ send'[u] \in Nat
    BY <2>3 DEF TypeInv, InSend
  <2>6. InSend'
    BY <2>1, <2>3, <2>4, <2>5 DEF TypeInv, InSend
  <2> QED
    BY <2>2, <2>6 DEF TypeInv
<1>2. ASSUME NEW t \in Threads, Post(t) PROVE TypeInv'
  <2>1. Request(t) \in Requests
    BY <1>2, Referred DEF Post
  <2> QED
    BY <1>2, <2>1 DEF Post, Goto, TypeInv, InSend, TypeOK
<1>3. ASSUME NEW t \in Threads, ResponseArrives(t) PROVE TypeInv'
  <2>1. Finish(t, "ok") /\ pc[t] # "idle" /\ EP(t) \in Endpoints
    BY <1>3, Referred DEF ResponseArrives
  <2>2. Onward(t) /\ result' \in [Msgs -> {"none", "ok", "failed", "raised"}]
    BY <2>1, Ends
  <2>3. attempts' \in [Endpoints -> 0..MaxRetries] /\ replies' \subseteq Requests
    BY <1>3, <2>1 DEF ResponseArrives, TypeInv, InSend, TypeOK
  <2>4. UNCHANGED <<send, try, mw, seen, retry, cache, refused, wire, stored>>
    BY <1>3 DEF ResponseArrives
  <2>5. InSend' /\ \A u \in Threads : send'[u] \in 0..MaxSends[u]
    BY <2>2, <2>4, OnwardKeeps
  <2>6. TypeOK'
    BY <2>2, <2>3, <2>4, <2>5 DEF TypeInv, InSend, TypeOK, Onward
  <2> QED
    BY <2>5, <2>6 DEF TypeInv
<1>4. ASSUME NEW t \in Threads, TransportFails(t) PROVE TypeInv'
  <2>1. Goto(t, "on_error") /\ pc[t] # "idle" /\ mw' = [mw EXCEPT ![t] = 1]
    BY <1>4 DEF TransportFails
  <2>2. /\ mw' \in [Threads -> 1..(Len(Pipeline) + 1)]
        /\ \A u \in Threads \ {t} : mw'[u] = mw[u]
    BY <2>1, PipelineLength DEF TypeInv, InSend, TypeOK
  <2>3. Onward(t)
    BY <2>1, Goes
  <2>4. replies' \subseteq Requests /\ wire' \subseteq Requests /\ retry' \in [Threads -> BOOLEAN]
    BY <1>4 DEF TransportFails, TypeInv, InSend, TypeOK
  <2>5. UNCHANGED <<send, try, seen, attempts, cache, refused, stored, result>>
    BY <1>4 DEF TransportFails
  <2>6. InSend' /\ \A u \in Threads : send'[u] \in 0..MaxSends[u]
    BY <2>2, <2>3, <2>5, OnwardKeeps
  <2>7. TypeOK'
    BY <2>2, <2>3, <2>4, <2>5, <2>6 DEF TypeInv, InSend, TypeOK, Onward
  <2> QED
    BY <2>6, <2>7 DEF TypeInv
<1>5. ASSUME NEW t \in Threads, ResponseCut(t) PROVE TypeInv'
  <2>1. Finish(t, "raised") /\ pc[t] # "idle"
    BY <1>5 DEF ResponseCut
  <2>2. Onward(t) /\ result' \in [Msgs -> {"none", "ok", "failed", "raised"}]
    BY <2>1, Ends
  <2>3. replies' \subseteq Requests
    BY <1>5 DEF ResponseCut, TypeInv, InSend, TypeOK
  <2>4. UNCHANGED <<send, try, mw, seen, retry, attempts, cache, refused, wire, stored>>
    BY <1>5 DEF ResponseCut
  <2>5. InSend' /\ \A u \in Threads : send'[u] \in 0..MaxSends[u]
    BY <2>2, <2>4, OnwardKeeps
  <2>6. TypeOK'
    BY <2>2, <2>3, <2>4, <2>5 DEF TypeInv, InSend, TypeOK, Onward
  <2> QED
    BY <2>5, <2>6 DEF TypeInv
<1>6. ASSUME NEW t \in Threads, CacheOnError(t) PROVE TypeInv'
  <2>1. Msg(t) \in Msgs
    BY <1>6, Referred DEF CacheOnError
  <2>2. cache' \in Seq(Msgs) /\ Len(cache') <= MaxEntries /\ refused' \subseteq Msgs
    <3>1. cache \in Seq(Msgs) /\ Len(cache) \in Nat /\ Len(cache) <= MaxEntries
      BY DEF TypeInv, InSend, TypeOK
    <3>2. CASE FullCache
      BY <1>6, <2>1, <3>1, <3>2 DEF CacheOnError, TypeInv, InSend, TypeOK
    <3>3. CASE ~FullCache
      <4>1. cache' = Append(cache, Msg(t)) /\ Len(cache) < MaxEntries /\ refused' = refused
        BY <1>6, <3>1, <3>3 DEF CacheOnError, FullCache
      <4>2. cache' \in Seq(Msgs) /\ Len(cache') = Len(cache) + 1
        BY <2>1, <3>1, <4>1
      <4> QED
        BY <3>1, <4>1, <4>2 DEF TypeInv, InSend, TypeOK
    <3> QED
      BY <3>2, <3>3
  <2>3. mw' = [mw EXCEPT ![t] = mw[t] + 1] /\ mw[t] <= Len(Pipeline) /\ pc[t] # "backoff"
    BY <1>6 DEF CacheOnError
  <2>4. mw' \in [Threads -> 1..(Len(Pipeline) + 1)]
    BY <2>3, NextMiddleware DEF TypeInv, InSend, TypeOK
  <2>5. \A u \in Threads \ {t} : mw'[u] = mw[u]
    BY <2>3 DEF TypeInv, InSend, TypeOK
  <2> QED
    BY <1>6, <2>2, <2>3, <2>4, <2>5 DEF CacheOnError, TypeInv, InSend, TypeOK
<1>7. ASSUME NEW t \in Threads, RetryOnError(t) PROVE TypeInv'
  <2>1. EP(t) \in Endpoints
    BY Referred
  <2>2. CASE attempts[EP(t)] >= MaxRetries
    <3>1. attempts' \in [Endpoints -> 0..MaxRetries]
      <4>1. attempts' = [attempts EXCEPT ![EP(t)] = 0] /\ attempts \in [Endpoints -> 0..MaxRetries]
        BY <1>7, <2>2 DEF RetryOnError, TypeInv, TypeOK
      <4>2. 0 \in 0..MaxRetries
        OBVIOUS
      <4>3. \A e \in Endpoints : attempts'[e] = 0 \/ attempts'[e] = attempts[e]
        BY <4>1
      <4> QED
        BY <4>1, <4>2, <4>3
    <3>2. mw' = [mw EXCEPT ![t] = mw[t] + 1] /\ mw[t] <= Len(Pipeline) /\ pc[t] # "backoff"
      BY <1>7, <2>2 DEF RetryOnError
    <3>3. mw' \in [Threads -> 1..(Len(Pipeline) + 1)]
      BY <3>2, NextMiddleware DEF TypeInv, InSend, TypeOK
    <3>4. \A u \in Threads \ {t} : mw'[u] = mw[u]
      BY <3>2 DEF TypeInv, InSend, TypeOK
    <3>5. UNCHANGED <<pc, seen, send, try, retry, cache, refused, wire, replies, stored, result>>
      BY <1>7, <2>2 DEF RetryOnError
    <3>6. TypeOK'
      BY <3>1, <3>3, <3>5 DEF TypeInv, TypeOK
    <3>7. InSend'
      BY <3>2, <3>4, <3>5 DEF TypeInv, InSend
    <3> QED
      BY <3>6, <3>7 DEF TypeInv
  <2>3. CASE ~(attempts[EP(t)] >= MaxRetries)
    <3>1. attempts[EP(t)] \in Nat /\ attempts[EP(t)] < MaxRetries
      BY <2>1, <2>3 DEF TypeInv, InSend, TypeOK
    <3>2. /\ pc' = [pc EXCEPT ![t] = "backoff"] /\ seen' = [seen EXCEPT ![t] = attempts[EP(t)]]
          /\ mw[t] <= Len(Pipeline) /\ Pipeline[mw[t]] = "retry" /\ pc[t] = "on_error"
      BY <1>7, <2>3 DEF RetryOnError, Goto
    <3>3. seen' \in [Threads -> Nat]
      BY <3>1, <3>2 DEF TypeInv, InSend, TypeOK
    <3>4. pc' \in [Threads -> {"idle", "post", "wait", "on_error", "backoff"}]
      BY <3>2 DEF TypeInv, InSend, TypeOK
    <3>5. \A u \in Threads : /\ pc'[u] # "idle" => pc[u] # "idle"
                             /\ pc'[u] = "backoff" => /\ mw[u] <= Len(Pipeline)
                                                      /\ Pipeline[mw[u]] = "retry"
                                                      /\ seen'[u] < MaxRetries
      BY <3>1, <3>2 DEF TypeInv, InSend, TypeOK
    <3> QED
      BY <1>7, <2>3, <3>3, <3>4, <3>5 DEF RetryOnError, TypeInv, InSend, TypeOK
  <2> QED
    BY <2>2, <2>3
<1>8. ASSUME NEW t \in Threads, BackoffEnds(t) PROVE TypeInv'
  <2>1. EP(t) \in Endpoints
    BY Referred
  <2>2. /\ mw' = [mw EXCEPT ![t] = mw[t] + 1] /\ mw[t] <= Len(Pipeline)
        /\ pc' = [pc EXCEPT ![t] = "on_error"] /\ pc[t] = "backoff"
    BY <1>8 DEF BackoffEnds, Goto, TypeInv, InSend
  <2>3. mw' \in [Threads -> 1..(Len(Pipeline) + 1)]
    <3>1. mw \in [Threads -> 1..(Len(Pipeline) + 1)]
      BY DEF TypeInv, TypeOK
    <3> QED
      BY <2>2, <3>1, NextMiddleware
  <2>4. attempts' \in [Endpoints -> 0..MaxRetries]
    BY <1>8, <2>1 DEF BackoffEnds, TypeInv, InSend, TypeOK
  <2>5. pc' \in [Threads -> {"idle", "post", "wait", "on_error", "backoff"}]
    BY <2>2 DEF TypeInv, InSend, TypeOK
  <2>6. \A u \in Threads : /\ pc'[u] # "idle" => pc[u] # "idle"
                           /\ pc'[u] = "backoff" => pc[u] = "backoff" /\ mw'[u] = mw[u]
    BY <2>2 DEF TypeInv, InSend, TypeOK
  <2>7. /\ retry' = [retry EXCEPT ![t] = TRUE]
        /\ UNCHANGED <<send, try, seen, cache, refused, wire, replies, stored, result>>
    BY <1>8 DEF BackoffEnds
  <2>8. TypeOK'
    BY <2>3, <2>4, <2>5, <2>7 DEF TypeInv, TypeOK
  <2>9. InSend'
    BY <2>6, <2>7 DEF TypeInv, InSend
  <2> QED
    BY <2>8, <2>9 DEF TypeInv
<1>9. ASSUME NEW t \in Threads, DecideRetry(t) PROVE TypeInv'
  <2>2. try' \in [Threads -> 1..MaxTries]
    <3>1. try' = try \/ try' = [try EXCEPT ![t] = IF try[t] < MaxTries THEN try[t] + 1 ELSE try[t]]
      BY <1>9 DEF DecideRetry
    <3>2. (IF try[t] < MaxTries THEN try[t] + 1 ELSE try[t]) \in 1..MaxTries
      BY DEF TypeInv, InSend, TypeOK
    <3> QED
      BY <3>1, <3>2 DEF TypeInv, InSend, TypeOK
  <2>3. /\ UNCHANGED <<send, mw, seen, retry, attempts, cache, refused, wire, replies, stored>>
        /\ pc[t] # "idle"
    BY <1>9 DEF DecideRetry
  <2>4. Onward(t) /\ result' \in [Msgs -> {"none", "ok", "failed", "raised"}]
    <3>1. CASE retry[t]
      <4>1. Goto(t, "post") /\ UNCHANGED result
        BY <1>9, <3>1 DEF DecideRetry
      <4>2. Onward(t)
        BY <2>3, <4>1, Goes
      <4> QED
        BY <4>1, <4>2 DEF TypeInv, InSend, TypeOK
    <3>2. CASE ~retry[t]
      <4>1. Finish(t, "failed")
        BY <1>9, <3>2 DEF DecideRetry
      <4> QED
        BY <2>3, <4>1, Ends
    <3> QED
      BY <3>1, <3>2
  <2>5. InSend' /\ \A u \in Threads : send'[u] \in 0..MaxSends[u]
    BY <2>3, <2>4, OnwardKeeps
  <2>6. TypeOK'
    BY <2>2, <2>3, <2>4, <2>5 DEF TypeInv, InSend, TypeOK, Onward
  <2> QED
    BY <2>5, <2>6 DEF TypeInv
<1>10. ASSUME NEW r \in wire, ServerStores(r) PROVE TypeInv'
  BY <1>10 DEF ServerStores, Requests, TypeInv, InSend, TypeOK
<1>11. ASSUME NEW r \in wire, RequestLost(r) PROVE TypeInv'
  BY <1>11 DEF RequestLost, TypeInv, InSend, TypeOK
<1>12. CASE UNCHANGED vars
  BY <1>12 DEF vars, TypeInv, InSend, TypeOK
<1> QED
  BY <1>1, <1>2, <1>3, <1>4, <1>5, <1>6, <1>7, <1>8, <1>9, <1>10, <1>11, <1>12
     DEF Next, ClientStep

\* Every reachable state has the types TypeOK states: whatever the interleaving,
\* the cache never grows past max_entries, the retry counters never past
\* max_retries.
THEOREM TypeCorrect == Spec => []TypeOK
<1>1. TypeInv => TypeOK
  BY DEF TypeInv
<1> QED
  BY <1>1, TypeInit, TypeStep, PTL DEF Spec

-----------------------------------------------------------------------------
\* An answer on its way is to a request that has been stored.
AckedInv == /\ AckedIsStored
            /\ \A r \in replies : stored[r.msg] >= 1

\* A thread takes a reply and the store does not change: acknowledged or not,
\* what it ends with stays true.
LEMMA FinishKeepsAcked ==
  ASSUME TypeInv, AckedInv, NEW t \in Threads, pc[t] # "idle",
         NEW r \in {"ok", "failed", "raised"}, Finish(t, r),
         r = "ok" => stored[Msg(t)] >= 1,
         replies' \subseteq replies, UNCHANGED stored
  PROVE  AckedInv'
<1>1. result' = [result EXCEPT ![Msg(t)] = r] /\ result \in [Msgs -> {"none", "ok", "failed", "raised"}]
  BY DEF Finish, TypeInv, TypeOK
<1>2. AckedIsStored'
  BY <1>1 DEF AckedInv, AckedIsStored
<1> QED
  BY <1>2 DEF AckedInv

LEMMA QuietKeepsAcked ==
  ASSUME AckedInv, replies' \subseteq replies, UNCHANGED <<stored, result>>
  PROVE  AckedInv'
BY DEF AckedInv, AckedIsStored

LEMMA AckedStep == TypeInv /\ AckedInv /\ [Next]_vars => AckedInv'
<1> SUFFICES ASSUME TypeInv, AckedInv, [Next]_vars PROVE AckedInv'
  OBVIOUS
<1>1. ASSUME NEW t \in Threads, StartSend(t) PROVE AckedInv'
  BY <1>1, QuietKeepsAcked DEF StartSend, Network
<1>2. ASSUME NEW t \in Threads, Post(t) PROVE AckedInv'
  BY <1>2, QuietKeepsAcked DEF Post
<1>3. ASSUME NEW t \in Threads, ResponseArrives(t) PROVE AckedInv'
  <2>1. stored[Msg(t)] >= 1
    <3>1. Request(t) \in replies /\ Request(t).msg = Msg(t)
      BY <1>3 DEF ResponseArrives, Request
    <3> QED
      BY <3>1 DEF AckedInv
  <2>2. Finish(t, "ok") /\ pc[t] # "idle" /\ replies' \subseteq replies /\ UNCHANGED stored
    BY <1>3 DEF ResponseArrives
  <2> QED
    BY <2>1, <2>2, FinishKeepsAcked
<1>4. ASSUME NEW t \in Threads, TransportFails(t) PROVE AckedInv'
  BY <1>4, QuietKeepsAcked DEF TransportFails
<1>5. ASSUME NEW t \in Threads, ResponseCut(t) PROVE AckedInv'
  <2>1. Finish(t, "raised") /\ pc[t] # "idle" /\ replies' \subseteq replies /\ UNCHANGED stored
    BY <1>5 DEF ResponseCut
  <2> QED
    BY <2>1, FinishKeepsAcked
<1>6. ASSUME NEW t \in Threads, CacheOnError(t) \/ RetryOnError(t) \/ BackoffEnds(t)
      PROVE  AckedInv'
  BY <1>6, QuietKeepsAcked DEF CacheOnError, RetryOnError, BackoffEnds, Network
<1>7. ASSUME NEW t \in Threads, DecideRetry(t) PROVE AckedInv'
  <2>1. pc[t] # "idle" /\ UNCHANGED <<replies, stored>>
    BY <1>7 DEF DecideRetry, Network
  <2>2. CASE retry[t]
    BY <1>7, <2>1, <2>2, QuietKeepsAcked DEF DecideRetry
  <2>3. CASE ~retry[t]
    <3>1. Finish(t, "failed")
      BY <1>7, <2>3 DEF DecideRetry
    <3> QED
      BY <2>1, <3>1, FinishKeepsAcked
  <2> QED
    BY <2>2, <2>3
<1>8. ASSUME NEW r \in wire, ServerStores(r) PROVE AckedInv'
  <2>1. r.msg \in Msgs /\ stored \in [Msgs -> Nat]
    BY DEF TypeInv, TypeOK, Requests
  <2>2. stored' = [stored EXCEPT ![r.msg] = stored[r.msg] + 1]
    BY <1>8 DEF ServerStores
  <2>3. \A m \in Msgs : stored'[m] >= stored[m] /\ stored'[r.msg] >= 1
    BY <2>1, <2>2
  <2>4. AckedIsStored'
    BY <1>8, <2>1, <2>2, <2>3 DEF ServerStores, AckedInv, AckedIsStored
  <2>5. ASSUME NEW q \in replies' PROVE stored'[q.msg] >= 1
    <3>1. q \in replies \/ q = r
      BY <1>8 DEF ServerStores
    <3>2. CASE q = r
      BY <2>1, <2>3, <3>2
    <3>3. CASE q \in replies
      <4>1. q.msg \in Msgs /\ stored[q.msg] >= 1
        BY <3>3 DEF TypeInv, TypeOK, Requests, AckedInv
      <4> QED
        BY <2>1, <2>2, <2>3, <4>1
    <3> QED
      BY <3>1, <3>2, <3>3
  <2> QED
    BY <2>4, <2>5 DEF AckedInv
<1>9. ASSUME NEW r \in wire, RequestLost(r) PROVE AckedInv'
  BY <1>9, QuietKeepsAcked DEF RequestLost
<1>10. CASE UNCHANGED vars
  BY <1>10, QuietKeepsAcked DEF vars
<1> QED
  BY <1>1, <1>2, <1>3, <1>4, <1>5, <1>6, <1>7, <1>8, <1>9, <1>10 DEF Next, ClientStep

LEMMA AckedInit == Init => AckedInv
BY DEF Init, AckedInv, AckedIsStored

\* Whatever is lost, delayed, handled late or retried: a send that report()
\* returned True for is in the server's store.
THEOREM AcknowledgedIsStored == Spec => []AckedIsStored
<1>1. AckedInv => AckedIsStored
  BY DEF AckedInv
<1> QED
  BY <1>1, TypeInit, TypeStep, AckedInit, AckedStep, PTL DEF Spec
-----------------------------------------------------------------------------
Kept == Cached \cup refused

\* The loop over the middlewares has passed a cache: the send is kept.
PassedIsKept ==
  \A t \in Threads, i \in 1..Len(Pipeline) :
    Pipeline[i] = "cache" /\ pc[t] \in {"on_error", "backoff"} /\ mw[t] > i
      => Msg(t) \in Kept

KeptInv == FailedIsCached /\ PassedIsKept

LEMMA CachedIsRange ==
  ASSUME cache \in Seq(Msgs), NEW m, cache' = Append(cache, m)
  PROVE  Cached' = Cached \cup {m}
<1>1. /\ Len(cache') = Len(cache) + 1 /\ Len(cache) \in Nat
      /\ \A i \in 1..(Len(cache) + 1) :
           cache'[i] = IF i = Len(cache) + 1 THEN m ELSE cache[i]
  OBVIOUS
<1>2. ASSUME NEW x \in Cached' PROVE x \in Cached \cup {m}
  BY <1>1, <1>2 DEF Cached
<1>3. ASSUME NEW x \in Cached PROVE x \in Cached'
  <2>1. PICK i \in 1..Len(cache) : x = cache[i]
    BY <1>3 DEF Cached
  <2>2. i \in 1..(Len(cache) + 1) /\ i # Len(cache) + 1
    BY <1>1, <2>1
  <2> QED
    BY <1>1, <2>1, <2>2 DEF Cached
<1>4. m \in Cached'
  <2>1. Len(cache) + 1 \in 1..Len(cache')
    BY <1>1
  <2> QED
    BY <1>1, <2>1 DEF Cached
<1> QED
  BY <1>2, <1>3, <1>4

\* What is kept stays kept: the cache only grows.
LEMMA KeptGrows ==
  ASSUME TypeInv, [Next]_vars
  PROVE  Kept \subseteq Kept'
<1>1. ASSUME NEW t \in Threads, CacheOnError(t) PROVE Kept \subseteq Kept'
  <2>1. CASE FullCache
    BY <1>1, <2>1 DEF CacheOnError, Kept, Cached
  <2>2. CASE ~FullCache
    <3>1. cache' = Append(cache, Msg(t)) /\ refused' = refused /\ cache \in Seq(Msgs)
      BY <1>1, <2>2 DEF CacheOnError, TypeInv, TypeOK
    <3> QED
      BY <3>1, CachedIsRange DEF Kept
  <2> QED
    BY <2>1, <2>2
<1>2. CASE UNCHANGED <<cache, refused>>
  BY <1>2 DEF Kept, Cached
<1>3. (\E t \in Threads : CacheOnError(t)) \/ UNCHANGED <<cache, refused>>
  BY DEF Next, vars, ClientStep, StartSend, Post, ResponseArrives, TransportFails, ResponseCut,
         RetryOnError, BackoffEnds, DecideRetry, ServerStores, RequestLost, Shared
<1> QED
  BY <1>1, <1>2, <1>3

LEMMA KeptInit == Init => KeptInv
BY DEF Init, KeptInv, FailedIsCached, PassedIsKept

\* No result changes, and every thread in the loop was there already and has
\* passed no more than it had.
LEMMA QuietKeepsKept ==
  ASSUME KeptInv, Kept \subseteq Kept', UNCHANGED result,
         \A u \in Threads : pc'[u] \in {"on_error", "backoff"} =>
            \/ mw'[u] = 1
            \/ /\ pc[u] \in {"on_error", "backoff"} /\ mw'[u] = mw[u] /\ send'[u] = send[u]
  PROVE  KeptInv'
<1>1. FailedIsCached'
  BY DEF KeptInv, FailedIsCached, Kept
<1>2. ASSUME NEW u \in Threads, NEW i \in 1..Len(Pipeline), Pipeline[i] = "cache",
             pc'[u] \in {"on_error", "backoff"}, mw'[u] > i
      PROVE  Msg(u)' \in Kept'
  <2>1. mw'[u] # 1
    BY <1>2, PipelineLength
  <2>2. /\ pc[u] \in {"on_error", "backoff"} /\ mw[u] > i
        /\ <<u, send'[u]>> = <<u, send[u]>>
    BY <1>2, <2>1
  <2>3. Msg(u) \in Kept
    BY <1>2, <2>2 DEF KeptInv, PassedIsKept
  <2> QED
    BY <2>2, <2>3 DEF Msg
<1> QED
  BY <1>1, <1>2 DEF KeptInv, PassedIsKept

\* A middleware other than the cache lets the loop go on.
LEMMA NextKeepsKept ==
  ASSUME TypeInv, KeptInv, Kept \subseteq Kept', UNCHANGED <<result, send>>,
         NEW t \in Threads, pc[t] \in {"on_error", "backoff"},
         mw[t] <= Len(Pipeline), Pipeline[mw[t]] = "cache" => Msg(t) \in Kept',
         mw' = [mw EXCEPT ![t] = mw[t] + 1],
         \A u \in Threads \ {t} : pc'[u] = pc[u]
  PROVE  KeptInv'
<1>1. FailedIsCached'
  BY DEF KeptInv, FailedIsCached, Kept
<1>2. ASSUME NEW u \in Threads, NEW i \in 1..Len(Pipeline), Pipeline[i] = "cache",
             pc'[u] \in {"on_error", "backoff"}, mw'[u] > i
      PROVE  Msg(u)' \in Kept'
  <2>0. Msg(u)' = Msg(u) /\ mw[u] \in Nat
    BY PipelineLength DEF Msg, TypeInv, TypeOK
  <2>1. CASE u # t
    <3>1. mw'[u] = mw[u] /\ pc'[u] = pc[u]
      BY <2>1 DEF TypeInv, TypeOK
    <3> QED
      BY <1>2, <2>0, <3>1 DEF KeptInv, PassedIsKept
  <2>2. CASE u = t /\ mw[t] > i
    BY <1>2, <2>0, <2>2 DEF KeptInv, PassedIsKept
  <2>3. CASE u = t /\ ~(mw[t] > i)
    <3>1. mw'[t] = mw[t] + 1
      BY DEF TypeInv, TypeOK
    <3>2. i = mw[t]
      BY <1>2, <2>0, <2>3, <3>1, PipelineLength
    <3> QED
      BY <1>2, <2>0, <2>3, <3>2
  <2> QED
    BY <2>1, <2>2, <2>3
<1> QED
  BY <1>1, <1>2 DEF KeptInv, PassedIsKept

\* A send that ends is kept, if it failed.
LEMMA EndKeepsKept ==
  ASSUME TypeInv, KeptInv, Kept \subseteq Kept', UNCHANGED <<mw, send>>,
         NEW t \in Threads, NEW r \in {"ok", "failed", "raised"}, Finish(t, r),
         r = "failed" => Msg(t) \in Kept
  PROVE  KeptInv'
<1>1. /\ result' = [result EXCEPT ![Msg(t)] = r] /\ pc' = [pc EXCEPT ![t] = "idle"]
      /\ result \in [Msgs -> {"none", "ok", "failed", "raised"}]
      /\ pc \in [Threads -> {"idle", "post", "wait", "on_error", "backoff"}]
  BY DEF Finish, Goto, TypeInv, TypeOK
<1>2. FailedIsCached'
  BY <1>1 DEF KeptInv, FailedIsCached, Kept
<1>3. ASSUME NEW u \in Threads, NEW i \in 1..Len(Pipeline), Pipeline[i] = "cache",
             pc'[u] \in {"on_error", "backoff"}, mw'[u] > i
      PROVE  Msg(u)' \in Kept'
  <2>1. pc'[u] = pc[u] /\ Msg(u)' = Msg(u) /\ mw'[u] = mw[u]
    BY <1>1, <1>3 DEF Msg
  <2> QED
    BY <1>3, <2>1 DEF KeptInv, PassedIsKept
<1> QED
  BY <1>2, <1>3 DEF KeptInv, PassedIsKept

LEMMA KeptStep ==
  ASSUME NEW k \in 1..Len(Pipeline), Pipeline[k] = "cache", TypeInv, KeptInv, [Next]_vars
  PROVE  KeptInv'
<1> USE DEF Shared, Network, Client
<1>0. Kept \subseteq Kept'
  BY KeptGrows
<1>1. ASSUME NEW t \in Threads, StartSend(t) \/ Post(t) PROVE KeptInv'
  <2>1. UNCHANGED <<result, mw>> /\ \A u \in Threads \ {t} : send'[u] = send[u] /\ pc'[u] = pc[u]
    BY <1>1 DEF StartSend, Post, Goto, TypeInv, TypeOK, InSend
  <2>2. pc'[t] \in {"post", "wait"}
    BY <1>1 DEF StartSend, Post, Goto, TypeInv, TypeOK
  <2> QED
    BY <1>0, <2>1, <2>2, QuietKeepsKept
<1>2. ASSUME NEW t \in Threads, TransportFails(t) PROVE KeptInv'
  <2>1. UNCHANGED <<result, send>> /\ mw'[t] = 1
        /\ \A u \in Threads \ {t} : mw'[u] = mw[u] /\ pc'[u] = pc[u]
    BY <1>2 DEF TransportFails, Goto, TypeInv, TypeOK
  <2> QED
    BY <1>0, <2>1, QuietKeepsKept
<1>3. ASSUME NEW t \in Threads, ResponseArrives(t) PROVE KeptInv'
  <2>1. Finish(t, "ok") /\ UNCHANGED <<mw, send>>
    BY <1>3 DEF ResponseArrives
  <2> QED
    BY <1>0, <2>1, EndKeepsKept
<1>4. ASSUME NEW t \in Threads, ResponseCut(t) PROVE KeptInv'
  <2>1. Finish(t, "raised") /\ UNCHANGED <<mw, send>>
    BY <1>4 DEF ResponseCut
  <2> QED
    BY <1>0, <2>1, EndKeepsKept
<1>5. ASSUME NEW t \in Threads, CacheOnError(t) PROVE KeptInv'
  <2>1. /\ pc[t] = "on_error" /\ mw[t] <= Len(Pipeline) /\ UNCHANGED <<result, send, pc>>
        /\ mw' = [mw EXCEPT ![t] = mw[t] + 1]
    BY <1>5 DEF CacheOnError
  <2>2. Msg(t) \in Kept'
    <3>1. CASE FullCache
      BY <1>5, <3>1 DEF CacheOnError, Kept
    <3>2. CASE ~FullCache
      <4>1. cache' = Append(cache, Msg(t)) /\ cache \in Seq(Msgs)
        BY <1>5, <3>2 DEF CacheOnError, TypeInv, TypeOK
      <4> QED
        BY <4>1, CachedIsRange DEF Kept
    <3> QED
      BY <3>1, <3>2
  <2> QED
    BY <1>0, <2>1, <2>2, NextKeepsKept
<1>6. ASSUME NEW t \in Threads, RetryOnError(t) PROVE KeptInv'
  <2>1. /\ pc[t] = "on_error" /\ mw[t] <= Len(Pipeline) /\ Pipeline[mw[t]] = "retry"
        /\ UNCHANGED <<result, send>>
    BY <1>6 DEF RetryOnError
  <2>2. CASE attempts[EP(t)] >= MaxRetries
    <3>1. mw' = [mw EXCEPT ![t] = mw[t] + 1] /\ UNCHANGED pc
      BY <1>6, <2>2 DEF RetryOnError
    <3> QED
      BY <1>0, <2>1, <3>1, NextKeepsKept
  <2>3. CASE ~(attempts[EP(t)] >= MaxRetries)
    <3>1. UNCHANGED mw /\ pc' = [pc EXCEPT ![t] = "backoff"]
      BY <1>6, <2>3 DEF RetryOnError, Goto
    <3>2. \A u \in Threads : pc'[u] \in {"on_error", "backoff"} => pc[u] \in {"on_error", "backoff"}
      BY <2>1, <3>1 DEF TypeInv, TypeOK
    <3> QED
      BY <1>0, <2>1, <3>1, <3>2, QuietKeepsKept
  <2> QED
    BY <2>2, <2>3
<1>7. ASSUME NEW t \in Threads, BackoffEnds(t) PROVE KeptInv'
  <2>1. /\ pc[t] = "backoff" /\ mw[t] <= Len(Pipeline) /\ UNCHANGED <<result, send>>
        /\ mw' = [mw EXCEPT ![t] = mw[t] + 1] /\ pc' = [pc EXCEPT ![t] = "on_error"]
        /\ Pipeline[mw[t]] = "retry"
    BY <1>7 DEF BackoffEnds, Goto, TypeInv, InSend
  <2>2. Pipeline[mw[t]] = "cache" => Msg(t) \in Kept'
    BY <2>1
  <2>3. \A u \in Threads \ {t} : pc'[u] = pc[u]
    BY <2>1 DEF TypeInv, TypeOK
  <2> QED
    BY <1>0, <2>1, <2>2, <2>3, NextKeepsKept
<1>8. ASSUME NEW t \in Threads, DecideRetry(t) PROVE KeptInv'
  <2>1. pc[t] = "on_error" /\ mw[t] > Len(Pipeline) /\ UNCHANGED <<mw, send>>
    BY <1>8 DEF DecideRetry, OnErrorDone
  <2>2. mw[t] > k
    BY <2>1, PipelineLength DEF TypeInv, TypeOK
  <2>3. Msg(t) \in Kept
    BY <2>1, <2>2 DEF KeptInv, PassedIsKept
  <2>4. CASE retry[t]
    <3>1. UNCHANGED result /\ pc' = [pc EXCEPT ![t] = "post"]
      BY <1>8, <2>4 DEF DecideRetry, Goto
    <3>2. \A u \in Threads : pc'[u] \in {"on_error", "backoff"} => pc'[u] = pc[u]
      BY <3>1 DEF TypeInv, TypeOK
    <3> QED
      BY <1>0, <2>1, <3>1, <3>2, QuietKeepsKept
  <2>5. CASE ~retry[t]
    <3>1. Finish(t, "failed")
      BY <1>8, <2>5 DEF DecideRetry
    <3> QED
      BY <1>0, <2>1, <2>3, <3>1, EndKeepsKept
  <2> QED
    BY <2>4, <2>5
<1>9. ASSUME NEW r \in wire, ServerStores(r) \/ RequestLost(r) PROVE KeptInv'
  <2>1. UNCHANGED <<pc, mw, send, result>>
    BY <1>9 DEF ServerStores, RequestLost
  <2> QED
    BY <1>0, <2>1, QuietKeepsKept
<1>10. CASE UNCHANGED vars
  <2>1. UNCHANGED <<pc, mw, send, result>>
    BY <1>10 DEF vars
  <2> QED
    BY <1>0, <2>1, QuietKeepsKept
<1> QED
  BY <1>1, <1>2, <1>3, <1>4, <1>5, <1>6, <1>7, <1>8, <1>9, <1>10 DEF Next, ClientStep

\* Wherever in the pipeline the cache stands, a send that failed for good is in
\* it, unless it was full: no middleware's answer keeps the cache from being asked.
THEOREM FailedSendsAreKept ==
  ASSUME NEW k \in 1..Len(Pipeline), Pipeline[k] = "cache"
  PROVE  Spec => []FailedIsCached
<1>1. TypeInv /\ KeptInv /\ [Next]_vars => KeptInv'
  BY KeptStep
<1>2. KeptInv => FailedIsCached
  BY DEF KeptInv
<1> QED
  BY <1>1, <1>2, TypeInit, TypeStep, KeptInit, PTL DEF Spec

-----------------------------------------------------------------------------
\* k is the place of the pipeline's only RetryMiddleware.
OnlyRetry(k) == /\ k \in 1..Len(Pipeline)
                /\ \A i \in 1..Len(Pipeline) : Pipeline[i] = "retry" <=> i = k

\* The counter of t's path, before and after RetryMiddleware has been asked.
Account(k, t) ==
  LET a == attempts[EP(t)]
  IN  /\ pc[t] = "idle" /\ (send[t] > 0 => result[Msg(t)] # "raised") => a = 0
      /\ pc[t] \in {"post", "wait", "backoff"} => a = try[t] - 1
      /\ pc[t] = "backoff" => seen[t] = a
      /\ pc[t] = "on_error" /\ mw[t] <= k => a = try[t] - 1 /\ ~retry[t]
      /\ pc[t] = "on_error" /\ mw[t] > k /\ retry[t] => a = try[t]
      /\ pc[t] = "on_error" /\ mw[t] > k /\ ~retry[t] => a = 0 /\ try[t] = MaxRetries + 1
      /\ send[t] > 0 /\ result[Msg(t)] = "failed" => try[t] = MaxRetries + 1

\* A send that has not ended has no result.
Fresh(t) ==
  \A n \in 1..MaxSends[t] :
    n > send[t] \/ (n = send[t] /\ pc[t] # "idle") => result[<<t, n>>] = "none"

BudgetInv(k) ==
  \A t \in Threads : Fresh(t) /\ (OwnBudget(t) => Account(k, t))

\* A step of t leaves alone what belongs to the other threads.
StepOf(t) ==
  /\ \A u \in Threads \ {t} :
       /\ pc'[u] = pc[u] /\ send'[u] = send[u] /\ try'[u] = try[u] /\ mw'[u] = mw[u]
       /\ seen'[u] = seen[u] /\ retry'[u] = retry[u]
       /\ \A n \in 1..MaxSends[u] : result'[<<u, n>>] = result[<<u, n>>]
  /\ \A e \in Endpoints \ {EP(t)} : attempts'[e] = attempts[e]

LEMMA OthersKeep ==
  ASSUME NEW k, TypeInv, BudgetInv(k), NEW t \in Threads, StepOf(t), NEW u \in Threads \ {t}
  PROVE  Fresh(u)' /\ (OwnBudget(u)' => Account(k, u)')
<1>1. Fresh(u)'
  <2>1. /\ send'[u] = send[u] /\ pc'[u] = pc[u]
        /\ \A n \in 1..MaxSends[u] : result'[<<u, n>>] = result[<<u, n>>]
    BY DEF StepOf
  <2>2. Fresh(u)
    BY DEF BudgetInv
  <2> QED
    BY <2>1, <2>2 DEF Fresh
<1>2. ASSUME OwnBudget(u)' PROVE Account(k, u)'
  <2>1. EP(u) \in Endpoints /\ EP(u) # EP(t)
    BY <1>2 DEF OwnBudget, OwnPath, EP, Endpoints
  <2>2. send[u] \in 0..MaxSends[u] /\ MaxSends[u] \in Nat
    BY DEF TypeInv, TypeOK
  <2>3. OwnBudget(u)
    <3>1. ASSUME NEW n \in 1..(send[u] - 1) PROVE result[<<u, n>>] # "raised"
      <4>1. n \in 1..MaxSends[u] /\ n \in 1..(send'[u] - 1)
        BY <2>2 DEF StepOf
      <4> QED
        BY <1>2, <4>1 DEF OwnBudget, StepOf
    <3> QED
      BY <1>2, <3>1 DEF OwnBudget, EP
  <2>4. Account(k, u)
    BY <2>3 DEF BudgetInv
  <2>5. attempts'[EP(u)] = attempts[EP(u)]
    BY <2>1 DEF StepOf
  <2>6. send[u] > 0 => result'[<<u, send[u]>>] = result[<<u, send[u]>>]
    BY <2>2 DEF StepOf
  <2>7. /\ pc'[u] = pc[u] /\ send'[u] = send[u] /\ try'[u] = try[u] /\ mw'[u] = mw[u]
        /\ seen'[u] = seen[u] /\ retry'[u] = retry[u]
    BY DEF StepOf
  <2> QED
    BY <2>4, <2>5, <2>6, <2>7 DEF Account, Msg, EP
<1> QED
  BY <1>1, <1>2

\* Of t itself: what it did before its current send does not change.
LEMMA OwnBefore ==
  ASSUME TypeInv, NEW t \in Threads, OwnBudget(t)', UNCHANGED send,
         \A n \in 1..MaxSends[t] : n < send[t] => result'[<<t, n>>] = result[<<t, n>>]
  PROVE  OwnBudget(t)
<1>1. send[t] \in 0..MaxSends[t] /\ MaxSends[t] \in Nat
  BY DEF TypeInv, TypeOK
<1>2. ASSUME NEW n \in 1..(send[t] - 1) PROVE result[<<t, n>>] # "raised"
  <2>1. n \in 1..MaxSends[t] /\ n < send[t] /\ n \in 1..(send'[t] - 1)
    BY <1>1
  <2> QED
    BY <2>1 DEF OwnBudget
<1> QED
  BY <1>2 DEF OwnBudget, EP

LEMMA BudgetInit == \A k : Init => BudgetInv(k)
<1> SUFFICES ASSUME NEW k, Init, NEW t \in Threads PROVE Fresh(t) /\ Account(k, t)
  BY DEF BudgetInv
<1>1. EP(t) \in Endpoints
  BY DEF EP, Endpoints
<1>2. \A n \in 1..MaxSends[t] : <<t, n>> \in Msgs
  BY DEF Msgs
<1>3. Fresh(t)
  BY <1>2 DEF Fresh, Init
<1>4. Account(k, t)
  BY <1>1 DEF Account, Init
<1> QED
  BY <1>3, <1>4

\* The end of a send of t, as its threads see it.
LEMMA FinishOf ==
  ASSUME TypeInv, NEW t \in Threads, pc[t] # "idle", Fresh(t), UNCHANGED send,
         NEW r \in {"ok", "failed", "raised"}, Finish(t, r)
  PROVE  /\ pc'[t] = "idle" /\ result'[Msg(t)] = r /\ send[t] > 0
         /\ \A u \in Threads \ {t} : pc'[u] = pc[u]
         /\ \A u \in Threads \ {t} : \A n \in 1..MaxSends[u] : result'[<<u, n>>] = result[<<u, n>>]
         /\ \A n \in 1..MaxSends[t] : n < send[t] => result'[<<t, n>>] = result[<<t, n>>]
         /\ Fresh(t)'
<1>1. /\ pc' = [pc EXCEPT ![t] = "idle"] /\ result' = [result EXCEPT ![Msg(t)] = r]
      /\ pc \in [Threads -> {"idle", "post", "wait", "on_error", "backoff"}]
      /\ result \in [Msgs -> {"none", "ok", "failed", "raised"}]
      /\ send[t] \in 0..MaxSends[t] /\ MaxSends[t] \in Nat
  BY DEF Finish, Goto, TypeInv, TypeOK
<1>2. Msg(t) \in Msgs /\ send[t] > 0
  <2>1. Msg(t) \in Msgs
    BY Referred
  <2>2. send[t] >= 1
    BY DEF TypeInv, InSend
  <2> QED
    BY <1>1, <2>1, <2>2
<1>3. pc'[t] = "idle" /\ \A u \in Threads \ {t} : pc'[u] = pc[u]
  BY <1>1
<1>4. ASSUME NEW u \in Threads, NEW n \in 1..MaxSends[u], u # t \/ n # send[t]
      PROVE  result'[<<u, n>>] = result[<<u, n>>]
  <2>1. <<u, n>> \in Msgs /\ <<u, n>> # Msg(t)
    BY <1>4 DEF Msgs, Msg
  <2> QED
    BY <1>1, <2>1
<1>5. result'[Msg(t)] = r
  BY <1>1, <1>2
<1>6. ASSUME NEW n \in 1..MaxSends[t], n > send'[t] \/ (n = send'[t] /\ pc'[t] # "idle")
      PROVE  result'[<<t, n>>] = "none"
  <2>1. n > send[t] /\ n # send[t]
    BY <1>1, <1>3, <1>6
  <2>2. result[<<t, n>>] = "none"
    BY <2>1 DEF Fresh
  <2> QED
    BY <1>4, <2>1, <2>2
<1>7. Fresh(t)'
  BY <1>6 DEF Fresh
<1> QED
  BY <1>1, <1>2, <1>3, <1>4, <1>5, <1>7

\* A step of t that ends nothing: what its parts add up to.
LEMMA WithinOf ==
  ASSUME NEW k, TypeInv, BudgetInv(k), NEW t \in Threads, pc[t] # "idle", UNCHANGED <<send, result>>
  PROVE  Fresh(t)' /\ (OwnBudget(t)' => OwnBudget(t) /\ Account(k, t) /\ send[t] > 0 /\ result[Msg(t)] = "none")
<1>1. Fresh(t) /\ send[t] \in 1..MaxSends[t] /\ result[Msg(t)] = "none"
  BY DEF BudgetInv, Fresh, Msg, TypeInv, TypeOK, InSend
<1>2. Fresh(t)'
  BY <1>1 DEF Fresh, Msg
<1>3. OwnBudget(t)' => OwnBudget(t)
  BY OwnBefore
<1> QED
  BY <1>1, <1>2, <1>3 DEF BudgetInv

LEMMA BudgetStep ==
  ASSUME NEW k, OnlyRetry(k), MaxTries > MaxRetries, TypeInv, TypeInv', BudgetInv(k), [Next]_vars
  PROVE  BudgetInv(k)'
<1> DEFINE B(t) == Fresh(t) /\ (OwnBudget(t) => Account(k, t))
<1> SUFFICES (\E t \in Threads : StepOf(t) /\ B(t)') \/ (\A t \in Threads : B(t)')
  BY OthersKeep DEF BudgetInv
<1> USE DEF Shared, Network, Client
<1>0. /\ k \in Nat /\ MaxRetries \in Nat /\ MaxTries \in Nat
      /\ \A t \in Threads : /\ EP(t) \in Endpoints
                            /\ attempts[EP(t)] \in 0..MaxRetries /\ attempts'[EP(t)] \in 0..MaxRetries
                            /\ mw[t] \in Nat /\ try[t] \in Nat /\ send[t] \in 0..MaxSends[t]
  <2>1. k \in Nat /\ MaxRetries \in Nat /\ MaxTries \in Nat
    BY PipelineLength DEF OnlyRetry
  <2>2. /\ attempts \in [Endpoints -> 0..MaxRetries] /\ attempts' \in [Endpoints -> 0..MaxRetries]
        /\ mw \in [Threads -> 1..(Len(Pipeline) + 1)] /\ try \in [Threads -> 1..MaxTries]
        /\ \A t \in Threads : send[t] \in 0..MaxSends[t]
    BY DEF TypeInv, TypeOK
  <2>3. \A t \in Threads : EP(t) \in Endpoints
    BY DEF EP, Endpoints
  <2>4. \A t \in Threads : mw[t] \in Nat /\ try[t] \in Nat
    BY <2>1, <2>2, PipelineLength
  <2> QED
    BY <2>1, <2>2, <2>3, <2>4
<1>1. ASSUME NEW t \in Threads, StartSend(t) PROVE StepOf(t) /\ B(t)'
  <2>1. /\ pc[t] = "idle" /\ pc'[t] = "post" /\ send'[t] = send[t] + 1 /\ try'[t] = 1
        /\ UNCHANGED <<attempts, result, mw, seen, retry>> /\ send[t] < MaxSends[t]
    BY <1>1 DEF StartSend, Goto, TypeInv, TypeOK, InSend
  <2>2. StepOf(t)
    BY <1>1 DEF StartSend, Goto, StepOf, TypeInv, TypeOK, InSend
  <2>3. Fresh(t) /\ send[t] \in 0..MaxSends[t] /\ MaxSends[t] \in Nat
    BY DEF BudgetInv, TypeInv, TypeOK
  <2>4. Fresh(t)'
    BY <2>1, <2>3 DEF Fresh
  <2>5. ASSUME OwnBudget(t)' PROVE Account(k, t)'
    <3>1. \A n \in 1..send[t] : result[<<t, n>>] # "raised"
      BY <2>1, <2>3, <2>5 DEF OwnBudget
    <3>2. OwnBudget(t) /\ (send[t] > 0 => result[Msg(t)] # "raised")
      BY <2>3, <2>5, <3>1 DEF OwnBudget, EP, Msg
    <3>3. attempts'[EP(t)] = 0
      BY <2>1, <3>2 DEF BudgetInv, Account
    <3>4. result'[<<t, send'[t]>>] = "none"
      BY <2>1, <2>3 DEF Fresh
    <3> QED
      BY <2>1, <3>3, <3>4 DEF Account, EP, Msg
  <2> QED
    BY <2>2, <2>4, <2>5
<1>2. ASSUME NEW t \in Threads, Post(t) PROVE StepOf(t) /\ B(t)'
  <2>1. /\ pc[t] = "post" /\ pc'[t] = "wait" /\ UNCHANGED <<send, result, attempts, try, mw, seen, retry>>
        /\ \A u \in Threads \ {t} : pc'[u] = pc[u]
    BY <1>2 DEF Post, Goto, TypeInv, TypeOK
  <2>2. StepOf(t)
    BY <2>1 DEF StepOf
  <2>3. Fresh(t)' /\ (OwnBudget(t)' => Account(k, t) /\ result[Msg(t)] = "none")
    BY <2>1, WithinOf
  <2> QED
    BY <2>1, <2>2, <2>3 DEF Account, Msg, EP
<1>3. ASSUME NEW t \in Threads, TransportFails(t) PROVE StepOf(t) /\ B(t)'
  <2>1. /\ pc[t] = "wait" /\ pc'[t] = "on_error" /\ mw'[t] = 1 /\ ~retry'[t]
        /\ UNCHANGED <<send, result, attempts, try, seen>>
        /\ \A u \in Threads \ {t} : pc'[u] = pc[u] /\ mw'[u] = mw[u] /\ retry'[u] = retry[u]
    BY <1>3 DEF TransportFails, Goto, TypeInv, TypeOK
  <2>2. StepOf(t)
    BY <2>1 DEF StepOf
  <2>3. Fresh(t)' /\ (OwnBudget(t)' => Account(k, t) /\ result[Msg(t)] = "none")
    BY <2>1, WithinOf
  <2>4. 1 <= k
    BY DEF OnlyRetry
  <2> QED
    BY <1>0, <2>1, <2>2, <2>3, <2>4 DEF Account, Msg, EP
<1>4. ASSUME NEW t \in Threads, ResponseArrives(t) PROVE StepOf(t) /\ B(t)'
  <2>1. /\ Finish(t, "ok") /\ pc[t] # "idle" /\ UNCHANGED <<send, try, mw, seen, retry>>
        /\ attempts' = [attempts EXCEPT ![EP(t)] = 0] /\ attempts \in [Endpoints -> 0..MaxRetries]
    BY <1>4 DEF ResponseArrives, TypeInv, TypeOK
  <2>2. Fresh(t)
    BY DEF BudgetInv
  <2>3. attempts'[EP(t)] = 0 /\ \A e \in Endpoints \ {EP(t)} : attempts'[e] = attempts[e]
    BY <1>0, <2>1
  <2>4. StepOf(t)
    BY <2>1, <2>2, <2>3, FinishOf DEF StepOf
  <2>5. pc'[t] = "idle" /\ result'[Msg(t)] = "ok" /\ Fresh(t)'
    BY <2>1, <2>2, FinishOf
  <2> QED
    BY <2>1, <2>3, <2>4, <2>5 DEF Account, Msg, EP
<1>5. ASSUME NEW t \in Threads, ResponseCut(t) PROVE StepOf(t) /\ B(t)'
  <2>1. /\ Finish(t, "raised") /\ pc[t] # "idle" /\ UNCHANGED <<send, try, mw, seen, retry, attempts>>
    BY <1>5 DEF ResponseCut
  <2>2. Fresh(t)
    BY DEF BudgetInv
  <2>4. StepOf(t)
    BY <2>1, <2>2, FinishOf DEF StepOf
  <2>5. pc'[t] = "idle" /\ result'[Msg(t)] = "raised" /\ Fresh(t)' /\ send[t] > 0
    BY <2>1, <2>2, FinishOf
  <2> QED
    BY <2>1, <2>4, <2>5 DEF Account, Msg, EP
<1>6. ASSUME NEW t \in Threads, CacheOnError(t) PROVE StepOf(t) /\ B(t)'
  <2>1. /\ pc[t] = "on_error" /\ mw[t] # k /\ mw' = [mw EXCEPT ![t] = mw[t] + 1]
        /\ UNCHANGED <<pc, send, result, attempts, try, seen, retry>>
    BY <1>6 DEF CacheOnError, OnlyRetry
  <2>2. mw'[t] = mw[t] + 1 /\ \A u \in Threads \ {t} : mw'[u] = mw[u]
    BY <2>1 DEF TypeInv, TypeOK
  <2>3. StepOf(t)
    BY <2>1, <2>2 DEF StepOf
  <2>4. Fresh(t)' /\ (OwnBudget(t)' => Account(k, t) /\ result[Msg(t)] = "none")
    BY <2>1, WithinOf
  <2>5. mw'[t] <= k <=> mw[t] <= k
    BY <1>0, <2>1, <2>2
  <2>6. mw'[t] > k <=> mw[t] > k
    BY <1>0, <2>1, <2>2
  <2>7. ASSUME OwnBudget(t)' PROVE Account(k, t)'
    BY <2>1, <2>4, <2>5, <2>6, <2>7 DEF Account, Msg, EP
  <2> QED
    BY <2>3, <2>4, <2>7
<1>7. ASSUME NEW t \in Threads, RetryOnError(t) PROVE StepOf(t) /\ B(t)'
  <2>1. /\ pc[t] = "on_error" /\ mw[t] = k /\ UNCHANGED <<send, result, try, retry>>
    BY <1>0, <1>7, PipelineLength DEF RetryOnError, OnlyRetry, TypeInv, TypeOK
  <2>2. Fresh(t)' /\ (OwnBudget(t)' => Account(k, t) /\ result[Msg(t)] = "none")
    BY <2>1, WithinOf
  <2>3. CASE attempts[EP(t)] >= MaxRetries
    <3>1. /\ attempts' = [attempts EXCEPT ![EP(t)] = 0] /\ mw' = [mw EXCEPT ![t] = mw[t] + 1]
          /\ UNCHANGED <<pc, seen>> /\ attempts \in [Endpoints -> 0..MaxRetries]
      BY <1>7, <2>3 DEF RetryOnError, TypeInv, TypeOK
    <3>2. attempts'[EP(t)] = 0 /\ \A e \in Endpoints \ {EP(t)} : attempts'[e] = attempts[e]
      BY <1>0, <3>1
    <3>3. mw'[t] = k + 1 /\ \A u \in Threads \ {t} : mw'[u] = mw[u]
      BY <2>1, <3>1 DEF TypeInv, TypeOK
    <3>4. StepOf(t)
      BY <2>1, <3>1, <3>2, <3>3 DEF StepOf
    <3>5. attempts[EP(t)] = MaxRetries
      BY <1>0, <2>3
    <3>6. ASSUME OwnBudget(t)' PROVE Account(k, t)'
      <4>1. Account(k, t) /\ mw[t] <= k
        BY <1>0, <2>1, <2>2, <3>6
      <4>2. attempts[EP(t)] = try[t] - 1 /\ ~retry[t]
        BY <2>1, <4>1 DEF Account
      <4>3. try[t] = MaxRetries + 1
        BY <1>0, <3>5, <4>2
      <4>4. /\ pc'[t] = "on_error" /\ mw'[t] > k /\ ~(mw'[t] <= k) /\ ~retry'[t]
            /\ attempts'[EP(t)] = 0 /\ try'[t] = MaxRetries + 1
        BY <1>0, <2>1, <3>1, <3>2, <3>3, <4>2, <4>3
      <4>5. send'[t] = send[t] /\ result' = result /\ result[Msg(t)] = "none"
        BY <2>1, <2>2, <3>6
      <4> QED
        BY <4>4, <4>5 DEF Account, EP, Msg
    <3> QED
      BY <2>2, <3>4, <3>6
  <2>4. CASE ~(attempts[EP(t)] >= MaxRetries)
    <3>1. /\ pc' = [pc EXCEPT ![t] = "backoff"] /\ seen' = [seen EXCEPT ![t] = attempts[EP(t)]]
          /\ UNCHANGED <<attempts, mw>>
      BY <1>7, <2>4 DEF RetryOnError, Goto
    <3>2. /\ pc'[t] = "backoff" /\ seen'[t] = attempts[EP(t)]
          /\ \A u \in Threads \ {t} : pc'[u] = pc[u] /\ seen'[u] = seen[u]
      BY <3>1 DEF TypeInv, TypeOK
    <3>3. StepOf(t)
      BY <2>1, <3>1, <3>2 DEF StepOf
    <3>4. ASSUME OwnBudget(t)' PROVE Account(k, t)'
      <4>1. Account(k, t) /\ mw[t] <= k /\ result[Msg(t)] = "none"
        BY <1>0, <2>1, <2>2, <3>4
      <4>2. attempts[EP(t)] = try[t] - 1
        BY <2>1, <4>1 DEF Account
      <4>3. /\ pc'[t] = "backoff" /\ seen'[t] = attempts[EP(t)] /\ try'[t] = try[t]
            /\ attempts'[EP(t)] = attempts[EP(t)]
        BY <2>1, <3>1, <3>2
      <4>4. send'[t] = send[t] /\ result' = result /\ result[Msg(t)] = "none"
        BY <2>1, <2>2, <3>4
      <4> QED
        BY <4>2, <4>3, <4>4 DEF Account, EP, Msg
    <3> QED
      BY <2>2, <3>3, <3>4
  <2> QED
    BY <2>3, <2>4
<1>8. ASSUME NEW t \in Threads, BackoffEnds(t) PROVE StepOf(t) /\ B(t)'
  <2>1. /\ pc[t] = "backoff" /\ mw[t] = k /\ UNCHANGED <<send, result, try, seen>>
        /\ attempts' = [attempts EXCEPT ![EP(t)] = seen[t] + 1]
        /\ attempts \in [Endpoints -> 0..MaxRetries]
    <3>1. /\ pc[t] = "backoff" /\ UNCHANGED <<send, result, try, seen>>
          /\ attempts' = [attempts EXCEPT ![EP(t)] = seen[t] + 1]
      BY <1>8 DEF BackoffEnds
    <3>2. mw[t] \in 1..Len(Pipeline) /\ Pipeline[mw[t]] = "retry"
      BY <3>1, PipelineLength DEF TypeInv, TypeOK, InSend
    <3>3. attempts \in [Endpoints -> 0..MaxRetries]
      BY DEF TypeInv, TypeOK
    <3> QED
      BY <3>1, <3>2, <3>3 DEF OnlyRetry
  <2>2. Fresh(t)' /\ (OwnBudget(t)' => Account(k, t) /\ result[Msg(t)] = "none")
    BY <2>1, WithinOf
  <2>3. /\ pc'[t] = "on_error" /\ mw'[t] = k + 1 /\ retry'[t]
        /\ \A u \in Threads \ {t} : pc'[u] = pc[u] /\ mw'[u] = mw[u] /\ retry'[u] = retry[u]
    BY <1>8, <2>1 DEF BackoffEnds, Goto, TypeInv, TypeOK
  <2>4. attempts'[EP(t)] = seen[t] + 1 /\ \A e \in Endpoints \ {EP(t)} : attempts'[e] = attempts[e]
    BY <1>0, <2>1
  <2>5. StepOf(t)
    BY <2>1, <2>3, <2>4 DEF StepOf
  <2> QED
    BY <1>0, <2>1, <2>2, <2>3, <2>4, <2>5 DEF Account, Msg, EP
<1>9. ASSUME NEW t \in Threads, DecideRetry(t) PROVE StepOf(t) /\ B(t)'
  <2>1. /\ pc[t] = "on_error" /\ mw[t] > k /\ UNCHANGED <<send, mw, seen, retry, attempts>>
    BY <1>0, <1>9, PipelineLength DEF DecideRetry, OnErrorDone, OnlyRetry
  <2>2. CASE retry[t]
    <3>1. /\ pc' = [pc EXCEPT ![t] = "post"] /\ UNCHANGED result
          /\ try' = [try EXCEPT ![t] = IF try[t] < MaxTries THEN try[t] + 1 ELSE try[t]]
      BY <1>9, <2>2 DEF DecideRetry, Goto
    <3>2. /\ pc'[t] = "post" /\ try'[t] = IF try[t] < MaxTries THEN try[t] + 1 ELSE try[t]
          /\ \A u \in Threads \ {t} : pc'[u] = pc[u] /\ try'[u] = try[u]
      BY <3>1 DEF TypeInv, TypeOK
    <3>3. StepOf(t)
      BY <2>1, <3>1, <3>2 DEF StepOf
    <3>4. Fresh(t)' /\ (OwnBudget(t)' => Account(k, t) /\ result[Msg(t)] = "none")
      BY <2>1, <3>1, WithinOf
    <3>5. Account(k, t) => attempts[EP(t)] = try[t] /\ try[t] < MaxTries
      BY <1>0, <2>1, <2>2 DEF Account
    <3> QED
      BY <1>0, <2>1, <3>1, <3>2, <3>3, <3>4, <3>5 DEF Account, Msg, EP
  <2>3. CASE ~retry[t]
    <3>1. Finish(t, "failed") /\ UNCHANGED try /\ pc[t] # "idle"
      BY <1>9, <2>1, <2>3 DEF DecideRetry
    <3>2. Fresh(t)
      BY DEF BudgetInv
    <3>3. /\ pc'[t] = "idle" /\ result'[Msg(t)] = "failed" /\ Fresh(t)' /\ send[t] > 0
          /\ \A n \in 1..MaxSends[t] : n < send[t] => result'[<<t, n>>] = result[<<t, n>>]
      BY <2>1, <3>1, <3>2, FinishOf
    <3>4. StepOf(t)
      BY <2>1, <3>1, <3>2, FinishOf DEF StepOf
    <3>5. OwnBudget(t)' => Account(k, t)
      BY <2>1, <3>3, OwnBefore DEF BudgetInv
    <3> QED
      BY <1>0, <2>1, <2>3, <3>1, <3>3, <3>4, <3>5 DEF Account, Msg, EP
  <2> QED
    BY <2>2, <2>3
<1>10. ASSUME UNCHANGED <<pc, Client, attempts, result>> PROVE \A t \in Threads : B(t)'
  BY <1>10 DEF BudgetInv, Fresh, OwnBudget, Account, Msg, EP
<1>11. ASSUME NEW r \in wire, ServerStores(r) \/ RequestLost(r)
       PROVE  UNCHANGED <<pc, Client, attempts, result>>
  BY <1>11 DEF ServerStores, RequestLost
<1>12. CASE UNCHANGED vars
  BY <1>10, <1>12 DEF vars
<1> QED
  BY <1>1, <1>2, <1>3, <1>4, <1>5, <1>6, <1>7, <1>8, <1>9, <1>10, <1>11, <1>12
     DEF Next, ClientStep

-----------------------------------------------------------------------------
\* The requests of a send that the server may still receive.
OnWire(m) == {r \in wire : r.msg = m}

\* How often a thread has posted its n-th send, at most.
Posted(t, n) ==
  IF n < send[t] THEN MaxRetries + 1
  ELSE IF n > send[t] THEN 0
  ELSE IF pc[t] = "post" THEN try[t] - 1 ELSE try[t]

\* No attempt is one too many, and none starts before the counter of its path
\* has grown; a counter left behind by an earlier send only allows fewer.
Spent(k, t) ==
  LET a == attempts[EP(t)]
  IN  /\ try[t] <= MaxRetries + 1
      /\ pc[t] \in {"post", "wait", "backoff"} => try[t] <= a + 1
      /\ pc[t] = "backoff" => seen[t] = a
      /\ pc[t] = "on_error" /\ mw[t] <= k => try[t] <= a + 1 /\ ~retry[t]
      /\ pc[t] = "on_error" /\ mw[t] > k /\ retry[t] => try[t] <= a

\* Every copy in the store and every request still to come has been posted.
Copies ==
  \A t \in Threads : OwnPath(t) => \A n \in 1..MaxSends[t] :
    /\ IsFiniteSet(OnWire(<<t, n>>))
    /\ stored[<<t, n>>] + Cardinality(OnWire(<<t, n>>)) <= Posted(t, n)

CopiesInv(k) == (\A t \in Threads : OwnPath(t) => Spent(k, t)) /\ Copies

\* A step of t moves neither the other threads nor their counters.
Still(t) ==
  /\ \A u \in Threads \ {t} :
       /\ pc'[u] = pc[u] /\ send'[u] = send[u] /\ try'[u] = try[u]
       /\ mw'[u] = mw[u] /\ seen'[u] = seen[u] /\ retry'[u] = retry[u]
  /\ \A e \in Endpoints \ {EP(t)} : attempts'[e] = attempts[e]

LEMMA OthersStill ==
  ASSUME TypeInv, NEW t \in Threads, StartSend(t) \/ ClientStep(t)
  PROVE  Still(t)
<1>0. /\ pc \in [Threads -> {"idle", "post", "wait", "on_error", "backoff"}]
      /\ send \in [Threads -> Nat] /\ try \in [Threads -> 1..MaxTries]
      /\ mw \in [Threads -> 1..(Len(Pipeline) + 1)] /\ seen \in [Threads -> Nat]
      /\ retry \in [Threads -> BOOLEAN] /\ attempts \in [Endpoints -> 0..MaxRetries]
  BY DEF TypeInv, TypeOK, InSend
<1> USE <1>0 DEF Shared, Network, Client, Goto, Finish, Still
<1>1. CASE StartSend(t)
  BY <1>1 DEF StartSend
<1>2. CASE Post(t)
  BY <1>2 DEF Post
<1>3. CASE ResponseArrives(t)
  BY <1>3 DEF ResponseArrives
<1>4. CASE TransportFails(t)
  BY <1>4 DEF TransportFails
<1>5. CASE ResponseCut(t)
  BY <1>5 DEF ResponseCut
<1>6. CASE CacheOnError(t)
  BY <1>6 DEF CacheOnError
<1>7. CASE RetryOnError(t)
  BY <1>7 DEF RetryOnError
<1>8. CASE BackoffEnds(t)
  BY <1>8 DEF BackoffEnds
<1>9. CASE DecideRetry(t)
  BY <1>9 DEF DecideRetry
<1> QED
  BY <1>1, <1>2, <1>3, <1>4, <1>5, <1>6, <1>7, <1>8, <1>9 DEF ClientStep

LEMMA SpentStill ==
  ASSUME NEW k, NEW t \in Threads, Still(t), NEW u \in Threads \ {t}, OwnPath(u), Spent(k, u)
  PROVE  Spent(k, u)'
<1>1. EP(u) \in Endpoints /\ EP(u) # EP(t)
  BY DEF OwnPath, EP, Endpoints
<1>2. /\ pc'[u] = pc[u] /\ try'[u] = try[u] /\ mw'[u] = mw[u] /\ seen'[u] = seen[u]
      /\ retry'[u] = retry[u] /\ attempts'[EP(u)] = attempts[EP(u)]
  BY <1>1 DEF Still
<1> QED
  BY <1>2 DEF Spent, EP

\* What a step of t does to its own account, and how often it has then posted.
LEMMA SpentStep ==
  ASSUME NEW k, OnlyRetry(k), MaxTries > MaxRetries, TypeInv, TypeInv',
         NEW t \in Threads, Spent(k, t), StartSend(t) \/ ClientStep(t)
  PROVE  /\ Spent(k, t)'
         /\ \/ /\ send'[t] = send[t] + 1 /\ pc'[t] = "post" /\ try'[t] = 1
            \/ /\ send'[t] = send[t] /\ pc'[t] # "post" /\ try'[t] = try[t]
            \/ /\ send'[t] = send[t] /\ pc[t] # "post" /\ pc'[t] = "post" /\ try'[t] = try[t] + 1
<1> USE DEF Shared, Network, Client
<1>0. /\ k \in Nat /\ MaxRetries \in Nat /\ MaxTries \in Nat /\ EP(t) \in Endpoints
      /\ attempts[EP(t)] \in 0..MaxRetries /\ mw[t] \in Nat /\ try[t] \in Nat /\ send[t] \in Nat
      /\ seen[t] \in Nat /\ retry[t] \in BOOLEAN
      /\ attempts \in [Endpoints -> 0..MaxRetries] /\ mw \in [Threads -> 1..(Len(Pipeline) + 1)]
      /\ try \in [Threads -> 1..MaxTries] /\ send \in [Threads -> Nat]
      /\ pc \in [Threads -> {"idle", "post", "wait", "on_error", "backoff"}]
      /\ seen \in [Threads -> Nat] /\ retry \in [Threads -> BOOLEAN]
  <2>1. EP(t) \in Endpoints /\ k \in Nat /\ MaxRetries \in Nat /\ MaxTries \in Nat
    BY PipelineLength DEF OnlyRetry, EP, Endpoints
  <2>2. /\ attempts \in [Endpoints -> 0..MaxRetries] /\ mw \in [Threads -> 1..(Len(Pipeline) + 1)]
        /\ try \in [Threads -> 1..MaxTries] /\ send \in [Threads -> Nat]
        /\ pc \in [Threads -> {"idle", "post", "wait", "on_error", "backoff"}]
        /\ seen \in [Threads -> Nat] /\ retry \in [Threads -> BOOLEAN]
    BY DEF TypeInv, TypeOK, InSend
  <2>3. mw[t] \in Nat /\ try[t] \in Nat
    BY <2>2, PipelineLength
  <2>4. attempts[EP(t)] \in 0..MaxRetries /\ send[t] \in Nat /\ seen[t] \in Nat /\ retry[t] \in BOOLEAN
    BY <2>1, <2>2
  <2> QED
    BY <2>1, <2>2, <2>3, <2>4
<1>1. CASE StartSend(t)
  <2>1. /\ pc'[t] = "post" /\ send'[t] = send[t] + 1 /\ try'[t] = 1 /\ attempts' = attempts
    BY <1>0, <1>1 DEF StartSend, Goto
  <2> QED
    BY <1>0, <2>1 DEF Spent, EP
<1>2. CASE Post(t)
  <2>1. /\ pc[t] = "post" /\ pc'[t] = "wait"
        /\ UNCHANGED <<send, attempts, try, mw, seen, retry>>
    BY <1>0, <1>2 DEF Post, Goto
  <2> QED
    BY <1>0, <2>1 DEF Spent, EP
<1>3. CASE ResponseArrives(t) \/ ResponseCut(t)
  <2>1. pc'[t] = "idle" /\ UNCHANGED <<send, try>>
    BY <1>0, <1>3 DEF ResponseArrives, ResponseCut, Finish, Goto
  <2> QED
    BY <1>0, <2>1 DEF Spent, EP
<1>4. CASE TransportFails(t)
  <2>1. /\ pc[t] = "wait" /\ pc'[t] = "on_error" /\ ~retry'[t] /\ mw'[t] = 1
        /\ UNCHANGED <<send, attempts, try>>
    BY <1>0, <1>4 DEF TransportFails, Goto
  <2>2. 1 <= k
    BY DEF OnlyRetry
  <2> QED
    BY <1>0, <2>1, <2>2 DEF Spent, EP
<1>5. CASE CacheOnError(t)
  <2>1. /\ pc[t] = "on_error" /\ mw[t] # k /\ mw'[t] = mw[t] + 1
        /\ UNCHANGED <<pc, send, attempts, try, retry>>
    BY <1>0, <1>5 DEF CacheOnError, OnlyRetry
  <2>2. mw'[t] <= k <=> mw[t] <= k
    BY <1>0, <2>1
  <2> QED
    BY <1>0, <2>1, <2>2 DEF Spent, EP
<1>6. CASE RetryOnError(t)
  <2>1. pc[t] = "on_error" /\ mw[t] = k /\ UNCHANGED <<send, try, retry>>
    BY <1>0, <1>6, PipelineLength DEF RetryOnError, OnlyRetry
  <2>2. CASE attempts[EP(t)] >= MaxRetries
    <3>1. mw'[t] = k + 1 /\ UNCHANGED pc
      BY <1>0, <1>6, <2>1, <2>2 DEF RetryOnError
    <3> QED
      BY <1>0, <2>1, <3>1 DEF Spent, EP
  <2>3. CASE ~(attempts[EP(t)] >= MaxRetries)
    <3>1. pc'[t] = "backoff" /\ seen'[t] = attempts[EP(t)] /\ UNCHANGED attempts
      BY <1>0, <1>6, <2>3 DEF RetryOnError, Goto
    <3> QED
      BY <1>0, <2>1, <3>1 DEF Spent, EP
  <2> QED
    BY <2>2, <2>3
<1>7. CASE BackoffEnds(t)
  <2>1. pc[t] = "backoff" /\ mw[t] = k
    <3>1. pc[t] = "backoff"
      BY <1>7 DEF BackoffEnds
    <3>2. mw[t] \in 1..Len(Pipeline) /\ Pipeline[mw[t]] = "retry"
      BY <1>0, <3>1, PipelineLength DEF TypeInv, InSend
    <3> QED
      BY <3>1, <3>2 DEF OnlyRetry
  <2>2. /\ pc'[t] = "on_error" /\ mw'[t] = k + 1 /\ retry'[t] /\ attempts'[EP(t)] = seen[t] + 1
        /\ UNCHANGED <<send, try, seen>>
    BY <1>0, <1>7, <2>1 DEF BackoffEnds, Goto
  <2> QED
    BY <1>0, <2>1, <2>2 DEF Spent, EP
<1>8. CASE DecideRetry(t)
  <2>1. pc[t] = "on_error" /\ mw[t] > k /\ UNCHANGED <<send, attempts>>
    BY <1>0, <1>8, PipelineLength DEF DecideRetry, OnErrorDone, OnlyRetry
  <2>2. CASE retry[t]
    <3>1. pc'[t] = "post" /\ try'[t] = IF try[t] < MaxTries THEN try[t] + 1 ELSE try[t]
      BY <1>0, <1>8, <2>2 DEF DecideRetry, Goto
    <3>2. try[t] <= attempts[EP(t)] /\ try[t] < MaxTries
      BY <1>0, <2>1, <2>2 DEF Spent
    <3>3. try'[t] = try[t] + 1 /\ attempts'[EP(t)] = attempts[EP(t)]
      BY <2>1, <3>1, <3>2
    <3> QED
      BY <1>0, <2>1, <3>1, <3>2, <3>3 DEF Spent, EP
  <2>3. CASE ~retry[t]
    <3>1. pc'[t] = "idle" /\ UNCHANGED try
      BY <1>0, <1>8, <2>3 DEF DecideRetry, Finish, Goto
    <3> QED
      BY <1>0, <2>1, <3>1 DEF Spent, EP
  <2> QED
    BY <2>2, <2>3
<1> QED
  BY <1>1, <1>2, <1>3, <1>4, <1>5, <1>6, <1>7, <1>8 DEF ClientStep

LEMMA Counts == TypeInv => \A u \in Threads : try[u] \in Nat /\ send[u] \in Nat
BY DEF TypeInv, TypeOK, InSend

LEMMA CountsNext == TypeInv' => \A u \in Threads : try'[u] \in Nat /\ send'[u] \in Nat
<1>1. (TypeInv => \A u \in Threads : try[u] \in Nat /\ send[u] \in Nat)'
  BY Counts, PTL
<1> QED
  BY <1>1

\* Nothing is posted or stored, and no count of posts sinks.
LEMMA CopiesKept ==
  ASSUME TypeInv, TypeInv', Copies, wire' \subseteq wire, UNCHANGED stored,
         \A u \in Threads : OwnPath(u) =>
           \A n \in 1..MaxSends[u] : Posted(u, n) <= Posted(u, n)'
  PROVE  Copies'
<1> SUFFICES ASSUME NEW u \in Threads, OwnPath(u), NEW n \in 1..MaxSends[u]
             PROVE  /\ IsFiniteSet(OnWire(<<u, n>>)')
                    /\ stored'[<<u, n>>] + Cardinality(OnWire(<<u, n>>)') <= Posted(u, n)'
  BY DEF Copies, OnWire
<1>1. OnWire(<<u, n>>)' \subseteq OnWire(<<u, n>>)
  BY DEF OnWire
<1>2. /\ IsFiniteSet(OnWire(<<u, n>>))
      /\ stored[<<u, n>>] + Cardinality(OnWire(<<u, n>>)) <= Posted(u, n)
  BY DEF Copies
<1>3. /\ IsFiniteSet(OnWire(<<u, n>>)') /\ Cardinality(OnWire(<<u, n>>)') <= Cardinality(OnWire(<<u, n>>))
      /\ Cardinality(OnWire(<<u, n>>)') \in Nat /\ Cardinality(OnWire(<<u, n>>)) \in Nat
  BY <1>1, <1>2, FS_Subset, FS_CardinalityType
<1>4. stored'[<<u, n>>] = stored[<<u, n>>] /\ stored[<<u, n>>] \in Nat
  <2>1. <<u, n>> \in Msgs
    BY DEF Msgs
  <2> QED
    BY <2>1 DEF TypeInv, TypeOK
<1>5. Posted(u, n) \in Int /\ Posted(u, n)' \in Int /\ Posted(u, n) <= Posted(u, n)'
  <2>1. try[u] \in Nat /\ try'[u] \in Nat /\ MaxRetries \in Nat
    BY Counts, CountsNext
  <2>2. Posted(u, n) \in Int
    BY <2>1 DEF Posted
  <2>3. Posted(u, n)' \in Int
    BY <2>1 DEF Posted
  <2> QED
    BY <2>2, <2>3
<1> QED
  BY <1>2, <1>3, <1>4, <1>5

LEMMA PostedGrows ==
  ASSUME NEW k, OnlyRetry(k), MaxTries > MaxRetries, TypeInv, TypeInv',
         NEW t \in Threads, OwnPath(t) => Spent(k, t), StartSend(t) \/ ClientStep(t),
         NEW u \in Threads, OwnPath(u), NEW n \in 1..MaxSends[u]
  PROVE  Posted(u, n) <= Posted(u, n)'
<1>1. /\ try[u] \in Nat /\ try'[u] \in Nat /\ MaxRetries \in Nat /\ n \in Nat
      /\ send[u] \in Nat /\ send'[u] \in Nat
  BY Counts, CountsNext
<1>2. CASE u # t
  <2>1. send'[u] = send[u] /\ pc'[u] = pc[u] /\ try'[u] = try[u]
    BY <1>2, OthersStill DEF Still
  <2> QED
    BY <1>1, <2>1 DEF Posted
<1>3. CASE u = t
  <2>1. try[u] <= MaxRetries + 1
    BY <1>3 DEF Spent
  <2>2. CASE send'[u] = send[u] + 1 /\ pc'[u] = "post" /\ try'[u] = 1
    BY <1>1, <2>1, <2>2 DEF Posted
  <2>3. CASE send'[u] = send[u] /\ pc'[u] # "post" /\ try'[u] = try[u]
    BY <1>1, <2>1, <2>3 DEF Posted
  <2>4. CASE send'[u] = send[u] /\ pc[u] # "post" /\ pc'[u] = "post" /\ try'[u] = try[u] + 1
    BY <1>1, <2>1, <2>4 DEF Posted
  <2> QED
    BY <1>3, <2>2, <2>3, <2>4, SpentStep
<1> QED
  BY <1>2, <1>3

\* A post counts as one, whether or not the network held the request already.
LEMMA PostCopies ==
  ASSUME TypeInv, TypeInv', Copies, NEW t \in Threads, Post(t),
         \A u \in Threads : OwnPath(u) =>
           \A n \in 1..MaxSends[u] : Posted(u, n) <= Posted(u, n)'
  PROVE  Copies'
<1> SUFFICES ASSUME NEW u \in Threads, OwnPath(u), NEW n \in 1..MaxSends[u]
             PROVE  /\ IsFiniteSet(OnWire(<<u, n>>)')
                    /\ stored'[<<u, n>>] + Cardinality(OnWire(<<u, n>>)') <= Posted(u, n)'
  BY DEF Copies, OnWire
<1> DEFINE Old == OnWire(<<u, n>>)
           New == OnWire(<<u, n>>)'
<1>1. /\ wire' = wire \cup {Request(t)} /\ Request(t).msg = <<t, send[t]>> /\ UNCHANGED <<stored, send, try>>
      /\ pc[t] = "post" /\ pc' = [pc EXCEPT ![t] = "wait"]
  BY DEF Post, Request, Msg, Goto, Client
<1>2. IsFiniteSet(Old) /\ stored[<<u, n>>] + Cardinality(Old) <= Posted(u, n)
  BY DEF Copies
<1>3. Posted(u, n) \in Int /\ Posted(u, n)' \in Int /\ Posted(u, n) <= Posted(u, n)'
  <2>1. try[u] \in Nat /\ try'[u] \in Nat /\ MaxRetries \in Nat
    BY Counts, CountsNext
  <2>2. Posted(u, n) \in Int
    BY <2>1 DEF Posted
  <2>3. Posted(u, n)' \in Int
    BY <2>1 DEF Posted
  <2> QED
    BY <2>2, <2>3
<1>4. stored[<<u, n>>] \in Nat
  <2>1. <<u, n>> \in Msgs
    BY DEF Msgs
  <2> QED
    BY <2>1 DEF TypeInv, TypeOK
<1>5. CASE <<u, n>> = <<t, send[t]>>
  <2>1. New = Old \cup {Request(t)}
    BY <1>1, <1>5 DEF OnWire
  <2>2. /\ IsFiniteSet(New) /\ Cardinality(New) <= Cardinality(Old) + 1
        /\ Cardinality(New) \in Nat /\ Cardinality(Old) \in Nat
    <3> HIDE DEF Old, New
    <3>1. /\ IsFiniteSet(Old \cup {Request(t)})
          /\ Cardinality(Old \cup {Request(t)}) = IF Request(t) \in Old THEN Cardinality(Old)
                                                                      ELSE Cardinality(Old) + 1
      BY <1>2, FS_AddElement
    <3>2. Cardinality(Old) \in Nat
      BY <1>2, FS_CardinalityType
    <3> QED
      BY <2>1, <3>1, <3>2
  <2>3. Posted(u, n)' = Posted(u, n) + 1
    <3>1. u = t /\ n = send[t] /\ pc'[t] = "wait" /\ try[t] \in Nat /\ n \in Nat
      BY <1>1, <1>5 DEF TypeInv, TypeOK
    <3> QED
      BY <1>1, <3>1 DEF Posted
  <2> HIDE DEF Old, New
  <2>4. stored[<<u, n>>] + Cardinality(New) <= Posted(u, n)'
    <3> DEFINE kept == stored[<<u, n>>]
               old == Cardinality(Old)
               new == Cardinality(New)
    <3>1. kept \in Nat /\ old \in Nat /\ new \in Nat
      BY <1>4, <2>2
    <3>2. new <= old + 1
      BY <2>2
    <3>3. kept + old <= Posted(u, n)
      BY <1>2
    <3> HIDE DEF kept, old, new
    <3>4. kept + new <= Posted(u, n)'
      BY <1>3, <2>3, <3>1, <3>2, <3>3
    <3> QED
      BY <3>4 DEF kept, new
  <2> QED
    BY <1>1, <2>2, <2>4 DEF New
<1>6. CASE <<u, n>> # <<t, send[t]>>
  <2>1. New = Old
    BY <1>1, <1>6 DEF OnWire
  <2>2. Cardinality(Old) \in Nat
    BY <1>2, FS_CardinalityType
  <2>3. stored[<<u, n>>] + Cardinality(Old) <= Posted(u, n)'
    <3> HIDE DEF Old
    <3> QED
      BY <1>2, <1>3, <1>4, <2>2
  <2> QED
    BY <1>1, <1>2, <2>1, <2>3
<1> QED
  BY <1>5, <1>6

\* The server takes a copy from the wire and puts it into its store.
LEMMA StoreCopies ==
  ASSUME TypeInv, Copies, NEW r \in wire, ServerStores(r)
  PROVE  Copies'
<1> SUFFICES ASSUME NEW u \in Threads, OwnPath(u), NEW n \in 1..MaxSends[u]
             PROVE  /\ IsFiniteSet(OnWire(<<u, n>>)')
                    /\ stored'[<<u, n>>] + Cardinality(OnWire(<<u, n>>)') <= Posted(u, n)'
  BY DEF Copies, OnWire
<1> DEFINE Old == OnWire(<<u, n>>)
           New == OnWire(<<u, n>>)'
<1>1. /\ wire' = wire \ {r} /\ stored' = [stored EXCEPT ![r.msg] = stored[r.msg] + 1]
      /\ UNCHANGED <<pc, send, try>> /\ stored \in [Msgs -> Nat] /\ <<u, n>> \in Msgs
  <2>1. <<u, n>> \in Msgs
    BY DEF Msgs
  <2>2. stored \in [Msgs -> Nat]
    BY DEF TypeInv, TypeOK
  <2> QED
    BY <2>1, <2>2 DEF ServerStores, Client
<1>2. IsFiniteSet(Old) /\ stored[<<u, n>>] + Cardinality(Old) <= Posted(u, n)
  BY DEF Copies
<1>3. Posted(u, n)' = Posted(u, n)
  BY <1>1 DEF Posted
<1>4. Posted(u, n) \in Int /\ stored[<<u, n>>] \in Nat
  <2>1. try[u] \in Nat /\ MaxRetries \in Nat
    BY DEF TypeInv, TypeOK
  <2> QED
    BY <1>1, <2>1 DEF Posted
<1>5. Cardinality(Old) \in Nat
  BY <1>2, FS_CardinalityType
<1>6. CASE r.msg = <<u, n>>
  <2>1. New = Old \ {r} /\ r \in Old
    BY <1>1, <1>6 DEF OnWire
  <2>2. IsFiniteSet(New) /\ Cardinality(New) = Cardinality(Old) - 1
    <3> HIDE DEF Old, New
    <3> QED
      BY <1>2, <2>1, FS_RemoveElement
  <2>3. stored'[<<u, n>>] = stored[<<u, n>>] + 1
    BY <1>1, <1>6
  <2>4. stored'[<<u, n>>] + Cardinality(New) <= Posted(u, n)'
    <3> HIDE DEF Old, New
    <3> QED
      BY <1>2, <1>3, <1>4, <1>5, <2>2, <2>3
  <2> QED
    BY <2>2, <2>4
<1>7. CASE r.msg # <<u, n>>
  <2>1. New = Old
    BY <1>1, <1>7 DEF OnWire
  <2>2. stored'[<<u, n>>] = stored[<<u, n>>]
    BY <1>1, <1>7
  <2> QED
    BY <1>2, <1>3, <2>1, <2>2
<1> QED
  BY <1>6, <1>7

LEMMA CopiesInit == \A k : Init => CopiesInv(k)
<1> SUFFICES ASSUME NEW k, Init, NEW t \in Threads
             PROVE  /\ Spent(k, t)
                    /\ \A n \in 1..MaxSends[t] :
                         /\ IsFiniteSet(OnWire(<<t, n>>))
                         /\ stored[<<t, n>>] + Cardinality(OnWire(<<t, n>>)) <= Posted(t, n)
  BY DEF CopiesInv, Copies
<1>1. pc[t] = "idle" /\ try[t] = 1 /\ send[t] = 0 /\ wire = {}
  BY DEF Init
<1>2. Spent(k, t)
  BY <1>1 DEF Spent
<1>3. ASSUME NEW n \in 1..MaxSends[t]
      PROVE  /\ IsFiniteSet(OnWire(<<t, n>>))
             /\ stored[<<t, n>>] + Cardinality(OnWire(<<t, n>>)) <= Posted(t, n)
  <2>0. <<t, n>> \in Msgs /\ n > 0
    BY DEF Msgs
  <2>1. OnWire(<<t, n>>) = {} /\ stored[<<t, n>>] = 0 /\ Posted(t, n) = 0
    BY <1>1, <2>0 DEF OnWire, Posted, Init
  <2>2. IsFiniteSet({}) /\ Cardinality({}) = 0
    BY FS_EmptySet
  <2>3. IsFiniteSet(OnWire(<<t, n>>)) /\ Cardinality(OnWire(<<t, n>>)) = 0
    BY <2>1, <2>2
  <2> QED
    BY <2>1, <2>3
<1> QED
  BY <1>2, <1>3

LEMMA CopiesStep ==
  ASSUME NEW k, OnlyRetry(k), MaxTries > MaxRetries, TypeInv, TypeInv', CopiesInv(k),
         [Next]_vars
  PROVE  CopiesInv(k)'
<1> USE DEF Shared, Network, Client
<1>0. Copies /\ \A t \in Threads : OwnPath(t) => Spent(k, t)
  BY DEF CopiesInv
<1>1. ASSUME NEW t \in Threads, StartSend(t) \/ ClientStep(t) PROVE CopiesInv(k)'
  <2>1. \A u \in Threads : OwnPath(u) => Spent(k, u)'
    <3>1. OwnPath(t) => Spent(k, t)'
      BY <1>0, <1>1, SpentStep
    <3>2. \A u \in Threads \ {t} : OwnPath(u) => Spent(k, u)'
      BY <1>0, <1>1, OthersStill, SpentStill
    <3> QED
      BY <3>1, <3>2
  <2>2. \A u \in Threads : OwnPath(u) =>
          \A n \in 1..MaxSends[u] : Posted(u, n) <= Posted(u, n)'
    BY <1>0, <1>1, PostedGrows
  <2>3. Post(t) \/ (wire' \subseteq wire /\ UNCHANGED stored)
    BY <1>1 DEF ClientStep, StartSend, ResponseArrives, TransportFails, ResponseCut,
                CacheOnError, RetryOnError, BackoffEnds, DecideRetry
  <2>4. Copies'
    BY <1>0, <2>2, <2>3, PostCopies, CopiesKept
  <2> QED
    BY <2>1, <2>4 DEF CopiesInv
<1>2. ASSUME UNCHANGED <<pc, send, try, mw, seen, retry, attempts>>
      PROVE  /\ \A t \in Threads : OwnPath(t) => Spent(k, t)'
             /\ \A u \in Threads : \A n \in 1..MaxSends[u] : Posted(u, n)' = Posted(u, n)
  BY <1>0, <1>2 DEF Spent, Posted, EP
<1>3. ASSUME NEW r \in wire, ServerStores(r) PROVE CopiesInv(k)'
  <2>1. UNCHANGED <<pc, send, try, mw, seen, retry, attempts>>
    BY <1>3 DEF ServerStores
  <2> QED
    BY <1>0, <1>2, <1>3, <2>1, StoreCopies DEF CopiesInv
<1>4. ASSUME UNCHANGED <<pc, send, try, mw, seen, retry, attempts, stored>>, wire' \subseteq wire
      PROVE  CopiesInv(k)'
  <2>1. \A u \in Threads : OwnPath(u) =>
          \A n \in 1..MaxSends[u] : Posted(u, n) <= Posted(u, n)'
    <3> SUFFICES ASSUME NEW u \in Threads, OwnPath(u), NEW n \in 1..MaxSends[u]
                 PROVE  Posted(u, n) <= Posted(u, n)'
      OBVIOUS
    <3>1. try[u] \in Nat /\ MaxRetries \in Nat
      BY DEF TypeInv, TypeOK
    <3>2. Posted(u, n)' = Posted(u, n) /\ Posted(u, n) \in Int
      BY <1>2, <1>4, <3>1 DEF Posted
    <3> QED
      BY <3>2
  <2> QED
    BY <1>0, <1>2, <1>4, <2>1, CopiesKept DEF CopiesInv
<1>5. ASSUME NEW r \in wire, RequestLost(r) PROVE CopiesInv(k)'
  BY <1>4, <1>5 DEF RequestLost
<1>6. CASE UNCHANGED vars
  BY <1>4, <1>6 DEF vars
<1> QED
  BY <1>1, <1>3, <1>5, <1>6 DEF Next

\* Where a thread has a path to itself, and there is one RetryMiddleware, its sends
\* are stored once per attempt at most, and there are max_retries + 1 of them:
\* late copies are counted, and a counter that an earlier send left behind, by
\* ending in an exception, only makes the attempts fewer.
THEOREM CopiesAreBounded ==
  ASSUME NEW k, OnlyRetry(k), MaxTries > MaxRetries
  PROVE  Spec => []CopiesBounded
<1>1. Init => CopiesInv(k)
  BY CopiesInit
<1>2. TypeInv /\ TypeInv' /\ CopiesInv(k) /\ [Next]_vars => CopiesInv(k)'
  BY CopiesStep
<1>3. TypeInv /\ CopiesInv(k) => CopiesBounded
  <2> SUFFICES ASSUME TypeInv, CopiesInv(k), NEW m \in Msgs, OwnPath(m[1])
               PROVE  stored[m] <= MaxRetries + 1
    BY DEF CopiesBounded
  <2>1. PICK t \in Threads : \E n \in 1..MaxSends[t] : m = <<t, n>>
    BY DEF Msgs
  <2>2. PICK n \in 1..MaxSends[t] : m = <<t, n>>
    BY <2>1
  <2>7. OwnPath(t)
    BY <2>2
  <2>3. Spent(k, t) /\ IsFiniteSet(OnWire(m)) /\ stored[m] + Cardinality(OnWire(m)) <= Posted(t, n)
    BY <2>2, <2>7 DEF CopiesInv, Copies
  <2>4. try[t] \in Nat /\ try[t] <= MaxRetries + 1 /\ MaxRetries \in Nat /\ stored[m] \in Nat
    BY <2>3 DEF Spent, TypeInv, TypeOK
  <2>5. Posted(t, n) \in Int /\ Posted(t, n) <= MaxRetries + 1
    BY <2>4 DEF Posted
  <2>6. Cardinality(OnWire(m)) \in Nat
    BY <2>3, FS_CardinalityType
  <2> QED
    BY <2>3, <2>4, <2>5, <2>6
<1> QED
  BY <1>1, <1>2, <1>3, TypeInit, TypeStep, PTL DEF Spec

\* What the accounts say of a send's attempts.
LEMMA BudgetHolds ==
  ASSUME NEW k, OnlyRetry(k), TypeInv, BudgetInv(k), CopiesInv(k)
  PROVE  RetryBudget
<1> SUFFICES ASSUME NEW t \in Threads, OwnPath(t), send[t] > 0
             PROVE  /\ try[t] <= MaxRetries + 1
                    /\ OwnBudget(t) /\ result[Msg(t)] = "failed" => try[t] = MaxRetries + 1
  BY DEF RetryBudget
<1>1. try[t] <= MaxRetries + 1
  BY DEF CopiesInv, Spent
<1>2. ASSUME OwnBudget(t), result[Msg(t)] = "failed" PROVE try[t] = MaxRetries + 1
  <2>1. Account(k, t)
    BY <1>2 DEF BudgetInv
  <2> QED
    BY <1>2, <2>1 DEF Account
<1> QED
  BY <1>1, <1>2

\* Wherever in the pipeline the one RetryMiddleware stands and whatever the
\* threads on other paths do, a send is tried again at most max_retries times,
\* also with a count left behind; and exactly so often when it fails, if no send
\* before it on its path has left one.
THEOREM RetriesWithinBudget ==
  ASSUME NEW k, OnlyRetry(k), MaxTries > MaxRetries
  PROVE  Spec => []RetryBudget
<1>1. Init => BudgetInv(k) /\ CopiesInv(k)
  BY BudgetInit, CopiesInit
<1>2. TypeInv /\ TypeInv' /\ BudgetInv(k) /\ [Next]_vars => BudgetInv(k)'
  BY BudgetStep
<1>3. TypeInv /\ TypeInv' /\ CopiesInv(k) /\ [Next]_vars => CopiesInv(k)'
  BY CopiesStep
<1>4. TypeInv /\ BudgetInv(k) /\ CopiesInv(k) => RetryBudget
  BY BudgetHolds
<1> QED
  BY <1>1, <1>2, <1>3, <1>4, TypeInit, TypeStep, PTL DEF Spec
=============================================================================
