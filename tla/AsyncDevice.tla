----------------------------- MODULE AsyncDevice -----------------------------
(***************************************************************************)
(* AsyncRISELDevice (client/async_device.py) with RetryMiddleware over     *)
(* AsyncHTTPTransport (client/async_transport.py): start, stop,            *)
(* wait_closed, report and the heartbeat task, as tasks of one event loop. *)
(* A task gives way only where it awaits something that suspends, so a     *)
(* step runs from one such await to the next.  RetryMiddleware.on_error    *)
(* sleeps with time.sleep, which stops the whole loop: no other task runs  *)
(* between a failed send and its retry.                                    *)
(* Run i is the i-th start() that succeeds, with the heartbeat task it     *)
(* makes.                                                                  *)
(***************************************************************************)
EXTENDS Naturals, FiniteSets

CONSTANTS
  Mains,       \* application tasks that call the device
  MaxRetries,  \* RetryMiddleware.max_retries
  MaxStarts,   \* bound: runs
  MaxBeats,    \* bound: heartbeats of each heartbeat task
  MaxReports,  \* bound: calls of report() and transport()
  MaxCancels   \* bound: cancellations of application tasks

ASSUME AsyncDeviceAssumption ==
  {MaxRetries, MaxStarts, MaxBeats, MaxReports, MaxCancels} \subseteq Nat

Runs == 1..MaxStarts
Beat(i) == <<"heartbeat", i>>
Beats == {Beat(i) : i \in Runs}
Tasks == Mains \cup Beats

ASSUME TasksAssumption == Mains \cap Beats = {}

VARIABLES
  running,    \* self._running
  task,       \* the run of self._heartbeat_task, 0 for None
  closed,     \* self._closed is set
  session,    \* the transport's _session: "none", "open" or "closed"
  orphaned,   \* an open session that nobody refers to any more has been left
  detached,   \* tasks that are closing a transport the device has replaced since
  attempts,   \* RetryMiddleware._attempts
  pc,         \* the await each task is suspended in
  awaited,    \* the run whose task a stop() awaits
  tries,      \* sends of the message each task is sending, up to one too many
  cancelled,  \* runs whose task has been cancelled and does not know yet
  starts, beats, reports, cancels,     \* counters of the bounds
  noted       \* history: what has happened that the properties except

device == <<running, task, closed>>
transport == <<session, orphaned, detached>>
counters == <<starts, beats, reports, cancels>>
vars == <<device, transport, attempts, pc, awaited, tries, cancelled, counters, noted>>

Endpoints == {"heartbeat", "report"}

Init ==
  /\ running = FALSE /\ task = 0 /\ closed = FALSE
  /\ session = "none" /\ orphaned = FALSE /\ detached = {}
  /\ attempts = [e \in Endpoints |-> 0]
  /\ pc = [t \in Tasks |-> IF t \in Mains THEN "idle" ELSE "none"]
  /\ awaited = [t \in Tasks |-> 0]
  /\ tries = [t \in Tasks |-> 0]
  /\ cancelled = {}
  /\ starts = 0 /\ beats = [i \in Runs |-> 0] /\ reports = 0 /\ cancels = 0
  /\ noted = {}

Goto(t, l) == pc' = [pc EXCEPT ![t] = l]

\* Tasks within start() or stop().
Starting == {"first", "started"}
Active == {t \in Tasks : pc[t] \in Starting \cup {"ready", "join", "close"}}

Left == [heartbeat |-> "left_heartbeat", report |-> "left_report"]
Note(event, holds) == noted' = IF holds THEN noted \cup {event} ELSE noted

-----------------------------------------------------------------------------
(* _send: before_send, transport.send, on_error or after_send. *)

\* Mutant: a new session, whether or not the one there is open.
OpenSessionAnew == /\ session' = "open"
                   /\ orphaned' = (orphaned \/ session = "open")
                   /\ UNCHANGED detached

\* connect(): a session, unless the one there is open.
OpenSession == session' = "open" /\ UNCHANGED <<orphaned, detached>>

\* transport.send opens the session it needs.  "late": it does so for a device
\* that is not running.
Attempt(t, n) ==
  /\ tries' = [tries EXCEPT ![t] = n]
  /\ OpenSession
  /\ Note("late", session # "open" /\ ~running)

EndpointOf(t) == IF pc[t] = "report" THEN "report" ELSE "heartbeat"
Sending == {"first", "beat", "report"}
InSend(t) == pc[t] \in Sending /\ t \notin {Beat(i) : i \in cancelled}

\* _attempts.pop(endpoint, None)
ResetAttempts(e) == /\ attempts' = [attempts EXCEPT ![e] = 0]
                    /\ noted' = noted \ {Left[e]}

\* Where a task goes on after a send that was answered or given up.
Answered == [first |-> "started", beat |-> "hook", report |-> "idle"]
GivenUp == [first |-> "idle", beat |-> "hook", report |-> "idle"]
\* Where the `while self._running` of the heartbeat task leads.
LoopTest == IF running THEN "sleep" ELSE "done"

EndSend(t, l) == Goto(t, l) /\ tries' = [tries EXCEPT ![t] = 0]

\* Mutant: after_send leaves the counter.
AnswerKeepsCount(t) ==
  /\ InSend(t)
  /\ EndSend(t, Answered[pc[t]])
  /\ UNCHANGED <<device, transport, attempts, awaited, cancelled, counters, noted>>

Answer(t) ==
  /\ InSend(t)
  /\ EndSend(t, Answered[pc[t]])
  /\ ResetAttempts(EndpointOf(t))
  /\ UNCHANGED <<device, transport, awaited, cancelled, counters>>

\* TransportError, and RetryMiddleware asks for a retry: the next send follows at once.
Retry(t) ==
  /\ InSend(t) /\ attempts[EndpointOf(t)] < MaxRetries
  /\ attempts' = [attempts EXCEPT ![EndpointOf(t)] = @ + 1]
  /\ Attempt(t, IF tries[t] > MaxRetries + 1 THEN tries[t] ELSE tries[t] + 1)
  /\ UNCHANGED <<device, pc, awaited, cancelled, counters>>

\* TransportError, and the budget is exhausted.
GiveUp(t) ==
  /\ InSend(t) /\ attempts[EndpointOf(t)] >= MaxRetries
  /\ EndSend(t, GivenUp[pc[t]])
  /\ ResetAttempts(EndpointOf(t))
  /\ UNCHANGED <<device, transport, awaited, cancelled, counters>>

\* "left": a send that ends with neither leaves its count to the next one.
Abandon(t) ==
  Note(Left[EndpointOf(t)], pc[t] \in Sending /\ attempts[EndpointOf(t)] > 0)

\* Any other exception, aiohttp's TimeoutError among them: start() and report() raise
\* it, the heartbeat loop logs it.
SendRaises(t) ==
  /\ InSend(t)
  /\ EndSend(t, IF pc[t] = "beat" THEN LoopTest ELSE "idle")
  /\ Abandon(t)
  /\ UNCHANGED <<device, transport, attempts, awaited, cancelled, counters>>

\* report(): a failure is reported to its caller, whose task goes on.
Report(m) ==
  /\ pc[m] = "idle" /\ reports < MaxReports
  /\ reports' = reports + 1
  /\ Goto(m, "report")
  /\ Attempt(m, 1)
  /\ UNCHANGED <<device, attempts, awaited, cancelled, starts, beats, cancels>>

-----------------------------------------------------------------------------
(* start() *)

\* if self._running: raise RuntimeError; connect() does not suspend, so the first
\* heartbeat is sent in the same step.  (A connect() that fails changes nothing.)
Start(m) ==
  /\ pc[m] = "idle" /\ ~running
  /\ starts + Cardinality({c \in Mains : pc[c] \in Starting}) < MaxStarts
  /\ Goto(m, "first")
  /\ tries' = [tries EXCEPT ![m] = 1]
  /\ OpenSession
  /\ noted' = noted \cup {"half"} \cup (IF Active # {} THEN {"raced"} ELSE {})
  /\ UNCHANGED <<device, attempts, awaited, cancelled, counters>>

\* Mutant: closed.clear() forgotten.
StartedKeepsClosed(m) ==
  /\ pc[m] = "started"
  /\ starts' = starts + 1
  /\ running' = TRUE /\ task' = starts'
  /\ pc' = [pc EXCEPT ![m] = "ready", ![Beat(starts')] = "new"]
  /\ noted' = noted \ {"half"}
  /\ UNCHANGED <<closed, transport, attempts, awaited, tries, cancelled, beats, reports,
                 cancels>>

\* The hooks of the first heartbeat have returned: the rest of start(), up to on_ready.
Started(m) ==
  /\ pc[m] = "started"
  /\ starts' = starts + 1
  /\ running' = TRUE /\ closed' = FALSE /\ task' = starts'
  /\ pc' = [pc EXCEPT ![m] = "ready", ![Beat(starts')] = "new"]
  /\ noted' = noted \ {"half"}
  /\ UNCHANGED <<transport, attempts, awaited, tries, cancelled, beats, reports, cancels>>

Ready(m) ==
  /\ pc[m] = "ready"
  /\ Goto(m, "idle")
  /\ UNCHANGED <<device, transport, attempts, awaited, tries, cancelled, counters, noted>>

-----------------------------------------------------------------------------
(* stop() and wait_closed() *)

\* An application task, in on_ready or elsewhere, or a hook of the heartbeat task.
MayStop == {m \in Mains : pc[m] \in {"idle", "ready"}} \cup {b \in Beats : pc[b] = "hook"}

\* Unless it is not running: running off, and the heartbeat task cancelled.
Stop(t) ==
  /\ t \in MayStop /\ running
  /\ running' = FALSE
  /\ cancelled' = IF task = 0 THEN cancelled ELSE cancelled \cup {task}
  /\ awaited' = [awaited EXCEPT ![t] = task]
  /\ Goto(t, "join")
  /\ noted' = noted \cup (IF Active \ {t} # {} THEN {"raced"} ELSE {})
                    \cup (IF t \in Beats THEN {"selfstopped"} ELSE {})
  /\ UNCHANGED <<task, closed, transport, attempts, tries, counters>>

\* Mutants: the task is cancelled but not awaited; the error of a task that awaits
\* itself is not swallowed.
JoinAtOnce(t) ==
  /\ pc[t] = "join"
  /\ task' = 0
  /\ awaited' = [awaited EXCEPT ![t] = 0]
  /\ cancelled' = cancelled \ {i \in Runs : t = Beat(i)}
  /\ session' = IF session = "open" THEN "closed" ELSE session
  /\ Goto(t, "close")
  /\ UNCHANGED <<running, closed, orphaned, detached, attempts, tries, counters, noted>>
JoinSelfRaises(t) ==
  /\ pc[t] = "join"
  /\ task' = 0
  /\ awaited' = [awaited EXCEPT ![t] = 0]
  /\ cancelled' = cancelled \ {i \in Runs : t = Beat(i)}
  /\ IF t \in Beats
     THEN Goto(t, "hook") /\ UNCHANGED session
     ELSE /\ awaited[t] # 0 => pc[Beat(awaited[t])] = "done"
          /\ session' = IF session = "open" THEN "closed" ELSE session
          /\ Goto(t, "close")
  /\ UNCHANGED <<running, closed, orphaned, detached, attempts, tries, counters, noted>>

\* await self._heartbeat_task, then the session is closed.  A task that awaits itself
\* gets the CancelledError it asked for, and stop() swallows it.
Join(t) ==
  /\ pc[t] = "join"
  /\ awaited[t] # 0 => pc[Beat(awaited[t])] = "done" \/ t = Beat(awaited[t])
  /\ task' = 0
  /\ awaited' = [awaited EXCEPT ![t] = 0]
  /\ cancelled' = cancelled \ {i \in Runs : t = Beat(i)}
  /\ session' = IF session = "open" THEN "closed" ELSE session
  /\ Goto(t, "close")
  /\ UNCHANGED <<running, closed, orphaned, detached, attempts, tries, counters, noted>>

\* The session's close() is done, and _session = None; or it raised, is logged, and
\* _session stays.  Not the device's session if its transport was replaced meanwhile.
SessionClosed(t) ==
  \/ t \notin detached /\ session' = "none" /\ orphaned' = (orphaned \/ session = "open")
  \/ UNCHANGED <<session, orphaned>>

\* _closed.set(), which wakes every wait_closed().
Closed(t) ==
  /\ pc[t] = "close"
  /\ SessionClosed(t) /\ detached' = detached \ {t}
  /\ closed' = TRUE
  /\ pc' = [c \in Tasks |-> CASE c = t -> IF t \in Mains THEN "idle" ELSE "hook"
                              [] pc[c] = "wait" -> "idle"
                              [] OTHER -> pc[c]]
  /\ noted' = noted \ {"half"}
  /\ UNCHANGED <<running, task, attempts, awaited, tries, cancelled, counters>>

WaitClosed(m) ==
  /\ pc[m] = "idle" /\ ~closed
  /\ Goto(m, "wait")
  /\ UNCHANGED <<device, transport, attempts, awaited, tries, cancelled, counters, noted>>

\* An application task is cancelled in one of its awaits.  (A stop() that awaits the
\* heartbeat task swallows its own cancellation too, and goes on.)
Cancel(m) ==
  /\ pc[m] \notin {"idle", "join"} /\ cancels < MaxCancels
  /\ cancels' = cancels + 1
  /\ EndSend(m, "idle")
  /\ IF pc[m] = "close" THEN Note("cut", TRUE) ELSE Abandon(m)
  /\ detached' = detached \ {m}
  /\ UNCHANGED <<device, session, orphaned, attempts, awaited, cancelled, starts, beats,
                 reports>>

-----------------------------------------------------------------------------
(* transport() *)

\* It replaces the transport whatever the device is doing; nobody closes the session
\* of the one it drops.  The new one is an AsyncHTTPTransport without a session yet.
ReplaceTransport(m) ==
  /\ pc[m] = "idle" /\ reports < MaxReports
  /\ reports' = reports + 1
  /\ session' = "none"
  /\ orphaned' = (orphaned \/ session = "open")
  /\ detached' = {t \in Tasks : pc[t] = "close"}
  /\ Note("replaced", session = "open")
  /\ UNCHANGED <<device, attempts, pc, awaited, tries, cancelled, starts, beats, cancels>>

-----------------------------------------------------------------------------
(* _heartbeat_loop *)

\* The task begins, or the hooks of a heartbeat return: `while self._running`.
Again(i) ==
  /\ pc[Beat(i)] \in {"new", "hook"} /\ i \notin cancelled
  /\ Goto(Beat(i), LoopTest)
  /\ UNCHANGED <<device, transport, attempts, awaited, tries, cancelled, counters, noted>>

\* The sleep is over.
SendBeat(i) ==
  /\ pc[Beat(i)] = "sleep" /\ i \notin cancelled /\ beats[i] < MaxBeats
  /\ beats' = [beats EXCEPT ![i] = @ + 1]
  /\ Goto(Beat(i), "beat")
  /\ Attempt(Beat(i), 1)
  /\ UNCHANGED <<device, attempts, awaited, cancelled, starts, reports, cancels>>

\* CancelledError in whichever await the task is suspended in ends it.
BeatCancelled(i) ==
  /\ i \in cancelled /\ pc[Beat(i)] # "join"
  /\ cancelled' = cancelled \ {i}
  /\ EndSend(Beat(i), "done")
  /\ Abandon(Beat(i))
  /\ UNCHANGED <<device, transport, attempts, awaited, counters>>

-----------------------------------------------------------------------------
SendStep(t) == Answer(t) \/ Retry(t) \/ GiveUp(t) \/ SendRaises(t)
MainStep(m) == Started(m) \/ Ready(m)
StopStep(t) == Join(t) \/ Closed(t)
BeatStep(i) == Again(i) \/ SendBeat(i) \/ BeatCancelled(i)

Next ==
  \/ \E m \in Mains : Start(m) \/ Report(m) \/ WaitClosed(m) \/ Cancel(m)
  \/ \E m \in Mains : ReplaceTransport(m)
  \/ \E m \in Mains : MainStep(m)
  \/ \E t \in Tasks : Stop(t)
  \/ \E t \in Tasks : StopStep(t)
  \/ \E t \in Tasks : SendStep(t)
  \/ \E i \in Runs : BeatStep(i)

\* The loop runs every task that is ready, and a send ends, by its timeout at the latest.
Fairness == /\ \A m \in Mains : WF_vars(MainStep(m) \/ StopStep(m) \/ SendStep(m))
            /\ \A i \in Runs : WF_vars(BeatStep(i) \/ StopStep(Beat(i)) \/ SendStep(Beat(i)))

Spec == Init /\ [][Next]_vars /\ Fairness

-----------------------------------------------------------------------------
(* Correctness. *)

TypeOK ==
  /\ {running, closed} \subseteq BOOLEAN
  /\ task \in 0..MaxStarts /\ cancelled \subseteq Runs
  /\ session \in {"none", "open", "closed"} /\ orphaned \in BOOLEAN
  /\ detached \subseteq Tasks
  /\ attempts \in [Endpoints -> 0..MaxRetries]
  /\ noted \subseteq {"raced", "selfstopped", "late", "half", "cut", "replaced",
                    "left_heartbeat", "left_report"}
  /\ \A m \in Mains : pc[m] \in {"idle", "first", "started", "ready", "report", "join",
                                 "close", "wait"}
  /\ \A b \in Beats : pc[b] \in {"none", "new", "sleep", "beat", "hook", "join", "close",
                                 "done"}
  /\ awaited \in [Tasks -> 0..MaxStarts]
  /\ tries \in [Tasks -> 0..(MaxRetries + 2)]
  /\ starts \in 0..MaxStarts /\ beats \in [Runs -> 0..MaxBeats]
  /\ reports \in 0..MaxReports /\ cancels \in 0..MaxCancels

Alive == {i \in Runs : pc[Beat(i)] \notin {"none", "done"}}

\* Once _closed is set ("Block until stop() has completed") the device is not running,
\* no heartbeat task is left and its session is not open, until the next start(),
\* which may fail and leave its session open.  Not so if start() and stop() overlapped;
\* a task whose hook called stop() outlives it; and a send by a device that
\* is not running opens a session again.
ClosedMeansReleased ==
  (closed /\ "raced" \notin noted) =>
    /\ ~running /\ task = 0
    /\ Alive # {} => "selfstopped" \in noted
    /\ session = "open" => {"half", "late"} \cap noted # {}

\* start(), stop() and the sends never replace or drop a session that is open, so each
\* one they open is closed by a stop() or kept for the next start(), although a start()
\* may fail after connect().  Not so if start() and stop() overlapped, or a send opened
\* a session under a stop(); and transport(), called while a session is open, drops the
\* old transport with its session, which nobody closes.
NoSessionOrphaned == orphaned => {"raced", "late", "replaced"} \cap noted # {}

\* At most one heartbeat task, and at most one heartbeat on its way, unless start() and
\* stop() overlapped or a heartbeat hook called stop(), whose task outlives the stop.
OneHeartbeatTask ==
  ("raced" \notin noted /\ "selfstopped" \notin noted) =>
    /\ Alive \subseteq {task}
    /\ Cardinality({t \in Tasks : pc[t] \in {"first", "beat"}}) <= 1

\* RetryMiddleware's count for heartbeats is that of the heartbeat on its way, and zero
\* when there is none, so that each heartbeat has its whole budget; unless one was
\* cancelled or ended with another exception and nothing has cleared its count since.
RetryCountExact ==
  ("raced" \notin noted /\ "selfstopped" \notin noted /\ "left_heartbeat" \notin noted) =>
    LET senders == {t \in Tasks : pc[t] \in {"first", "beat"}} IN
    /\ senders = {} => attempts["heartbeat"] = 0
    /\ \A t \in senders : tries[t] = attempts["heartbeat"] + 1

\* A wait_closed() returns once the device is being stopped, also if a hook of the
\* heartbeat task stops it or it is started again at once; unless that stop() is
\* cancelled while the session closes.
WaitClosedReturns ==
  \A m \in Mains :
    (pc[m] = "wait" /\ \E t \in Tasks : pc[t] \in {"join", "close"})
      ~> (pc[m] # "wait" \/ "cut" \in noted)
=============================================================================
