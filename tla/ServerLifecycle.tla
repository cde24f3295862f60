--------------------------- MODULE ServerLifecycle ---------------------------
(***************************************************************************)
(* RISELServer.start and stop (server/server.py): the application's        *)
(* threads, the serve_forever thread, the timeout-checker thread and the   *)
(* daemon threads of the requests share _running, _stop_event, _httpd, the *)
(* two thread attributes and the storage, none of them under a lock.  Any  *)
(* hook may call stop(), on the thread of a request or of the checker.     *)
(*                                                                         *)
(* Run i is the i-th start() that got past its check: its listening socket, *)
(* serve_forever loop and checker thread are called i.                     *)
(***************************************************************************)
EXTENDS Naturals, FiniteSets

CONSTANTS
  Mains,        \* application threads that call start() and stop()
  Handlers,     \* request threads that can exist at once
  MaxStarts,    \* bound: runs
  MaxRequests,  \* bound: requests accepted
  MaxAtOnce,    \* bound: calls of start and stop in progress at once
  MaxMarks      \* bound: iterations of each checker

ASSUME LifecycleBoundsAssumption ==
  {MaxStarts, MaxRequests, MaxAtOnce, MaxMarks} \subseteq Nat

Runs == 1..MaxStarts
Checker(i) == <<"checker", i>>
Checkers == {Checker(i) : i \in Runs}
Callers == Mains \cup Handlers \cup Checkers

VARIABLES
  running,        \* self._running
  stop_event,     \* self._stop_event: "set" or "clear"
  httpd,          \* the run whose server self._httpd is, 0 for None
  timeout_thread, \* the run of self._timeout_thread, 0 for None
  storage,        \* self._storage: "new" until a run uses it, "open", "closed"
  starts,         \* runs so far
  socket,         \* each run's listening socket
  serve,          \* each run's serve_forever
  shutdown,       \* runs whose __shutdown_request is set
  checker,        \* where each run's checker thread is
  marks,          \* iterations of each checker
  pc,             \* where each caller is in start() or stop()
  mine,           \* the run a caller of start() or shutdown() is busy with
  request,        \* where each request thread is
  event,          \* the number of the request it handles
  accepted, stored, answered,  \* requests accepted, saved, answered with 200
  raced, abandoned, slow       \* history, see the properties

attributes == <<running, stop_event, httpd, timeout_thread, storage>>
threads == <<starts, socket, serve, shutdown, checker, marks>>
requests == <<request, event, accepted, stored, answered>>
vars == <<attributes, threads, pc, mine, requests, raced, abandoned, slow>>

Init ==
  /\ running = FALSE /\ stop_event = "clear"
  /\ httpd = 0 /\ timeout_thread = 0
  /\ storage = "new" /\ starts = 0
  /\ socket = [i \in Runs |-> "none"]
  /\ serve = [i \in Runs |-> "none"]
  /\ shutdown = {}
  /\ checker = [i \in Runs |-> "none"]
  /\ marks = [i \in Runs |-> 0]
  /\ pc = [c \in Callers |-> "idle"]
  /\ mine = [c \in Callers |-> 0]
  /\ request = [h \in Handlers |-> "idle"]
  /\ event = [h \in Handlers |-> 0]
  /\ accepted = 0 /\ stored = {} /\ answered = {}
  /\ raced = FALSE /\ abandoned = FALSE /\ slow = FALSE

Goto(c, l) == pc' = [pc EXCEPT ![c] = l]

\* Callers that are past the test of _running and not done yet.
Active == {c \in Callers : pc[c] \notin {"idle", "blocked"}}
PastCheck(c, l) == /\ Cardinality(Active \ {c}) < MaxAtOnce
                   /\ Goto(c, l)
                   /\ raced' = (raced \/ Active \ {c} # {})

-----------------------------------------------------------------------------
(* start() *)

\* if self._running: raise RuntimeError (which changes nothing)
StartCheck(m) ==
  /\ pc[m] = "idle" /\ ~running /\ starts < MaxStarts
  /\ PastCheck(m, "start")
  /\ UNCHANGED <<attributes, threads, mine, requests, abandoned, slow>>

\* self._running = True
SetRunning(m) ==
  /\ pc[m] = "start" /\ starts < MaxStarts
  /\ running' = TRUE
  /\ starts' = starts + 1
  /\ mine' = [mine EXCEPT ![m] = starts']
  /\ storage' = IF storage = "new" THEN "open" ELSE storage
  /\ Goto(m, "clear")
  /\ UNCHANGED <<stop_event, httpd, timeout_thread, socket, serve, shutdown, checker,
                 marks, requests, raced, abandoned, slow>>

\* self._stop_event.clear(), and the checker thread.
StartChecker(m) ==
  /\ pc[m] = "clear"
  /\ stop_event' = "clear"
  /\ checker' = [checker EXCEPT ![mine[m]] = "test"]
  /\ timeout_thread' = mine[m]
  /\ Goto(m, "bind")
  /\ UNCHANGED <<running, httpd, storage, starts, socket, serve, shutdown, marks, mine,
                 requests, raced, abandoned, slow>>

\* ThreadingHTTPServer((host, port), ...) listens.
Bind(m) ==
  /\ pc[m] = "bind"
  /\ \A i \in Runs : socket[i] # "open"
  /\ socket' = [socket EXCEPT ![mine[m]] = "open"]
  /\ httpd' = mine[m]
  /\ Goto(m, "serve")
  /\ UNCHANGED <<running, stop_event, timeout_thread, storage, starts,
                 serve, shutdown, checker, marks, mine, requests, raced, abandoned, slow>>

\* The port is taken: OSError leaves start(), _running stays TRUE.
BindFails(m) ==
  /\ pc[m] = "bind"
  /\ Goto(m, "idle")
  /\ UNCHANGED <<attributes, threads, mine, requests, raced, abandoned, slow>>

\* block=False: serve_forever gets a thread (AttributeError if _httpd is None).
ServeInThread(m) ==
  /\ pc[m] = "serve"
  /\ serve' = IF httpd = 0 THEN serve ELSE [serve EXCEPT ![httpd] = "loop"]
  /\ Goto(m, "idle")
  /\ UNCHANGED <<attributes, starts, socket, shutdown, checker, marks, mine, requests,
                 raced, abandoned, slow>>

\* block=True: serve_forever runs here ...
ServeHere(m) ==
  /\ pc[m] = "serve" /\ httpd # 0
  /\ serve' = [serve EXCEPT ![httpd] = "loop"]
  /\ mine' = [mine EXCEPT ![m] = httpd]
  /\ Goto(m, "blocked")
  /\ UNCHANGED <<attributes, starts, socket, shutdown, checker, marks, requests,
                 raced, abandoned, slow>>

\* ... finally: self.stop(), also when _httpd was None.
Unblock(m) ==
  /\ \/ pc[m] = "blocked" /\ serve[mine[m]] = "done"
     \/ pc[m] = "serve" /\ httpd = 0
  /\ IF running THEN PastCheck(m, "stop") ELSE Goto(m, "idle") /\ UNCHANGED raced
  /\ UNCHANGED <<attributes, threads, mine, requests, abandoned, slow>>

\* storage(): the application closes the backend and gives the server another one,
\* which is in use at once if the server runs.
ReplaceStorage(m) ==
  /\ pc[m] = "idle"
  /\ storage' = IF running THEN "open" ELSE "new"
  /\ UNCHANGED <<running, stop_event, httpd, timeout_thread, threads, pc,
                 mine, requests, raced, abandoned, slow>>

-----------------------------------------------------------------------------
(* stop() *)

\* if not self._running: return
StopCheck(c) ==
  /\ pc[c] = "idle" /\ running
  /\ PastCheck(c, "stop")
  /\ UNCHANGED <<attributes, threads, mine, requests, abandoned, slow>>

StopSet(c) ==
  /\ pc[c] = "stop"
  /\ running' = FALSE /\ stop_event' = "set"
  /\ Goto(c, IF httpd = 0 THEN "join" ELSE "shutdown")
  /\ UNCHANGED <<httpd, timeout_thread, storage, threads, mine, requests,
                 raced, abandoned, slow>>

\* self._httpd.shutdown() asks the loop to end (AttributeError if it is None by now)
Shutdown(c) ==
  /\ pc[c] = "shutdown"
  /\ IF httpd = 0 THEN Goto(c, "idle") /\ UNCHANGED <<shutdown, mine>>
                  ELSE /\ shutdown' = shutdown \cup {httpd}
                       /\ mine' = [mine EXCEPT ![c] = httpd]
                       /\ Goto(c, "closing")
  /\ abandoned' = (abandoned \/ httpd = 0)
  /\ UNCHANGED <<attributes, starts, socket, serve, checker, marks, requests, raced, slow>>

\* Mutant: the listening socket is left open.
CloseNothing(c) ==
  /\ pc[c] = "closing" /\ serve[mine[c]] = "done"
  /\ httpd' = 0
  /\ Goto(c, "join")
  /\ UNCHANGED <<running, stop_event, timeout_thread, storage, threads, mine,
                 requests, raced, abandoned, slow>>

\* ... waits until it has, and server_close() closes the listening socket.
ServerClose(c) ==
  /\ pc[c] = "closing" /\ serve[mine[c]] = "done"
  /\ IF httpd = 0 THEN Goto(c, "idle") /\ UNCHANGED socket
                  ELSE socket' = [socket EXCEPT ![httpd] = "closed"] /\ Goto(c, "join")
  /\ abandoned' = (abandoned \/ httpd = 0)
  /\ httpd' = 0
  /\ UNCHANGED <<running, stop_event, timeout_thread, storage, starts, serve,
                 shutdown, checker, marks, mine, requests, raced, slow>>

\* Mutant: the checker is not joined.
JoinNothing(c) ==
  /\ pc[c] = "join"
  /\ timeout_thread' = 0
  /\ Goto(c, "close")
  /\ UNCHANGED <<running, stop_event, httpd, storage, threads, mine, requests, raced,
                 abandoned, slow>>

\* Both threads are joined.  The serve loop has ended by now, or its join gives up
\* after 5 s, as the checker's does when mark_offline or a hook takes longer;
\* joining the checker from the checker raises RuntimeError.
Join(c) ==
  /\ pc[c] = "join"
  /\ IF timeout_thread # 0 /\ Checker(timeout_thread) = c
     THEN Goto(c, "idle") /\ abandoned' = TRUE /\ UNCHANGED <<timeout_thread, slow>>
     ELSE /\ \/ timeout_thread = 0 /\ UNCHANGED slow
             \/ timeout_thread # 0 /\ checker[timeout_thread] = "done" /\ UNCHANGED slow
             \/ /\ timeout_thread # 0
                /\ checker[timeout_thread] \in {"mark", "hook"} \/ stop_event = "clear"
                /\ slow' = TRUE
          /\ timeout_thread' = 0
          /\ Goto(c, "close") /\ UNCHANGED abandoned
  /\ UNCHANGED <<running, stop_event, httpd, storage, threads, mine, requests, raced>>

CloseStorage(c) ==
  /\ pc[c] = "close"
  /\ storage' = "closed"
  /\ Goto(c, "idle")
  /\ UNCHANGED <<running, stop_event, httpd, timeout_thread, threads, mine,
                 requests, raced, abandoned, slow>>

-----------------------------------------------------------------------------
(* The threads of a run. *)

\* Mutant: HTTPServer for ThreadingHTTPServer, whose loop runs the requests itself.
ServeEndsAfterRequests(i) ==
  /\ serve[i] = "loop" /\ i \in shutdown
  /\ \A h \in Handlers : request[h] = "idle"
  /\ serve' = [serve EXCEPT ![i] = "done"]
  /\ shutdown' = shutdown \ {i}
  /\ UNCHANGED <<attributes, starts, socket, checker, marks, pc, mine, requests,
                 raced, abandoned, slow>>

\* serve_forever sees the request to shut down.
ServeEnds(i) ==
  /\ serve[i] = "loop" /\ i \in shutdown
  /\ serve' = [serve EXCEPT ![i] = "done"]
  /\ shutdown' = shutdown \ {i}
  /\ UNCHANGED <<attributes, starts, socket, checker, marks, pc, mine, requests,
                 raced, abandoned, slow>>

\* Ctrl-C in a start() that blocks.
Interrupt(m) ==
  /\ pc[m] = "blocked" /\ serve[mine[m]] = "loop"
  /\ serve' = [serve EXCEPT ![mine[m]] = "done"]
  /\ UNCHANGED <<attributes, starts, socket, shutdown, checker, marks, pc, mine, requests,
                 raced, abandoned, slow>>

\* Mutant: a request gets the number of the one after it.
AcceptMisnumbered(i, h) ==
  /\ serve[i] = "loop" /\ i \notin shutdown
  /\ request[h] = "idle" /\ accepted < MaxRequests
  /\ accepted' = accepted + 1
  /\ event' = [event EXCEPT ![h] = accepted' + 1]
  /\ request' = [request EXCEPT ![h] = "save"]
  /\ UNCHANGED <<attributes, threads, pc, mine, stored, answered, raced, abandoned, slow>>

\* The loop accepts a report and gives it a daemon thread.
Accept(i, h) ==
  /\ serve[i] = "loop" /\ i \notin shutdown
  /\ request[h] = "idle" /\ accepted < MaxRequests
  /\ accepted' = accepted + 1
  /\ event' = [event EXCEPT ![h] = accepted']
  /\ request' = [request EXCEPT ![h] = "save"]
  /\ UNCHANGED <<attributes, threads, pc, mine, stored, answered, raced, abandoned, slow>>

\* Mutant: the exception of a closed storage is swallowed before the response.
SaveUnchecked(h) ==
  /\ request[h] = "save"
  /\ stored' = IF storage = "closed" THEN stored ELSE stored \cup {event[h]}
  /\ request' = [request EXCEPT ![h] = "hook"]
  /\ UNCHANGED <<attributes, threads, pc, mine, event, accepted, answered, raced,
                 abandoned, slow>>

\* The events with the request's row inserted.
Inserted(h) == stored \cup {event[h]}

\* save_event; on a closed storage it raises and the answer is 500.
Save(h) ==
  /\ request[h] = "save"
  /\ IF storage = "closed"
     THEN request' = [request EXCEPT ![h] = "idle"] /\ UNCHANGED stored
     ELSE request' = [request EXCEPT ![h] = "hook"] /\ stored' = Inserted(h)
  /\ UNCHANGED <<attributes, threads, pc, mine, event, accepted, answered, raced,
                 abandoned, slow>>

\* The hooks have returned: 200.
Answer(h) ==
  /\ request[h] = "hook" /\ pc[h] = "idle"
  /\ answered' = answered \cup {event[h]}
  /\ request' = [request EXCEPT ![h] = "idle"]
  /\ UNCHANGED <<attributes, threads, pc, mine, event, accepted, stored, raced,
                 abandoned, slow>>

\* while not self._stop_event.is_set(), at the start of the thread and when its
\* _stop_event.wait(interval) has ended, by the event or by the time.
CheckStopEvent(i) ==
  /\ checker[i] = "test"
  /\ \/ stop_event = "set" /\ checker' = [checker EXCEPT ![i] = "done"]
     \/ stop_event = "clear" /\ marks[i] < MaxMarks /\ checker' = [checker EXCEPT ![i] = "mark"]
  /\ UNCHANGED <<attributes, starts, socket, serve, shutdown, marks, pc, mine, requests,
                 raced, abandoned, slow>>

\* mark_offline, or its exception; then the hooks of the devices it returns.
Mark(i) ==
  /\ checker[i] = "mark"
  /\ marks' = [marks EXCEPT ![i] = @ + 1]
  /\ checker' = [checker EXCEPT ![i] = IF storage = "closed" THEN "test" ELSE "hook"]
  /\ UNCHANGED <<attributes, starts, socket, serve, shutdown, pc, mine, requests,
                 raced, abandoned, slow>>

HooksReturn(i) ==
  /\ checker[i] = "hook" /\ pc[Checker(i)] = "idle"
  /\ checker' = [checker EXCEPT ![i] = "test"]
  /\ UNCHANGED <<attributes, starts, socket, serve, shutdown, marks, pc, mine, requests,
                 raced, abandoned, slow>>

-----------------------------------------------------------------------------
MayStop == Mains \cup {h \in Handlers : request[h] = "hook"}
                 \cup {Checker(i) : i \in {j \in Runs : checker[j] = "hook"}}

StartStep(m) ==
  SetRunning(m) \/ StartChecker(m) \/ Bind(m) \/ ServeInThread(m) \/ ServeHere(m) \/ Unblock(m)
StopStep(c) ==
  StopSet(c) \/ Shutdown(c) \/ ServerClose(c) \/ Join(c) \/ CloseStorage(c)
ThreadStep(i) ==
  ServeEnds(i) \/ CheckStopEvent(i) \/ Mark(i) \/ HooksReturn(i)

Next ==
  \/ \E m \in Mains : StartCheck(m) \/ ReplaceStorage(m) \/ BindFails(m) \/ Interrupt(m)
  \/ \E m \in Mains : StartStep(m)
  \/ \E c \in MayStop : StopCheck(c)
  \/ \E c \in Callers : StopStep(c)
  \/ \E i \in Runs : ThreadStep(i)
  \/ \E i \in Runs, h \in Handlers : Accept(i, h)
  \/ \E h \in Handlers : Save(h) \/ Answer(h)

\* The scheduler runs the threads; nothing makes an application call start or
\* stop, a client send or a user press Ctrl-C.  Within the bounds no thread runs
\* for ever, so that some thread always goes on means that each one does.
Fairness == WF_vars(\/ \E c \in Callers : StopStep(c)
                    \/ \E m \in Mains : StartStep(m)
                    \/ \E i \in Runs : ThreadStep(i))

Spec == Init /\ [][Next]_vars /\ Fairness

-----------------------------------------------------------------------------
(* Correctness. *)

TypeOK ==
  /\ running \in BOOLEAN /\ stop_event \in {"set", "clear"}
  /\ {httpd, timeout_thread, starts} \subseteq 0..MaxStarts
  /\ storage \in {"new", "open", "closed"}
  /\ socket \in [Runs -> {"none", "open", "closed"}]
  /\ serve \in [Runs -> {"none", "loop", "done"}] /\ shutdown \subseteq Runs
  /\ checker \in [Runs -> {"none", "test", "mark", "hook", "done"}]
  /\ marks \in [Runs -> 0..MaxMarks]
  /\ pc \in [Callers -> {"idle", "start", "clear", "bind", "serve", "blocked", "stop",
                         "shutdown", "closing", "join", "close"}]
  /\ mine \in [Callers -> 0..MaxStarts]
  /\ request \in [Handlers -> {"idle", "save", "hook"}]
  /\ event \in [Handlers -> 0..MaxRequests]
  /\ accepted \in 0..MaxRequests
  /\ stored \cup answered \subseteq 1..MaxRequests
  /\ {raced, abandoned, slow} \subseteq BOOLEAN

\* A stopped server has released everything ("Stop the server and release all
\* resources"): no socket listens, no loop serves, no checker runs, and the
\* storage it used is closed.  Not so after start() and stop() were in progress
\* at once, a stop() ended in an exception (one made by an on_device_offline hook
\* always does), or the checker's join timed out.
StoppedMeansReleased ==
  (~raced /\ ~abandoned /\ ~running /\ Active = {}) =>
    /\ \A i \in Runs : socket[i] # "open" /\ serve[i] # "loop"
    /\ ~slow => \A i \in Runs : checker[i] \in {"none", "done"}
    /\ storage # "open"

\* No two checkers ever run at once, over however many starts and failed starts,
\* under the same conditions: start() clears the event that ends the old one.
OneChecker ==
  (~raced /\ ~abandoned /\ ~slow) =>
    Cardinality({i \in Runs : checker[i] \notin {"none", "done"}}) <= 1

\* A report answered with 200 is in the store, although stop() closes the storage
\* while request threads are running.
AnsweredIsStored == answered \subseteq stored

\* Every stop() returns, whichever thread calls it, unless start() and stop() have
\* been in progress at once.
EveryStopReturns ==
  (\E c \in Callers : pc[c] \in {"stop", "shutdown", "closing", "join", "close"})
    ~> (Active = {} \/ raced)
=============================================================================
