----------------------------- MODULE AsyncServer -----------------------------
(***************************************************************************)
(* AsyncRISELServer.start and stop (server/async_server.py) with the        *)
(* timeout task, the request tasks and the storage connection they open     *)
(* lazily (AsyncSQLiteStorage._get_conn and close, server/async_storage.py). *)
(* All run on one event loop, so a stretch of code between two awaits is    *)
(* one action, and what was true before an await may not be after it.       *)
(*                                                                         *)
(* Run i is the i-th start() that got past its check: its runner, site and  *)
(* timeout task are called i; when two starts overlap, its site may serve   *)
(* another's runner.  Hooks may call stop() in the timeout task and in the  *)
(* task of a request.  What aiohttp does (listening, waiting for the        *)
(* requests of a runner, cancelling them after a while) is taken from how   *)
(* this code relies on it.                                                  *)
(***************************************************************************)
EXTENDS Naturals, FiniteSets

CONSTANTS
  Mains,        \* application tasks that call start() and stop()
  Handlers,     \* request tasks that can exist at once
  MaxStarts,    \* bound: runs
  MaxRequests,  \* bound: requests
  MaxMarks,     \* bound: iterations of each timeout task
  MaxAtOnce     \* bound: calls of start and stop in progress at once

ASSUME AsyncServerBoundsAssumption ==
  {MaxStarts, MaxRequests, MaxMarks, MaxAtOnce} \subseteq Nat

Runs == 1..MaxStarts
TimeoutTask(i) == <<"timeout", i>>
Callers == Mains \cup Handlers \cup {TimeoutTask(i) : i \in Runs}

ASSUME TasksAssumption ==
  \A i \in Runs : TimeoutTask(i) \notin Mains \cup Handlers

VARIABLES
  running,      \* self._running
  runner, site, timeout_task,  \* the runs of these attributes, 0 for None
  closed,       \* self._closed: "set" or "clear"
  conn,         \* whether self._storage._conn is an open connection
  schema,       \* whether the database has its tables
  leaked,       \* an open connection that _conn no longer refers to has been left
  doubled, cut, \* history: two calls opened at once; an opening ended halfway
  starts,       \* runs so far
  served,       \* the runner each run's site serves
  socket,       \* each run's listening socket
  timeout,      \* where each run's timeout task is
  marks,        \* iterations of each timeout task
  cancelled,    \* timeout tasks that are to receive CancelledError
  pc,           \* where each caller is in start() or stop()
  mine,         \* the run a caller is busy with
  request,      \* where each request task is
  via,          \* the runner that accepted it
  accepted,     \* requests so far
  raced, selfstopped  \* history, see the properties

attributes == <<running, runner, site, timeout_task, closed>>
tasks == <<starts, served, socket, timeout, marks, cancelled>>
requests == <<request, via, accepted>>
connection == <<conn, schema, leaked, doubled, cut>>
vars == <<attributes, connection, tasks, pc, mine, requests, raced, selfstopped>>

Init ==
  /\ running = FALSE /\ runner = 0 /\ site = 0 /\ timeout_task = 0 /\ closed = "clear"
  /\ conn = FALSE /\ schema \in BOOLEAN
  /\ leaked = FALSE /\ doubled = FALSE /\ cut = FALSE
  /\ starts = 0
  /\ served = [i \in Runs |-> 0]
  /\ socket = [i \in Runs |-> "none"]
  /\ timeout = [i \in Runs |-> "none"]
  /\ marks = [i \in Runs |-> 0]
  /\ cancelled = {}
  /\ pc = [c \in Callers |-> "idle"]
  /\ mine = [c \in Callers |-> 0]
  /\ request = [h \in Handlers |-> "idle"]
  /\ via = [h \in Handlers |-> 0]
  /\ accepted = 0
  /\ raced = FALSE /\ selfstopped = FALSE

Goto(c, l) == pc' = [pc EXCEPT ![c] = l]
Active == {c \in Callers : pc[c] # "idle"}
PastCheck(c, l) == /\ Cardinality(Active \ {c}) < MaxAtOnce
                   /\ Goto(c, l)
                   /\ raced' = (raced \/ Active \ {c} # {})

-----------------------------------------------------------------------------
(* start() *)

\* if self._running: raise; then a new runner, and await runner.setup()
StartRunner(m) ==
  /\ pc[m] = "idle" /\ ~running /\ starts < MaxStarts
  /\ starts' = starts + 1
  /\ runner' = starts'
  /\ mine' = [mine EXCEPT ![m] = starts']
  /\ PastCheck(m, "setup")
  /\ UNCHANGED <<running, site, timeout_task, closed, connection, served, socket, timeout,
                 marks, cancelled, requests, selfstopped>>

\* TCPSite(self._runner) raises if a stop() has reset the runner meanwhile, or another
\* start() has replaced it by one that is not set up yet.
MakeSite(m) ==
  /\ pc[m] = "setup"
  /\ IF runner = 0 \/ \E d \in Mains \ {m} : pc[d] = "setup" /\ mine[d] = runner
     THEN Goto(m, "idle") /\ UNCHANGED <<site, served>>
     ELSE /\ site' = mine[m]
          /\ served' = [served EXCEPT ![mine[m]] = runner]
          /\ Goto(m, "listen")
  /\ UNCHANGED <<running, runner, timeout_task, closed, connection, starts, socket, timeout,
                 marks, cancelled, mine, requests, raced, selfstopped>>

\* await self._site.start() has bound the port; then the timeout task, _running
\* and _closed without another await.
Listening(m) ==
  LET i == mine[m] IN
  /\ pc[m] = "listen"
  /\ \A j \in Runs : socket[j] # "open"
  /\ socket' = [socket EXCEPT ![i] = "open"]
  /\ timeout' = [timeout EXCEPT ![i] = "mark"]
  /\ timeout_task' = i
  /\ running' = TRUE /\ closed' = "clear"
  /\ Goto(m, "idle")
  /\ UNCHANGED <<runner, site, connection, starts, served, marks, cancelled, mine, requests,
                 raced, selfstopped>>

\* The port is taken: OSError leaves start(), with the runner and the site set.
ListenFails(m) ==
  /\ pc[m] = "listen"
  /\ Goto(m, "idle")
  /\ UNCHANGED <<attributes, connection, tasks, mine, requests, raced, selfstopped>>

-----------------------------------------------------------------------------
(* stop() *)

\* Mutant: the timeout task is forgotten, not cancelled.
StopUncancelled(c) ==
  /\ pc[c] = "idle" /\ running
  /\ running' = FALSE
  /\ PastCheck(c, "site")
  /\ timeout_task' = 0
  /\ UNCHANGED <<runner, site, closed, connection, tasks, mine, requests, selfstopped>>

\* if not self._running: return; otherwise cancel the timeout task and await it.
\* A task that cancels and awaits itself gets its own CancelledError there, and
\* `except (CancelledError, Exception)` swallows it.
Stop(c) ==
  /\ pc[c] = "idle" /\ running
  /\ running' = FALSE
  /\ LET self == timeout_task # 0 /\ c = TimeoutTask(timeout_task) IN
     /\ PastCheck(c, "join")
     /\ cancelled' = IF timeout_task = 0 \/ self THEN cancelled
                                                ELSE cancelled \cup {timeout_task}
     /\ mine' = [mine EXCEPT ![c] = IF self THEN 0 ELSE timeout_task]
     /\ selfstopped' = (selfstopped \/ self)
  /\ UNCHANGED <<runner, site, timeout_task, closed, connection, starts, served, socket, timeout,
                 marks, requests>>

\* The await ends with the timeout task, or with a CancelledError for the timeout
\* task that called this stop().
JoinReturns(c) == \/ mine[c] \notin {i \in Runs : timeout[i] # "done"}
                  \/ \E i \in cancelled : c = TimeoutTask(i)

\* Mutant: CancelledError of the awaited task leaves stop().
TaskJoinedRaises(c) ==
  /\ pc[c] = "join" /\ JoinReturns(c)
  /\ Goto(c, "idle")
  /\ UNCHANGED <<attributes, connection, tasks, mine, requests, raced, selfstopped>>

TaskJoined(c) ==
  /\ pc[c] = "join" /\ JoinReturns(c)
  /\ timeout_task' = 0
  /\ cancelled' = {i \in cancelled : c # TimeoutTask(i)}
  /\ Goto(c, "site")
  /\ UNCHANGED <<running, runner, site, closed, connection, starts, served, socket, timeout,
                 marks, mine, requests, raced, selfstopped>>

\* await self._site.stop() closes the listening socket.
StopSite(c) ==
  /\ pc[c] = "site"
  /\ socket' = IF site # 0 /\ socket[site] = "open"
               THEN [socket EXCEPT ![site] = "closed"] ELSE socket
  /\ site' = 0
  /\ mine' = [mine EXCEPT ![c] = runner]
  /\ Goto(c, "cleanup")
  /\ UNCHANGED <<running, runner, timeout_task, closed, connection, starts, served, timeout, marks,
                 cancelled, requests, raced, selfstopped>>

\* "cut": a call is cancelled, or fails, between setting _conn and creating the tables.
Halfway(holds) == cut' = (cut \/ holds) /\ UNCHANGED <<conn, schema, leaked, doubled>>

InProgress(i) == {h \in Handlers : request[h] # "idle" /\ via[h] = i}

\* Mutant: the runner is dropped without cleanup().
DropRunner(c) ==
  /\ pc[c] = "cleanup"
  /\ runner' = 0
  /\ Goto(c, "close")
  /\ UNCHANGED <<running, site, timeout_task, closed, connection, tasks, mine, requests,
                 raced, selfstopped>>

\* await self._runner.cleanup(): the requests in progress have ended.
Cleanup(c) ==
  /\ pc[c] = "cleanup" /\ InProgress(mine[c]) = {}
  /\ runner' = 0
  /\ Goto(c, "close")
  /\ UNCHANGED <<running, site, timeout_task, closed, connection, tasks, mine, requests,
                 raced, selfstopped>>

\* After its timeout it cancels them.  If stop() runs in one of them, the
\* CancelledError ends this stop() where it is, unless it awaits the timeout task.
CancelRequests(c) ==
  LET ended == {h \in InProgress(mine[c]) : pc[h] # "join"} IN
  /\ pc[c] = "cleanup" /\ ended # {}
  /\ request' = [h \in Handlers |-> IF h \in ended THEN "idle" ELSE request[h]]
  /\ pc' = [d \in Callers |-> IF d \in ended THEN "idle" ELSE pc[d]]
  /\ selfstopped' = (selfstopped \/ ended \cap Active # {})
  /\ Halfway(\E h \in ended : request[h] = "schema")
  /\ UNCHANGED <<attributes, tasks, mine, via, accepted, raced>>

\* await self._storage.close(), and self._closed is set.
CloseStorage(c) ==
  /\ pc[c] = "close"
  /\ conn' = FALSE /\ UNCHANGED <<schema, leaked, doubled, cut>>
  /\ closed' = "set"
  /\ Goto(c, "idle")
  /\ UNCHANGED <<running, runner, site, timeout_task, tasks, mine, requests,
                 raced, selfstopped>>

-----------------------------------------------------------------------------
(* The timeout task and the request tasks. *)

\* _get_conn: the caller that finds no connection awaits aiosqlite.connect and sets _conn,
\* then awaits the PRAGMAs and the schema.  A caller that finds one uses it at once.
Opening == {h \in Handlers : request[h] = "connect"}
             \cup {TimeoutTask(i) : i \in {j \in Runs : timeout[j] = "connect"}}
GetConn == /\ doubled' = (doubled \/ (~conn /\ Opening # {}))
           /\ UNCHANGED <<conn, schema, leaked, cut>>
Connected == /\ conn' = TRUE
             /\ leaked' = (leaked \/ conn)
             /\ UNCHANGED <<schema, doubled, cut>>
\* The schema is created on what _conn refers to by then; it raises if that is None.
MakeSchema == /\ schema' = (schema \/ conn)
              /\ UNCHANGED <<conn, leaked, doubled, cut>>

\* Where a storage call goes on: without tables its statement raises, and the request
\* is answered with 500, the iteration of the timeout task is over.
Called(fails) == IF ~conn THEN "connect" ELSE IF schema THEN "hook" ELSE fails

\* mark_offline
MarkOffline(i) ==
  /\ timeout[i] = "mark" /\ i \notin cancelled /\ marks[i] < MaxMarks
  /\ marks' = [marks EXCEPT ![i] = @ + 1]
  /\ timeout' = [timeout EXCEPT ![i] = Called("mark")]
  /\ GetConn
  /\ UNCHANGED <<attributes, starts, served, socket, cancelled, pc, mine, requests,
                 raced, selfstopped>>

TaskConnected(i) ==
  /\ timeout[i] = "connect" /\ i \notin cancelled
  /\ Connected
  /\ timeout' = [timeout EXCEPT ![i] = "schema"]
  /\ UNCHANGED <<attributes, starts, served, socket, marks, cancelled, pc, mine, requests,
                 raced, selfstopped>>

TaskMakesSchema(i) ==
  /\ timeout[i] = "schema" /\ i \notin cancelled
  /\ MakeSchema
  /\ timeout' = [timeout EXCEPT ![i] = IF conn THEN "hook" ELSE "mark"]
  /\ UNCHANGED <<attributes, starts, served, socket, marks, cancelled, pc, mine, requests,
                 raced, selfstopped>>

\* connect, a PRAGMA or the script raises (the file cannot be opened, the database is
\* locked by another connection, the disk is full): _conn stays as it is, and the
\* iteration is over.
TaskOpeningFails(i) ==
  /\ timeout[i] \in {"connect", "schema"} /\ i \notin cancelled
  /\ Halfway(timeout[i] = "schema")
  /\ timeout' = [timeout EXCEPT ![i] = "mark"]
  /\ UNCHANGED <<attributes, starts, served, socket, marks, cancelled, pc, mine, requests,
                 raced, selfstopped>>

\* on_device_offline has returned; asyncio.sleep, and the next iteration.
NextIteration(i) ==
  /\ timeout[i] = "hook" /\ i \notin cancelled /\ pc[TimeoutTask(i)] = "idle"
  /\ timeout' = [timeout EXCEPT ![i] = "mark"]
  /\ UNCHANGED <<attributes, connection, starts, served, socket, marks, cancelled, pc, mine,
                 requests, raced, selfstopped>>

\* CancelledError reaches the task at its await and ends it.
TaskCancelled(i) ==
  /\ i \in cancelled /\ timeout[i] # "done" /\ pc[TimeoutTask(i)] # "join"
  /\ timeout' = [timeout EXCEPT ![i] = "done"]
  /\ cancelled' = cancelled \ {i}
  /\ Goto(TimeoutTask(i), "idle")
  /\ Halfway(timeout[i] = "schema")
  /\ UNCHANGED <<attributes, starts, served, socket, marks, mine, requests, raced,
                 selfstopped>>

\* A request is accepted and its handler calls the storage.
Accept(i, h) ==
  /\ socket[i] = "open" /\ request[h] = "idle" /\ accepted < MaxRequests
  /\ accepted' = accepted + 1
  /\ via' = [via EXCEPT ![h] = served[i]]
  /\ request' = [request EXCEPT ![h] = Called("idle")]
  /\ GetConn
  /\ UNCHANGED <<attributes, tasks, pc, mine, raced, selfstopped>>

\* Mutant: a request uses the new connection as it is, and leaves the tables to others.
RequestConnectedOnly(h) ==
  /\ request[h] = "connect"
  /\ Connected
  /\ request' = [request EXCEPT ![h] = IF schema THEN "hook" ELSE "idle"]
  /\ UNCHANGED <<attributes, tasks, pc, mine, via, accepted, raced, selfstopped>>

RequestConnected(h) ==
  /\ request[h] = "connect"
  /\ Connected
  /\ request' = [request EXCEPT ![h] = "schema"]
  /\ UNCHANGED <<attributes, tasks, pc, mine, via, accepted, raced, selfstopped>>

RequestMakesSchema(h) ==
  /\ request[h] = "schema"
  /\ MakeSchema
  /\ request' = [request EXCEPT ![h] = IF conn THEN "hook" ELSE "idle"]
  /\ UNCHANGED <<attributes, tasks, pc, mine, via, accepted, raced, selfstopped>>

\* As TaskOpeningFails; the request is answered with 500.
RequestOpeningFails(h) ==
  /\ request[h] \in {"connect", "schema"}
  /\ Halfway(request[h] = "schema")
  /\ request' = [request EXCEPT ![h] = "idle"]
  /\ UNCHANGED <<attributes, tasks, pc, mine, via, accepted, raced, selfstopped>>

\* The hooks have returned and the response is sent.
Answer(h) ==
  /\ request[h] = "hook" /\ pc[h] = "idle"
  /\ request' = [request EXCEPT ![h] = "idle"]
  /\ UNCHANGED <<attributes, connection, tasks, pc, mine, via, accepted, raced, selfstopped>>

-----------------------------------------------------------------------------
MayStop == Mains \cup {h \in Handlers : request[h] = "hook"}
                 \cup {TimeoutTask(i) : i \in {j \in Runs \ cancelled : timeout[j] = "hook"}}

StartStep(m) == MakeSite(m) \/ Listening(m)
StopStep(c) ==
  TaskJoined(c) \/ StopSite(c) \/ Cleanup(c) \/ CancelRequests(c) \/ CloseStorage(c)
TaskStep(i) ==
  \/ MarkOffline(i) \/ TaskConnected(i) \/ TaskMakesSchema(i) \/ TaskOpeningFails(i)
  \/ NextIteration(i) \/ TaskCancelled(i)
RequestStep(h) ==
  RequestConnected(h) \/ RequestMakesSchema(h) \/ RequestOpeningFails(h) \/ Answer(h)

Next ==
  \/ \E m \in Mains : StartRunner(m) \/ ListenFails(m)
  \/ \E m \in Mains : StartStep(m)
  \/ \E c \in MayStop : Stop(c)
  \/ \E c \in Callers : StopStep(c)
  \/ \E i \in Runs : TaskStep(i)
  \/ \E i \in Runs, h \in Handlers : Accept(i, h)
  \/ \E h \in Handlers : RequestStep(h)

\* The event loop runs the tasks that are ready.  Within the bounds none runs for
\* ever, so that some task always goes on means that each one does.
Fairness == WF_vars(\/ \E c \in Callers : StopStep(c)
                    \/ \E i \in Runs : TaskStep(i)
                    \/ \E h \in Handlers : RequestStep(h))

Spec == Init /\ [][Next]_vars /\ Fairness

-----------------------------------------------------------------------------
(* Correctness. *)

TypeOK ==
  /\ {running, conn, schema, leaked, doubled, cut} \subseteq BOOLEAN
  /\ closed \in {"set", "clear"}
  /\ {runner, site, timeout_task, starts} \subseteq 0..MaxStarts
  /\ served \in [Runs -> 0..MaxStarts]
  /\ socket \in [Runs -> {"none", "open", "closed"}]
  /\ timeout \in [Runs -> {"none", "mark", "connect", "schema", "hook", "done"}]
  /\ marks \in [Runs -> 0..MaxMarks] /\ cancelled \subseteq Runs
  /\ pc \in [Callers -> {"idle", "setup", "listen", "join", "site", "cleanup", "close"}]
  /\ mine \in [Callers -> 0..MaxStarts]
  /\ request \in [Handlers -> {"idle", "connect", "schema", "hook"}]
  /\ via \in [Handlers -> 0..MaxStarts]
  /\ accepted \in 0..MaxRequests /\ {raced, selfstopped} \subseteq BOOLEAN

\* A server that stop() has stopped has released everything: nothing listens, no
\* timeout task or request goes on, its storage connection is closed and not opened
\* again, and no other is left open unless two first calls opened one each.  Not so
\* after start() and stop() were in progress at once, or stop() was called by a hook
\* (in the timeout task, which then goes on, or in a request, which cleanup() waits
\* for).
StoppedMeansReleased ==
  (closed = "set" /\ ~raced /\ ~selfstopped /\ Active = {}) =>
    /\ \A i \in Runs : socket[i] # "open" /\ timeout[i] \in {"none", "done"}
    /\ \A h \in Handlers : request[h] = "idle"
    /\ ~conn
    /\ leaked => doubled

\* A connection that is open and that nobody is still setting up has its tables, also
\* when two first calls opened one each and when opening one failed and a later call
\* tried again.  Not so once a call was cancelled, or a PRAGMA or the script raised,
\* between setting _conn and the last table: _get_conn then returns the connection as
\* it is to every later call, and these fail until the server is stopped.
TablesExist ==
  (/\ conn /\ ~cut
   /\ \A i \in Runs : timeout[i] \notin {"connect", "schema"}
   /\ \A h \in Handlers : request[h] \notin {"connect", "schema"}) => schema

\* One timeout task at a time, under the same conditions, over however many starts
\* and failed starts.
OneTimeoutTask ==
  (~raced /\ ~selfstopped) =>
    Cardinality({i \in Runs : timeout[i] \notin {"none", "done"}}) <= 1

\* Every stop() wakes wait_closed(), although requests may hold it up, under the
\* same conditions.
WaitClosedReturns ==
  (\E c \in Callers : pc[c] = "join") ~> (closed = "set" \/ raced \/ selfstopped)
=============================================================================
