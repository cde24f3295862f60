--------------------------- MODULE DeviceLifecycle ---------------------------
(***************************************************************************)
(* RISELDevice.start and stop and the heartbeat thread (client/device.py).  *)
(* The application's threads and the heartbeat threads share _running,      *)
(* _stop_event, _heartbeat_thread and the transport without a lock; a hook  *)
(* on a heartbeat thread, and on_ready within start(), may call stop().     *)
(* Run i is the i-th start() that got past its check, with the heartbeat    *)
(* thread it makes, if it comes that far.                                   *)
(***************************************************************************)
EXTENDS Naturals, FiniteSets

CONSTANTS
  Mains,      \* application threads that call start() and stop()
  MaxStarts,  \* bound: runs
  MaxSends,   \* bound: heartbeats of each heartbeat thread
  MaxAtOnce   \* bound: calls of start and stop in progress at once

ASSUME DeviceBoundsAssumption == {MaxStarts, MaxSends, MaxAtOnce} \subseteq Nat

Runs == 1..MaxStarts
Beat(i) == <<"heartbeat", i>>
Callers == Mains \cup {Beat(i) : i \in Runs}

VARIABLES
  running,           \* self._running
  stop_event,        \* self._stop_event: "set" or "clear"
  heartbeat_thread,  \* the run of self._heartbeat_thread, 0 for None
  transport,         \* self._transport: "new", "open" or "closed"
  starts,            \* runs so far
  beat,              \* where each run's heartbeat thread is
  sends,             \* heartbeats of each
  pc,                \* where each caller is in start() or stop()
  mine,              \* the run of a start(), the thread a stop() joins
  raced, abandoned, slow, halfstarted  \* history, see the properties

attributes == <<running, stop_event, heartbeat_thread, transport>>
threads == <<starts, beat, sends>>
history == <<raced, abandoned, slow, halfstarted>>
vars == <<attributes, threads, pc, mine, history>>

Init ==
  /\ running = FALSE /\ stop_event = "clear" /\ heartbeat_thread = 0 /\ transport = "new"
  /\ starts = 0
  /\ beat = [i \in Runs |-> "none"]
  /\ sends = [i \in Runs |-> 0]
  /\ pc = [c \in Callers |-> "idle"]
  /\ mine = [c \in Callers |-> 0]
  /\ raced = FALSE /\ abandoned = FALSE /\ slow = FALSE /\ halfstarted = FALSE

Goto(c, l) == pc' = [pc EXCEPT ![c] = l]

\* Callers that are past the test of _running and not done yet.
Active == {c \in Callers : pc[c] \notin {"idle", "blocked"}}
PastCheck(c, l) == /\ Cardinality(Active \ {c}) < MaxAtOnce
                   /\ Goto(c, l)
                   /\ raced' = (raced \/ Active \ {c} # {})

-----------------------------------------------------------------------------
(* start() *)

\* if self._running: raise RuntimeError
StartCheck(m) ==
  /\ pc[m] = "idle" /\ ~running /\ starts < MaxStarts
  /\ starts' = starts + 1
  /\ mine' = [mine EXCEPT ![m] = starts']
  /\ PastCheck(m, "connect")
  /\ UNCHANGED <<attributes, beat, sends, abandoned, slow, halfstarted>>

\* self._transport.connect(); on an exception, return False
Connect(m) ==
  /\ pc[m] = "connect"
  /\ \/ transport' = "open" /\ Goto(m, "wifi")
     \/ Goto(m, "idle") /\ UNCHANGED transport
  /\ UNCHANGED <<running, stop_event, heartbeat_thread, threads, mine, history>>

\* _connect_wifi gives up (on MicroPython): return False, the transport stays as it is.
NoWifi(m) ==
  /\ pc[m] = "wifi"
  /\ Goto(m, "idle")
  /\ halfstarted' = TRUE
  /\ UNCHANGED <<attributes, threads, mine, raced, abandoned, slow>>

Wifi(m) ==
  /\ pc[m] = "wifi"
  /\ Goto(m, "first")
  /\ UNCHANGED <<attributes, threads, mine, history>>

\* The first heartbeat gets no answer: likewise.
FirstHeartbeatFails(m) ==
  /\ pc[m] = "first"
  /\ Goto(m, "idle")
  /\ halfstarted' = TRUE
  /\ UNCHANGED <<attributes, threads, mine, raced, abandoned, slow>>

FirstHeartbeat(m) ==
  /\ pc[m] = "first"
  /\ Goto(m, "run")
  /\ UNCHANGED <<attributes, threads, mine, history>>

SetRunning(m) ==
  /\ pc[m] = "run"
  /\ running' = TRUE
  /\ Goto(m, "clear")
  /\ UNCHANGED <<stop_event, heartbeat_thread, transport, threads, mine, history>>

\* self._stop_event.clear()
Clear(m) ==
  /\ pc[m] = "clear"
  /\ stop_event' = "clear"
  /\ Goto(m, "make")
  /\ UNCHANGED <<running, heartbeat_thread, transport, threads, mine, history>>

\* self._heartbeat_thread = threading.Thread(...)
MakeThread(m) ==
  /\ pc[m] = "make"
  /\ beat' = [beat EXCEPT ![mine[m]] = "new"]
  /\ heartbeat_thread' = mine[m]
  /\ Goto(m, "spawn")
  /\ UNCHANGED <<running, stop_event, transport, starts, sends, mine, history>>

\* self._heartbeat_thread.start(): another start() or stop() may have changed the
\* attribute, and None, or a thread that was started already, raises.
Spawn(m) ==
  /\ pc[m] = "spawn"
  /\ IF heartbeat_thread \in {i \in Runs : beat[i] = "new"}
     THEN beat' = [beat EXCEPT ![heartbeat_thread] = "wait"] /\ Goto(m, "ready")
     ELSE Goto(m, "idle") /\ UNCHANGED beat
  /\ UNCHANGED <<attributes, starts, sends, mine, history>>

\* on_ready has returned; with block=True start() waits here.
Ready(m) ==
  /\ pc[m] = "ready"
  /\ Goto(m, "idle") \/ Goto(m, "blocked")
  /\ UNCHANGED <<attributes, threads, mine, history>>

\* while self._running has ended; finally: self.stop(), which does nothing.
Unblock(m) ==
  /\ pc[m] = "blocked" /\ ~running
  /\ Goto(m, "idle")
  /\ UNCHANGED <<attributes, threads, mine, history>>

\* transport(): the application replaces the transport, and closes the old one.
ReplaceTransport(m) ==
  /\ pc[m] = "idle"
  /\ transport' = "new"
  /\ UNCHANGED <<running, stop_event, heartbeat_thread, threads, pc, mine, history>>

-----------------------------------------------------------------------------
(* stop(), also by Ctrl-C in a start() that blocks and by on_ready *)

\* if not self._running: return
StopCheck(c) ==
  /\ pc[c] \in {"idle", "blocked", "ready"} /\ running
  /\ PastCheck(c, "stop")
  /\ UNCHANGED <<attributes, threads, mine, abandoned, slow, halfstarted>>

\* Mutant: _stop_event.set() forgotten.
StopSetQuietly(c) ==
  /\ pc[c] = "stop"
  /\ running' = FALSE
  /\ mine' = [mine EXCEPT ![c] = heartbeat_thread]
  /\ Goto(c, "join")
  /\ UNCHANGED <<stop_event, heartbeat_thread, transport, threads, history>>

StopSet(c) ==
  /\ pc[c] = "stop"
  /\ running' = FALSE /\ stop_event' = "set"
  /\ mine' = [mine EXCEPT ![c] = heartbeat_thread]
  /\ Goto(c, "join")
  /\ UNCHANGED <<heartbeat_thread, transport, threads, history>>

\* Mutant: the thread is not joined.
JoinNothing(c) ==
  /\ pc[c] = "join"
  /\ heartbeat_thread' = 0
  /\ Goto(c, "close")
  /\ UNCHANGED <<running, stop_event, transport, threads, mine, history>>

\* _heartbeat_thread.join(timeout=5): the thread has ended, or a send or a hook takes
\* longer, or a start() has cleared the event again.  A thread that joins itself, or
\* one that is not started yet, gets RuntimeError, which ends the stop().
Join(c) ==
  /\ pc[c] = "join"
  /\ IF mine[c] \in {i \in Runs : c = Beat(i) \/ beat[i] = "new"}
     THEN Goto(c, "idle") /\ abandoned' = TRUE /\ UNCHANGED <<heartbeat_thread, slow>>
     ELSE /\ \/ mine[c] \notin {i \in Runs : beat[i] # "done"} /\ UNCHANGED slow
             \/ /\ mine[c] \in {i \in Runs : \/ beat[i] \in {"send", "hook"}
                                            \/ (beat[i] = "wait" /\ stop_event = "clear")}
                /\ slow' = TRUE
          /\ heartbeat_thread' = IF mine[c] = 0 THEN heartbeat_thread ELSE 0
          /\ Goto(c, "close") /\ UNCHANGED abandoned
  /\ UNCHANGED <<running, stop_event, transport, threads, mine, raced, halfstarted>>

\* self._transport.close(), whatever it raises.
CloseTransport(c) ==
  /\ pc[c] = "close"
  /\ transport' = "closed"
  /\ halfstarted' = FALSE
  /\ Goto(c, "idle")
  /\ UNCHANGED <<running, stop_event, heartbeat_thread, threads, mine, raced, abandoned, slow>>

-----------------------------------------------------------------------------
(* _heartbeat_loop *)

\* self._stop_event.wait(interval)
Wait(i) ==
  /\ beat[i] = "wait"
  /\ \/ stop_event = "set" /\ beat' = [beat EXCEPT ![i] = "done"] /\ UNCHANGED sends
     \/ /\ stop_event = "clear" /\ sends[i] < MaxSends
        /\ beat' = [beat EXCEPT ![i] = "send"]
        /\ sends' = [sends EXCEPT ![i] = @ + 1]
  /\ UNCHANGED <<attributes, starts, pc, mine, history>>

\* The heartbeat has succeeded or failed; its hooks are called.
Sent(i) ==
  /\ beat[i] = "send"
  /\ beat' = [beat EXCEPT ![i] = "hook"]
  /\ UNCHANGED <<attributes, starts, sends, pc, mine, history>>

HooksReturn(i) ==
  /\ beat[i] = "hook" /\ pc[Beat(i)] = "idle"
  /\ beat' = [beat EXCEPT ![i] = "wait"]
  /\ UNCHANGED <<attributes, starts, sends, pc, mine, history>>

-----------------------------------------------------------------------------
MayStop == Mains \cup {Beat(i) : i \in {j \in Runs : beat[j] = "hook"}}

StartStep(m) == \/ Connect(m) \/ NoWifi(m) \/ Wifi(m)
                \/ FirstHeartbeatFails(m) \/ FirstHeartbeat(m)
                \/ SetRunning(m) \/ Clear(m) \/ MakeThread(m) \/ Spawn(m) \/ Ready(m) \/ Unblock(m)
StopStep(c) == StopSet(c) \/ Join(c) \/ CloseTransport(c)
BeatStep(i) == Wait(i) \/ Sent(i) \/ HooksReturn(i)

Next ==
  \/ \E m \in Mains : StartCheck(m) \/ ReplaceTransport(m)
  \/ \E m \in Mains : StartStep(m)
  \/ \E c \in MayStop : StopCheck(c)
  \/ \E c \in Callers : StopStep(c)
  \/ \E i \in Runs : BeatStep(i)

\* The scheduler runs the threads, and a send ends, by its timeout at the latest.
\* Within the bounds none runs for ever, so that some thread always goes on means
\* that each one does.
Fairness == WF_vars(\/ \E m \in Mains : StartStep(m)
                    \/ \E c \in Callers : StopStep(c)
                    \/ \E i \in Runs : BeatStep(i))

Spec == Init /\ [][Next]_vars /\ Fairness

-----------------------------------------------------------------------------
(* Correctness. *)

TypeOK ==
  /\ running \in BOOLEAN /\ stop_event \in {"set", "clear"}
  /\ {heartbeat_thread, starts} \subseteq 0..MaxStarts
  /\ heartbeat_thread # 0 => beat[heartbeat_thread] # "none"
  /\ transport \in {"new", "open", "closed"}
  /\ beat \in [Runs -> {"none", "new", "wait", "send", "hook", "done"}]
  /\ sends \in [Runs -> 0..MaxSends]
  /\ pc \in [Callers -> {"idle", "connect", "wifi", "first", "run", "clear", "make",
                         "spawn", "ready", "blocked", "stop", "join", "close"}]
  /\ mine \in [Callers -> 0..MaxStarts]
  /\ {raced, abandoned, slow, halfstarted} \subseteq BOOLEAN

\* A device that does not run has nothing at work ("Stop the heartbeat loop and
\* release all resources"): no heartbeat thread of this run or of an earlier one is
\* left, and the transport is not open.  Not so after start() and stop() were in
\* progress at once, a heartbeat hook called stop() (which then joins itself and never
\* closes the transport), or the join timed out in a long send; and a start() that
\* fails after connect() leaves the transport open.
StoppedMeansReleased ==
  (~raced /\ ~abandoned /\ ~slow /\ ~running /\ Active = {}) =>
    /\ \A i \in Runs : beat[i] \in {"none", "done"}
    /\ transport = "open" => halfstarted

\* A stop sticks: once the device does not run, and until it is started again, every
\* heartbeat thread comes to its end, those that earlier stops left behind when their
\* join timed out or a hook's stop() joined itself among them, and every
\* start(block=True) returns ("block the calling thread until stop() is called").
\* Not so after start() and stop() were in progress at once: a start() that
\* clears the event a stop() has set leaves a thread that sends for ever.
StopEndsEveryThread ==
  (~running /\ ~raced) ~>
    \/ running \/ raced
    \/ /\ \A i \in Runs : beat[i] \in {"none", "done"}
       /\ \A m \in Mains : pc[m] # "blocked"
=============================================================================
