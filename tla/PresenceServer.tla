--------------------------- MODULE PresenceServer ---------------------------
(***************************************************************************)
(* Device presence, in the synchronous server (server/server.py) and in    *)
(* the asynchronous one over AsyncInMemoryStorage (server/async_server.py).*)
(*                                                                         *)
(* ThreadingHTTPServer runs every request on a thread of its own, so any   *)
(* number of _handle_heartbeat calls interleave with each other and with   *)
(* the timeout-checker thread (_check_device_timeout).  They share only    *)
(* the storage backend, whose methods each take its lock once; everything  *)
(* a handler remembers between two storage calls is a local variable and   *)
(* may be stale by the time it is used.                                    *)
(*                                                                         *)
(* The asynchronous server runs the same two handlers as tasks of one      *)
(* event loop.  AsyncInMemoryStorage never suspends inside its lock, so    *)
(* its lock is always free and two calls in a row are one step of the loop.*)
(*                                                                         *)
(* Callbacks: _trigger_hook and _trigger_plugin call every observer in     *)
(* turn and swallow what it raises, so one observer stands for them all.   *)
(***************************************************************************)
EXTENDS Integers, FiniteSets, DeviceTable

CONSTANTS
  Devices,        \* device ids
  Handlers,       \* request-handler threads that can exist at once
  Backends,       \* the backends a server may be started with
  DeviceTimeout,  \* RISELServer.device_timeout, in clock ticks
  OneAtATime,     \* TRUE: a device never has two heartbeats in flight
  MaxTime,        \* bound: last value of the clock
  MaxHeartbeats,  \* bound: heartbeats that arrive in a behaviour
  MaxFaults,      \* bound: storage calls that raise
  MaxCrashes      \* bound: process crashes

\* InMemoryStorage, SQLiteStorage and AsyncInMemoryStorage.
ASSUME BackendAssumption == Backends \subseteq {"memory", "sqlite", "async"}
ASSUME TimeoutAssumption == DeviceTimeout \in Nat
ASSUME NoneAssumption == "none" \notin Devices
\* The process has threads for finitely many requests, and for one at least.
ASSUME HandlersAssumption == IsFiniteSet(Handlers) /\ Handlers # {}
ASSUME BoundsAssumption ==
  /\ OneAtATime \in BOOLEAN
  /\ MaxTime \in Nat /\ MaxHeartbeats \in Nat
  /\ MaxFaults \in Nat /\ MaxCrashes \in Nat

VARIABLES
  backend,   \* the server's storage backend
  now,       \* now_unix()
  devices,   \* the table: self._devices, or the rows of `devices`
  pc,        \* where each handler thread is in _handle_heartbeat
  frame,     \* the locals of each handler's _handle_heartbeat / upsert_device
  cpc,       \* where the timeout checker is in _check_device_timeout
  cutoff, transitioned,  \* the locals of its iteration
  moves,     \* history: what happened to each device in the table
  calls,     \* history: the callbacks each device caused
  arrived, faults, crashes  \* counters of the bounds

checker == <<cpc, cutoff, transitioned>>
vars == <<backend, now, devices, pc, frame, checker, moves, calls,
          arrived, faults, crashes>>

Kinds == {"registered", "online", "heartbeat", "offline"}
HandlerPCs == {"idle", "get", "stamp", "upsert", "new", "known", "beat"}
CheckerPCs == {"cutoff", "mark", "notify", "wait"}

\* The locals of a _handle_heartbeat that is running: the payload's device, the
\* status of `existing` and the `now` SQLiteStorage.upsert_device reads.  The
\* `is_new` that upsert_device returns is in the pc, "new" or "known".
NoFrame == [device |-> "none", existing |-> "absent", stamp |-> 0]

Frames == [device : Devices \cup {"none"},
           existing : {"absent", "online", "offline"},
           stamp : Nat]

Counts == [Devices -> [Kinds -> Nat]]
NoCounts == [d \in Devices |-> [k \in Kinds |-> 0]]

Count(counts, d, k) == [counts EXCEPT ![d][k] = @ + 1]

-----------------------------------------------------------------------------
Init ==
  /\ backend \in Backends
  /\ now = 0
  /\ devices = [d \in Devices |-> NoRow]
  /\ pc = [h \in Handlers |-> "idle"]
  /\ frame = [h \in Handlers |-> NoFrame]
  /\ cpc = "cutoff" /\ cutoff = 0 /\ transitioned = {}
  /\ moves = NoCounts
  /\ calls = NoCounts
  /\ arrived = 0 /\ faults = 0 /\ crashes = 0

Tick ==
  /\ now < MaxTime
  /\ now' = now + 1
  /\ UNCHANGED <<backend, devices, pc, frame, checker, moves, calls,
                 arrived, faults, crashes>>

-----------------------------------------------------------------------------
(* A handler thread. *)

\* Mutant: the locals of one request leak into the thread's next one.
ReturnKeepingFrame(h) == pc' = [pc EXCEPT ![h] = "idle"] /\ UNCHANGED frame

Return(h) == /\ pc' = [pc EXCEPT ![h] = "idle"]
             /\ frame' = [frame EXCEPT ![h] = NoFrame]

\* A valid heartbeat reaches the server and gets a thread.
Arrive(h, d) ==
  /\ pc[h] = "idle"
  /\ arrived < MaxHeartbeats
  /\ OneAtATime => \A g \in Handlers : frame[g].device # d
  /\ arrived' = arrived + 1
  /\ pc' = [pc EXCEPT ![h] = "get"]
  /\ frame' = [frame EXCEPT ![h] = [NoFrame EXCEPT !.device = d]]
  /\ UNCHANGED <<backend, now, devices, checker, moves, calls, faults, crashes>>

\* Mutant: InMemoryStorage reading the clock where SQLiteStorage does.
ClockAlwaysBeforeLock == TRUE

\* Where upsert_device reads the clock: InMemoryStorage inside its lock,
\* SQLiteStorage before it takes it.
ClockBeforeLock == backend = "sqlite"

\* Mutant: the awaits suspend.
AwaitsSuspend == FALSE

\* Whether the awaits between two storage calls of a handler never suspend.
OnEventLoop == backend = "async"

\* No task of the event loop is between two calls it makes in one step.
LoopFree == OnEventLoop => cpc # "mark" /\ \A h \in Handlers : pc[h] # "upsert"

\* existing = self._storage.get_device(heartbeat.device_id)
\* (InMemoryStorage returns the live row, so its status is read a moment
\* after the lock is released: some status of the row between the two, which
\* taking this step at that moment gives.)
GetDevice(h) ==
  /\ pc[h] = "get" /\ LoopFree
  /\ frame' = [frame EXCEPT ![h].existing = devices[frame[h].device].status]
  /\ pc' = [pc EXCEPT ![h] = IF ClockBeforeLock THEN "stamp" ELSE "upsert"]
  /\ UNCHANGED <<backend, now, devices, checker, moves, calls, arrived, faults, crashes>>

ReadClock(h) ==
  /\ pc[h] = "stamp"
  /\ frame' = [frame EXCEPT ![h].stamp = now]
  /\ pc' = [pc EXCEPT ![h] = "upsert"]
  /\ UNCHANGED <<backend, now, devices, checker, moves, calls, arrived, faults, crashes>>

StampOf(h) == IF ClockBeforeLock THEN frame[h].stamp ELSE now

\* What a heartbeat does to the table: its first row, a return, a refresh.
MoveOf(row) ==
  CASE row.status = "absent" -> {"registered", "heartbeat"}
    [] row.status = "offline" -> {"online", "heartbeat"}
    [] row.status = "online" -> {"heartbeat"}

\* Mutant: is_new taken from the get_device made before, not from the upsert.
IsNewByRead(h) == frame[h].existing = "absent"

\* is_new: upsert_device finds no row.
IsNew(h) == devices[frame[h].device].status = "absent"

\* The locked body of upsert_device.
UpsertDevice(h) ==
  LET d == frame[h].device IN
  /\ pc[h] = "upsert"
  /\ devices' = [devices EXCEPT ![d] = Upserted(@, StampOf(h))]
  /\ pc' = [pc EXCEPT ![h] = IF IsNew(h) THEN "new" ELSE "known"]
  /\ moves' = [moves EXCEPT ![d] =
                 [k \in Kinds |-> IF k \in MoveOf(devices[d])
                                  THEN moves[d][k] + 1 ELSE moves[d][k]]]
  /\ UNCHANGED <<backend, now, frame, checker, calls, arrived, faults, crashes>>

\* get_device or upsert_device raises: the transaction rolls back, no callback
\* runs and the client gets HTTP 500.
HandlerStorageFails(h) ==
  /\ pc[h] \in {"get", "upsert"}
  /\ backend = "sqlite"
  /\ faults < MaxFaults
  /\ faults' = faults + 1
  /\ Return(h)
  /\ UNCHANGED <<backend, now, devices, checker, moves, calls, arrived, crashes>>

\* Mutant: `elif was_online`.
WasNotOnline(h) == frame[h].existing # "online"

\* was_online = existing is not None and existing.status == "online"
WasOnline(h) == frame[h].existing = "online"

\* if is_new: on_device_registered  elif not was_online: on_device_online
TriggerTransition(h) ==
  LET d == frame[h].device IN
  /\ \/ pc[h] = "new" /\ calls' = Count(calls, d, "registered")
     \/ pc[h] = "known" /\ ~WasOnline(h) /\ calls' = Count(calls, d, "online")
     \/ pc[h] = "known" /\ WasOnline(h) /\ UNCHANGED calls
  /\ pc' = [pc EXCEPT ![h] = "beat"]
  /\ UNCHANGED <<backend, now, devices, frame, checker, moves, arrived, faults, crashes>>

\* on_heartbeat, then the 200 response.
TriggerHeartbeat(h) ==
  /\ pc[h] = "beat"
  /\ calls' = Count(calls, frame[h].device, "heartbeat")
  /\ Return(h)
  /\ UNCHANGED <<backend, now, devices, checker, moves, arrived, faults, crashes>>

Handler(h) ==
  \/ GetDevice(h)
  \/ ReadClock(h)
  \/ UpsertDevice(h)
  \/ TriggerTransition(h)
  \/ TriggerHeartbeat(h)

-----------------------------------------------------------------------------
(* The timeout checker: one thread, one iteration after another. *)

ReadCutoff ==
  /\ cpc = "cutoff" /\ cpc' = "mark" /\ LoopFree
  /\ cutoff' = now - DeviceTimeout
  /\ UNCHANGED <<backend, transitioned, now, devices, pc, frame, moves, calls, arrived,
                 faults, crashes>>

MarkOffline ==
  /\ cpc = "mark" /\ cpc' = "notify"
  /\ devices' = MarkedOffline(devices, cutoff)
  /\ transitioned' = Stale(devices, cutoff)
  /\ moves' = [d \in Devices |->
                 IF d \in transitioned' THEN [moves[d] EXCEPT !["offline"] = @ + 1]
                                ELSE moves[d]]
  /\ UNCHANGED <<backend, cutoff, now, pc, frame, calls, arrived, faults, crashes>>

\* Mutant: no try around the iteration, so the thread ends.
CheckerDies ==
  /\ cpc = "mark" /\ cpc' = "dead"
  /\ backend = "sqlite"
  /\ faults < MaxFaults
  /\ faults' = faults + 1
  /\ UNCHANGED <<backend, cutoff, transitioned, now, devices, pc, frame, moves, calls,
                 arrived, crashes>>

\* mark_offline raises: the iteration is logged and abandoned.
CheckerStorageFails ==
  /\ cpc = "mark" /\ cpc' = "wait"
  /\ backend = "sqlite"
  /\ faults < MaxFaults
  /\ faults' = faults + 1
  /\ UNCHANGED <<backend, cutoff, transitioned, now, devices, pc, frame, moves, calls,
                 arrived, crashes>>

\* Mutant: an observer's exception is not swallowed and ends the iteration
\* before the other devices are announced.
TriggerOfflineUnprotected(d) ==
  /\ cpc = "notify"
  /\ d \in transitioned
  /\ calls' = Count(calls, d, "offline")
  /\ transitioned' = {}
  /\ UNCHANGED <<backend, cpc, cutoff, now, devices, pc, frame, moves, arrived, faults,
                 crashes>>

\* on_device_offline for one of the transitioned devices, in any order.
TriggerOffline(d) ==
  /\ cpc = "notify"
  /\ d \in transitioned
  /\ calls' = Count(calls, d, "offline")
  /\ transitioned' = transitioned \ {d}
  /\ UNCHANGED <<backend, cpc, cutoff, now, devices, pc, frame, moves, arrived, faults,
                 crashes>>

EndIteration ==
  /\ cpc = "notify" /\ cpc' = "wait"
  /\ transitioned = {}
  /\ UNCHANGED <<backend, cutoff, transitioned, now, devices, pc, frame, moves, calls,
                 arrived, faults, crashes>>

\* _stop_event.wait(DEFAULT_TIMEOUT_CHECK_INTERVAL) times out.  The length of
\* the interval is left open.
EndWait ==
  /\ cpc = "wait" /\ cpc' = "cutoff"
  /\ cutoff' = 0
  /\ UNCHANGED <<backend, transitioned, now, devices, pc, frame, moves, calls, arrived,
                 faults, crashes>>

Checker ==
  \/ ReadCutoff
  \/ MarkOffline
  \/ \E d \in Devices : TriggerOffline(d)
  \/ EndIteration
  \/ EndWait

-----------------------------------------------------------------------------
\* The process dies between any two steps and is started again on the same
\* database.  Only SQLiteStorage survives; an InMemoryStorage restart is the
\* initial state, so it is not a step of its own.
Crash ==
  /\ backend = "sqlite"
  /\ crashes < MaxCrashes
  /\ crashes' = crashes + 1
  /\ pc' = [h \in Handlers |-> "idle"]
  /\ frame' = [h \in Handlers |-> NoFrame]
  /\ cpc' = "cutoff" /\ cutoff' = 0 /\ transitioned' = {}
  /\ UNCHANGED <<backend, now, devices, moves, calls, arrived, faults>>

Next ==
  \/ Tick
  \/ \E h \in Handlers, d \in Devices : Arrive(h, d)
  \/ \E h \in Handlers : Handler(h)
  \/ \E h \in Handlers : HandlerStorageFails(h)
  \/ Checker
  \/ CheckerStorageFails
  \/ Crash

\* The scheduler runs every thread and callbacks return; nothing makes a
\* device send a heartbeat, the storage fail or the process crash.
Fairness == /\ WF_vars(Checker)
            /\ \A h \in Handlers : WF_vars(Handler(h))

Spec == Init /\ [][Next]_vars /\ Fairness
-----------------------------------------------------------------------------
(* Correctness. *)

TypeOK ==
  /\ backend \in Backends
  /\ now \in 0..MaxTime
  /\ devices \in [Devices -> Row]
  /\ pc \in [Handlers -> HandlerPCs]
  /\ frame \in [Handlers -> Frames]
  /\ \A h \in Handlers : pc[h] # "idle" <=> frame[h].device \in Devices
  /\ cpc \in CheckerPCs /\ cutoff \in Int /\ transitioned \subseteq Devices
  /\ moves \in Counts /\ calls \in Counts
  /\ arrived \in 0..MaxHeartbeats
  /\ faults \in 0..MaxFaults
  /\ crashes \in 0..MaxCrashes

\* Handlers that will still make a callback of kind k for d.
Owing(d, k) ==
  {h \in Handlers : /\ frame[h].device = d
                    /\ \/ k = "registered" /\ pc[h] = "new"
                       \/ k = "online" /\ pc[h] = "known" /\ ~WasOnline(h)
                       \/ k = "heartbeat" /\ pc[h] \in {"new", "known", "beat"}}

\* Callbacks of kind k for d that some thread still holds.
InFlight(d, k) ==
  IF k = "offline" THEN IF d \in transitioned THEN 1 ELSE 0
                   ELSE Cardinality(Owing(d, k))

\* on_device_registered is called at most once in the life of a database,
\* however many first heartbeats of a device race and whatever is restarted.
RegisteredOnce == \A d \in Devices : calls[d]["registered"] <= 1

\* Every registration, stored heartbeat and timeout of the table is announced
\* exactly once, or held by a running thread, or was lost with a crash (which
\* loses at most what each handler held).
CallbacksAccounted ==
  \A d \in Devices, k \in {"registered", "heartbeat", "offline"} :
    moves[d][k] - calls[d][k] - InFlight(d, k)
      \in 0..(crashes * Cardinality(Handlers))

\* One outage is reported offline at most once: never more often than the
\* device was registered or came back.
OneOfflinePerOutage ==
  \A d \in Devices :
    calls[d]["offline"] <= moves[d]["registered"] + moves[d]["online"]

\* A device shown offline has been silent for longer than device_timeout, though
\* the cutoff is computed long before mark_offline uses it.
OfflineMeansSilent ==
  \A d \in Devices :
    devices[d].status = "offline" => now - devices[d].last_heartbeat > DeviceTimeout

\* first_seen never changes once the row exists (upsert_device preserves it)
\* and no step removes a row.
FirstSeenPreserved ==
  [][\A d \in Devices :
       devices[d].status # "absent" =>
         /\ devices'[d].status # "absent"
         /\ devices'[d].first_seen = devices[d].first_seen]_vars

\* last_heartbeat is the time of the most recent heartbeat, so it never goes
\* back, whichever handlers race (Device.last_heartbeat), unless the stamp is taken
\* before the lock.
LastHeartbeatMonotone ==
  [][backend # "sqlite" => \A d \in Devices :
       devices'[d].last_heartbeat >= devices[d].last_heartbeat]_vars

\* on_device_online is for a device that was offline: it is called no more
\* often than the table's row went from offline to online.
OnlineOnlyAfterOffline ==
  \A d \in Devices : calls[d]["online"] <= moves[d]["online"]

\* In the asynchronous server every return of an offline device, and nothing
\* else, is announced by on_device_online: nothing runs between get_device and
\* upsert_device, though timeouts and other heartbeats interleave elsewhere.
ReturnsExactOnLoop ==
  backend = "async" =>
    \A d \in Devices : moves[d]["online"] = calls[d]["online"] + InFlight(d, "online")

\* Every return of an offline device is announced by on_device_online, once
\* the handlers of that device have returned.
ReturnAnnounced ==
  \A d \in Devices :
    (\A h \in Handlers : frame[h].device # d)
      => calls[d]["online"] >= moves[d]["online"]

\* A device that stops sending heartbeats is eventually marked offline
\* (Heartbeat's docstring), unless it is heard from again.
SilentGoesOffline ==
  \A d \in Devices :
    (devices[d].status = "online" /\ now - devices[d].last_heartbeat > DeviceTimeout)
      ~> \/ devices[d].status = "offline"
         \/ now - devices[d].last_heartbeat <= DeviceTimeout

\* Every timeout of the table is announced by on_device_offline.
OfflineAnnounced ==
  \A d \in Devices :
    calls[d]["offline"] < moves[d]["offline"]
      ~> calls[d]["offline"] = moves[d]["offline"]

-----------------------------------------------------------------------------
(* The server implements Presence: what is owed is what the running threads *)
(* hold in their locals.                                                    *)

Unannounced == {d \in Devices : Owing(d, "registered") # {}}
Owed == {<<"registered", d>> : d \in Unannounced} \cup {<<"offline", d>> : d \in transitioned}
Told == [d \in Devices |-> [k \in {"registered", "offline"} |-> calls[d][k]]]

Promise == INSTANCE Presence WITH durable <- backend = "sqlite", owed <- Owed, told <- Told

\* Seen from outside, the interleaved handlers and checker behave as Presence:
\* storing a heartbeat, timing out and announcing are each one step.
PresenceImplemented == Promise!Spec
=============================================================================
