----------------------------- MODULE AsyncSQLite -----------------------------
(***************************************************************************)
(* AsyncSQLiteStorage (server/async_storage.py) on its one open connection. *)
(* Request tasks and the timeout task call it at the same time.  Each await *)
(* of a statement lets every other task run, and aiosqlite executes the     *)
(* statements of all tasks in the order they were issued, so one statement  *)
(* is one action.  The transaction belongs to the connection, not to the    *)
(* task: upsert_device and mark_offline hold the asyncio.Lock from BEGIN to *)
(* COMMIT, save_event and get_device take no lock and run inside whatever   *)
(* transaction is open.                                                     *)
(* upsert_device is called by AsyncRISELServer._handle_heartbeat, between   *)
(* its get_device and the callbacks it makes (server/async_server.py).      *)
(***************************************************************************)
EXTENDS Integers, Sequences, DeviceTable

CONSTANTS
  Tasks,          \* tasks that call the storage
  Devices,        \* device ids
  DeviceTimeout,  \* the server's device_timeout, in clock ticks
  MaxTime,        \* bound: last value of the clock
  MaxCalls,       \* bound: calls of each task
  MaxFaults,      \* bound: statements that raise
  MaxCancels      \* bound: tasks cancelled in a call

ASSUME AsyncBoundsAssumption ==
  {DeviceTimeout, MaxTime, MaxCalls, MaxFaults, MaxCancels} \subseteq Nat
ASSUME NoneAssumption == "none" \notin Devices

VARIABLES
  now,
  disk,       \* the committed database
  work,       \* the database as the connection sees it
  tx,         \* "open" while the connection is in a transaction
  lock,       \* self._lock: the holder, then the waiters in order
  pc,         \* the statement each task issues next
  op,         \* the method it is in
  device,     \* the device of a _handle_heartbeat
  existing,   \* the status get_device found for it
  stamp,      \* upsert_device's `now`, mark_offline's `before_unix`
  found,      \* upsert_device's `is_new`
  rows,       \* mark_offline's `rows`
  calls,      \* calls made by each task
  announced,  \* history: how often each device was announced as registered
  wasaway,    \* history: heartbeats whose device was not online in the database
  untrue,     \* history: on_device_online called for one whose device always was
  acked,      \* history: events whose save_event returned
  listed,     \* history: how often mark_offline returned each device
  errors,     \* history: calls that raised
  faults, cancels

locals == <<op, device, existing, stamp, found, rows>>
history == <<announced, wasaway, untrue, acked, listed, errors>>
vars == <<now, disk, work, tx, lock, pc, locals, calls, history, faults, cancels>>

Events == Tasks \X (1..MaxCalls)
Ops == {"heartbeat", "mark", "save"}
PCs == {"idle", "get", "lock", "begin", "select", "write", "commit", "rollback",
        "insert", "saved"}

Init ==
  /\ now = 0
  /\ disk = [devices |-> [d \in Devices |-> NoRow], events |-> {}]
  /\ work = disk /\ tx = "none" /\ lock = <<>>
  /\ pc = [t \in Tasks |-> "idle"]
  /\ op = [t \in Tasks |-> "save"]
  /\ device = [t \in Tasks |-> "none"]
  /\ existing = [t \in Tasks |-> "absent"]
  /\ stamp = [t \in Tasks |-> 0]
  /\ found = [t \in Tasks |-> "known"]
  /\ rows = [t \in Tasks |-> {}]
  /\ calls = [t \in Tasks |-> 0]
  /\ announced = [d \in Devices |-> 0] /\ listed = [d \in Devices |-> 0]
  /\ wasaway = {} /\ untrue = FALSE
  /\ acked = {} /\ errors = 0
  /\ faults = 0 /\ cancels = 0

Goto(t, l) == pc' = [pc EXCEPT ![t] = l]
Without(q, t) ==
  IF \A i \in 1..Len(q) : q[i] # t THEN q
  ELSE LET i == CHOOSE j \in 1..Len(q) : q[j] = t
       IN  [j \in 1..(Len(q) - 1) |-> IF j < i THEN q[j] ELSE q[j + 1]]
Holds(t) == lock # <<>> /\ Head(lock) = t

\* The heartbeats in progress whose device the database now shows offline or lacks.
NoteAway ==
  wasaway' = wasaway \cup {t \in Tasks : /\ pc[t] # "idle" /\ op[t] = "heartbeat"
                                      /\ disk'.devices[device[t]].status # "online"}

\* A statement writes: into the open transaction, or straight to the database.
Write(db) == work' = db /\ disk' = IF tx = "open" THEN disk ELSE db

Tick ==
  /\ now < MaxTime
  /\ now' = now + 1
  /\ UNCHANGED <<disk, work, tx, lock, pc, locals, calls, history, faults, cancels>>

-----------------------------------------------------------------------------
(* A call, up to its first statement. *)

\* Mutant: upsert_device and mark_offline without the lock.
Unlocked(t) == Goto(t, "begin") /\ UNCHANGED lock

\* async with self._lock: join its queue.
Queue(t) == Goto(t, "lock") /\ lock' = Append(lock, t)

\* _handle_heartbeat: get_device takes no lock.
Heartbeat(t, d) ==
  /\ pc[t] = "idle" /\ calls[t] < MaxCalls
  /\ op' = [op EXCEPT ![t] = "heartbeat"]
  /\ device' = [device EXCEPT ![t] = d]
  /\ calls' = [calls EXCEPT ![t] = @ + 1]
  /\ Goto(t, "get")
  /\ wasaway' = IF disk.devices[d].status # "online" THEN wasaway \cup {t}
                                                  ELSE wasaway \ {t}
  /\ UNCHANGED <<now, disk, work, tx, lock, existing, stamp, found, rows, announced, untrue,
                 acked, listed, errors, faults, cancels>>

\* Mutant: an offline device, once read, is taken for offline ever after.
StatusCached(t) ==
  IF existing[t] = "offline" THEN "offline" ELSE work.devices[device[t]].status

\* get_device sees the connection's view, other tasks' uncommitted writes included.
StatusRead(t) == work.devices[device[t]].status

\* Its row is there: on to upsert_device, which reads the clock before it queues.
GetDevice(t) ==
  /\ pc[t] = "get"
  /\ existing' = [existing EXCEPT ![t] = StatusRead(t)]
  /\ stamp' = [stamp EXCEPT ![t] = now]
  /\ Queue(t)
  /\ UNCHANGED <<now, disk, work, tx, op, device, found, rows, calls, history, faults,
                 cancels>>

MarkOffline(t) ==
  /\ pc[t] = "idle" /\ calls[t] < MaxCalls
  /\ op' = [op EXCEPT ![t] = "mark"]
  /\ stamp' = [stamp EXCEPT ![t] = now - DeviceTimeout]
  /\ calls' = [calls EXCEPT ![t] = @ + 1]
  /\ Queue(t)
  /\ UNCHANGED <<now, disk, work, tx, device, existing, found, rows, history, faults, cancels>>

SaveEvent(t) ==
  /\ pc[t] = "idle" /\ calls[t] < MaxCalls
  /\ op' = [op EXCEPT ![t] = "save"]
  /\ calls' = [calls EXCEPT ![t] = @ + 1]
  /\ Goto(t, "insert")
  /\ UNCHANGED <<now, disk, work, tx, lock, device, existing, stamp, found, rows, history,
                 faults, cancels>>

Acquire(t) ==
  /\ pc[t] = "lock" /\ Holds(t)
  /\ Goto(t, "begin")
  /\ UNCHANGED <<now, disk, work, tx, lock, locals, calls, history, faults, cancels>>

-----------------------------------------------------------------------------
(* The statements. *)

\* BEGIN raises inside a transaction.
Begin(t) ==
  /\ pc[t] = "begin"
  /\ IF tx = "open" THEN Goto(t, "rollback") ELSE Goto(t, "select")
  /\ tx' = "open"
  /\ UNCHANGED <<now, disk, work, lock, locals, calls, history, faults, cancels>>

\* The SELECT of each method: is_new, or the rows that are stale.
Select(t) ==
  /\ pc[t] = "select"
  /\ IF op[t] = "heartbeat"
     THEN /\ found' = [found EXCEPT ![t] =
               IF work.devices[device[t]].status = "absent" THEN "new" ELSE "known"]
          /\ Goto(t, "write") /\ UNCHANGED rows
     ELSE /\ rows' = [rows EXCEPT ![t] = Stale(work.devices, stamp[t])]
          /\ Goto(t, IF rows'[t] = {} THEN "commit" ELSE "write")
          /\ UNCHANGED found
  /\ UNCHANGED <<now, disk, work, tx, lock, op, device, existing, stamp, calls, history,
                 faults, cancels>>

\* INSERT or UPDATE of the device, or the UPDATE of all stale rows.
Written(t) ==
  IF op[t] = "heartbeat" THEN [work.devices EXCEPT ![device[t]] = Upserted(@, stamp[t])]
                         ELSE MarkedOffline(work.devices, stamp[t])
WriteRows(t) ==
  /\ pc[t] = "write"
  /\ Write([work EXCEPT !.devices = Written(t)])
  /\ Goto(t, "commit")
  /\ NoteAway
  /\ UNCHANGED <<now, tx, lock, locals, calls, announced, untrue, acked, listed, errors,
                 faults, cancels>>

\* The method returns and leaves the lock; a heartbeat calls on_device_registered,
\* or on_device_online unless the device was online.
Returns(t) ==
  /\ announced' = IF op[t] = "heartbeat" /\ found[t] = "new"
                  THEN [announced EXCEPT ![device[t]] = @ + 1] ELSE announced
  /\ untrue' = \/ untrue
               \/ /\ op[t] = "heartbeat" /\ found[t] = "known"
                  /\ existing[t] # "online" /\ t \notin wasaway
  /\ listed' = IF op[t] = "mark"
               THEN [d \in Devices |-> listed[d] + (IF d \in rows[t] THEN 1 ELSE 0)]
               ELSE listed
  /\ Goto(t, "idle")
  /\ lock' = Without(lock, t)
  /\ UNCHANGED <<acked, errors>>

\* Mutant: a COMMIT that raises is taken for one that succeeded.
CommitUnchecked(t) ==
  /\ pc[t] = "commit"
  /\ IF tx = "open" THEN disk' = work ELSE UNCHANGED disk
  /\ Returns(t) /\ NoteAway
  /\ tx' = "none"
  /\ UNCHANGED <<now, work, locals, calls, faults, cancels>>

\* COMMIT raises when no transaction is open.
Commit(t) ==
  /\ pc[t] = "commit"
  /\ IF tx = "open" THEN disk' = work /\ Returns(t) /\ NoteAway
                    ELSE Goto(t, "rollback") /\ UNCHANGED <<disk, lock, history>>
  /\ tx' = "none"
  /\ UNCHANGED <<now, work, locals, calls, faults, cancels>>

\* Mutant: acquire() and release() by hand, and no release on this path.
RollbackKeepsLock(t) ==
  /\ pc[t] = "rollback"
  /\ work' = disk /\ tx' = "none"
  /\ errors' = errors + 1
  /\ Goto(t, "idle")
  /\ UNCHANGED <<now, disk, lock, locals, calls, announced, wasaway, untrue, acked,
                 listed, faults, cancels>>

\* except Exception: ROLLBACK, which itself raises when nothing is open; either
\* way the call raises and leaves the lock.
Rollback(t) ==
  /\ pc[t] = "rollback"
  /\ work' = disk /\ tx' = "none"
  /\ errors' = errors + 1
  /\ Goto(t, "idle")
  /\ lock' = Without(lock, t)
  /\ UNCHANGED <<now, disk, locals, calls, announced, wasaway, untrue, acked,
                 listed, faults, cancels>>

\* save_event's INSERT, without a lock.
Insert(t) ==
  /\ pc[t] = "insert"
  /\ Write([work EXCEPT !.events = @ \cup {<<t, calls[t]>>}])
  /\ Goto(t, "saved")
  /\ UNCHANGED <<now, tx, lock, locals, calls, history, faults, cancels>>

\* save_event returns the event's id.
SaveReturns(t) ==
  /\ pc[t] = "saved"
  /\ acked' = acked \cup {<<t, calls[t]>>}
  /\ Goto(t, "idle")
  /\ UNCHANGED <<now, disk, work, tx, lock, locals, calls, announced, wasaway, untrue,
                 listed, errors, faults, cancels>>

\* A statement raises.  SQLite may or may not roll the transaction back itself.
StatementFails(t) ==
  /\ pc[t] \in {"get", "begin", "select", "write", "commit", "insert"}
  /\ faults < MaxFaults
  /\ faults' = faults + 1
  /\ \/ UNCHANGED <<work, tx>>
     \/ work' = disk /\ tx' = "none"
  /\ IF pc[t] \in {"get", "insert"} THEN Goto(t, "idle") /\ errors' = errors + 1
                         ELSE Goto(t, "rollback") /\ UNCHANGED errors
  /\ UNCHANGED <<now, disk, lock, locals, calls, announced, wasaway, untrue, acked,
                 listed, cancels>>

\* ROLLBACK itself raises: the call raises all the same and leaves the lock.
RollbackFails(t) ==
  /\ pc[t] = "rollback"
  /\ faults < MaxFaults
  /\ faults' = faults + 1
  /\ errors' = errors + 1
  /\ Goto(t, "idle")
  /\ lock' = Without(lock, t)
  /\ UNCHANGED <<now, disk, work, tx, locals, calls, announced, wasaway, untrue, acked,
                 listed, cancels>>

\* The task is cancelled at an await, before its next statement is issued.
\* CancelledError is no Exception: nothing is rolled back, and the lock is left.
Cancel(t) ==
  /\ pc[t] # "idle"
  /\ cancels < MaxCancels
  /\ cancels' = cancels + 1
  /\ Goto(t, "idle")
  /\ lock' = Without(lock, t)
  /\ UNCHANGED <<now, disk, work, tx, locals, calls, history, faults>>

\* It is cancelled while it awaits the last statement of its call: aiosqlite's
\* thread executes a statement it was given, so COMMIT (or ROLLBACK) takes effect,
\* and what the method would have returned (or raised) reaches nobody.  For an
\* earlier statement this is the statement's action and then Cancel.
CancelAwaiting(t) ==
  /\ pc[t] \in {"commit", "rollback"} /\ tx = "open"
  /\ cancels < MaxCancels
  /\ cancels' = cancels + 1
  /\ IF pc[t] = "commit" THEN disk' = work /\ UNCHANGED work
                         ELSE work' = disk /\ UNCHANGED disk
  /\ tx' = "none"
  /\ Goto(t, "idle") /\ lock' = Without(lock, t)
  /\ NoteAway
  /\ UNCHANGED <<now, locals, calls, announced, untrue, acked, listed, errors, faults>>

Step(t) ==
  \/ GetDevice(t) \/ Acquire(t) \/ Begin(t) \/ Select(t) \/ WriteRows(t)
  \/ Commit(t) \/ Rollback(t) \/ Insert(t) \/ SaveReturns(t)

Next ==
  \/ Tick
  \/ \E t \in Tasks, d \in Devices : Heartbeat(t, d)
  \/ \E t \in Tasks : MarkOffline(t)
  \/ \E t \in Tasks : SaveEvent(t)
  \/ \E t \in Tasks : Step(t)
  \/ \E t \in Tasks : StatementFails(t)
  \/ \E t \in Tasks : RollbackFails(t)
  \/ \E t \in Tasks : Cancel(t)
  \/ \E t \in Tasks : CancelAwaiting(t)

\* The event loop runs every task that is ready, and SQLite answers.
Fairness == \A t \in Tasks : WF_vars(Step(t))

Spec == Init /\ [][Next]_vars /\ Fairness

-----------------------------------------------------------------------------
(* Correctness. *)

Databases == [devices : [Devices -> Row], events : SUBSET Events]

TypeOK ==
  /\ now \in 0..MaxTime
  /\ disk \in Databases /\ work \in Databases /\ tx \in {"none", "open"}
  /\ lock \in Seq(Tasks) /\ \A i, j \in 1..Len(lock) : lock[i] = lock[j] => i = j
  /\ pc \in [Tasks -> PCs] /\ op \in [Tasks -> Ops]
  /\ device \in [Tasks -> Devices \cup {"none"}] /\ wasaway \subseteq Tasks
  /\ existing \in [Tasks -> {"absent", "online", "offline"}] /\ untrue \in BOOLEAN
  /\ stamp \in [Tasks -> Int]
  /\ found \in [Tasks -> {"new", "known"}] /\ rows \in [Tasks -> SUBSET Devices]
  /\ calls \in [Tasks -> 0..MaxCalls]
  /\ announced \in [Devices -> Nat] /\ listed \in [Devices -> Nat]
  /\ acked \subseteq Events /\ errors \in Nat
  /\ faults \in 0..MaxFaults /\ cancels \in 0..MaxCancels

\* is_new is returned once in the life of a device at most, whatever fails, is
\* rolled back or is cancelled on the way.
RegisteredOnce == \A d \in Devices : announced[d] <= 1

\* Calls made at the same time do not make each other fail ("Implementations
\* must be safe to call concurrently from multiple coroutines"): with no faulty
\* statement and no cancellation, none raises and no event is lost.
ConcurrencySafe ==
  (faults = 0 /\ cancels = 0) => errors = 0 /\ acked \subseteq work.events

\* on_device_online is called only for a device that the database has shown offline,
\* or unregistered, at some time since the heartbeat arrived: what get_device reads of
\* another task's open transaction is committed before upsert_device gets the lock.
\* Two first heartbeats at the same time are let through: both find no device, the
\* second is not new, and the code announces a return.  After a failed statement or a
\* cancelled task get_device may have read rows that were never committed.
OnlineCallsTrue == untrue => faults > 0 \/ cancels > 0

\* A device that mark_offline lists was turned offline by it in the database, and
\* every row it turns offline is in its list, so each outage is announced, and nothing
\* else is: unless SQLite itself rolled its transaction back, or its task is cancelled
\* in that very step (stop() while COMMIT is awaited: the list is returned to nobody).
OfflineListExact ==
  [][\A d \in Devices :
       LET turned == /\ disk.devices[d].status = "online"
                     /\ disk'.devices[d].status = "offline" IN
       /\ listed'[d] > listed[d] => turned
       /\ turned => listed'[d] > listed[d] \/ faults > 0 \/ cancels' # cancels]_vars

\* Every call ends, returning or raising, and the lock is free again.
EveryCallEnds == \A t \in Tasks : pc[t] # "idle" ~> pc[t] = "idle"

\* An event whose save_event has returned its id stays in the database.
AckedIsKept == acked \subseteq work.events
=============================================================================
