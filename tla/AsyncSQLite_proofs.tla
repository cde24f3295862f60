------------------------- MODULE AsyncSQLite_proofs -------------------------
(***************************************************************************)
(* Proofs about AsyncSQLite for any number of tasks and devices, any       *)
(* timeout, and any number of calls, failing statements and cancellations. *)
(***************************************************************************)
EXTENDS AsyncSQLite, SequenceTheorems, TLAPS

USE NoneAssumption

\* The bounds, one by one.
LEMMA Bounds ==
  /\ DeviceTimeout \in Nat /\ MaxTime \in Nat /\ MaxCalls \in Nat
  /\ MaxFaults \in Nat /\ MaxCancels \in Nat
BY AsyncBoundsAssumption

-----------------------------------------------------------------------------
(* The operators of the module. *)

\* The row upsert_device writes is a row, online.
LEMMA UpsertedRow ==
  ASSUME NEW row \in Row, NEW t \in Nat
  PROVE  Upserted(row, t) \in Row /\ Upserted(row, t).status = "online"
BY DEF Upserted, Row

\* mark_offline turns the stale rows, which were online, and no other, offline.
LEMMA MarkedOfflineRows ==
  ASSUME NEW table \in [Devices -> Row], NEW before \in Int
  PROVE  /\ MarkedOffline(table, before) \in [Devices -> Row]
         /\ Stale(table, before) \subseteq Devices
         /\ \A d \in Stale(table, before) : table[d].status = "online"
         /\ \A d \in Devices : MarkedOffline(table, before)[d].status =
              IF d \in Stale(table, before) THEN "offline" ELSE table[d].status
<1>1. DOMAIN table = Devices
  OBVIOUS
<1>2. /\ Stale(table, before) \subseteq Devices
      /\ \A d \in Stale(table, before) : table[d].status = "online"
  BY <1>1 DEF Stale
<1>3. ASSUME NEW d \in Devices
      PROVE  /\ MarkedOffline(table, before)[d] \in Row
             /\ MarkedOffline(table, before)[d].status =
                  IF d \in Stale(table, before) THEN "offline" ELSE table[d].status
  <2>1. MarkedOffline(table, before)[d] =
          IF d \in Stale(table, before)
          THEN [table[d] EXCEPT !.status = "offline"] ELSE table[d]
    BY <1>1 DEF MarkedOffline
  <2> QED
    BY <2>1 DEF Row
<1>4. MarkedOffline(table, before) = [d \in Devices |-> MarkedOffline(table, before)[d]]
  BY <1>1 DEF MarkedOffline
<1>5. MarkedOffline(table, before) \in [Devices -> Row]
  BY <1>3, <1>4
<1> QED
  BY <1>2, <1>3, <1>5

\* The queue of a lock: tasks, each at most once.
Queues == {q \in Seq(Tasks) : \A i, j \in 1..Len(q) : q[i] = q[j] => i = j}

\* Leaving the queue keeps it one, and its head unless the head leaves.
LEMMA WithoutQueue ==
  ASSUME NEW q \in Queues, NEW t \in Tasks
  PROVE  /\ Without(q, t) \in Queues
         /\ \A u \in Tasks : q # <<>> /\ Head(q) = u /\ u # t =>
              Without(q, t) # <<>> /\ Head(Without(q, t)) = u
         /\ \A i \in 1..Len(Without(q, t)) :
              Without(q, t)[i] # t /\ \E j \in 1..Len(q) : Without(q, t)[i] = q[j]
<1>1. CASE \A i \in 1..Len(q) : q[i] # t
  BY <1>1 DEF Without
<1>2. CASE \E i \in 1..Len(q) : q[i] = t
  <2> DEFINE k == CHOOSE j \in 1..Len(q) : q[j] = t
             r == [j \in 1..(Len(q) - 1) |-> IF j < k THEN q[j] ELSE q[j + 1]]
  <2>1. k \in 1..Len(q) /\ q[k] = t
    BY <1>2
  <2>2. Without(q, t) = r
    BY <1>2 DEF Without
  <2> HIDE DEF k
  <2>3. /\ q \in Seq(Tasks) /\ Len(q) \in Nat
        /\ \A i, j \in 1..Len(q) : q[i] = q[j] => i = j
        /\ \A i \in 1..Len(q) : q[i] \in Tasks
    BY DEF Queues
  <2>4. /\ r \in Seq(Tasks) /\ Len(r) = Len(q) - 1
        /\ \A i \in 1..Len(r) : r[i] = IF i < k THEN q[i] ELSE q[i + 1]
    <3>1. r \in [1..(Len(q) - 1) -> Tasks] /\ Len(q) - 1 \in Nat
      BY <2>1, <2>3
    <3>2. \A i \in 1..(Len(q) - 1) : r[i] = IF i < k THEN q[i] ELSE q[i + 1]
      OBVIOUS
    <3> HIDE DEF r
    <3>3. r \in Seq(Tasks)
      BY <3>1, SeqDef
    <3>4. Len(r) = Len(q) - 1
      <4>1. Len(r) \in Nat /\ DOMAIN r = 1..Len(r)
        BY <3>3, LenProperties
      <4>2. 1..Len(r) = 1..(Len(q) - 1)
        BY <3>1, <4>1
      <4>3. \A m, n \in Nat : 1..m = 1..n => m = n
        <5> SUFFICES ASSUME NEW m \in Nat, NEW n \in Nat, 1..m = 1..n PROVE m = n
          OBVIOUS
        <5>1. /\ m \in 1..n <=> m \in 1..m
              /\ n \in 1..m <=> n \in 1..n
          OBVIOUS
        <5>2. m >= 1 => m <= n
          BY <5>1
        <5>3. n >= 1 => n <= m
          BY <5>1
        <5> QED
          BY <5>2, <5>3
      <4> QED
        BY <3>1, <4>1, <4>2, <4>3
    <3> QED
      BY <3>2, <3>3, <3>4
  <2> HIDE DEF r
  <2>5. ASSUME NEW i \in 1..Len(r), NEW j \in 1..Len(r), r[i] = r[j] PROVE i = j
    <3>1. PICK m \in 1..Len(q) : r[i] = q[m] /\ m = IF i < k THEN i ELSE i + 1
      BY <2>1, <2>3, <2>4
    <3>2. PICK n \in 1..Len(q) : r[j] = q[n] /\ n = IF j < k THEN j ELSE j + 1
      BY <2>1, <2>3, <2>4
    <3>3. m = n
      BY <2>3, <2>5, <3>1, <3>2
    <3> QED
      BY <2>1, <2>3, <2>4, <3>1, <3>2, <3>3
  <2>6. \A i \in 1..Len(r) : r[i] # t /\ \E j \in 1..Len(q) : r[i] = q[j]
    BY <2>1, <2>3, <2>4
  <2>7. ASSUME NEW u \in Tasks, q # <<>>, Head(q) = u, u # t
        PROVE  r # <<>> /\ Head(r) = u
    <3>1. q[1] = u /\ k # 1 /\ k > 1 /\ Len(q) > 1
      BY <2>1, <2>3, <2>7
    <3>2. Len(r) >= 1 /\ r[1] = q[1]
      BY <2>1, <2>3, <2>4, <3>1
    <3> QED
      BY <2>4, <3>1, <3>2
  <2> QED
    BY <2>2, <2>4, <2>5, <2>6, <2>7 DEF Queues
<1> QED
  BY <1>1, <1>2

\* The same of a step, for the tasks that are in the queue after it.
LEMMA LeftQueue ==
  ASSUME NEW t \in Tasks, lock \in Queues, lock' = Without(lock, t)
  PROVE  /\ lock' \in Queues
         /\ \A u \in Tasks : (\E i \in 1..Len(lock') : lock'[i] = u) =>
              u # t /\ \E i \in 1..Len(lock) : lock[i] = u
         /\ \A u \in Tasks : Holds(u) /\ u # t => Holds(u)'
<1>1. /\ Without(lock, t) \in Queues
      /\ \A u \in Tasks : lock # <<>> /\ Head(lock) = u /\ u # t =>
           Without(lock, t) # <<>> /\ Head(Without(lock, t)) = u
      /\ \A i \in 1..Len(Without(lock, t)) :
           Without(lock, t)[i] # t /\ \E j \in 1..Len(lock) : Without(lock, t)[i] = lock[j]
  BY WithoutQueue
<1>2. lock' \in Queues
  BY <1>1
<1>3. ASSUME NEW u \in Tasks, NEW i \in 1..Len(lock'), lock'[i] = u
      PROVE  u # t /\ \E j \in 1..Len(lock) : lock[j] = u
  BY <1>1, <1>3
<1>4. \A u \in Tasks : Holds(u) /\ u # t => Holds(u)'
  BY <1>1 DEF Holds
<1> QED
  BY <1>2, <1>3, <1>4

\* Joining the queue keeps it one, and its head.
LEMMA AppendQueue ==
  ASSUME NEW q \in Queues, NEW t \in Tasks, \A i \in 1..Len(q) : q[i] # t
  PROVE  /\ Append(q, t) \in Queues
         /\ \A u \in Tasks : q # <<>> /\ Head(q) = u =>
              Append(q, t) # <<>> /\ Head(Append(q, t)) = u
         /\ \A i \in 1..Len(Append(q, t)) :
              Append(q, t)[i] = t \/ \E j \in 1..Len(q) : Append(q, t)[i] = q[j]
<1>1. /\ q \in Seq(Tasks) /\ Len(q) \in Nat
      /\ \A i, j \in 1..Len(q) : q[i] = q[j] => i = j
  BY DEF Queues
<1>2. /\ Append(q, t) \in Seq(Tasks) /\ Append(q, t) # <<>>
      /\ Len(Append(q, t)) = Len(q) + 1
      /\ \A i \in 1..Len(q) : Append(q, t)[i] = q[i]
      /\ Append(q, t)[Len(q) + 1] = t
  BY <1>1, AppendProperties
<1>3. ASSUME NEW i \in 1..(Len(q) + 1), NEW j \in 1..(Len(q) + 1),
             Append(q, t)[i] = Append(q, t)[j]
      PROVE  i = j
  <2>1. i \in 1..Len(q) \/ i = Len(q) + 1
    BY <1>1
  <2>2. j \in 1..Len(q) \/ j = Len(q) + 1
    BY <1>1
  <2> QED
    BY <1>1, <1>2, <1>3, <2>1, <2>2
<1>4. Append(q, t) \in Queues
  BY <1>2, <1>3 DEF Queues
<1>5. q # <<>> => Head(Append(q, t)) = Head(q)
  BY <1>1, <1>2
<1> QED
  BY <1>2, <1>4, <1>5

-----------------------------------------------------------------------------
(* The inductive invariants. *)

Locked == {"begin", "select", "write", "commit", "rollback"}
InTx == {"select", "write", "commit"}

\* What a task's locals hold where it is in its call, and who is in the queue.
CallInv ==
  \A t \in Tasks :
    /\ op[t] = "heartbeat" => /\ device[t] \in Devices
                              /\ pc[t] \notin {"idle", "get"} => stamp[t] \in Nat
    /\ pc[t] = "get" => op[t] = "heartbeat"
    /\ pc[t] # "idle" => calls[t] > 0
    /\ pc[t] \in {"lock"} \cup Locked => op[t] \in {"heartbeat", "mark"}
    /\ (\E i \in 1..Len(lock) : lock[i] = t) => pc[t] \in {"lock"} \cup Locked

\* Whoever is past the queue is at its head, so only one task is.
LockInv == \A t \in Tasks : pc[t] \in Locked => Holds(t)

\* The connection sees the database unless a transaction is open, it never loses a
\* row, and the holder of the lock writes to an unchanged devices table.  A
\* transaction ends under the holder only after a failed statement.
StoreInv ==
  /\ tx = "none" => work = disk
  /\ \A d \in Devices : disk.devices[d].status # "absent" => work.devices[d].status # "absent"
  /\ \A t \in Tasks :
       /\ pc[t] \in {"select", "write"} => work.devices = disk.devices
       /\ pc[t] \in InTx /\ tx = "none" => faults > 0

\* What the holder of the lock is about to commit.
CommitInv ==
  \A t \in Tasks :
    /\ pc[t] = "write" /\ op[t] = "mark" => rows[t] = Stale(work.devices, stamp[t])
    /\ tx = "open" /\ pc[t] = "commit" /\ op[t] = "heartbeat" =>
         /\ work.devices[device[t]].status = "online"
         /\ \A d \in Devices :
              work.devices[d].status = "offline" => disk.devices[d].status = "offline"
    /\ tx = "open" /\ pc[t] = "commit" /\ op[t] = "mark" =>
         \A d \in Devices :
           IF d \in rows[t]
           THEN disk.devices[d].status = "online" /\ work.devices[d].status = "offline"
           ELSE work.devices[d].status = disk.devices[d].status

\* No device is announced before its row is in the database, or by two tasks.
OnceInv ==
  /\ \A d \in Devices : /\ announced[d] \in {0, 1}
                        /\ disk.devices[d].status = "absent" => announced[d] = 0
  /\ \A t \in Tasks :
       pc[t] \in {"write", "commit"} /\ op[t] = "heartbeat" /\ found[t] = "new" =>
         announced[device[t]] = 0

\* While no statement has failed and no task was cancelled: a transaction is the
\* holder's, and what get_device read of it is committed before the reader's turn.
QuietInv ==
  faults = 0 /\ cancels = 0 =>
    /\ errors = 0 /\ ~untrue /\ acked \subseteq work.events
    /\ tx = "open" => \E t \in Tasks : pc[t] \in InTx
    /\ \A t \in Tasks :
         /\ pc[t] # "rollback"
         /\ pc[t] = "saved" => <<t, calls[t]>> \in work.events
         /\ pc[t] # "idle" /\ op[t] = "heartbeat"
              /\ disk.devices[device[t]].status # "online" => t \in wasaway
         /\ op[t] = "heartbeat" /\ existing[t] # "online" =>
              /\ pc[t] \in Locked => t \in wasaway
              /\ pc[t] = "lock" => \/ t \in wasaway
                                   \/ /\ work.devices[device[t]].status # "online"
                                      /\ \E u \in Tasks : pc[u] = "commit"

-----------------------------------------------------------------------------
(* Type correctness. *)

TypeInv == TypeOK /\ CallInv

\* TypeOK, the lock aside.
FlatOK ==
  /\ now \in 0..MaxTime
  /\ disk \in Databases /\ work \in Databases /\ tx \in {"none", "open"}
  /\ pc \in [Tasks -> PCs] /\ op \in [Tasks -> Ops]
  /\ device \in [Tasks -> Devices \cup {"none"}] /\ wasaway \subseteq Tasks
  /\ existing \in [Tasks -> {"absent", "online", "offline"}] /\ untrue \in BOOLEAN
  /\ stamp \in [Tasks -> Int]
  /\ found \in [Tasks -> {"new", "known"}] /\ rows \in [Tasks -> SUBSET Devices]
  /\ calls \in [Tasks -> 0..MaxCalls]
  /\ announced \in [Devices -> Nat] /\ listed \in [Devices -> Nat]
  /\ acked \subseteq Events /\ errors \in Nat
  /\ faults \in 0..MaxFaults /\ cancels \in 0..MaxCancels

LEMMA Flat == (TypeOK <=> FlatOK /\ lock \in Queues) /\ (TypeOK' <=> FlatOK' /\ (lock \in Queues)')
BY DEF TypeOK, FlatOK, Queues

\* What a statement writes is a database.
LEMMA WriteRowsTypes ==
  ASSUME TypeInv, NEW t \in Tasks, WriteRows(t)
  PROVE  /\ work' \in Databases /\ disk' \in Databases
         /\ work'.events = work.events
         /\ op[t] = "heartbeat" =>
              work'.devices = [work.devices EXCEPT
                                 ![device[t]] = Upserted(work.devices[device[t]], stamp[t])]
         /\ op[t] # "heartbeat" => work'.devices = MarkedOffline(work.devices, stamp[t])
         /\ disk' = IF tx = "open" THEN disk ELSE work'
<1>1. /\ work \in Databases /\ disk \in Databases /\ stamp[t] \in Int /\ pc[t] = "write"
      /\ op[t] = "heartbeat" => device[t] \in Devices /\ stamp[t] \in Nat
  BY DEF TypeInv, TypeOK, CallInv, WriteRows
<1>2. work.devices \in [Devices -> Row] /\ work.events \in SUBSET Events
  BY <1>1 DEF Databases
<1>3. Written(t) \in [Devices -> Row]
  <2>1. CASE op[t] = "heartbeat"
    <3>1. Upserted(work.devices[device[t]], stamp[t]) \in Row
      BY <1>1, <1>2, <2>1, UpsertedRow
    <3> QED
      BY <1>2, <2>1, <3>1 DEF Written
  <2>2. CASE op[t] # "heartbeat"
    BY <1>1, <1>2, <2>2, MarkedOfflineRows DEF Written
  <2> QED
    BY <2>1, <2>2
<1>4. /\ work' = [work EXCEPT !.devices = Written(t)]
      /\ disk' = IF tx = "open" THEN disk ELSE work'
  BY DEF WriteRows, Write
<1>5. work'.devices = Written(t) /\ work'.events = work.events /\ work' \in Databases
  BY <1>1, <1>3, <1>4 DEF Databases
<1> QED
  BY <1>1, <1>4, <1>5 DEF Written

\* The event a task saves is one.
LEMMA CallCounted ==
  ASSUME TypeInv, NEW t \in Tasks, pc[t] \in {"insert", "saved"}
  PROVE  <<t, calls[t]>> \in Events
<1>1. calls[t] \in 0..MaxCalls /\ calls[t] > 0
  BY DEF TypeInv, TypeOK, CallInv
<1> QED
  BY <1>1, Bounds DEF Events

\* What save_event writes is a database.
LEMMA InsertTypes ==
  ASSUME TypeInv, NEW t \in Tasks, Insert(t)
  PROVE  /\ work' \in Databases /\ disk' \in Databases
         /\ work'.devices = work.devices
         /\ work'.events = work.events \cup {<<t, calls[t]>>}
         /\ disk' = IF tx = "open" THEN disk ELSE work'
<1>1. work \in Databases /\ disk \in Databases /\ <<t, calls[t]>> \in Events
  BY CallCounted DEF TypeInv, TypeOK, Insert
<1>2. /\ work' = [work EXCEPT !.events = work.events \cup {<<t, calls[t]>>}]
      /\ disk' = IF tx = "open" THEN disk ELSE work'
  BY DEF Insert, Write
<1> QED
  BY <1>1, <1>2 DEF Databases

\* Init establishes TypeInv.
LEMMA TypeInit == Init => TypeInv
<1> SUFFICES ASSUME Init PROVE TypeInv
  OBVIOUS
<1>1. TypeOK
  <2>1. disk \in Databases
    BY DEF Init, Databases, Row, NoRow
  <2>2. lock \in Queues
    BY DEF Init, Queues
  <2>3. /\ pc \in [Tasks -> PCs] /\ op \in [Tasks -> Ops]
        /\ device \in [Tasks -> Devices \cup {"none"}]
        /\ existing \in [Tasks -> {"absent", "online", "offline"}]
        /\ stamp \in [Tasks -> Int] /\ found \in [Tasks -> {"new", "known"}]
    BY DEF Init, PCs, Ops
  <2>4. rows \in [Tasks -> SUBSET Devices] /\ calls \in [Tasks -> 0..MaxCalls]
    BY Bounds DEF Init
  <2>5. announced \in [Devices -> Nat] /\ listed \in [Devices -> Nat]
    BY DEF Init
  <2>6. now \in 0..MaxTime /\ faults \in 0..MaxFaults /\ cancels \in 0..MaxCancels
    BY Bounds DEF Init
  <2> QED
    BY <2>1, <2>2, <2>3, <2>4, <2>5, <2>6 DEF Init, TypeOK, Queues
<1>2. CallInv
  BY DEF Init, CallInv, Locked
<1> QED
  BY <1>1, <1>2 DEF TypeInv

\* Every step keeps every variable in its type.
LEMMA TypeStep == TypeInv /\ [Next]_vars => TypeInv'
<1> SUFFICES ASSUME TypeInv, [Next]_vars PROVE TypeInv'
  OBVIOUS
<1>0. lock \in Queues /\ FlatOK
  BY Flat DEF TypeInv
<1>f. /\ now \in 0..MaxTime
      /\ disk \in Databases /\ work \in Databases /\ tx \in {"none", "open"}
      /\ lock \in Queues
      /\ pc \in [Tasks -> PCs] /\ op \in [Tasks -> Ops]
      /\ device \in [Tasks -> Devices \cup {"none"}] /\ wasaway \subseteq Tasks
      /\ existing \in [Tasks -> {"absent", "online", "offline"}] /\ untrue \in BOOLEAN
      /\ stamp \in [Tasks -> Int]
      /\ found \in [Tasks -> {"new", "known"}] /\ rows \in [Tasks -> SUBSET Devices]
      /\ calls \in [Tasks -> 0..MaxCalls]
      /\ announced \in [Devices -> Nat] /\ listed \in [Devices -> Nat]
      /\ acked \subseteq Events /\ errors \in Nat
      /\ faults \in 0..MaxFaults /\ cancels \in 0..MaxCancels
  BY <1>0 DEF FlatOK
<1>c. CallInv
  BY DEF TypeInv
<1>d. \A t \in Tasks : pc[t] \in {"idle", "get", "insert", "saved"} =>
        \A i \in 1..Len(lock) : lock[i] # t
  BY <1>c DEF CallInv, Locked
<1> USE DEF TypeInv
<1>1. CASE Tick
  <2>1. TypeOK'
    BY <1>0, <1>f, Flat, <1>1, Bounds DEF Tick, locals, history, FlatOK
  <2>2. CallInv'
    BY <1>0, <1>f, <1>1, <1>c DEF Tick, CallInv, locals, history
  <2> QED
    BY <2>1, <2>2
<1>2. ASSUME NEW t \in Tasks, NEW d \in Devices, Heartbeat(t, d) PROVE TypeInv'
  <2>1. CallInv'
    BY <1>0, <1>f, <1>2, <1>c DEF Heartbeat, CallInv, Goto, Locked
  <2>2. TypeOK'
    BY <1>0, <1>f, Flat, <1>2, Bounds DEF Heartbeat, Goto, PCs, Ops, FlatOK
  <2> QED
    BY <2>1, <2>2
<1>3. ASSUME NEW t \in Tasks, GetDevice(t) PROVE TypeInv'
  <2>1. lock' \in Queues /\ \A i \in 1..Len(lock') : lock'[i] = t \/ \E j \in 1..Len(lock) : lock'[i] = lock[j]
    <3>1. lock' = Append(lock, t) /\ lock \in Seq(Tasks) /\ \A i \in 1..Len(lock) : lock[i] # t
      BY <1>0, <1>f, <1>3, <1>d DEF GetDevice, Queue, Queues
    <3> QED
      BY <1>0, <1>f, <3>1, AppendQueue
  <2>2. StatusRead(t) \in {"absent", "online", "offline"}
    <3>1. device[t] \in Devices /\ work.devices \in [Devices -> Row]
      BY <1>0, <1>f, <1>3, <1>c DEF GetDevice, CallInv, Databases
    <3> QED
      BY <3>1 DEF StatusRead, Row
  <2>3. TypeOK'
    BY <1>0, <1>f, Flat, <1>3, <2>1, <2>2, Bounds DEF GetDevice, Queue, Goto, PCs, FlatOK, history
  <2>4. CallInv'
    BY <1>0, <1>f, <1>3, <1>c, <2>1, Bounds DEF GetDevice, CallInv, Queue, Goto, Locked
  <2> QED
    BY <2>3, <2>4
<1>4. ASSUME NEW t \in Tasks, MarkOffline(t) PROVE TypeInv'
  <2>1. lock' \in Queues /\ \A i \in 1..Len(lock') : lock'[i] = t \/ \E j \in 1..Len(lock) : lock'[i] = lock[j]
    <3>1. lock' = Append(lock, t) /\ lock \in Seq(Tasks) /\ \A i \in 1..Len(lock) : lock[i] # t
      BY <1>0, <1>f, <1>4, <1>d DEF MarkOffline, Queue, Queues
    <3> QED
      BY <1>0, <1>f, <3>1, AppendQueue
  <2>3. TypeOK'
    BY <1>0, <1>f, Flat, <1>4, <2>1, Bounds DEF MarkOffline, Queue, Goto, PCs, Ops, FlatOK, history
  <2>4. CallInv'
    BY <1>0, <1>f, <1>4, <1>c, <2>1, Bounds DEF MarkOffline, CallInv, Queue, Goto, Locked
  <2> QED
    BY <2>3, <2>4
<1>5. ASSUME NEW t \in Tasks, SaveEvent(t) PROVE TypeInv'
  <2>3. TypeOK'
    BY <1>0, <1>f, Flat, <1>5, Bounds DEF SaveEvent, Goto, PCs, Ops, FlatOK, history
  <2>4. CallInv'
    BY <1>0, <1>f, <1>5, <1>c, Bounds DEF SaveEvent, CallInv, Goto, Locked
  <2> QED
    BY <2>3, <2>4
<1>6. ASSUME NEW t \in Tasks, Acquire(t) \/ Begin(t) PROVE TypeInv'
  <2>0. /\ pc[t] \in {"lock", "begin"}
        /\ \E l \in Locked : pc' = [pc EXCEPT ![t] = l]
        /\ UNCHANGED <<lock, op, device, stamp, calls>>
    BY <1>6 DEF Acquire, Begin, Goto, Locked, locals
  <2>3. TypeOK'
    BY <1>0, <1>f, Flat, <1>6, Bounds DEF Acquire, Begin, Goto, PCs, FlatOK, history, locals
  <2>4. CallInv'
    BY <1>0, <1>f, <2>0, <1>c DEF CallInv, Locked
  <2> QED
    BY <2>3, <2>4
<1>7. ASSUME NEW t \in Tasks, Select(t) PROVE TypeInv'
  <2>1. Stale(work.devices, stamp[t]) \subseteq Devices
    BY <1>0, <1>f, MarkedOfflineRows DEF Databases
  <2>3. TypeOK'
    BY <1>0, <1>f, Flat, <1>7, <2>1, Bounds DEF Select, Goto, PCs, FlatOK, history
  <2>4. CallInv'
    BY <1>0, <1>f, <1>7, <1>c, Bounds DEF Select, CallInv, Goto, Locked
  <2> QED
    BY <2>3, <2>4
<1>8. ASSUME NEW t \in Tasks, WriteRows(t) PROVE TypeInv'
  <2>1. work' \in Databases /\ disk' \in Databases
    BY <1>8, WriteRowsTypes
  <2>3. TypeOK'
    BY <1>0, <1>f, Flat, <1>8, <2>1, Bounds DEF WriteRows, NoteAway, Goto, PCs, FlatOK, locals
  <2>4. CallInv'
    BY <1>0, <1>f, <1>8, <1>c, Bounds DEF WriteRows, CallInv, Goto, Locked, locals
  <2> QED
    BY <2>3, <2>4
<1>9. ASSUME NEW t \in Tasks, Commit(t) PROVE TypeInv'
  <2>1. CASE tx = "open"
    <3>1. /\ lock' = Without(lock, t) /\ pc' = [pc EXCEPT ![t] = "idle"]
          /\ disk' = work /\ tx' = "none" /\ wasaway' \subseteq Tasks
          /\ UNCHANGED <<now, work, op, device, existing, stamp, found, rows, calls, faults,
                         cancels, acked, errors>>
      BY <1>0, <1>f, <1>9, <2>1 DEF Commit, Returns, NoteAway, Goto, locals
    <3>2. announced' \in [Devices -> Nat] /\ listed' \in [Devices -> Nat] /\ untrue' \in BOOLEAN
      <4>1. announced' \in [Devices -> Nat]
        BY <1>0, <1>f, <1>9, <2>1 DEF Commit, Returns
      <4>2. listed' \in [Devices -> Nat]
        BY <1>0, <1>f, <1>9, <2>1 DEF Commit, Returns
      <4>3. untrue' \in BOOLEAN
        BY <1>0, <1>f, <1>9, <2>1 DEF Commit, Returns
      <4> QED
        BY <4>1, <4>2, <4>3
    <3>3. /\ lock' \in Queues
        /\ \A u \in Tasks : (\E i \in 1..Len(lock') : lock'[i] = u) =>
             u # t /\ \E i \in 1..Len(lock) : lock[i] = u
      BY <1>0, <1>f, <3>1, LeftQueue
    <3>4. TypeOK'
      BY <1>0, <1>f, Flat, <3>1, <3>2, <3>3, Bounds DEF PCs, FlatOK
    <3>5. pc'[t] = "idle" /\ \A u \in Tasks : u # t => pc'[u] = pc[u]
      BY <1>f, <3>1
    <3>6. UNCHANGED <<op, device, stamp, calls>>
      BY <3>1
    <3>7. CallInv'
      BY <1>c, <3>3, <3>5, <3>6 DEF CallInv, Locked
    <3> QED
      BY <3>4, <3>7
  <2>2. CASE tx # "open"
    <3>4. TypeOK'
      BY <1>0, <1>f, Flat, <1>9, <2>2, Bounds DEF Commit, Goto, PCs, FlatOK, locals, history
    <3>5. CallInv'
      BY <1>0, <1>f, <1>9, <2>2, <1>c DEF Commit, Goto, CallInv, Locked, locals
    <3> QED
      BY <3>4, <3>5
  <2> QED
    BY <2>1, <2>2
<1>10. ASSUME NEW t \in Tasks, Rollback(t) PROVE TypeInv'
  <2>1. /\ lock' \in Queues
        /\ \A u \in Tasks : (\E i \in 1..Len(lock') : lock'[i] = u) =>
             u # t /\ \E i \in 1..Len(lock) : lock[i] = u
    BY <1>0, <1>f, <1>10, LeftQueue DEF Rollback
  <2>2. TypeOK'
    BY <1>0, <1>f, Flat, <1>10, <2>1, Bounds DEF Rollback, Goto, PCs, FlatOK, locals
  <2>3. CallInv'
    BY <1>0, <1>f, <1>10, <2>1, <1>c DEF Rollback, Goto, CallInv, Locked, locals
  <2> QED
    BY <2>2, <2>3
<1>11. ASSUME NEW t \in Tasks, Insert(t) PROVE TypeInv'
  <2>1. work' \in Databases /\ disk' \in Databases
    BY <1>11, InsertTypes
  <2>2. TypeOK'
    BY <1>0, <1>f, Flat, <1>11, <2>1, Bounds DEF Insert, Goto, PCs, FlatOK, locals, history
  <2>3. CallInv'
    BY <1>0, <1>f, <1>11, <1>c DEF Insert, Goto, CallInv, Locked, locals
  <2> QED
    BY <2>2, <2>3
<1>12. ASSUME NEW t \in Tasks, SaveReturns(t) PROVE TypeInv'
  <2>1. acked' \subseteq Events
    BY <1>0, <1>f, <1>12, CallCounted DEF SaveReturns
  <2>2. TypeOK'
    BY <1>0, <1>f, Flat, <1>12, <2>1, Bounds DEF SaveReturns, Goto, PCs, FlatOK, locals
  <2>3. CallInv'
    BY <1>0, <1>f, <1>12, <1>c DEF SaveReturns, Goto, CallInv, Locked, locals
  <2> QED
    BY <2>2, <2>3
<1>13. ASSUME NEW t \in Tasks, StatementFails(t) PROVE TypeInv'
  <2>2. TypeOK'
    BY <1>0, <1>f, Flat, <1>13, Bounds DEF StatementFails, Goto, PCs, FlatOK, locals
  <2>3. CallInv'
    <3>1. UNCHANGED <<op, device, stamp, calls, lock>>
      BY <1>13 DEF StatementFails, locals
    <3>2. \A u \in Tasks : \/ pc'[u] = pc[u]
                          \/ (pc[u] \in {"get", "insert"} /\ pc'[u] = "idle")
                          \/ (pc[u] \in Locked /\ pc'[u] = "rollback")
      BY <1>f, <1>13 DEF StatementFails, Goto, Locked
    <3> QED
      BY <1>c, <3>1, <3>2 DEF CallInv, Locked
  <2> QED
    BY <2>2, <2>3
<1>14. ASSUME NEW t \in Tasks, RollbackFails(t) \/ Cancel(t) \/ CancelAwaiting(t) PROVE TypeInv'
  <2>1. /\ lock' \in Queues
        /\ \A u \in Tasks : (\E i \in 1..Len(lock') : lock'[i] = u) =>
             u # t /\ \E i \in 1..Len(lock) : lock[i] = u
    BY <1>0, <1>f, <1>14, LeftQueue DEF RollbackFails, Cancel, CancelAwaiting
  <2>2. TypeOK'
    <3>1. CASE RollbackFails(t)
      BY <1>0, <1>f, Flat, <2>1, <3>1, Bounds DEF RollbackFails, Goto, PCs, FlatOK, locals
    <3>2. CASE Cancel(t)
      BY <1>0, <1>f, Flat, <2>1, <3>2, Bounds DEF Cancel, Goto, PCs, FlatOK, locals, history
    <3>3. CASE CancelAwaiting(t)
      <4>1. disk' \in Databases /\ work' \in Databases /\ tx' = "none"
        BY <1>f, <3>3 DEF CancelAwaiting
      <4>2. cancels' \in 0..MaxCancels /\ wasaway' \subseteq Tasks
        BY <1>f, <3>3, Bounds DEF CancelAwaiting, NoteAway
      <4>3. pc' \in [Tasks -> PCs]
        BY <1>f, <3>3 DEF CancelAwaiting, Goto, PCs
      <4>4. UNCHANGED <<now, op, device, existing, stamp, found, rows, calls, announced,
                        untrue, acked, listed, errors, faults>>
        BY <3>3 DEF CancelAwaiting, locals
      <4> QED
        BY <1>f, Flat, <2>1, <4>1, <4>2, <4>3, <4>4 DEF FlatOK
    <3> QED
      BY <1>14, <3>1, <3>2, <3>3
  <2>3. CallInv'
    <3>1. UNCHANGED <<op, device, stamp, calls>>
      BY <1>14 DEF RollbackFails, Cancel, CancelAwaiting, locals
    <3>2. pc'[t] = "idle" /\ \A u \in Tasks : u # t => pc'[u] = pc[u]
      BY <1>f, <1>14 DEF RollbackFails, Cancel, CancelAwaiting, Goto
    <3> QED
      BY <1>c, <2>1, <3>1, <3>2 DEF CallInv, Locked
  <2> QED
    BY <2>2, <2>3
<1>15. CASE UNCHANGED vars
  <2>2. TypeOK'
    BY <1>0, <1>f, Flat, <1>15 DEF vars, FlatOK, locals, history
  <2>3. CallInv'
    BY <1>c, <1>15 DEF vars, CallInv, Locked, locals
  <2> QED
    BY <2>2, <2>3
<1> QED
  BY <1>1, <1>2, <1>3, <1>4, <1>5, <1>6, <1>7, <1>8, <1>9, <1>10, <1>11, <1>12, <1>13,
     <1>14, <1>15 DEF Next, Step

\* The types hold in every state.
THEOREM TypeCorrect == Spec => []TypeOK
<1>1. TypeInv /\ [Next]_vars => TypeInv'
  BY TypeStep
<1> QED
  BY <1>1, TypeInit, PTL DEF Spec, TypeInv

-----------------------------------------------------------------------------
(* Who does what to what. *)

\* A step of one task.
Moves(t) ==
  \/ \E d \in Devices : Heartbeat(t, d)
  \/ MarkOffline(t) \/ SaveEvent(t) \/ Step(t) \/ StatementFails(t) \/ RollbackFails(t)
  \/ Cancel(t) \/ CancelAwaiting(t)

LEMMA NextMoves == Next => Tick \/ \E t \in Tasks : Moves(t)
BY DEF Next, Moves

\* What a step of a task leaves alone: the locals of every other task.
LEMMA Frame ==
  ASSUME TypeInv, NEW t \in Tasks, Moves(t), NEW u \in Tasks, u # t
  PROVE  /\ pc'[u] = pc[u] /\ op'[u] = op[u] /\ device'[u] = device[u]
         /\ existing'[u] = existing[u] /\ stamp'[u] = stamp[u] /\ found'[u] = found[u]
         /\ rows'[u] = rows[u] /\ calls'[u] = calls[u]
<1>1. /\ pc \in [Tasks -> PCs] /\ op \in [Tasks -> Ops]
      /\ device \in [Tasks -> Devices \cup {"none"}]
      /\ existing \in [Tasks -> {"absent", "online", "offline"}]
      /\ stamp \in [Tasks -> Int] /\ found \in [Tasks -> {"new", "known"}]
      /\ rows \in [Tasks -> SUBSET Devices] /\ calls \in [Tasks -> 0..MaxCalls]
  BY DEF TypeInv, TypeOK
<1>2. \E l \in PCs : pc' = [pc EXCEPT ![t] = l]
  BY DEF Moves, Heartbeat, MarkOffline, SaveEvent, Step, GetDevice, Acquire, Begin, Select,
         WriteRows, Commit, Rollback, Insert, SaveReturns, StatementFails, RollbackFails,
         Cancel, CancelAwaiting, Goto, Queue, Returns, PCs
<1>3. CASE \E d \in Devices : Heartbeat(t, d)
  BY <1>1, <1>2, <1>3 DEF Heartbeat
<1>4. CASE MarkOffline(t)
  BY <1>1, <1>2, <1>4 DEF MarkOffline
<1>5. CASE SaveEvent(t)
  BY <1>1, <1>2, <1>5 DEF SaveEvent
<1>6. CASE GetDevice(t)
  BY <1>1, <1>2, <1>6 DEF GetDevice
<1>7. CASE Select(t)
  BY <1>1, <1>2, <1>7 DEF Select
<1>8. CASE \/ Acquire(t) \/ Begin(t) \/ WriteRows(t) \/ Commit(t) \/ Rollback(t)
           \/ Insert(t) \/ SaveReturns(t) \/ StatementFails(t) \/ RollbackFails(t)
           \/ Cancel(t) \/ CancelAwaiting(t)
  <2>1. UNCHANGED <<op, device, existing, stamp, found, rows, calls>>
    BY <1>8 DEF Acquire, Begin, WriteRows, Commit, Rollback, Insert, SaveReturns,
                StatementFails, RollbackFails, Cancel, CancelAwaiting, locals
  <2> QED
    BY <1>1, <1>2, <2>1
<1> QED
  BY <1>3, <1>4, <1>5, <1>6, <1>7, <1>8 DEF Moves, Step

\* A task joins the lock's queue at its end.
LEMMA JoinedQueue ==
  ASSUME TypeInv, NEW t \in Tasks, GetDevice(t) \/ MarkOffline(t)
  PROVE  \A u \in Tasks : Holds(u) => Holds(u)'
<1>1. /\ lock' = Append(lock, t) /\ lock \in Queues
      /\ \A i \in 1..Len(lock) : lock[i] # t
  BY Flat DEF TypeInv, CallInv, Locked, GetDevice, MarkOffline, Queue
<1> QED
  BY <1>1, AppendQueue DEF Holds

\* Only the task at the head of the queue is past it.
LEMMA LockStep == TypeInv /\ LockInv /\ [Next]_vars => LockInv'
<1> SUFFICES ASSUME TypeInv, LockInv, [Next]_vars, NEW u \in Tasks, pc'[u] \in Locked
             PROVE  Holds(u)'
  BY DEF LockInv
<1>0. lock \in Queues /\ pc \in [Tasks -> PCs]
  BY Flat DEF TypeInv, FlatOK
<1>1. CASE Tick \/ UNCHANGED vars
  BY <1>1 DEF Tick, vars, LockInv, Holds
<1>2. ASSUME NEW t \in Tasks, Moves(t) PROVE Holds(u)'
  <2>1. u # t => pc[u] \in Locked /\ Holds(u)
    BY <1>2, Frame DEF LockInv
  <2>2. CASE GetDevice(t) \/ MarkOffline(t)
    <3>1. pc'[t] = "lock"
      BY <1>0, <2>2 DEF GetDevice, MarkOffline, Queue, Goto
    <3> QED
      BY <2>1, <2>2, <3>1, JoinedQueue DEF Locked
  <2>3. CASE lock' = Without(lock, t) /\ pc' = [pc EXCEPT ![t] = "idle"]
    <3>1. pc'[t] = "idle"
      BY <1>0, <2>3
    <3> QED
      BY <1>0, <2>1, <2>3, <3>1, LeftQueue DEF Locked
  <2>4. CASE lock' = lock /\ (pc'[t] \notin Locked \/ Holds(t))
    BY <2>1, <2>4 DEF Holds
  <2>5. CASE \E d \in Devices : Heartbeat(t, d)
    BY <1>0, <2>4, <2>5 DEF Heartbeat, Goto, Locked
  <2>6. CASE SaveEvent(t) \/ Insert(t) \/ SaveReturns(t)
    BY <1>0, <2>4, <2>6 DEF SaveEvent, Insert, SaveReturns, Goto, Locked
  <2>7. CASE Acquire(t)
    BY <1>0, <2>4, <2>7 DEF Acquire, Goto, Locked
  <2>8. CASE Begin(t) \/ Select(t) \/ WriteRows(t)
    <3>1. lock' = lock /\ Holds(t)
      BY <2>8 DEF Begin, Select, WriteRows, LockInv, Locked
    <3> QED
      BY <2>4, <3>1
  <2>9. CASE Commit(t)
    <3>1. Holds(t)
      BY <2>9 DEF Commit, LockInv, Locked
    <3>2. lock' = lock \/ (lock' = Without(lock, t) /\ pc' = [pc EXCEPT ![t] = "idle"])
      BY <2>9 DEF Commit, Returns, Goto
    <3> QED
      BY <2>3, <2>4, <3>1, <3>2
  <2>10. CASE Rollback(t) \/ RollbackFails(t) \/ Cancel(t) \/ CancelAwaiting(t)
    BY <2>3, <2>10 DEF Rollback, RollbackFails, Cancel, CancelAwaiting, Goto
  <2>11. CASE StatementFails(t)
    <3>1. lock' = lock /\ (pc[t] \in Locked \/ pc'[t] = "idle")
      BY <1>0, <2>11 DEF StatementFails, Goto, Locked
    <3> QED
      BY <2>4, <3>1 DEF LockInv, Locked
  <2> QED
    BY <1>2, <2>2, <2>5, <2>6, <2>7, <2>8, <2>9, <2>10, <2>11 DEF Moves, Step
<1> QED
  BY <1>1, <1>2, NextMoves

\* The lock excludes.
LEMMA OneInside ==
  ASSUME LockInv, NEW t \in Tasks, NEW u \in Tasks, pc[t] \in Locked, pc[u] \in Locked
  PROVE  t = u
BY DEF LockInv, Holds

\* A step that touches neither the database nor the transaction.
Apart(t) ==
  \/ \E d \in Devices : Heartbeat(t, d)
  \/ MarkOffline(t) \/ SaveEvent(t) \/ GetDevice(t) \/ Acquire(t) \/ Select(t)
  \/ SaveReturns(t) \/ RollbackFails(t) \/ Cancel(t)

\* The task a step belongs to, and the devices table before and after it.
LEMMA TableMoves ==
  ASSUME TypeInv, StoreInv, NEW t \in Tasks, Moves(t)
  PROVE  \/ Apart(t) /\ UNCHANGED <<work, disk, tx>>
         \/ Begin(t) /\ tx' = "open" /\ UNCHANGED <<work, disk>>
         \/ WriteRows(t) /\ tx' = tx
         \/ /\ Insert(t) /\ tx' = tx
            /\ work'.devices = work.devices /\ disk'.devices = disk.devices
         \/ Commit(t) /\ tx' = "none" /\ work' = work /\ disk' = IF tx = "open" THEN work ELSE disk
         \/ Rollback(t) /\ tx' = "none" /\ work' = disk /\ disk' = disk
         \/ /\ CancelAwaiting(t) /\ tx = "open" /\ tx' = "none"
            /\ \/ pc[t] = "commit" /\ work' = work /\ disk' = work
               \/ pc[t] = "rollback" /\ work' = disk /\ disk' = disk
         \/ /\ StatementFails(t) /\ disk' = disk /\ faults' > 0
            /\ \/ work' = work /\ tx' = tx
               \/ work' = disk /\ tx' = "none"
<1>1. CASE Apart(t)
  BY <1>1 DEF Apart, Heartbeat, MarkOffline, SaveEvent, GetDevice, Acquire, Select,
              SaveReturns, RollbackFails, Cancel
<1>2. CASE Begin(t) \/ WriteRows(t) \/ Commit(t) \/ Rollback(t)
  BY <1>2 DEF Begin, WriteRows, Commit, Rollback
<1>3. CASE Insert(t)
  <2>1. work'.devices = work.devices /\ disk' = IF tx = "open" THEN disk ELSE work'
    BY <1>3, InsertTypes
  <2>2. tx' = tx /\ tx \in {"none", "open"} /\ (tx = "none" => work = disk)
    BY <1>3 DEF Insert, TypeInv, TypeOK, StoreInv
  <2> QED
    BY <1>3, <2>1, <2>2
<1>4. CASE StatementFails(t)
  BY <1>4, Bounds DEF StatementFails, TypeInv, TypeOK
<1>5. CASE CancelAwaiting(t)
  BY <1>5 DEF CancelAwaiting
<1> QED
  BY <1>1, <1>2, <1>3, <1>4, <1>5 DEF Moves, Step, Apart

\* While a task holds the lock no step of another writes a row; what it can do is
\* fail, and end the transaction.
LEMMA Bystander ==
  ASSUME TypeInv, LockInv, StoreInv, NEW t \in Tasks, Moves(t),
         NEW u \in Tasks, u # t, pc[u] \in Locked \ {"begin"}
  PROVE  \/ /\ work'.devices = work.devices /\ disk'.devices = disk.devices /\ tx' = tx
         \/ work' = disk /\ disk' = disk /\ tx' = "none" /\ faults' > 0
<1>1. pc[t] \notin Locked
  BY OneInside
<1>2. ~(Begin(t) \/ WriteRows(t) \/ Commit(t) \/ Rollback(t) \/ CancelAwaiting(t))
  BY <1>1 DEF Begin, WriteRows, Commit, Rollback, CancelAwaiting, Locked
<1> QED
  BY <1>2, TableMoves

\* The view of the connection, after every step.
LEMMA StoreStep == TypeInv /\ LockInv /\ StoreInv /\ [Next]_vars => StoreInv'
<1> SUFFICES ASSUME TypeInv, LockInv, StoreInv, [Next]_vars PROVE StoreInv'
  OBVIOUS
<1>0. /\ tx \in {"none", "open"} /\ pc \in [Tasks -> PCs] /\ faults \in Nat
      /\ work \in Databases /\ disk \in Databases
  BY Bounds DEF TypeInv, TypeOK
<1>1. CASE Tick \/ UNCHANGED vars
  BY <1>1 DEF Tick, vars, StoreInv
<1>2. ASSUME NEW t \in Tasks, Moves(t) PROVE StoreInv'
  <2>1. faults' \in Nat /\ faults' >= faults
    BY <1>0, <1>2 DEF Moves, Heartbeat, MarkOffline, SaveEvent, Step, GetDevice, Acquire, Begin,
         Select, WriteRows, Commit, Rollback, Insert, SaveReturns, StatementFails,
         RollbackFails, Cancel, CancelAwaiting
  <2>2. ASSUME NEW u \in Tasks, u # t
        PROVE  /\ pc'[u] \in {"select", "write"} => work'.devices = disk'.devices
               /\ pc'[u] \in InTx /\ tx' = "none" => faults' > 0
    <3>1. pc'[u] = pc[u]
      BY <1>2, <2>2, Frame
    <3>2. pc[u] \in InTx => pc[u] \in Locked \ {"begin"}
      BY DEF InTx, Locked
    <3> QED
      BY <1>0, <1>2, <2>1, <2>2, <3>1, <3>2, Bystander DEF StoreInv, InTx
  <2>3. /\ tx' = "none" => work' = disk'
        /\ \A d \in Devices : disk'.devices[d].status # "absent" =>
                              work'.devices[d].status # "absent"
        /\ pc'[t] \in {"select", "write"} => work'.devices = disk'.devices
        /\ pc'[t] \in InTx /\ tx' = "none" => faults' > 0
    <3>1. CASE Apart(t) /\ UNCHANGED <<work, disk, tx>>
      <4>1. pc'[t] \in InTx => pc[t] = "select"
        BY <1>0, <3>1 DEF Apart, Heartbeat, MarkOffline, SaveEvent, GetDevice, Acquire, Select,
              SaveReturns, RollbackFails, Cancel, Goto, Queue, InTx
      <4> QED
        BY <1>0, <2>1, <3>1, <4>1 DEF StoreInv, InTx
    <3>2. CASE Begin(t) /\ tx' = "open" /\ UNCHANGED <<work, disk>>
      BY <1>0, <3>2 DEF Begin, Goto, StoreInv, InTx
    <3>3. CASE WriteRows(t) /\ tx' = tx
      <4>1. pc[t] = "write" /\ pc'[t] = "commit" /\ faults' = faults
        BY <1>0, <3>3 DEF WriteRows, Goto
      <4>2. \A d \in Devices : work.devices[d].status # "absent" =>
                               work'.devices[d].status # "absent"
        <5>1. work.devices \in [Devices -> Row] /\ stamp[t] \in Int
          BY <1>0 DEF Databases, TypeInv, TypeOK
        <5>2. CASE op[t] = "heartbeat"
          <6>1. device[t] \in Devices /\ stamp[t] \in Nat
            BY <4>1, <5>2 DEF TypeInv, CallInv
          <6>2. Upserted(work.devices[device[t]], stamp[t]).status = "online"
            BY <5>1, <6>1, UpsertedRow
          <6>3. work'.devices = [work.devices EXCEPT
                                   ![device[t]] = Upserted(work.devices[device[t]], stamp[t])]
            BY <3>3, <5>2, WriteRowsTypes
          <6> QED
            BY <5>1, <6>1, <6>2, <6>3
        <5>3. CASE op[t] # "heartbeat"
          <6>1. work'.devices = MarkedOffline(work.devices, stamp[t])
            BY <3>3, <5>3, WriteRowsTypes
          <6>2. \A d \in Devices : MarkedOffline(work.devices, stamp[t])[d].status \in
                                    {"offline", work.devices[d].status}
            BY <5>1, MarkedOfflineRows
          <6> QED
            BY <6>1, <6>2
        <5> QED
          BY <5>2, <5>3
      <4>3. disk' = IF tx = "open" THEN disk ELSE work'
        BY <3>3, WriteRowsTypes
      <4> QED
        BY <1>0, <3>3, <4>1, <4>2, <4>3 DEF StoreInv, InTx
    <3>4. CASE /\ Insert(t) /\ tx' = tx
               /\ work'.devices = work.devices /\ disk'.devices = disk.devices
      <4>1. pc'[t] = "saved" /\ (tx = "none" => work' = disk')
        BY <1>0, <3>4, InsertTypes DEF Insert, Goto
      <4> QED
        BY <3>4, <4>1 DEF StoreInv, InTx
    <3>5. CASE /\ Commit(t) /\ tx' = "none" /\ work' = work
               /\ disk' = IF tx = "open" THEN work ELSE disk
      <4>1. pc'[t] \in {"idle", "rollback"}
        BY <1>0, <3>5 DEF Commit, Returns, Goto
      <4> QED
        BY <1>0, <3>5, <4>1 DEF StoreInv, InTx
    <3>6. CASE Rollback(t) /\ tx' = "none" /\ work' = disk /\ disk' = disk
      <4>1. pc'[t] = "idle"
        BY <1>0, <3>6 DEF Rollback, Goto
      <4> QED
        BY <3>6, <4>1 DEF InTx
    <3>7. CASE /\ StatementFails(t) /\ disk' = disk /\ faults' > 0
               /\ \/ work' = work /\ tx' = tx
                  \/ work' = disk /\ tx' = "none"
      <4>1. pc'[t] \in {"idle", "rollback"}
        BY <1>0, <3>7 DEF StatementFails, Goto
      <4> QED
        BY <3>7, <4>1 DEF StoreInv, InTx
    <3>8. CASE /\ CancelAwaiting(t) /\ tx = "open" /\ tx' = "none"
               /\ \/ pc[t] = "commit" /\ work' = work /\ disk' = work
                  \/ pc[t] = "rollback" /\ work' = disk /\ disk' = disk
      <4>1. pc'[t] = "idle"
        BY <1>0, <3>8 DEF CancelAwaiting, Goto
      <4> QED
        BY <3>8, <4>1 DEF InTx
    <3> QED
      BY <1>2, <3>1, <3>2, <3>3, <3>4, <3>5, <3>6, <3>7, <3>8, TableMoves
  <2> QED
    BY <2>2, <2>3 DEF StoreInv
<1> QED
  BY <1>1, <1>2, NextMoves

\* What a WriteRows does to the rows of an unchanged table: its device turns online,
\* or the stale rows turn offline.
LEMMA RowsWritten ==
  ASSUME TypeInv, LockInv, StoreInv, CommitInv, NEW t \in Tasks, WriteRows(t)
  PROVE  /\ work.devices = disk.devices
         /\ op[t] = "heartbeat" =>
              /\ device[t] \in Devices /\ work'.devices[device[t]].status = "online"
              /\ \A d \in Devices \ {device[t]} : work'.devices[d] = disk.devices[d]
         /\ op[t] = "mark" =>
              \A d \in Devices :
                IF d \in rows[t]
                THEN disk.devices[d].status = "online" /\ work'.devices[d].status = "offline"
                ELSE work'.devices[d].status = disk.devices[d].status
<1>1. /\ pc[t] = "write" /\ work.devices = disk.devices
      /\ work.devices \in [Devices -> Row] /\ stamp[t] \in Int
  BY DEF WriteRows, StoreInv, TypeInv, TypeOK, Databases
<1>2. ASSUME op[t] = "heartbeat"
      PROVE  /\ device[t] \in Devices /\ work'.devices[device[t]].status = "online"
             /\ \A d \in Devices \ {device[t]} : work'.devices[d] = disk.devices[d]
  <2>1. device[t] \in Devices /\ stamp[t] \in Nat
    BY <1>1, <1>2 DEF TypeInv, CallInv
  <2>2. Upserted(work.devices[device[t]], stamp[t]).status = "online"
    BY <1>1, <2>1, UpsertedRow
  <2>3. work'.devices = [work.devices EXCEPT
                           ![device[t]] = Upserted(work.devices[device[t]], stamp[t])]
    BY <1>2, WriteRowsTypes
  <2> QED
    BY <1>1, <2>1, <2>2, <2>3
<1>3. ASSUME op[t] = "mark", NEW d \in Devices
      PROVE  IF d \in rows[t]
             THEN disk.devices[d].status = "online" /\ work'.devices[d].status = "offline"
             ELSE work'.devices[d].status = disk.devices[d].status
  <2>1. work'.devices = MarkedOffline(work.devices, stamp[t])
    BY <1>3, WriteRowsTypes
  <2>2. rows[t] = Stale(work.devices, stamp[t])
    BY <1>1, <1>3 DEF CommitInv
  <2>3. /\ \A e \in Stale(work.devices, stamp[t]) : work.devices[e].status = "online"
        /\ MarkedOffline(work.devices, stamp[t])[d].status =
             IF d \in Stale(work.devices, stamp[t]) THEN "offline" ELSE work.devices[d].status
    BY <1>1, MarkedOfflineRows
  <2> QED
    BY <1>1, <2>1, <2>2, <2>3
<1> QED
  BY <1>1, <1>2, <1>3

\* What is about to be committed, after every step.
LEMMA CommitStep == TypeInv /\ LockInv /\ StoreInv /\ CommitInv /\ [Next]_vars => CommitInv'
<1> SUFFICES ASSUME TypeInv, LockInv, StoreInv, CommitInv, [Next]_vars PROVE CommitInv'
  OBVIOUS
<1> DEFINE Own(t) ==
    /\ pc[t] = "write" /\ op[t] = "mark" => rows[t] = Stale(work.devices, stamp[t])
    /\ tx = "open" /\ pc[t] = "commit" /\ op[t] = "heartbeat" =>
         /\ work.devices[device[t]].status = "online"
         /\ \A d \in Devices :
              work.devices[d].status = "offline" => disk.devices[d].status = "offline"
    /\ tx = "open" /\ pc[t] = "commit" /\ op[t] = "mark" =>
         \A d \in Devices :
           IF d \in rows[t]
           THEN disk.devices[d].status = "online" /\ work.devices[d].status = "offline"
           ELSE work.devices[d].status = disk.devices[d].status
<1>0. /\ pc \in [Tasks -> PCs] /\ rows \in [Tasks -> SUBSET Devices]
      /\ \A t \in Tasks : Own(t)
  BY DEF TypeInv, TypeOK, CommitInv
<1>1. CASE Tick \/ UNCHANGED vars
  BY <1>1 DEF Tick, vars, locals, CommitInv
<1>2. ASSUME NEW t \in Tasks, Moves(t) PROVE CommitInv'
  <2>1. ASSUME NEW u \in Tasks, u # t, pc[u] \in {"write", "commit"} PROVE Own(u)'
    <3>1. /\ pc'[u] = pc[u] /\ op'[u] = op[u] /\ device'[u] = device[u]
          /\ stamp'[u] = stamp[u] /\ rows'[u] = rows[u]
      BY <1>2, <2>1, Frame
    <3>2. \/ /\ work'.devices = work.devices /\ disk'.devices = disk.devices /\ tx' = tx
          \/ work' = disk /\ tx' = "none"
      BY <1>2, <2>1, Bystander DEF Locked
    <3>3. pc[u] = "write" => work.devices = disk.devices
      BY DEF StoreInv
    <3>4. Own(u)
      BY <1>0
    <3>5. CASE work'.devices = work.devices /\ disk'.devices = disk.devices /\ tx' = tx
      BY <3>1, <3>4, <3>5
    <3>6. CASE work' = disk /\ tx' = "none"
      BY <3>1, <3>3, <3>4, <3>6
    <3> QED
      BY <3>2, <3>5, <3>6
  <2>2. ASSUME NEW u \in Tasks, u # t, pc[u] \notin {"write", "commit"} PROVE Own(u)'
    <3>1. pc'[u] = pc[u]
      BY <1>2, <2>2, Frame
    <3> QED
      BY <2>2, <3>1
  <2>3. Own(t)'
    <3>1. CASE Select(t)
      <4>1. /\ pc[t] = "select" /\ work.devices = disk.devices
            /\ UNCHANGED <<work, disk, tx, op, stamp>>
        BY <3>1 DEF Select, StoreInv
      <4>2. pc'[t] = "write" /\ op[t] = "mark" => rows'[t] = Stale(work.devices, stamp[t])
        BY <1>0, <3>1 DEF Select, Goto
      <4>3. pc'[t] = "commit" => op[t] # "heartbeat" /\ rows'[t] = {}
        BY <1>0, <3>1 DEF Select, Goto
      <4> QED
        BY <4>1, <4>2, <4>3
    <3>2. CASE WriteRows(t)
      <4>1. /\ pc'[t] = "commit" /\ UNCHANGED <<tx, op, device, rows>>
            /\ disk' = IF tx = "open" THEN disk ELSE work'
        BY <1>0, <3>2, WriteRowsTypes DEF WriteRows, Goto, locals
      <4>2. work'.devices[device[t]].status = "online" \/ op[t] # "heartbeat"
        BY <3>2, RowsWritten
      <4>3. ASSUME tx = "open", op[t] = "heartbeat", NEW d \in Devices,
                   work'.devices[d].status = "offline"
            PROVE  disk'.devices[d].status = "offline"
        BY <3>2, <4>1, <4>3, RowsWritten
      <4>4. ASSUME tx = "open", op[t] = "mark", NEW d \in Devices
            PROVE  IF d \in rows[t]
                   THEN disk.devices[d].status = "online" /\ work'.devices[d].status = "offline"
                   ELSE work'.devices[d].status = disk.devices[d].status
        BY <3>2, <4>4, RowsWritten
      <4> QED
        BY <4>1, <4>2, <4>3, <4>4
    <3>3. CASE ~Select(t) /\ ~WriteRows(t)
      <4>1. pc'[t] \notin {"write", "commit"}
        BY <1>0, <1>2, <3>3 DEF Moves, Heartbeat, MarkOffline, SaveEvent, Step, GetDevice, Acquire,
           Begin, Commit, Returns, Rollback, Insert, SaveReturns, StatementFails, RollbackFails,
           Cancel, CancelAwaiting, Goto, Queue
      <4> QED
        BY <4>1
    <3> QED
      BY <3>1, <3>2, <3>3
  <2> QED
    BY <2>1, <2>2, <2>3 DEF CommitInv
<1> QED
  BY <1>1, <1>2, NextMoves

\* What a COMMIT of an open transaction changes, and that nothing else turns a row of
\* the database while no statement has failed.
LEMMA DiskMoves ==
  ASSUME TypeInv, LockInv, StoreInv, CommitInv, NEW t \in Tasks, Moves(t)
  PROVE  \/ disk'.devices = disk.devices
         \/ /\ WriteRows(t) /\ faults > 0 /\ disk' = work'
            /\ \A d \in Devices : disk'.devices[d].status = "absent" =>
                                  disk.devices[d].status = "absent"
         \/ /\ Commit(t) \/ CancelAwaiting(t)
            /\ pc[t] = "commit" /\ tx = "open" /\ disk' = work
            /\ \A d \in Devices : disk'.devices[d].status = "absent" =>
                                  disk.devices[d].status = "absent"
<1>1. CASE Commit(t) \/ CancelAwaiting(t)
  BY <1>1 DEF Commit, CancelAwaiting, StoreInv
<1>2. CASE WriteRows(t)
  <2>1. pc[t] = "write" /\ tx \in {"none", "open"} /\ disk' = IF tx = "open" THEN disk ELSE work'
    BY <1>2, WriteRowsTypes DEF WriteRows, TypeInv, TypeOK
  <2>2. tx # "open" => faults > 0
    BY <2>1 DEF StoreInv, InTx
  <2>3. op[t] \in {"heartbeat", "mark"}
    BY <2>1 DEF TypeInv, CallInv, Locked
  <2>4. \A d \in Devices : work'.devices[d].status = "absent" =>
                           disk.devices[d].status = "absent"
    BY <1>2, <2>3, RowsWritten
  <2> QED
    BY <1>2, <2>1, <2>2, <2>4
<1>3. CASE ~Commit(t) /\ ~CancelAwaiting(t) /\ ~WriteRows(t)
  BY <1>3, TableMoves
<1> QED
  BY <1>1, <1>2, <1>3

\* How often a device is announced, after every step.
LEMMA OnceStep ==
  TypeInv /\ LockInv /\ StoreInv /\ CommitInv /\ OnceInv /\ [Next]_vars => OnceInv'
<1> SUFFICES ASSUME TypeInv, LockInv, StoreInv, CommitInv, OnceInv, [Next]_vars
             PROVE  OnceInv'
  OBVIOUS
<1>0. /\ pc \in [Tasks -> PCs] /\ found \in [Tasks -> {"new", "known"}]
      /\ announced \in [Devices -> Nat]
      /\ \A t \in Tasks : op[t] = "heartbeat" => device[t] \in Devices
  BY DEF TypeInv, TypeOK, CallInv
<1>1. CASE Tick \/ UNCHANGED vars
  BY <1>1 DEF Tick, vars, locals, history, OnceInv
<1>2. ASSUME NEW t \in Tasks, Moves(t) PROVE OnceInv'
  <2>1. CASE announced' = announced
    <3>1. \A d \in Devices : /\ announced'[d] \in {0, 1}
                             /\ disk'.devices[d].status = "absent" => announced'[d] = 0
      BY <1>2, <2>1, DiskMoves DEF OnceInv
    <3>2. ASSUME NEW u \in Tasks, u # t, pc'[u] \in {"write", "commit"}, op'[u] = "heartbeat",
                 found'[u] = "new"
          PROVE  announced'[device'[u]] = 0
      BY <1>2, <2>1, <3>2, Frame DEF OnceInv
    <3>3. ASSUME pc'[t] \in {"write", "commit"}, op'[t] = "heartbeat", found'[t] = "new"
          PROVE  announced'[device'[t]] = 0
      <4>1. CASE Select(t)
        <5>1. /\ UNCHANGED <<op, device>> /\ pc[t] = "select"
              /\ found'[t] = IF work.devices[device[t]].status = "absent" THEN "new" ELSE "known"
          BY <1>0, <3>3, <4>1 DEF Select
        <5>2. work.devices = disk.devices /\ device[t] \in Devices
          BY <1>0, <3>3, <5>1 DEF StoreInv
        <5> QED
          BY <2>1, <3>3, <5>1, <5>2 DEF OnceInv
      <4>2. CASE WriteRows(t)
        <5>1. pc[t] = "write" /\ UNCHANGED <<op, device, found>>
          BY <4>2 DEF WriteRows, locals
        <5> QED
          BY <2>1, <3>3, <5>1 DEF OnceInv
      <4>3. CASE ~Select(t) /\ ~WriteRows(t)
        <5>1. pc'[t] \notin {"write", "commit"}
          BY <1>0, <1>2, <4>3 DEF Moves, Heartbeat, MarkOffline, SaveEvent, Step, GetDevice, Acquire,
             Begin, Commit, Returns, Rollback, Insert, SaveReturns, StatementFails,
             RollbackFails, Cancel, CancelAwaiting, Goto, Queue
        <5> QED
          BY <3>3, <5>1
      <4> QED
        BY <4>1, <4>2, <4>3
    <3> QED
      BY <3>1, <3>2, <3>3 DEF OnceInv
  <2>2. CASE announced' # announced
    <3>1. Commit(t) /\ tx = "open"
      BY <1>2, <2>2 DEF Moves, Heartbeat, MarkOffline, SaveEvent, Step, GetDevice, Acquire, Begin,
         Select, WriteRows, Commit, Rollback, Insert, SaveReturns, StatementFails,
         RollbackFails, Cancel, CancelAwaiting, history
    <3>2. /\ pc[t] = "commit" /\ op[t] = "heartbeat" /\ found[t] = "new" /\ device[t] \in Devices
          /\ announced' = [announced EXCEPT ![device[t]] = announced[device[t]] + 1]
          /\ disk' = work /\ UNCHANGED <<op, device, found>> /\ pc'[t] = "idle"
      BY <1>0, <2>2, <3>1 DEF Commit, Returns, locals, Goto
    <3>3. announced[device[t]] = 0 /\ work.devices[device[t]].status = "online"
      BY <3>1, <3>2 DEF OnceInv, CommitInv
    <3>4. \A d \in Devices : /\ announced'[d] \in {0, 1}
                             /\ disk'.devices[d].status = "absent" => announced'[d] = 0
      <4>1. \A d \in Devices : work.devices[d].status = "absent" =>
                               disk.devices[d].status = "absent"
        BY DEF StoreInv
      <4> QED
        BY <1>0, <3>2, <3>3, <4>1 DEF OnceInv
    <3>5. \A u \in Tasks : pc'[u] \notin {"write", "commit"}
      BY <1>2, <3>2, Frame, OneInside DEF Locked
    <3> QED
      BY <3>4, <3>5 DEF OnceInv
  <2> QED
    BY <2>1, <2>2
<1> QED
  BY <1>1, <1>2, NextMoves

\* What holds in every state whatever fails, together.
SafeInv == TypeInv /\ LockInv /\ StoreInv /\ CommitInv /\ OnceInv

LEMMA SafeInit == Init => SafeInv
<1> SUFFICES ASSUME Init PROVE SafeInv
  OBVIOUS
<1>1. LockInv /\ StoreInv /\ CommitInv /\ OnceInv
  BY DEF Init, LockInv, StoreInv, CommitInv, OnceInv, Locked, InTx, NoRow
<1> QED
  BY <1>1, TypeInit DEF SafeInv

LEMMA SafeStep == SafeInv /\ [Next]_vars => SafeInv'
BY TypeStep, LockStep, StoreStep, CommitStep, OnceStep DEF SafeInv

\* No device is announced as registered twice.
THEOREM RegisteredOnceHolds == Spec => []RegisteredOnce
<1>1. SafeInv => RegisteredOnce
  BY DEF SafeInv, OnceInv, RegisteredOnce
<1> QED
  BY <1>1, SafeInit, SafeStep, PTL DEF Spec

\* The list mark_offline returns is what it turned offline, unless its task is
\* cancelled while COMMIT is awaited, or SQLite rolled the transaction back itself.
THEOREM OfflineListIsExact == Spec => OfflineListExact
<1> DEFINE Exact ==
    \A d \in Devices :
      LET turned == /\ disk.devices[d].status = "online"
                    /\ disk'.devices[d].status = "offline" IN
      /\ listed'[d] > listed[d] => turned
      /\ turned => listed'[d] > listed[d] \/ faults > 0 \/ cancels' # cancels
<1>1. ASSUME SafeInv, Next PROVE Exact
  <2>0. listed \in [Devices -> Nat] /\ cancels \in Nat
    BY <1>1, Bounds DEF SafeInv, TypeInv, TypeOK
  <2>1. CASE Tick
    BY <2>0, <2>1 DEF Tick, history
  <2>2. ASSUME NEW t \in Tasks, Moves(t), NEW d \in Devices
        PROVE  LET turned == /\ disk.devices[d].status = "online"
                             /\ disk'.devices[d].status = "offline" IN
               /\ listed'[d] > listed[d] => turned
               /\ turned => listed'[d] > listed[d] \/ faults > 0 \/ cancels' # cancels
    <3>1. CASE Commit(t) /\ pc[t] = "commit" /\ tx = "open" /\ disk' = work
      <4>1. listed' = IF op[t] = "mark"
                      THEN [e \in Devices |-> listed[e] + (IF e \in rows[t] THEN 1 ELSE 0)]
                      ELSE listed
        BY <3>1 DEF Commit, Returns
      <4>2. op[t] \in {"heartbeat", "mark"}
        BY <1>1, <3>1 DEF SafeInv, TypeInv, CallInv, Locked
      <4>3. CASE op[t] = "heartbeat"
        <5>1. listed'[d] = listed[d]
          BY <4>1, <4>3
        <5>2. work.devices[d].status = "offline" => disk.devices[d].status = "offline"
          BY <1>1, <3>1, <4>3 DEF SafeInv, CommitInv
        <5> QED
          BY <2>0, <3>1, <5>1, <5>2
      <4>4. CASE op[t] = "mark"
        <5>1. listed'[d] = IF d \in rows[t] THEN listed[d] + 1 ELSE listed[d]
          BY <2>0, <4>1, <4>4
        <5>2. IF d \in rows[t]
              THEN disk.devices[d].status = "online" /\ work.devices[d].status = "offline"
              ELSE work.devices[d].status = disk.devices[d].status
          BY <1>1, <3>1, <4>4 DEF SafeInv, CommitInv
        <5> QED
          BY <2>0, <3>1, <5>1, <5>2
      <4> QED
        BY <4>2, <4>3, <4>4
    <3>2. CASE ~(Commit(t) /\ tx = "open")
      <4>1. listed' = listed
        BY <2>2, <3>2 DEF Moves, Heartbeat, MarkOffline, SaveEvent, Step, GetDevice, Acquire, Begin,
           Select, WriteRows, Commit, Rollback, Insert, SaveReturns, StatementFails,
         RollbackFails, Cancel, CancelAwaiting, history
      <4>2. disk'.devices = disk.devices \/ faults > 0 \/ CancelAwaiting(t)
        BY <1>1, <2>2, <3>2, DiskMoves DEF SafeInv
      <4>3. CancelAwaiting(t) => cancels' # cancels
        BY <2>0 DEF CancelAwaiting
      <4> QED
        BY <2>0, <4>1, <4>2, <4>3
    <3> QED
      BY <1>1, <2>2, <3>1, <3>2 DEF Commit
  <2> QED
    BY <1>1, <2>1, <2>2, NextMoves
<1>2. SafeInv /\ [Next]_vars => [Exact]_vars
  BY <1>1
<1>3. SafeInv /\ [Next]_vars => SafeInv'
  BY SafeStep
<1> QED
  BY <1>2, <1>3, SafeInit, PTL DEF Spec, OfflineListExact

-----------------------------------------------------------------------------
(* While nothing fails and nothing is cancelled. *)

Quiet == faults = 0 /\ cancels = 0

\* QuietInv, in the parts its proof takes one at a time.
QuietStore ==
  /\ errors = 0 /\ ~untrue /\ acked \subseteq work.events
  /\ tx = "open" => \E t \in Tasks : pc[t] \in InTx
QuietTask(t) ==
  /\ pc[t] # "rollback"
  /\ pc[t] = "saved" => <<t, calls[t]>> \in work.events
  /\ pc[t] # "idle" /\ op[t] = "heartbeat"
       /\ disk.devices[device[t]].status # "online" => t \in wasaway
QuietRead(t) ==
  op[t] = "heartbeat" /\ existing[t] # "online" =>
    /\ pc[t] \in Locked => t \in wasaway
    /\ pc[t] = "lock" => \/ t \in wasaway
                         \/ /\ work.devices[device[t]].status # "online"
                            /\ \E u \in Tasks : pc[u] = "commit"

LEMMA QuietParts ==
  QuietInv <=> (Quiet => QuietStore /\ \A t \in Tasks : QuietTask(t) /\ QuietRead(t))
BY DEF QuietInv, Quiet, QuietStore, QuietTask, QuietRead

\* Where a step of a task leads.
LEMMA WhereTo ==
  ASSUME NEW t \in Tasks, pc \in [Tasks -> PCs]
  PROVE  /\ (\E d \in Devices : Heartbeat(t, d)) => pc'[t] = "get"
         /\ MarkOffline(t) \/ GetDevice(t) => pc'[t] = "lock"
         /\ SaveEvent(t) => pc'[t] = "insert"
         /\ Acquire(t) => pc'[t] = "begin"
         /\ Begin(t) => pc[t] = "begin" /\ pc'[t] \in {"select", "rollback"}
         /\ Select(t) => pc[t] = "select" /\ pc'[t] \in {"write", "commit"}
         /\ WriteRows(t) => pc[t] = "write" /\ pc'[t] = "commit"
         /\ Insert(t) => pc'[t] = "saved"
         /\ SaveReturns(t) \/ RollbackFails(t) \/ Cancel(t) \/ Returns(t) => pc'[t] = "idle"
<1> USE DEF Goto
<1>1. (\E d \in Devices : Heartbeat(t, d)) => pc'[t] = "get"
  BY DEF Heartbeat
<1>2. MarkOffline(t) \/ GetDevice(t) => pc'[t] = "lock"
  BY DEF MarkOffline, GetDevice, Queue
<1>3. /\ SaveEvent(t) => pc'[t] = "insert"
      /\ Acquire(t) => pc'[t] = "begin"
  BY DEF SaveEvent, Acquire
<1>4. /\ Begin(t) => pc[t] = "begin" /\ pc'[t] \in {"select", "rollback"}
      /\ Select(t) => pc[t] = "select" /\ pc'[t] \in {"write", "commit"}
  BY DEF Begin, Select
<1>5. /\ WriteRows(t) => pc[t] = "write" /\ pc'[t] = "commit"
      /\ Insert(t) => pc'[t] = "saved"
  BY DEF WriteRows, Insert
<1>6. SaveReturns(t) \/ RollbackFails(t) \/ Cancel(t) \/ Returns(t) => pc'[t] = "idle"
  BY DEF SaveReturns, RollbackFails, Cancel, Returns
<1> QED
  BY <1>1, <1>2, <1>3, <1>4, <1>5, <1>6

\* A step that keeps it quiet, and what it does to the database.
LEMMA QuietMoves ==
  ASSUME SafeInv, QuietInv, NEW t \in Tasks, Moves(t), Quiet'
  PROVE  /\ Quiet /\ pc'[t] # "rollback"
         /\ \/ Apart(t) /\ UNCHANGED <<work, disk, tx>>
            \/ Begin(t) /\ tx = "none" /\ tx' = "open" /\ UNCHANGED <<work, disk>>
            \/ /\ WriteRows(t) /\ tx = "open" /\ tx' = tx /\ disk' = disk
               /\ work'.events = work.events
            \/ /\ Insert(t) /\ tx' = tx
               /\ work'.devices = work.devices /\ disk'.devices = disk.devices
               /\ work'.events = work.events \cup {<<t, calls[t]>>}
            \/ /\ Commit(t) /\ pc[t] = "commit" /\ tx = "open" /\ tx' = "none"
               /\ work' = work /\ disk' = work /\ Returns(t) /\ NoteAway
         /\ ~RollbackFails(t) /\ ~Cancel(t) /\ ~CancelAwaiting(t)
         /\ Commit(t) => Returns(t)
<1>0. /\ tx \in {"none", "open"} /\ pc \in [Tasks -> PCs]
      /\ faults \in Nat /\ cancels \in Nat
  BY Bounds DEF SafeInv, TypeInv, TypeOK
<1>1. /\ ~StatementFails(t) /\ ~RollbackFails(t) /\ ~Cancel(t) /\ ~CancelAwaiting(t)
      /\ Quiet
  <2>1. faults' >= faults /\ cancels' >= cancels /\ faults' \in Nat /\ cancels' \in Nat
    BY <1>0 DEF Moves, Heartbeat, MarkOffline, SaveEvent, Step, GetDevice, Acquire, Begin,
       Select, WriteRows, Commit, Rollback, Insert, SaveReturns, StatementFails,
       RollbackFails, Cancel, CancelAwaiting
  <2>2. ~StatementFails(t) /\ ~RollbackFails(t) /\ ~Cancel(t) /\ ~CancelAwaiting(t)
    BY <1>0 DEF StatementFails, RollbackFails, Cancel, CancelAwaiting, Quiet
  <2> QED
    BY <1>0, <2>1, <2>2 DEF Quiet
<1>2. QuietStore /\ \A u \in Tasks : QuietTask(u)
  BY <1>1, QuietParts
<1>3. ~Rollback(t)
  BY <1>2 DEF Rollback, QuietTask
<1>4. ASSUME Begin(t) PROVE tx = "none"
  <2>1. pc[t] = "begin" /\ \A u \in Tasks : pc[u] \in InTx => u = t
    BY <1>4, OneInside DEF Begin, SafeInv, InTx, Locked
  <2> QED
    BY <1>0, <1>2, <2>1 DEF QuietStore, InTx
<1>5. ASSUME Commit(t) \/ WriteRows(t) PROVE tx = "open"
  <2>1. pc[t] \in InTx
    BY <1>5 DEF Commit, WriteRows, InTx
  <2> QED
    BY <1>0, <1>1, <2>1 DEF SafeInv, StoreInv, Quiet
<1>6. pc'[t] # "rollback"
  BY <1>0, <1>1, <1>3, <1>4, <1>5 DEF Moves, Heartbeat, MarkOffline, SaveEvent, Step, GetDevice,
     Acquire, Begin, Select, WriteRows, Commit, Returns, Insert, SaveReturns, Goto, Queue
<1>r. Commit(t) => Returns(t)
  BY <1>5 DEF Commit
<1>7. CASE WriteRows(t)
  BY <1>1, <1>5, <1>6, <1>7, <1>r, WriteRowsTypes DEF WriteRows, SafeInv
<1>8. CASE Insert(t)
  BY <1>1, <1>6, <1>8, <1>r, InsertTypes, TableMoves DEF SafeInv, Apart, Begin, WriteRows, Commit,
     Rollback, Insert
<1>9. CASE Commit(t)
  BY <1>1, <1>5, <1>6, <1>9, <1>r DEF Commit
<1>10. CASE ~WriteRows(t) /\ ~Insert(t) /\ ~Commit(t)
  BY <1>1, <1>3, <1>4, <1>6, <1>10, <1>r, TableMoves DEF SafeInv
<1> QED
  BY <1>7, <1>8, <1>9, <1>10

\* ... and what it does to the history.
LEMMA QuietHistory ==
  ASSUME SafeInv, QuietInv, NEW t \in Tasks, Moves(t), Quiet'
  PROVE  /\ errors' = errors /\ work.events \subseteq work'.events
         /\ acked' \subseteq work'.events
         /\ ~Commit(t) => untrue' = untrue
         /\ \A u \in Tasks : u \in wasaway /\ u # t => u \in wasaway'
         /\ t \in wasaway => t \in wasaway' \/ \E d \in Devices : Heartbeat(t, d)
<1>1. /\ ~Rollback(t) /\ ~StatementFails(t) /\ ~RollbackFails(t) /\ ~Cancel(t)
      /\ ~CancelAwaiting(t) /\ Quiet
      /\ work.events \subseteq work'.events
  <2>1. /\ Quiet /\ work.events \subseteq work'.events
        /\ ~RollbackFails(t) /\ ~Cancel(t) /\ ~CancelAwaiting(t)
    BY QuietMoves
  <2>2. ~StatementFails(t)
    BY <2>1 DEF Quiet, StatementFails
  <2>3. pc[t] # "rollback"
    BY <2>1, QuietParts DEF QuietTask
  <2> QED
    BY <2>1, <2>2, <2>3 DEF Rollback
<1>2. errors' = errors
  BY <1>1 DEF Moves, Heartbeat, MarkOffline, SaveEvent, Step, GetDevice, Acquire, Begin,
     Select, WriteRows, Commit, Returns, Insert, SaveReturns, history
<1>3. acked' \subseteq work'.events
  <2>1. acked \subseteq work.events /\ (pc[t] = "saved" => <<t, calls[t]>> \in work.events)
    BY <1>1, QuietParts DEF QuietStore, QuietTask
  <2>2. acked' \subseteq acked \cup (IF pc[t] = "saved" THEN {<<t, calls[t]>>} ELSE {})
    BY <1>1 DEF Moves, Heartbeat, MarkOffline, SaveEvent, Step, GetDevice, Acquire, Begin,
     Select, WriteRows, Commit, Returns, Insert, SaveReturns, history
  <2> QED
    BY <1>1, <2>1, <2>2
<1>4. ~Commit(t) => untrue' = untrue
  BY <1>1 DEF Moves, Heartbeat, MarkOffline, SaveEvent, Step, GetDevice, Acquire, Begin,
     Select, WriteRows, Insert, SaveReturns, history
<1>5. CASE \E d \in Devices : Heartbeat(t, d)
  BY <1>1, <1>2, <1>3, <1>4, <1>5 DEF Heartbeat
<1>6. CASE WriteRows(t) \/ Commit(t)
  <2>1. wasaway \subseteq wasaway'
    BY <1>6 DEF WriteRows, Commit, NoteAway, history
  <2> QED
    BY <1>1, <1>2, <1>3, <1>4, <2>1
<1>7. CASE ~(\E d \in Devices : Heartbeat(t, d)) /\ ~WriteRows(t) /\ ~Commit(t)
  <2>1. wasaway' = wasaway
    BY <1>1, <1>7 DEF Moves, MarkOffline, SaveEvent, Step, GetDevice, Acquire, Begin,
       Select, Insert, SaveReturns, history
  <2> QED
    BY <1>1, <1>2, <1>3, <1>4, <2>1
<1> QED
  BY <1>5, <1>6, <1>7

\* A row that the database does not show online after the step, and did not before, is noted.
LEMMA QuietNoted ==
  ASSUME SafeInv, QuietInv, NEW t \in Tasks, Moves(t), Quiet', NEW u \in Tasks,
         pc[u] # "idle", op[u] = "heartbeat",
         disk'.devices[device[u]].status # "online"
  PROVE  \/ u \in wasaway'
         \/ disk.devices[device[u]].status # "online"
<1>1. CASE Commit(t) /\ NoteAway
  BY <1>1 DEF NoteAway
<1>2. CASE disk'.devices = disk.devices
  BY <1>2
<1> QED
  BY <1>1, <1>2, QuietMoves

\* The quiet part of the invariant, after every step.
LEMMA QuietStep == SafeInv /\ QuietInv /\ [Next]_vars => QuietInv'
<1> SUFFICES ASSUME SafeInv, QuietInv, [Next]_vars PROVE QuietInv'
  OBVIOUS
<1>0. /\ pc \in [Tasks -> PCs] /\ op \in [Tasks -> Ops] /\ calls \in [Tasks -> 0..MaxCalls]
      /\ device \in [Tasks -> Devices \cup {"none"}]
      /\ existing \in [Tasks -> {"absent", "online", "offline"}]
      /\ tx \in {"none", "open"}
  BY DEF SafeInv, TypeInv, TypeOK
<1>1. CASE Tick \/ UNCHANGED vars
  BY <1>1 DEF Tick, vars, locals, history, QuietInv
<1>2. ASSUME NEW t \in Tasks, Moves(t) PROVE QuietInv'
  <2> SUFFICES ASSUME Quiet' PROVE QuietInv'
    BY DEF QuietInv, Quiet
  <2>1. QuietStore /\ \A u \in Tasks : QuietTask(u) /\ QuietRead(u)
    BY <1>2, QuietMoves, QuietParts
  <2>2. /\ errors' = errors /\ work.events \subseteq work'.events
        /\ acked' \subseteq work'.events
        /\ ~Commit(t) => untrue' = untrue
        /\ \A u \in Tasks : u \in wasaway /\ u # t => u \in wasaway'
        /\ t \in wasaway => t \in wasaway' \/ \E d \in Devices : Heartbeat(t, d)
    BY <1>2, QuietHistory
  <2>3. ~untrue'
    <3>1. CASE Commit(t) /\ Returns(t)
      <4>1. pc[t] = "commit"
        BY <3>1 DEF Commit
      <4> QED
        BY <2>1, <3>1, <4>1 DEF Returns, QuietStore, QuietRead, Locked
    <3> QED
      BY <1>2, <2>1, <2>2, <3>1, QuietMoves DEF QuietStore
  <2>4. tx' = "open" => \E u \in Tasks : pc'[u] \in InTx
    <3>1. CASE Begin(t) /\ tx = "none"
      BY <1>0, <3>1 DEF Begin, Goto, InTx
    <3>2. CASE tx' = tx
      <4> SUFFICES ASSUME tx = "open" PROVE \E u \in Tasks : pc'[u] \in InTx
        BY <3>2
      <4>1. PICK u \in Tasks : pc[u] \in InTx
        BY <2>1 DEF QuietStore
      <4>2. CASE u # t
        BY <1>2, <4>1, <4>2, Frame DEF SafeInv
      <4>3. CASE u = t
        <5>1. Select(t) \/ WriteRows(t)
          BY <1>2, <3>2, <4>1, <4>3, QuietMoves DEF Apart, Heartbeat, MarkOffline, SaveEvent,
             GetDevice, Acquire, SaveReturns, Begin, Insert, InTx
        <5>2. pc'[t] \in InTx
          BY <1>0, <5>1 DEF Select, WriteRows, Goto, InTx
        <5> QED
          BY <5>2
      <4> QED
        BY <4>2, <4>3
    <3> QED
      BY <1>2, <3>1, <3>2, QuietMoves
  <2>5. QuietStore'
    BY <2>1, <2>2, <2>3, <2>4 DEF QuietStore
  <2>6. ASSUME NEW u \in Tasks PROVE QuietTask(u)'
    <3>1. CASE u # t
      <4>1. /\ pc'[u] = pc[u] /\ op'[u] = op[u] /\ device'[u] = device[u]
            /\ calls'[u] = calls[u]
        BY <1>2, <3>1, Frame DEF SafeInv
      <4> QED
        BY <1>2, <2>1, <2>2, <3>1, <4>1, QuietNoted DEF QuietTask
    <3>2. CASE u = t
      <4>1. pc'[t] # "rollback"
        BY <1>2, QuietMoves
      <4>2. pc'[t] = "saved" => <<t, calls'[t]>> \in work'.events
        <5> SUFFICES ASSUME pc'[t] = "saved" PROVE <<t, calls'[t]>> \in work'.events
          OBVIOUS
        <5>1. Insert(t)
          BY <1>0, <1>2, QuietMoves DEF Apart, Heartbeat, MarkOffline, SaveEvent, GetDevice,
             Acquire, Select, SaveReturns, Begin, WriteRows, Commit, Returns, Goto, Queue
        <5>2. calls' = calls /\ work'.events = work.events \cup {<<t, calls[t]>>}
          BY <5>1, InsertTypes DEF Insert, SafeInv
        <5> QED
          BY <5>2
      <4>3. ASSUME pc'[t] # "idle", op'[t] = "heartbeat",
                   disk'.devices[device'[t]].status # "online"
            PROVE  t \in wasaway'
        <5>1. CASE \E d \in Devices : Heartbeat(t, d)
          BY <1>0, <4>3, <5>1 DEF Heartbeat
        <5>2. CASE ~(\E d \in Devices : Heartbeat(t, d))
          <6>1. pc[t] # "idle" /\ op'[t] = op[t] /\ device'[t] = device[t]
            BY <1>0, <1>2, <4>3, <5>2, QuietMoves DEF Apart, MarkOffline, SaveEvent, GetDevice,
               Acquire, Select, SaveReturns, Begin, WriteRows, Commit, Insert, locals
          <6> QED
            BY <1>2, <2>1, <2>2, <4>3, <5>2, <6>1, QuietNoted DEF QuietTask
        <5> QED
          BY <5>1, <5>2
      <4> QED
        BY <3>2, <4>1, <4>2, <4>3 DEF QuietTask
    <3> QED
      BY <3>1, <3>2
  <2>7. ASSUME NEW u \in Tasks, op'[u] = "heartbeat", existing'[u] # "online",
               pc'[u] \in Locked
        PROVE  u \in wasaway'
    <3>1. CASE u # t
      <4>1. pc'[u] = pc[u] /\ op'[u] = op[u] /\ existing'[u] = existing[u]
        BY <1>2, <3>1, Frame DEF SafeInv
      <4> QED
        BY <2>1, <2>2, <2>7, <3>1, <4>1 DEF QuietRead
    <3>2. CASE u = t /\ Acquire(t)
      <4>1. pc[t] = "lock" /\ Holds(t) /\ UNCHANGED <<op, existing, history>>
        BY <3>2 DEF Acquire, locals
      <4>2. ASSUME NEW v \in Tasks, pc[v] = "commit" PROVE FALSE
        <5>1. Holds(v)
          BY <4>2 DEF SafeInv, LockInv, Locked
        <5>2. v = t
          BY <4>1, <5>1 DEF Holds
        <5> QED
          BY <4>1, <4>2, <5>2
      <4>3. t \in wasaway
        BY <2>1, <2>7, <3>2, <4>1, <4>2 DEF QuietRead
      <4> QED
        BY <3>2, <4>1, <4>3 DEF history
    <3>3. CASE u = t /\ ~Acquire(t)
      <4>1. pc[t] \in Locked /\ op'[t] = op[t] /\ existing'[t] = existing[t]
        <5>1. Begin(t) \/ Select(t) \/ WriteRows(t)
          BY <1>0, <1>2, <2>7, <3>3, QuietMoves, WhereTo DEF Apart, Locked
        <5>2. pc[t] \in Locked
          BY <1>0, <5>1, WhereTo DEF Locked
        <5>3. UNCHANGED <<op, existing>>
          BY <5>1 DEF Begin, Select, WriteRows, locals
        <5> QED
          BY <5>2, <5>3
      <4>2. ~(\E d \in Devices : Heartbeat(t, d))
        BY <4>1 DEF Heartbeat, Locked
      <4> QED
        BY <2>1, <2>2, <2>7, <3>3, <4>1, <4>2 DEF QuietRead
    <3> QED
      BY <3>1, <3>2, <3>3
  <2>8. ASSUME NEW u \in Tasks, op'[u] = "heartbeat", existing'[u] # "online",
               pc'[u] = "lock"
        PROVE  \/ u \in wasaway'
               \/ /\ work'.devices[device'[u]].status # "online"
                  /\ \E v \in Tasks : pc'[v] = "commit"
    <3>1. CASE u # t
      <4>1. /\ pc'[u] = pc[u] /\ op'[u] = op[u] /\ existing'[u] = existing[u]
            /\ device'[u] = device[u]
        BY <1>2, <3>1, Frame DEF SafeInv
      <4>2. CASE u \in wasaway
        BY <2>2, <3>1, <4>2
      <4>3. CASE u \notin wasaway
        <5>1. PICK v \in Tasks : pc[v] = "commit"
          BY <2>1, <2>8, <4>1, <4>3 DEF QuietRead
        <5>2. work.devices[device[u]].status # "online"
          BY <2>1, <2>8, <4>1, <4>3 DEF QuietRead
        <5>3. CASE v # t
          <6>1. pc'[v] = "commit"
            BY <1>2, <5>1, <5>3, Frame DEF SafeInv
          <6>2. ~WriteRows(t) /\ ~Commit(t)
            BY <5>1, <5>3, OneInside DEF WriteRows, Commit, SafeInv, Locked
          <6>3. work'.devices = work.devices
            BY <1>2, <6>2, QuietMoves
          <6> QED
            BY <4>1, <5>2, <6>1, <6>3
        <5>4. CASE v = t
          <6>1. Commit(t) /\ disk' = work /\ NoteAway
            BY <1>2, <5>1, <5>4, QuietMoves DEF Apart, Heartbeat, MarkOffline, SaveEvent, GetDevice,
               Acquire, Select, SaveReturns, Begin, WriteRows, Insert
          <6> QED
            BY <2>8, <4>1, <5>2, <6>1 DEF NoteAway
        <5> QED
          BY <5>3, <5>4
      <4> QED
        BY <4>2, <4>3
    <3>2. CASE u = t
      <4>1. GetDevice(t)
        <5>1. MarkOffline(t) => op'[t] = "mark"
          BY <1>0 DEF MarkOffline
        <5> QED
          BY <1>0, <1>2, <2>8, <3>2, <5>1, QuietMoves, WhereTo DEF Apart
      <4>2. /\ pc[t] = "get" /\ op[t] = "heartbeat" /\ UNCHANGED <<work, device, wasaway>>
            /\ work.devices[device[t]].status # "online"
            /\ \A v \in Tasks : v # t => pc'[v] = pc[v]
        BY <1>0, <2>8, <3>2, <4>1 DEF GetDevice, StatusRead, history, Queue, Goto
      <4>3. CASE disk.devices[device[t]].status # "online"
        BY <2>1, <3>2, <4>2, <4>3 DEF QuietTask
      <4>4. CASE disk.devices[device[t]].status = "online"
        <5>1. tx = "open"
          BY <1>0, <4>2, <4>4 DEF SafeInv, StoreInv
        <5>2. PICK v \in Tasks : pc[v] \in InTx
          BY <2>1, <5>1 DEF QuietStore
        <5>3. pc[v] \notin {"select", "write"}
          BY <4>2, <4>4 DEF SafeInv, StoreInv
        <5>4. pc[v] = "commit" /\ v # t
          BY <4>2, <5>2, <5>3 DEF InTx
        <5> QED
          BY <3>2, <4>2, <5>4
      <4> QED
        BY <4>3, <4>4
    <3> QED
      BY <3>1, <3>2
  <2>9. \A u \in Tasks : QuietRead(u)'
    BY <2>7, <2>8 DEF QuietRead
  <2> QED
    BY <2>5, <2>6, <2>9 DEF QuietInv, Quiet, QuietStore, QuietTask, QuietRead
<1> QED
  BY <1>1, <1>2, NextMoves

LEMMA QuietInit == Init => QuietInv
BY DEF Init, QuietInv, NoRow, Locked

\* Calls made at the same time do not make each other fail, and lose no event.
THEOREM ConcurrencyIsSafe == Spec => []ConcurrencySafe
<1>1. SafeInv /\ QuietInv => ConcurrencySafe
  BY DEF QuietInv, ConcurrencySafe
<1> QED
  BY <1>1, SafeInit, SafeStep, QuietInit, QuietStep, PTL DEF Spec

\* on_device_online is called only for a device that was offline, or not registered,
\* in the database at some time since the heartbeat arrived.
THEOREM OnlineCallsAreTrue == Spec => []OnlineCallsTrue
<1>1. SafeInv /\ QuietInv => OnlineCallsTrue
  BY Bounds DEF QuietInv, OnlineCallsTrue, SafeInv, TypeInv, TypeOK
<1> QED
  BY <1>1, SafeInit, SafeStep, QuietInit, QuietStep, PTL DEF Spec
=============================================================================
