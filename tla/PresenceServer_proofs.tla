----------------------- MODULE PresenceServer_proofs -----------------------
(***************************************************************************)
(* Proofs about PresenceServer for any set of devices, any number of       *)
(* handlers, any of the three backends, and any timeout and bounds.        *)
(***************************************************************************)
EXTENDS PresenceServer, FiniteSetTheorems, TLAPS

USE BackendAssumption, TimeoutAssumption, NoneAssumption, BoundsAssumption

-----------------------------------------------------------------------------
(* The operators of DeviceTable. *)

\* The row upsert_device writes is a row, online, with first_seen preserved.
LEMMA UpsertedRow ==
  ASSUME NEW row \in Row, NEW t \in Nat
  PROVE  /\ Upserted(row, t) \in Row
         /\ Upserted(row, t).status = "online"
         /\ Upserted(row, t).last_heartbeat = t
         /\ row.status # "absent" => Upserted(row, t).first_seen = row.first_seen
BY DEF Upserted, Row

\* mark_offline changes the status of the stale rows and nothing else.
LEMMA MarkedOfflineRows ==
  ASSUME NEW table \in [Devices -> Row], NEW before \in Int
  PROVE  /\ MarkedOffline(table, before) \in [Devices -> Row]
         /\ Stale(table, before) \subseteq Devices
         /\ \A d \in Devices :
              LET r == MarkedOffline(table, before)[d] IN
              /\ r.first_seen = table[d].first_seen
              /\ r.last_heartbeat = table[d].last_heartbeat
              /\ r.status = IF d \in Stale(table, before) THEN "offline"
                            ELSE table[d].status
<1>1. DOMAIN table = Devices
  OBVIOUS
<1>2. Stale(table, before) \subseteq Devices
  BY <1>1 DEF Stale
<1>3. ASSUME NEW d \in Devices
      PROVE  /\ MarkedOffline(table, before)[d] \in Row
             /\ MarkedOffline(table, before)[d].first_seen = table[d].first_seen
             /\ MarkedOffline(table, before)[d].last_heartbeat = table[d].last_heartbeat
             /\ MarkedOffline(table, before)[d].status =
                  IF d \in Stale(table, before) THEN "offline" ELSE table[d].status
  <2>1. table[d] \in Row
    OBVIOUS
  <2>2. MarkedOffline(table, before)[d] =
          IF d \in Stale(table, before)
          THEN [table[d] EXCEPT !.status = "offline"] ELSE table[d]
    BY <1>1 DEF MarkedOffline
  <2> QED
    BY <2>1, <2>2 DEF Row
<1>4. MarkedOffline(table, before) = [d \in Devices |-> MarkedOffline(table, before)[d]]
  BY <1>1 DEF MarkedOffline
<1>5. MarkedOffline(table, before) \in [Devices -> Row]
  BY <1>3, <1>4
<1> QED
  BY <1>2, <1>3, <1>5

\* Counting a callback keeps the counts well typed and touches one of them.
LEMMA CountCounts ==
  ASSUME NEW counts \in Counts, NEW d \in Devices, NEW k \in Kinds
  PROVE  /\ Count(counts, d, k) \in Counts
         /\ \A e \in Devices, j \in Kinds :
              Count(counts, d, k)[e][j] =
                IF e = d /\ j = k THEN counts[e][j] + 1 ELSE counts[e][j]
BY DEF Count, Counts

\* The same for the one count the registration argument looks at.
LEMMA RegisteredCount ==
  ASSUME NEW counts \in Counts, NEW d \in Devices, NEW k \in Kinds, NEW e \in Devices
  PROVE  Count(counts, d, k)[e]["registered"] =
           IF e = d /\ k = "registered" THEN counts[e]["registered"] + 1
                                        ELSE counts[e]["registered"]
<1>1. "registered" \in Kinds
  BY DEF Kinds
<1>2. Count(counts, d, k)[e]["registered"] =
           IF e = d /\ "registered" = k THEN counts[e]["registered"] + 1
                                        ELSE counts[e]["registered"]
  BY <1>1, CountCounts
<1> QED
  BY <1>2

\* And for the offline count, which the outage argument looks at.
LEMMA OfflineCount ==
  ASSUME NEW counts \in Counts, NEW d \in Devices, NEW k \in Kinds, NEW e \in Devices
  PROVE  Count(counts, d, k)[e]["offline"] =
           IF e = d /\ k = "offline" THEN counts[e]["offline"] + 1
                                     ELSE counts[e]["offline"]
<1>1. "offline" \in Kinds
  BY DEF Kinds
<1>2. Count(counts, d, k)[e]["offline"] =
           IF e = d /\ "offline" = k THEN counts[e]["offline"] + 1
                                     ELSE counts[e]["offline"]
  BY <1>1, CountCounts
<1> QED
  BY <1>2

\* And for any count.
LEMMA OneCount ==
  ASSUME NEW counts \in Counts, NEW d \in Devices, NEW k \in Kinds,
         NEW e \in Devices, NEW j \in Kinds
  PROVE  Count(counts, d, k)[e][j] =
           IF e = d /\ j = k THEN counts[e][j] + 1 ELSE counts[e][j]
BY CountCounts

-----------------------------------------------------------------------------
(* Type correctness. *)

\* Every step keeps every variable in its type.
LEMMA TypeStep == TypeOK /\ [Next]_vars => TypeOK'
<1> SUFFICES ASSUME TypeOK, [Next]_vars PROVE TypeOK'
  OBVIOUS
<1> USE DEF TypeOK, checker
<1>1. CASE Tick
  BY <1>1 DEF Tick
<1>2. ASSUME NEW h \in Handlers, NEW d \in Devices, Arrive(h, d) PROVE TypeOK'
  BY <1>2 DEF Arrive, checker, Frames, NoFrame, HandlerPCs
<1>3. ASSUME NEW h \in Handlers, Handler(h) PROVE TypeOK'
  <2>1. CASE GetDevice(h)
    <3>1. frame[h].device \in Devices
      BY <2>1 DEF GetDevice
    <3>2. devices[frame[h].device].status \in {"absent", "online", "offline"}
      BY <3>1 DEF Row
    <3> QED
      BY <2>1, <3>1, <3>2 DEF GetDevice, ClockBeforeLock, Frames, HandlerPCs
  <2>2. CASE ReadClock(h)
    BY <2>2 DEF ReadClock, Frames, HandlerPCs
  <2>3. CASE UpsertDevice(h)
    <3> DEFINE d == frame[h].device
    <3>1. d \in Devices
      BY <2>3 DEF UpsertDevice
    <3>2. StampOf(h) \in Nat
      BY DEF StampOf, Frames
    <3>3. devices' \in [Devices -> Row]
      BY <2>3, <3>1, <3>2, UpsertedRow DEF UpsertDevice
    <3>4. moves' \in Counts
      BY <2>3, <3>1 DEF UpsertDevice, Counts
    <3>5. /\ pc' \in [Handlers -> HandlerPCs]
          /\ frame' \in [Handlers -> Frames]
          /\ \A g \in Handlers : pc'[g] # "idle" <=> frame'[g].device \in Devices
      BY <2>3, <3>1 DEF UpsertDevice, IsNew, Frames, HandlerPCs
    <3> QED
      BY <2>3, <3>3, <3>4, <3>5 DEF UpsertDevice
  <2>4. CASE TriggerTransition(h)
    <3>1. frame[h].device \in Devices /\ pc[h] \in {"new", "known"}
      BY <2>4 DEF TriggerTransition
    <3>2. \A k \in Kinds : Count(calls, frame[h].device, k) \in Counts
      BY <3>1, CountCounts
    <3>3. calls' \in Counts
      BY <2>4, <3>2 DEF TriggerTransition, Kinds
    <3> QED
      BY <2>4, <3>1, <3>3 DEF TriggerTransition, HandlerPCs
  <2>5. CASE TriggerHeartbeat(h)
    <3>1. frame[h].device \in Devices
      BY <2>5 DEF TriggerHeartbeat
    <3>2. calls' \in Counts
      BY <2>5, <3>1, CountCounts DEF TriggerHeartbeat, Kinds
    <3> QED
      BY <2>5, <3>2 DEF TriggerHeartbeat, Return, NoFrame, Frames, HandlerPCs
  <2> QED
    BY <1>3, <2>1, <2>2, <2>3, <2>4, <2>5 DEF Handler
<1>4. ASSUME NEW h \in Handlers, HandlerStorageFails(h) PROVE TypeOK'
  BY <1>4 DEF HandlerStorageFails, Return, NoFrame, Frames, HandlerPCs
<1>5. CASE Checker
  <2>1. CASE ReadCutoff
    BY <2>1 DEF ReadCutoff, CheckerPCs
  <2>2. CASE MarkOffline
    <3>2. moves' \in Counts
      BY <2>2 DEF MarkOffline, Counts, Kinds
    <3>3. devices' \in [Devices -> Row] /\ Stale(devices, cutoff) \subseteq Devices
      BY <2>2, MarkedOfflineRows DEF MarkOffline
    <3> QED
      BY <2>2, <3>2, <3>3 DEF MarkOffline, CheckerPCs
  <2>3. ASSUME NEW d \in Devices, TriggerOffline(d) PROVE TypeOK'
    <3>1. calls' \in Counts
      BY <2>3, CountCounts DEF TriggerOffline, Kinds
    <3> QED
      BY <2>3, <3>1 DEF TriggerOffline, CheckerPCs
  <2>4. CASE EndIteration
    BY <2>4 DEF EndIteration, CheckerPCs
  <2>5. CASE EndWait
    BY <2>5 DEF EndWait, CheckerPCs
  <2> QED
    BY <1>5, <2>1, <2>2, <2>3, <2>4, <2>5 DEF Checker
<1>6. CASE CheckerStorageFails
  BY <1>6 DEF CheckerStorageFails, CheckerPCs
<1>7. CASE Crash
  BY <1>7 DEF Crash, NoFrame, Frames, HandlerPCs, CheckerPCs
<1>8. CASE UNCHANGED vars
  BY <1>8 DEF vars
<1> QED
  BY <1>1, <1>2, <1>3, <1>4, <1>5, <1>6, <1>7, <1>8 DEF Next

\* The server starts well typed.
LEMMA TypeInit == Init => TypeOK
BY DEF Init, TypeOK, NoRow, Row, NoFrame, Frames, HandlerPCs, CheckerPCs,
       NoCounts, Counts, Kinds

\* Every variable keeps its type, whatever threads do.
THEOREM TypeCorrect == Spec => []TypeOK
BY TypeInit, TypeStep, PTL DEF Spec

-----------------------------------------------------------------------------
(* How a step may change the table.  Only two actions write it. *)

\* A step leaves the table alone, or is a handler's upsert of its own device,
\* or is the checker's mark_offline.
LEMMA TableStep ==
  ASSUME TypeOK, [Next]_vars
  PROVE  \/ UNCHANGED <<devices, moves>>
         \/ \E h \in Handlers : UpsertDevice(h)
         \/ MarkOffline
BY DEF Next, Handler, Checker, Tick, Arrive, GetDevice, ReadClock,
       HandlerStorageFails, TriggerTransition, TriggerHeartbeat, ReadCutoff,
       CheckerStorageFails, TriggerOffline, EndIteration, EndWait, Crash, vars

\* What an upsert leaves in the rows: its own device online under its stamp,
\* with first_seen kept if it had a row; the other rows untouched.
LEMMA UpsertRows ==
  ASSUME TypeOK, NEW h \in Handlers, UpsertDevice(h)
  PROVE  LET d == frame[h].device IN
         /\ d \in Devices /\ StampOf(h) \in Nat
         /\ devices'[d].status = "online"
         /\ devices'[d].last_heartbeat = StampOf(h)
         /\ devices'[d].first_seen = IF devices[d].status = "absent"
                                     THEN StampOf(h) ELSE devices[d].first_seen
         /\ \A e \in Devices : e # d => devices'[e] = devices[e]
<1>1. frame[h].device \in Devices
  BY DEF TypeOK, UpsertDevice
<1>2. StampOf(h) \in Nat
  BY DEF TypeOK, StampOf, Frames
<1>3. devices[frame[h].device] \in Row
  BY <1>1 DEF TypeOK
<1>4. devices' = [devices EXCEPT ![frame[h].device] =
                     Upserted(devices[frame[h].device], StampOf(h))]
  BY DEF UpsertDevice
<1>5. /\ devices'[frame[h].device] = Upserted(devices[frame[h].device], StampOf(h))
      /\ \A e \in Devices : e # frame[h].device => devices'[e] = devices[e]
  BY <1>1, <1>4 DEF TypeOK
<1> QED
  BY <1>1, <1>2, <1>3, <1>5 DEF Upserted

\* What mark_offline leaves in the rows: the stale ones offline, nothing else.
LEMMA MarkedRows ==
  ASSUME TypeOK, MarkOffline
  PROVE  /\ transitioned' = Stale(devices, cutoff)
         /\ transitioned' \subseteq Devices
         /\ \A d \in Devices :
              /\ devices'[d].first_seen = devices[d].first_seen
              /\ devices'[d].last_heartbeat = devices[d].last_heartbeat
              /\ devices'[d].status = IF d \in transitioned' THEN "offline"
                                      ELSE devices[d].status
              /\ d \in transitioned' <=> /\ devices[d].status = "online"
                                         /\ devices[d].last_heartbeat < cutoff
<1>1. devices \in [Devices -> Row] /\ cutoff \in Int
  BY DEF TypeOK
<1>2. /\ devices' = MarkedOffline(devices, cutoff)
      /\ transitioned' = Stale(devices, cutoff)
  BY DEF MarkOffline
<1>3. \A d \in Devices : d \in Stale(devices, cutoff) <=>
                           /\ devices[d].status = "online"
                           /\ devices[d].last_heartbeat < cutoff
  BY <1>1 DEF Stale
<1> QED
  BY <1>1, <1>2, <1>3, MarkedOfflineRows

\* The clock never goes back.
LEMMA ClockStep ==
  ASSUME TypeOK, [Next]_vars
  PROVE  now \in Nat /\ now' \in Nat /\ now <= now'
<1>1. now \in Nat
  BY DEF TypeOK
<1>2. now' = now \/ now' = now + 1
  BY DEF Next, Handler, Checker, Tick, Arrive, GetDevice, ReadClock,
         UpsertDevice, HandlerStorageFails, TriggerTransition, TriggerHeartbeat,
         ReadCutoff, MarkOffline, CheckerStorageFails, TriggerOffline,
         EndIteration, EndWait, Crash, vars
<1> QED
  BY <1>1, <1>2

-----------------------------------------------------------------------------
(* Silence: an offline device has been silent for longer than the timeout. *)

\* The inductive strengthening: while the checker is between reading the clock
\* and mark_offline, the cutoff can only have become more cautious.
SilenceInv ==
  /\ cpc = "mark" => cutoff <= now - DeviceTimeout
  /\ OfflineMeansSilent

\* A cutoff read at some time is at least as cautious as one read later.
LEMMA LaterCutoff ==
  ASSUME NEW c \in Int, NEW t \in Nat, NEW u \in Nat, t <= u,
         c <= t - DeviceTimeout
  PROVE  c <= u - DeviceTimeout
OBVIOUS

\* SilenceInv is inductive.
LEMMA SilenceStep == TypeOK /\ SilenceInv /\ [Next]_vars => SilenceInv'
<1> SUFFICES ASSUME TypeOK, SilenceInv, [Next]_vars PROVE SilenceInv'
  OBVIOUS
<1>1. now \in Nat /\ now' \in Nat /\ now <= now'
  BY ClockStep
<1>2. (cpc = "mark" => cutoff <= now - DeviceTimeout)'
  <2>1. CASE ReadCutoff
    BY <2>1 DEF ReadCutoff, TypeOK
  <2>2. CASE ~ReadCutoff
    <3>1. cpc' = "mark" => cpc = "mark" /\ cutoff' = cutoff
      BY <2>2 DEF Next, Handler, Checker, Tick, Arrive, GetDevice, ReadClock,
           UpsertDevice, HandlerStorageFails, TriggerTransition,
           TriggerHeartbeat, MarkOffline, CheckerStorageFails,
           TriggerOffline, EndIteration, EndWait, Crash, vars, checker
    <3>2. cutoff \in Int
      BY DEF TypeOK
    <3>3. cpc' = "mark" => cutoff <= now - DeviceTimeout
      BY <3>1 DEF SilenceInv
    <3>4. cpc' = "mark" => cutoff <= now' - DeviceTimeout
      BY <1>1, <3>2, <3>3, LaterCutoff
    <3> QED
      BY <3>1, <3>4
  <2> QED
    BY <2>1, <2>2
<1>3. OfflineMeansSilent'
  <2>1. CASE UNCHANGED <<devices, moves>>
    BY <1>1, <2>1 DEF SilenceInv, OfflineMeansSilent, TypeOK, Row
  <2>2. ASSUME NEW h \in Handlers, UpsertDevice(h) PROVE OfflineMeansSilent'
    BY <2>2, <1>1, UpsertRows DEF SilenceInv, OfflineMeansSilent, TypeOK, Row
  <2>3. CASE MarkOffline
    <3> SUFFICES ASSUME NEW d \in Devices, devices'[d].status = "offline"
                 PROVE  now' - devices'[d].last_heartbeat > DeviceTimeout
      BY DEF OfflineMeansSilent
    <3>1. /\ devices'[d].last_heartbeat = devices[d].last_heartbeat
          /\ devices[d].last_heartbeat \in Nat
          /\ \/ devices[d].status = "offline"
             \/ devices[d].last_heartbeat < cutoff
      BY <2>3, MarkedRows DEF TypeOK, Row
    <3>2. cutoff <= now - DeviceTimeout /\ cutoff \in Int
      BY <2>3 DEF SilenceInv, MarkOffline, TypeOK
    <3> QED
      BY <1>1, <3>1, <3>2 DEF SilenceInv, OfflineMeansSilent
  <2> QED
    BY <2>1, <2>2, <2>3, TableStep
<1> QED
  BY <1>2, <1>3 DEF SilenceInv

\* A device shown offline has been silent for longer than device_timeout.
THEOREM OfflineIsSilent == Spec => []OfflineMeansSilent
<1>1. Init => SilenceInv
  BY DEF Init, SilenceInv, OfflineMeansSilent, NoRow
<1>2. SilenceInv => OfflineMeansSilent
  BY DEF SilenceInv
<1> QED
  BY <1>1, <1>2, SilenceStep, TypeCorrect, PTL DEF Spec

-----------------------------------------------------------------------------
(* Registration: a device is announced as registered at most once. *)

\* The inductive strengthening: only one handler can have inserted the row, it
\* alone owes the announcement, and no announcement precedes the row.
OwedByRow ==
  \A h \in Handlers : pc[h] = "new" =>
    /\ devices[frame[h].device].status # "absent"
    /\ calls[frame[h].device]["registered"] = 0
OwedByOne ==
  \A g, h \in Handlers :
    pc[g] = "new" /\ pc[h] = "new" /\ frame[g].device = frame[h].device => g = h
ToldByRow ==
  \A d \in Devices : /\ calls[d]["registered"] \in {0, 1}
                     /\ devices[d].status = "absent" => calls[d]["registered"] = 0
OnceInv == OwedByRow /\ OwedByOne /\ ToldByRow

\* A row, once it exists, stays.
LEMMA RowsStay ==
  ASSUME TypeOK, [Next]_vars, NEW d \in Devices, devices[d].status # "absent"
  PROVE  devices'[d].status # "absent"
<1>1. ASSUME NEW h \in Handlers, UpsertDevice(h) PROVE devices'[d].status # "absent"
  BY <1>1, UpsertRows
<1>2. CASE MarkOffline
  BY <1>2, MarkedRows
<1> QED
  BY <1>1, <1>2, TableStep

\* OnceInv is inductive.
LEMMA OnceStep == TypeOK /\ OnceInv /\ [Next]_vars => OnceInv'
<1> SUFFICES ASSUME TypeOK, OnceInv, [Next]_vars PROVE OnceInv'
  OBVIOUS
<1> USE DEF OnceInv, OwedByRow, OwedByOne, ToldByRow
<1>0. /\ pc \in [Handlers -> HandlerPCs] /\ frame \in [Handlers -> Frames]
      /\ devices \in [Devices -> Row] /\ calls \in Counts
      /\ \A h \in Handlers : pc[h] # "idle" <=> frame[h].device \in Devices
  BY DEF TypeOK
<1>1. CASE Tick \/ UNCHANGED vars
  BY <1>1 DEF Tick, vars
<1>2. ASSUME NEW h \in Handlers, NEW d \in Devices, Arrive(h, d) PROVE OnceInv'
  <2>1. \A g \in Handlers : pc'[g] = "new" => pc[g] = "new" /\ frame'[g] = frame[g]
    BY <1>0, <1>2 DEF Arrive
  <2>2. UNCHANGED <<devices, calls>>
    BY <1>2 DEF Arrive
  <2> QED
    BY <2>1, <2>2
<1>3. ASSUME NEW h \in Handlers, UpsertDevice(h) PROVE OnceInv'
  <2> DEFINE d == frame[h].device
  <2>1. /\ d \in Devices /\ devices'[d].status = "online"
        /\ \A e \in Devices : e # d => devices'[e] = devices[e]
    BY <1>3, UpsertRows
  <2>2. /\ UNCHANGED <<frame, calls>>
        /\ pc'[h] = IF devices[d].status = "absent" THEN "new" ELSE "known"
        /\ \A g \in Handlers : g # h => pc'[g] = pc[g]
    BY <1>0, <1>3 DEF UpsertDevice, IsNew
  <2>3. \A e \in Devices : devices'[e].status = "absent" => devices[e].status = "absent"
    BY <2>1
  <2>4. ASSUME NEW g \in Handlers, pc'[g] = "new"
        PROVE  /\ devices'[frame[g].device].status # "absent"
               /\ calls[frame[g].device]["registered"] = 0
    <3>1. CASE g = h
      <4>1. devices[d].status = "absent" /\ devices'[d].status = "online"
        BY <2>1, <2>2, <2>4, <3>1
      <4>2. calls[d]["registered"] = 0
        BY <2>1, <4>1
      <4> QED
        BY <3>1, <4>1, <4>2
    <3>2. CASE g # h
      <4>1. pc[g] = "new" /\ frame[g].device \in Devices
        BY <1>0, <2>2, <2>4, <3>2
      <4> QED
        BY <2>3, <4>1
    <3> QED
      BY <3>1, <3>2
  <2>5. ASSUME NEW g \in Handlers, NEW f \in Handlers, pc'[g] = "new", pc'[f] = "new",
               frame[g].device = frame[f].device
        PROVE  g = f
    BY <2>2, <2>5
  <2>6. \A e \in Devices : devices'[e].status = "absent" => calls[e]["registered"] = 0
    BY <2>3
  <2> QED
    BY <2>2, <2>4, <2>5, <2>6
<1>4. ASSUME NEW h \in Handlers, GetDevice(h) \/ ReadClock(h) PROVE OnceInv'
  <2>1. UNCHANGED <<devices, calls>>
    BY <1>4 DEF GetDevice, ReadClock
  <2>2. \A g \in Handlers : /\ pc'[g] = "new" => pc[g] = "new"
                            /\ frame'[g].device = frame[g].device
    BY <1>0, <1>4 DEF GetDevice, ReadClock, Frames
  <2> QED
    BY <2>1, <2>2
<1>5. ASSUME NEW h \in Handlers, TriggerTransition(h) PROVE OnceInv'
  <2> DEFINE d == frame[h].device
  <2>1. /\ UNCHANGED <<devices, frame>>
        /\ pc'[h] = "beat" /\ pc[h] \in {"new", "known"}
        /\ \A g \in Handlers : g # h => pc'[g] = pc[g]
    BY <1>0, <1>5 DEF TriggerTransition
  <2>2. d \in Devices
    BY <1>0, <2>1
  <2>3. /\ pc[h] = "new" => calls' = Count(calls, d, "registered")
        /\ pc[h] = "known" => calls' = Count(calls, d, "online") \/ calls' = calls
    BY <1>5 DEF TriggerTransition
  <2>4. \A e \in Devices :
          calls'[e]["registered"] = IF pc[h] = "new" /\ e = d THEN 1
                                    ELSE calls[e]["registered"]
    <3>1. CASE pc[h] = "new"
      <4>1. \A e \in Devices :
              calls'[e]["registered"] = IF e = d THEN calls[e]["registered"] + 1
                                        ELSE calls[e]["registered"]
        BY <1>0, <2>2, <2>3, <3>1, RegisteredCount DEF Kinds
      <4>2. calls[d]["registered"] = 0
        BY <3>1
      <4> QED
        BY <3>1, <4>1, <4>2
    <3>2. CASE pc[h] = "known"
      BY <1>0, <2>2, <2>3, <3>2, RegisteredCount DEF Kinds
    <3> QED
      BY <2>1, <3>1, <3>2
  <2>5. \A g \in Handlers : pc'[g] = "new" =>
          /\ pc[g] = "new" /\ g # h /\ frame[g].device \in Devices
          /\ pc[h] = "new" => frame[g].device # d
    BY <1>0, <2>1
  <2>6. pc[h] = "new" => devices[d].status # "absent"
    OBVIOUS
  <2>7. \A e \in Devices : /\ calls'[e]["registered"] \in {0, 1}
                           /\ devices[e].status = "absent" => calls'[e]["registered"] = 0
    BY <2>4, <2>6
  <2>8. \A g \in Handlers : pc'[g] = "new" =>
          /\ devices[frame[g].device].status # "absent"
          /\ calls'[frame[g].device]["registered"] = 0
    BY <2>4, <2>5
  <2>9. ASSUME NEW g \in Handlers, NEW f \in Handlers, pc'[g] = "new", pc'[f] = "new",
               frame[g].device = frame[f].device
        PROVE  g = f
    BY <2>5, <2>9
  <2>10. devices' = devices /\ frame' = frame
    BY <2>1
  <2>11. ToldByRow'
    BY <2>7, <2>10
  <2>12. OwedByRow'
    BY <2>8, <2>10
  <2>13. OwedByOne'
    BY <2>9, <2>10
  <2> QED
    BY <2>11, <2>12, <2>13
<1>6. ASSUME NEW h \in Handlers, TriggerHeartbeat(h) PROVE OnceInv'
  <2>1. frame[h].device \in Devices
    BY <1>0, <1>6 DEF TriggerHeartbeat
  <2>2. \A e \in Devices : calls'[e]["registered"] = calls[e]["registered"]
    BY <1>0, <1>6, <2>1, RegisteredCount DEF TriggerHeartbeat, Kinds
  <2>3. /\ UNCHANGED devices
        /\ \A g \in Handlers : pc'[g] = "new" => pc[g] = "new" /\ frame'[g] = frame[g]
    BY <1>0, <1>6 DEF TriggerHeartbeat, Return
  <2> QED
    BY <1>0, <2>2, <2>3
<1>7. ASSUME NEW h \in Handlers, HandlerStorageFails(h) PROVE OnceInv'
  <2>1. UNCHANGED <<devices, calls>>
    BY <1>7 DEF HandlerStorageFails
  <2>2. \A g \in Handlers : pc'[g] = "new" => pc[g] = "new" /\ frame'[g] = frame[g]
    BY <1>0, <1>7 DEF HandlerStorageFails, Return
  <2> QED
    BY <2>1, <2>2
<1>8. CASE MarkOffline
  <2>1. UNCHANGED <<pc, frame, calls>>
    BY <1>8 DEF MarkOffline
  <2>2. \A e \in Devices : devices'[e].status = "absent" <=> devices[e].status = "absent"
    BY <1>8, MarkedRows
  <2> QED
    BY <1>0, <2>1, <2>2
<1>9. ASSUME NEW d \in Devices, TriggerOffline(d) PROVE OnceInv'
  <2>1. \A e \in Devices : calls'[e]["registered"] = calls[e]["registered"]
    BY <1>0, <1>9, RegisteredCount DEF TriggerOffline, Kinds
  <2>2. UNCHANGED <<devices, pc, frame>>
    BY <1>9 DEF TriggerOffline
  <2> QED
    BY <1>0, <2>1, <2>2
<1>10. CASE ReadCutoff \/ EndIteration \/ EndWait \/ CheckerStorageFails
  BY <1>10 DEF ReadCutoff, EndIteration, EndWait, CheckerStorageFails
<1>11. CASE Crash
  BY <1>11 DEF Crash
<1> QED
  BY <1>1, <1>2, <1>3, <1>4, <1>5, <1>6, <1>7, <1>8, <1>9, <1>10, <1>11
     DEF Next, Handler, Checker

\* on_device_registered is called at most once per device, for any number of
\* racing first heartbeats and any number of restarts on the same database.
THEOREM RegisteredAtMostOnce == Spec => []RegisteredOnce
<1>1. Init => OnceInv
  BY DEF Init, OnceInv, OwedByRow, OwedByOne, ToldByRow, NoRow, NoCounts, Kinds
<1>2. OnceInv => RegisteredOnce
  <2> SUFFICES ASSUME ToldByRow, NEW d \in Devices PROVE calls[d]["registered"] <= 1
    BY DEF OnceInv, RegisteredOnce
  <2>1. calls[d]["registered"] = 0 \/ calls[d]["registered"] = 1
    BY DEF ToldByRow
  <2> QED
    BY <2>1
<1> QED
  BY <1>1, <1>2, OnceStep, TypeCorrect, PTL DEF Spec

-----------------------------------------------------------------------------
(* The timestamps of the rows. *)

\* No step removes a row or changes its first_seen.
LEMMA FirstSeenStep ==
  TypeOK /\ [Next]_vars =>
    [\A d \in Devices :
       devices[d].status # "absent" =>
         /\ devices'[d].status # "absent"
         /\ devices'[d].first_seen = devices[d].first_seen]_vars
<1> SUFFICES ASSUME TypeOK, [Next]_vars, NEW d \in Devices,
                    devices[d].status # "absent"
             PROVE  devices'[d].first_seen = devices[d].first_seen
  BY RowsStay
<1>1. ASSUME NEW h \in Handlers, UpsertDevice(h)
      PROVE  devices'[d].first_seen = devices[d].first_seen
  BY <1>1, UpsertRows
<1>2. CASE MarkOffline
  BY <1>2, MarkedRows
<1> QED
  BY <1>1, <1>2, TableStep

\* first_seen is set once, whatever the backend and however handlers race.
THEOREM FirstSeenIsPreserved == Spec => FirstSeenPreserved
<1>1. TypeOK /\ [Next]_vars =>
        [\A d \in Devices :
           devices[d].status # "absent" =>
             /\ devices'[d].status # "absent"
             /\ devices'[d].first_seen = devices[d].first_seen]_vars
  BY FirstSeenStep
<1> QED
  BY <1>1, TypeCorrect, PTL DEF Spec, FirstSeenPreserved

\* A server keeps its backend.
LEMMA BackendStep == [Next]_vars => backend' = backend
BY DEF Next, Handler, Checker, Tick, Arrive, GetDevice, ReadClock, UpsertDevice,
       HandlerStorageFails, TriggerTransition, TriggerHeartbeat, ReadCutoff,
       MarkOffline, CheckerStorageFails, TriggerOffline, EndIteration, EndWait,
       Crash, vars

\* The inductive strengthening: no row is stamped in the future.
PastInv == backend # "sqlite" => \A d \in Devices : devices[d].last_heartbeat <= now

\* Where the clock is read under the lock, a step leaves a row's stamp or
\* brings it to the time of the step.
LEMMA StampStep ==
  ASSUME TypeOK, [Next]_vars, backend # "sqlite", NEW d \in Devices
  PROVE  devices'[d].last_heartbeat \in {devices[d].last_heartbeat, now}
<1>1. ASSUME NEW h \in Handlers, UpsertDevice(h)
      PROVE  devices'[d].last_heartbeat \in {devices[d].last_heartbeat, now}
  <2>1. StampOf(h) = now
    BY DEF StampOf, ClockBeforeLock
  <2> QED
    BY <1>1, <2>1, UpsertRows
<1> QED
  BY <1>1, MarkedRows, TableStep

\* PastInv is inductive, and under it no step takes last_heartbeat back.
LEMMA PastStep ==
  TypeOK /\ PastInv /\ [Next]_vars =>
    /\ PastInv'
    /\ [backend # "sqlite" => \A d \in Devices :
          devices'[d].last_heartbeat >= devices[d].last_heartbeat]_vars
<1> SUFFICES ASSUME TypeOK, PastInv, [Next]_vars, backend # "sqlite", NEW d \in Devices
             PROVE  /\ devices'[d].last_heartbeat <= now'
                    /\ devices'[d].last_heartbeat >= devices[d].last_heartbeat
  BY BackendStep DEF PastInv
<1>1. now \in Nat /\ now' \in Nat /\ now <= now' /\ devices[d].last_heartbeat \in Nat
  BY ClockStep DEF TypeOK, Row
<1>2. devices[d].last_heartbeat <= now
  BY DEF PastInv
<1> QED
  BY <1>1, <1>2, StampStep

\* With a backend whose upsert reads the clock under its lock (InMemoryStorage
\* and AsyncInMemoryStorage), last_heartbeat never goes back.
THEOREM HeartbeatsMonotone == Spec => LastHeartbeatMonotone
<1>1. Init => PastInv
  BY DEF Init, PastInv, NoRow
<1> QED
  BY <1>1, PastStep, TypeCorrect, PTL DEF Spec, LastHeartbeatMonotone

-----------------------------------------------------------------------------
(* Outages: one on_device_offline per outage. *)

\* The inductive strengthening.  A row goes offline only from online, so the
\* timeouts of a device are as many as the times it came online, less the
\* time it is still online for; and the checker announces each once.
OutagesMatch ==
  \A d \in Devices :
    moves[d]["offline"] + (IF devices[d].status = "online" THEN 1 ELSE 0)
      = moves[d]["registered"] + moves[d]["online"]
AnnouncedOnce ==
  \A d \in Devices :
    calls[d]["offline"] + (IF d \in transitioned THEN 1 ELSE 0)
      <= moves[d]["offline"]
HandedOver == cpc # "notify" => transitioned = {}
OutageInv == OutagesMatch /\ AnnouncedOnce /\ HandedOver

\* Timeouts alternate with registrations and returns, in every step.
LEMMA OutagesStep == TypeOK /\ OutagesMatch /\ [Next]_vars => OutagesMatch'
<1> SUFFICES ASSUME TypeOK, OutagesMatch, [Next]_vars, NEW d \in Devices
             PROVE  moves'[d]["offline"] + (IF devices'[d].status = "online" THEN 1 ELSE 0)
                      = moves'[d]["registered"] + moves'[d]["online"]
  BY DEF OutagesMatch
<1>1. /\ moves \in Counts
      /\ devices[d].status \in {"absent", "online", "offline"}
      /\ moves[d]["offline"] \in Nat /\ moves[d]["registered"] \in Nat
      /\ moves[d]["online"] \in Nat
  BY DEF TypeOK, Counts, Kinds, Row
<1>2. moves[d]["offline"] + (IF devices[d].status = "online" THEN 1 ELSE 0)
        = moves[d]["registered"] + moves[d]["online"]
  BY DEF OutagesMatch
<1>3. CASE UNCHANGED <<devices, moves>>
  BY <1>2, <1>3
<1>4. ASSUME NEW h \in Handlers, UpsertDevice(h)
      PROVE  moves'[d]["offline"] + (IF devices'[d].status = "online" THEN 1 ELSE 0)
               = moves'[d]["registered"] + moves'[d]["online"]
  <2>1. CASE d # frame[h].device
    <3>1. moves'[d] = moves[d] /\ devices'[d] = devices[d]
      BY <1>1, <1>4, <2>1, UpsertRows DEF UpsertDevice, Counts
    <3> QED
      BY <1>2, <3>1
  <2>2. CASE d = frame[h].device
    <3>1. moves'[d] = [k \in Kinds |-> IF k \in MoveOf(devices[d])
                                       THEN moves[d][k] + 1 ELSE moves[d][k]]
      BY <1>1, <1>4, <2>2 DEF UpsertDevice, Counts
    <3>2. devices'[d].status = "online"
      BY <1>4, <2>2, UpsertRows
    <3>3. CASE devices[d].status = "absent"
      <4>1. MoveOf(devices[d]) = {"registered", "heartbeat"}
        BY <3>3 DEF MoveOf
      <4>2. /\ moves'[d]["offline"] = moves[d]["offline"]
            /\ moves'[d]["registered"] = moves[d]["registered"] + 1
            /\ moves'[d]["online"] = moves[d]["online"]
        BY <3>1, <4>1 DEF Kinds
      <4> QED
        BY <1>1, <1>2, <3>2, <3>3, <4>2
    <3>4. CASE devices[d].status = "offline"
      <4>1. MoveOf(devices[d]) = {"online", "heartbeat"}
        BY <3>4 DEF MoveOf
      <4>2. /\ moves'[d]["offline"] = moves[d]["offline"]
            /\ moves'[d]["registered"] = moves[d]["registered"]
            /\ moves'[d]["online"] = moves[d]["online"] + 1
        BY <3>1, <4>1 DEF Kinds
      <4> QED
        BY <1>1, <1>2, <3>2, <3>4, <4>2
    <3>5. CASE devices[d].status = "online"
      <4>1. MoveOf(devices[d]) = {"heartbeat"}
        BY <3>5 DEF MoveOf
      <4>2. /\ moves'[d]["offline"] = moves[d]["offline"]
            /\ moves'[d]["registered"] = moves[d]["registered"]
            /\ moves'[d]["online"] = moves[d]["online"]
        BY <3>1, <4>1 DEF Kinds
      <4> QED
        BY <1>1, <1>2, <3>2, <3>5, <4>2
    <3> QED
      BY <1>1, <3>3, <3>4, <3>5
  <2> QED
    BY <2>1, <2>2
<1>5. CASE MarkOffline
  <2>1. CASE d \in transitioned'
    <3>1. devices[d].status = "online" /\ devices'[d].status = "offline"
      BY <1>5, <2>1, MarkedRows
    <3>2. moves'[d] = [moves[d] EXCEPT !["offline"] = @ + 1]
      BY <1>5, <2>1 DEF MarkOffline
    <3>3. moves[d] \in [Kinds -> Nat]
      BY <1>1 DEF Counts
    <3>4. /\ moves'[d]["offline"] = moves[d]["offline"] + 1
          /\ moves'[d]["registered"] = moves[d]["registered"]
          /\ moves'[d]["online"] = moves[d]["online"]
      BY <3>2, <3>3 DEF Kinds
    <3> QED
      BY <1>1, <1>2, <3>1, <3>4
  <2>2. CASE d \notin transitioned'
    <3>1. devices'[d].status = devices[d].status
      BY <1>5, <2>2, MarkedRows
    <3>2. moves'[d] = moves[d]
      BY <1>5, <2>2 DEF MarkOffline
    <3> QED
      BY <1>2, <3>1, <3>2
  <2> QED
    BY <2>1, <2>2
<1> QED
  BY <1>3, <1>4, <1>5, TableStep

\* The checker announces each timeout at most once, and hands none over to its
\* next iteration.
LEMMA AnnouncedStep ==
  TypeOK /\ AnnouncedOnce /\ HandedOver /\ [Next]_vars => AnnouncedOnce' /\ HandedOver'
<1> SUFFICES ASSUME TypeOK, AnnouncedOnce, HandedOver, [Next]_vars
             PROVE  AnnouncedOnce' /\ HandedOver'
  OBVIOUS
<1>0. /\ moves \in Counts /\ calls \in Counts /\ transitioned \subseteq Devices
      /\ \A d \in Devices : moves[d]["offline"] \in Nat /\ calls[d]["offline"] \in Nat
  BY DEF TypeOK, Counts, Kinds
<1>1. ASSUME NEW h \in Handlers, UpsertDevice(h) PROVE AnnouncedOnce' /\ HandedOver'
  <2>1. \A d \in Devices : moves'[d]["offline"] = moves[d]["offline"]
    <3> SUFFICES ASSUME NEW d \in Devices PROVE moves'[d]["offline"] = moves[d]["offline"]
      OBVIOUS
    <3>1. "offline" \notin MoveOf(devices[d])
      <4>1. devices[d].status \in {"absent", "online", "offline"}
        BY DEF TypeOK, Row
      <4> QED
        BY <4>1 DEF MoveOf
    <3>2. CASE d = frame[h].device
      BY <1>0, <1>1, <3>1, <3>2 DEF UpsertDevice, Counts, Kinds
    <3>3. CASE d # frame[h].device
      BY <1>0, <1>1, <3>3 DEF UpsertDevice, Counts
    <3> QED
      BY <3>2, <3>3
  <2>2. UNCHANGED <<calls, checker>>
    BY <1>1 DEF UpsertDevice
  <2> QED
    BY <2>1, <2>2 DEF AnnouncedOnce, HandedOver, checker
<1>2. ASSUME NEW h \in Handlers, TriggerTransition(h) \/ TriggerHeartbeat(h)
      PROVE  AnnouncedOnce' /\ HandedOver'
  <2>1. frame[h].device \in Devices
    BY <1>2 DEF TypeOK, TriggerTransition, TriggerHeartbeat
  <2>2. \A d \in Devices : calls'[d]["offline"] = calls[d]["offline"]
    BY <1>0, <1>2, <2>1, OfflineCount DEF TriggerTransition, TriggerHeartbeat, Kinds
  <2>3. UNCHANGED <<moves, checker>>
    BY <1>2 DEF TriggerTransition, TriggerHeartbeat
  <2> QED
    BY <2>2, <2>3 DEF AnnouncedOnce, HandedOver, checker
<1>3. CASE MarkOffline
  <2>1. transitioned = {} /\ cpc' = "notify"
    BY <1>3 DEF MarkOffline, HandedOver
  <2>2. \A d \in Devices :
          calls[d]["offline"] + (IF d \in transitioned' THEN 1 ELSE 0) <= moves'[d]["offline"]
    <3> SUFFICES ASSUME NEW d \in Devices
                 PROVE  calls[d]["offline"] + (IF d \in transitioned' THEN 1 ELSE 0)
                          <= moves'[d]["offline"]
      OBVIOUS
    <3>1. calls[d]["offline"] <= moves[d]["offline"]
      BY <1>0, <2>1 DEF AnnouncedOnce
    <3>2. CASE d \in transitioned'
      <4>1. moves'[d]["offline"] = moves[d]["offline"] + 1
        BY <1>0, <1>3, <3>2 DEF MarkOffline, Counts, Kinds
      <4> QED
        BY <1>0, <3>1, <3>2, <4>1
    <3>3. CASE d \notin transitioned'
      <4>1. moves'[d]["offline"] = moves[d]["offline"]
        BY <1>0, <1>3, <3>3 DEF MarkOffline, Counts, Kinds
      <4> QED
        BY <1>0, <3>1, <3>3, <4>1
    <3> QED
      BY <3>2, <3>3
  <2>3. UNCHANGED calls
    BY <1>3 DEF MarkOffline
  <2> QED
    BY <2>1, <2>2, <2>3 DEF AnnouncedOnce, HandedOver
<1>4. ASSUME NEW e \in Devices, TriggerOffline(e) PROVE AnnouncedOnce' /\ HandedOver'
  <2>1. /\ transitioned' = transitioned \ {e} /\ e \in transitioned
        /\ cpc' = "notify" /\ UNCHANGED moves
    BY <1>4 DEF TriggerOffline
  <2>2. \A d \in Devices :
          calls'[d]["offline"] = IF d = e THEN calls[d]["offline"] + 1
                                 ELSE calls[d]["offline"]
    BY <1>0, <1>4, OfflineCount DEF TriggerOffline, Kinds
  <2>3. \A d \in Devices :
          calls'[d]["offline"] + (IF d \in transitioned' THEN 1 ELSE 0)
            <= moves[d]["offline"]
    <3> SUFFICES ASSUME NEW d \in Devices
                 PROVE  calls'[d]["offline"] + (IF d \in transitioned' THEN 1 ELSE 0)
                          <= moves[d]["offline"]
      OBVIOUS
    <3>1. calls[d]["offline"] + (IF d \in transitioned THEN 1 ELSE 0) <= moves[d]["offline"]
      BY DEF AnnouncedOnce
    <3>2. CASE d = e
      BY <1>0, <2>1, <2>2, <3>1, <3>2
    <3>3. CASE d # e
      BY <2>1, <2>2, <3>1, <3>3
    <3> QED
      BY <3>2, <3>3
  <2> QED
    BY <2>1, <2>3 DEF AnnouncedOnce, HandedOver
<1>5. CASE Crash
  <2>1. transitioned' = {} /\ UNCHANGED <<moves, calls>>
    BY <1>5 DEF Crash
  <2>2. \A d \in Devices : calls[d]["offline"] + 0 <= moves[d]["offline"]
    <3> SUFFICES ASSUME NEW d \in Devices PROVE calls[d]["offline"] + 0 <= moves[d]["offline"]
      OBVIOUS
    <3>1. calls[d]["offline"] + (IF d \in transitioned THEN 1 ELSE 0) <= moves[d]["offline"]
      BY DEF AnnouncedOnce
    <3> QED
      BY <1>0, <3>1
  <2> QED
    BY <2>1, <2>2 DEF AnnouncedOnce, HandedOver
<1>6. CASE UNCHANGED <<moves, calls, checker>>
  BY <1>6 DEF AnnouncedOnce, HandedOver, checker
<1>7. CASE ReadCutoff \/ CheckerStorageFails \/ EndIteration \/ EndWait
  BY <1>7 DEF ReadCutoff, CheckerStorageFails, EndIteration, EndWait,
              AnnouncedOnce, HandedOver
<1>8. ASSUME NEW h \in Handlers, GetDevice(h) \/ ReadClock(h) \/ HandlerStorageFails(h)
      PROVE  UNCHANGED <<moves, calls, checker>>
  BY <1>8 DEF GetDevice, ReadClock, HandlerStorageFails
<1>9. ASSUME NEW h \in Handlers, NEW d \in Devices, Arrive(h, d)
      PROVE  UNCHANGED <<moves, calls, checker>>
  BY <1>9 DEF Arrive
<1>10. CASE Tick \/ UNCHANGED vars
  BY <1>6, <1>10 DEF Tick, vars
<1> QED
  BY <1>1, <1>2, <1>3, <1>4, <1>5, <1>6, <1>7, <1>8, <1>9, <1>10
     DEF Next, Handler, Checker

\* An outage is announced by on_device_offline at most once.
THEOREM OneCallPerOutage == Spec => []OneOfflinePerOutage
<1>1. Init => OutageInv
  BY DEF Init, OutageInv, OutagesMatch, AnnouncedOnce, HandedOver, NoRow, NoCounts, Kinds
<1>2. TypeOK /\ OutageInv /\ [Next]_vars => OutageInv'
  BY OutagesStep, AnnouncedStep DEF OutageInv
<1>3. TypeOK /\ OutageInv => OneOfflinePerOutage
  <2> SUFFICES ASSUME TypeOK, OutageInv, NEW d \in Devices
               PROVE  calls[d]["offline"] <= moves[d]["registered"] + moves[d]["online"]
    BY DEF OneOfflinePerOutage
  <2>1. /\ calls[d]["offline"] \in Nat /\ moves[d]["offline"] \in Nat
        /\ moves[d]["registered"] \in Nat /\ moves[d]["online"] \in Nat
    BY DEF TypeOK, Counts, Kinds
  <2>2. /\ moves[d]["offline"] + (IF devices[d].status = "online" THEN 1 ELSE 0)
             = moves[d]["registered"] + moves[d]["online"]
        /\ calls[d]["offline"] + (IF d \in transitioned THEN 1 ELSE 0) <= moves[d]["offline"]
    BY DEF OutageInv, OutagesMatch, AnnouncedOnce
  <2> QED
    BY <2>1, <2>2
<1> QED
  BY <1>1, <1>2, <1>3, TypeCorrect, PTL DEF Spec

-----------------------------------------------------------------------------
(* Refinement: the server implements Presence. *)

\* The inductive strengthening: a stamp read before the lock is not in the future.
StampedInv ==
  \A h \in Handlers : pc[h] = "upsert" /\ backend = "sqlite" => frame[h].stamp <= now

\* StampedInv is inductive.
LEMMA StampedStep == TypeOK /\ StampedInv /\ [Next]_vars => StampedInv'
<1> SUFFICES ASSUME TypeOK, StampedInv, [Next]_vars, NEW h \in Handlers,
                    pc'[h] = "upsert", backend' = "sqlite"
             PROVE  frame'[h].stamp <= now'
  BY DEF StampedInv
<1>1. /\ now \in Nat /\ now' \in Nat /\ now <= now' /\ backend = "sqlite"
      /\ frame[h].stamp \in Nat
      /\ pc \in [Handlers -> HandlerPCs] /\ frame \in [Handlers -> Frames]
  BY ClockStep, BackendStep DEF TypeOK, Frames
<1>2. CASE ReadClock(h)
  BY <1>1, <1>2 DEF ReadClock, Frames
<1>3. CASE ~ReadClock(h)
  <2>1. pc[h] = "upsert" /\ frame'[h] = frame[h]
    <3>1. ASSUME NEW g \in Handlers, NEW d \in Devices, Arrive(g, d)
          PROVE  pc[h] = "upsert" /\ frame'[h] = frame[h]
      BY <1>1, <3>1 DEF Arrive
    <3>2. ASSUME NEW g \in Handlers, Handler(g) \/ HandlerStorageFails(g)
          PROVE  pc[h] = "upsert" /\ frame'[h] = frame[h]
      BY <1>1, <1>3, <3>2 DEF Handler, GetDevice, ReadClock, UpsertDevice,
         TriggerTransition, TriggerHeartbeat, HandlerStorageFails, Return, ClockBeforeLock
    <3>3. CASE Tick \/ Checker \/ CheckerStorageFails \/ UNCHANGED vars
      BY <3>3 DEF Tick, Checker, ReadCutoff, MarkOffline, TriggerOffline, EndIteration,
                  EndWait, CheckerStorageFails, vars
    <3>4. CASE Crash
      BY <3>4 DEF Crash
    <3> QED
      BY <3>1, <3>2, <3>3, <3>4 DEF Next
  <2>2. frame[h].stamp <= now
    BY <1>1, <2>1 DEF StampedInv
  <2> QED
    BY <1>1, <2>1, <2>2
<1> QED
  BY <1>2, <1>3

\* A registration or an expiry is owed when a thread holds it.
LEMMA OwedMembers ==
  ASSUME NEW d
  PROVE  /\ <<"registered", d>> \in Owed <=> d \in Unannounced
         /\ <<"offline", d>> \in Owed <=> d \in transitioned
BY DEF Owed

\* Counting a callback that is not told leaves what was told; one that is, tells it.
LEMMA ToldCount ==
  ASSUME TypeOK, NEW d \in Devices, NEW k \in Kinds, calls' = Count(calls, d, k)
  PROVE  Told' = IF k \in {"registered", "offline"}
                 THEN [Told EXCEPT ![d][k] = @ + 1] ELSE Told
<1>1. calls \in Counts
  BY DEF TypeOK
<1>2. \A e \in Devices, j \in Kinds :
        calls'[e][j] = IF e = d /\ j = k THEN calls[e][j] + 1 ELSE calls[e][j]
  BY <1>1, CountCounts
<1>3. {"registered", "offline"} \subseteq Kinds
  BY DEF Kinds
<1>4. CASE k \in {"registered", "offline"}
  <2>1. [Told EXCEPT ![d][k] = @ + 1] =
          [e \in Devices |-> [j \in {"registered", "offline"} |->
             IF e = d /\ j = k THEN calls[e][j] + 1 ELSE calls[e][j]]]
    BY <1>4 DEF Told
  <2> QED
    BY <1>2, <1>3, <1>4, <2>1 DEF Told
<1>5. CASE k \notin {"registered", "offline"}
  BY <1>2, <1>3, <1>5 DEF Told
<1> QED
  BY <1>4, <1>5

\* A thread that takes or releases no registration leaves what is owed.
LEMMA UnannouncedKept ==
  ASSUME \A h \in Handlers : /\ pc'[h] = "new" <=> pc[h] = "new"
                             /\ pc[h] = "new" => frame'[h].device = frame[h].device
  PROVE  Unannounced' = Unannounced
BY DEF Unannounced, Owing

\* A handler's step is a heartbeat, an announcement or nothing.
LEMMA HandlerRefines ==
  ASSUME TypeOK, OnceInv, StampedInv, NEW h \in Handlers, Handler(h)
  PROVE  \/ \E d \in Devices : Promise!Heartbeat(d)
         \/ \E k \in Promise!Announced, d \in Devices : Promise!Announce(k, d)
         \/ UNCHANGED Promise!vars
<1>0. /\ pc \in [Handlers -> HandlerPCs] /\ frame \in [Handlers -> Frames]
      /\ devices \in [Devices -> Row] /\ calls \in Counts /\ now \in Nat
      /\ pc[h] # "idle" => frame[h].device \in Devices
  BY DEF TypeOK
<1>1. CASE GetDevice(h) \/ ReadClock(h)
  <2>1. UNCHANGED <<backend, now, devices, calls, transitioned>>
    BY <1>1 DEF GetDevice, ReadClock, checker
  <2>2. Unannounced' = Unannounced
    <3>1. \A g \in Handlers : /\ pc'[g] = "new" <=> pc[g] = "new"
                              /\ frame'[g].device = frame[g].device
      BY <1>0, <1>1 DEF GetDevice, ReadClock, Frames
    <3> QED
      BY <3>1, UnannouncedKept
  <2> QED
    BY <2>1, <2>2 DEF Promise!vars, Owed, Told
<1>2. CASE UpsertDevice(h)
  <2>0. PICK d \in Devices : d = frame[h].device
    BY <1>0, <1>2 DEF UpsertDevice
  <2>1. /\ UNCHANGED <<backend, now, frame, calls, transitioned>>
        /\ devices' = [devices EXCEPT ![d] = Upserted(@, StampOf(h))]
        /\ pc' = [pc EXCEPT ![h] = IF devices[d].status = "absent" THEN "new" ELSE "known"]
        /\ pc[h] = "upsert"
    BY <1>0, <1>2, <2>0 DEF UpsertDevice, IsNew, checker
  <2>2. /\ StampOf(h) \in 0..now
        /\ backend # "sqlite" => StampOf(h) = now
    BY <1>0, <2>1 DEF StampOf, ClockBeforeLock, StampedInv, Frames
  <2>3. Unannounced' = IF devices[d].status = "absent" THEN Unannounced \cup {d}
                                                       ELSE Unannounced
    BY <1>0, <2>0, <2>1 DEF Unannounced, Owing
  <2>4. Owed' = IF devices[d].status = "absent" THEN Owed \cup {<<"registered", d>>}
                                                ELSE Owed
    BY <2>1, <2>3 DEF Owed
  <2>5. Told' = Told
    BY <2>1 DEF Told
  <2>6. \E t \in 0..now : /\ backend # "sqlite" => t = now
                          /\ devices' = [devices EXCEPT ![d] = Promise!Upserted(@, t)]
    BY <2>1, <2>2 DEF Promise!Upserted, Upserted
  <2>7. Promise!Heartbeat(d)
    BY <2>1, <2>4, <2>5, <2>6 DEF Promise!Heartbeat
  <2> QED
    BY <2>7
<1>3. CASE TriggerTransition(h)
  <2>0. PICK d \in Devices : d = frame[h].device
    BY <1>0, <1>3 DEF TriggerTransition
  <2>1. /\ UNCHANGED <<backend, now, devices, frame, transitioned>>
        /\ pc' = [pc EXCEPT ![h] = "beat"] /\ pc[h] \in {"new", "known"}
    BY <1>3 DEF TriggerTransition, checker
  <2>2. CASE pc[h] = "new"
    <3>1. Unannounced' = Unannounced \ {d} /\ d \in Unannounced
      BY <1>0, <2>0, <2>1, <2>2 DEF Unannounced, Owing, OnceInv, OwedByOne
    <3>2. Owed' = Owed \ {<<"registered", d>>} /\ <<"registered", d>> \in Owed
      BY <2>1, <3>1 DEF Owed
    <3>3. calls' = Count(calls, d, "registered")
      BY <1>3, <2>0, <2>2 DEF TriggerTransition
    <3>4. Told' = [Told EXCEPT ![d]["registered"] = @ + 1]
      BY <3>3, ToldCount DEF Kinds
    <3>5. Promise!Announce("registered", d)
      BY <2>1, <3>2, <3>4 DEF Promise!Announce
    <3> QED
      BY <3>5 DEF Promise!Announced
  <2>3. CASE pc[h] = "known"
    <3>1. Unannounced' = Unannounced
      BY <1>0, <2>1, <2>3, UnannouncedKept
    <3>2. calls' = Count(calls, d, "online") \/ calls' = calls
      BY <1>3, <2>0, <2>3 DEF TriggerTransition
    <3>3. Told' = Told
      BY <3>2, ToldCount DEF Kinds, Told
    <3> QED
      BY <2>1, <3>1, <3>3 DEF Promise!vars, Owed
  <2> QED
    BY <2>1, <2>2, <2>3
<1>4. CASE TriggerHeartbeat(h)
  <2>0. PICK d \in Devices : d = frame[h].device
    BY <1>0, <1>4 DEF TriggerHeartbeat
  <2>1. /\ UNCHANGED <<backend, now, devices, transitioned>>
        /\ calls' = Count(calls, d, "heartbeat")
    BY <1>4, <2>0 DEF TriggerHeartbeat, checker
  <2>2. Unannounced' = Unannounced
    BY <1>0, <1>4, UnannouncedKept DEF TriggerHeartbeat, Return
  <2>3. Told' = Told
    BY <2>1, ToldCount DEF Kinds
  <2> QED
    BY <2>1, <2>2, <2>3 DEF Promise!vars, Owed
<1> QED
  BY <1>1, <1>2, <1>3, <1>4 DEF Handler

\* A step of the checker is an expiry, an announcement or nothing.
LEMMA CheckerRefines ==
  ASSUME TypeOK, SilenceInv, HandedOver, Checker
  PROVE  \/ \E S \in SUBSET Devices : Promise!Expire(S)
         \/ \E k \in Promise!Announced, d \in Devices : Promise!Announce(k, d)
         \/ UNCHANGED Promise!vars
<1>1. UNCHANGED <<backend, now, pc, frame>> /\ Unannounced' = Unannounced
  BY UnannouncedKept DEF Checker, ReadCutoff, MarkOffline, TriggerOffline, EndIteration, EndWait
<1>2. CASE ReadCutoff \/ EndIteration \/ EndWait
  <2>1. UNCHANGED <<devices, calls, transitioned>>
    BY <1>2 DEF ReadCutoff, EndIteration, EndWait
  <2> QED
    BY <1>1, <2>1 DEF Promise!vars, Owed, Told
<1>3. CASE MarkOffline
  <2> DEFINE S == Stale(devices, cutoff)
  <2>1. /\ transitioned = {} /\ transitioned' = S /\ S \subseteq Devices
        /\ devices' = MarkedOffline(devices, cutoff) /\ UNCHANGED calls
    BY <1>3, MarkedRows DEF MarkOffline, HandedOver
  <2>2. devices' = [d \in Devices |-> IF d \in S
                      THEN [devices[d] EXCEPT !.status = "offline"] ELSE devices[d]]
    BY <2>1 DEF MarkedOffline, TypeOK
  <2>3. Owed' = Owed \cup {<<"offline", d>> : d \in S}
    BY <1>1, <2>1 DEF Owed
  <2>4. Told' = Told
    BY <2>1 DEF Told
  <2>5. CASE S = {}
    <3>1. devices' = devices
      BY <2>2, <2>5 DEF TypeOK
    <3>2. Owed' = Owed
      BY <2>3, <2>5
    <3> QED
      BY <1>1, <2>4, <3>1, <3>2 DEF Promise!vars
  <2>6. CASE S # {}
    <3>1. ASSUME NEW d \in S
          PROVE  /\ devices[d].status = "online"
                 /\ now - devices[d].last_heartbeat > DeviceTimeout
                 /\ <<"offline", d>> \notin Owed
      <4>1. d \in Devices /\ devices[d].status = "online" /\ devices[d].last_heartbeat < cutoff
        BY <1>3, <2>1, <3>1, MarkedRows
      <4>2. /\ cutoff <= now - DeviceTimeout /\ cutoff \in Int /\ now \in Nat
            /\ devices[d].last_heartbeat \in Nat
        BY <1>3, <4>1 DEF SilenceInv, MarkOffline, TypeOK, Row
      <4>3. <<"offline", d>> \notin Owed
        BY <2>1, OwedMembers
      <4> QED
        BY <4>1, <4>2, <4>3
    <3>2. Promise!Expire(S)
      BY <1>1, <2>2, <2>3, <2>4, <2>6, <3>1 DEF Promise!Expire
    <3> QED
      BY <2>1, <3>2
  <2> QED
    BY <2>5, <2>6
<1>4. ASSUME NEW d \in Devices, TriggerOffline(d)
      PROVE  Promise!Announce("offline", d)
  <2>1. /\ UNCHANGED <<devices>> /\ transitioned' = transitioned \ {d} /\ d \in transitioned
        /\ calls' = Count(calls, d, "offline")
    BY <1>4 DEF TriggerOffline
  <2>2. Owed' = Owed \ {<<"offline", d>>} /\ <<"offline", d>> \in Owed
    BY <1>1, <2>1 DEF Owed
  <2>3. Told' = [Told EXCEPT ![d]["offline"] = @ + 1]
    BY <2>1, ToldCount DEF Kinds
  <2> QED
    BY <1>1, <2>1, <2>2, <2>3 DEF Promise!Announce
<1> QED
  BY <1>2, <1>3, <1>4 DEF Checker, Promise!Announced

\* Every step of the server is a step of Presence, or none.
LEMMA PromiseStep ==
  TypeOK /\ OnceInv /\ SilenceInv /\ StampedInv /\ HandedOver /\ [Next]_vars
    => [Promise!Next]_(Promise!vars)
<1> SUFFICES ASSUME TypeOK, OnceInv, SilenceInv, StampedInv, HandedOver, [Next]_vars
             PROVE  Promise!Next \/ UNCHANGED Promise!vars
  OBVIOUS
<1>0. /\ pc \in [Handlers -> HandlerPCs] /\ frame \in [Handlers -> Frames]
      /\ \A h \in Handlers : pc[h] # "idle" <=> frame[h].device \in Devices
  BY DEF TypeOK
<1>1. CASE Tick
  <2>1. Promise!Tick
    BY <1>1 DEF Tick, Promise!Tick, Owed, Unannounced, Owing, Told, checker
  <2> QED
    BY <2>1 DEF Promise!Next
<1>2. ASSUME NEW h \in Handlers, NEW d \in Devices, Arrive(h, d) PROVE UNCHANGED Promise!vars
  <2>1. Unannounced' = Unannounced
    BY <1>0, <1>2, UnannouncedKept DEF Arrive
  <2> QED
    BY <1>2, <2>1 DEF Arrive, Promise!vars, Owed, Told, checker
<1>3. ASSUME NEW h \in Handlers, Handler(h) PROVE Promise!Next \/ UNCHANGED Promise!vars
  BY <1>3, HandlerRefines DEF Promise!Next
<1>4. ASSUME NEW h \in Handlers, HandlerStorageFails(h) PROVE UNCHANGED Promise!vars
  <2>1. Unannounced' = Unannounced
    BY <1>0, <1>4, UnannouncedKept DEF HandlerStorageFails, Return
  <2> QED
    BY <1>4, <2>1 DEF HandlerStorageFails, Promise!vars, Owed, Told, checker
<1>5. CASE Checker
  BY <1>5, CheckerRefines DEF Promise!Next
<1>6. CASE CheckerStorageFails
  <2>1. Unannounced' = Unannounced
    BY <1>6, UnannouncedKept DEF CheckerStorageFails
  <2> QED
    BY <1>6, <2>1 DEF CheckerStorageFails, Promise!vars, Owed, Told
<1>7. CASE Crash
  <2>1. Unannounced' = {} /\ transitioned' = {}
    BY <1>7 DEF Crash, Unannounced, Owing
  <2>2. Owed' = {}
    BY <2>1 DEF Owed
  <2>3. Promise!Restart
    BY <1>7, <2>2 DEF Crash, Promise!Restart, Told
  <2> QED
    BY <2>3 DEF Promise!Next
<1>8. CASE UNCHANGED vars
  <2>1. Unannounced' = Unannounced
    BY <1>8, UnannouncedKept DEF vars
  <2> QED
    BY <1>8, <2>1 DEF vars, checker, Promise!vars, Owed, Told
<1> QED
  BY <1>1, <1>2, <1>3, <1>4, <1>5, <1>6, <1>7, <1>8 DEF Next

\* The server starts as Presence does.
LEMMA PromiseInit == Init => Promise!Init
<1> SUFFICES ASSUME Init PROVE Promise!Init
  OBVIOUS
<1>1. Unannounced = {} /\ transitioned = {}
  BY DEF Init, Unannounced, Owing
<1>2. Owed = {}
  BY <1>1 DEF Owed
<1>3. Told = [d \in Devices |-> [k \in Promise!Announced |-> 0]]
  BY DEF Init, Told, NoCounts, Kinds, Promise!Announced
<1> QED
  BY <1>2, <1>3 DEF Init, Promise!Init, NoRow, Promise!NoRow

\* However its handlers, its checker, failing calls and crashes interleave, the
\* server does what Presence promises: a heartbeat is stored, a silent device
\* expires and each announcement is made in one step, or lost in a restart.
THEOREM ImplementsPresence == Spec => PresenceImplemented
<1>1. Init => OnceInv /\ SilenceInv /\ StampedInv /\ HandedOver /\ AnnouncedOnce
  BY DEF Init, OnceInv, OwedByRow, OwedByOne, ToldByRow, SilenceInv, OfflineMeansSilent,
         StampedInv, HandedOver, AnnouncedOnce, NoRow, NoCounts, Kinds
<1> QED
  BY <1>1, OnceStep, SilenceStep, StampedStep, AnnouncedStep, PromiseInit, PromiseStep,
     TypeCorrect, PTL DEF Spec, PresenceImplemented, Promise!Spec

-----------------------------------------------------------------------------
(* Callbacks: what was called and what a thread still holds, together. *)

\* Handlers owe callbacks in finite number, at most one of a kind each.
LEMMA OwingFinite ==
  ASSUME NEW d, NEW k
  PROVE  /\ IsFiniteSet(Owing(d, k)) /\ Cardinality(Owing(d, k)) \in Nat
         /\ Cardinality(Handlers) \in Nat /\ Cardinality(Handlers) >= 1
         /\ Cardinality(Owing(d, k)) <= Cardinality(Handlers)
         /\ Cardinality(Owing(d, k))' \in Nat
<1>1. Owing(d, k) \in SUBSET Handlers
  BY DEF Owing
<1>2. Cardinality(Handlers) \in Nat /\ Cardinality(Handlers) # 0
  BY HandlersAssumption, FS_CardinalityType, FS_EmptySet
<1>3. /\ IsFiniteSet(Owing(d, k))
      /\ Cardinality(Owing(d, k)) <= Cardinality(Handlers)
  BY <1>1, HandlersAssumption, FS_Subset
<1>4. Cardinality(Owing(d, k)) \in Nat
  BY <1>3, FS_CardinalityType
<1>5. Cardinality(Owing(d, k))' \in Nat
  <2>1. Owing(d, k)' \in SUBSET Handlers
    BY DEF Owing
  <2>2. IsFiniteSet(Owing(d, k)')
    BY <2>1, HandlersAssumption, FS_Subset
  <2> QED
    BY <2>2, FS_CardinalityType
<1> QED
  BY <1>2, <1>3, <1>4, <1>5

\* The callbacks of kind k that d has caused, made or still owed.
Held(d, k) == calls[d][k] + Cardinality(Owing(d, k))
HandlerKinds == {"registered", "online", "heartbeat"}

\* An upsert makes its handler owe a heartbeat callback, and on_device_registered
\* or on_device_online as the row and the status read before tell.
LEMMA HeldByUpsert ==
  ASSUME TypeOK, NEW h \in Handlers, UpsertDevice(h), NEW d \in Devices, NEW k \in HandlerKinds
  PROVE  Held(d, k)' = Held(d, k) +
           IF /\ d = frame[h].device
              /\ \/ k = "heartbeat"
                 \/ k = "registered" /\ devices[d].status = "absent"
                 \/ k = "online" /\ devices[d].status # "absent" /\ ~WasOnline(h)
           THEN 1 ELSE 0
<1>1. /\ pc \in [Handlers -> HandlerPCs] /\ calls' = calls /\ frame' = frame
      /\ pc' = [pc EXCEPT ![h] = IF IsNew(h) THEN "new" ELSE "known"]
      /\ pc[h] = "upsert" /\ calls[d][k] \in Nat
  BY DEF TypeOK, UpsertDevice, Counts, Kinds, HandlerKinds
<1>2. IsFiniteSet(Owing(d, k)) /\ Cardinality(Owing(d, k)) \in Nat
  BY OwingFinite
<1>3. Owing(d, k)' =
        IF /\ d = frame[h].device
           /\ \/ k = "heartbeat"
              \/ k = "registered" /\ IsNew(h)
              \/ k = "online" /\ ~IsNew(h) /\ ~WasOnline(h)
        THEN Owing(d, k) \cup {h} ELSE Owing(d, k)
  BY <1>1 DEF Owing, WasOnline, HandlerKinds
<1>4. h \notin Owing(d, k)
  BY <1>1 DEF Owing
<1>5. Cardinality(Owing(d, k) \cup {h}) = Cardinality(Owing(d, k)) + 1
  BY <1>2, <1>4, FS_AddElement
<1> QED
  BY <1>1, <1>2, <1>3, <1>5 DEF Held, IsNew

\* A handler that calls back owes it no more: the sum stays.
LEMMA HeldByTrigger ==
  ASSUME TypeOK, NEW h \in Handlers, TriggerTransition(h) \/ TriggerHeartbeat(h),
         NEW d \in Devices, NEW k \in HandlerKinds
  PROVE  Held(d, k)' = Held(d, k)
<1>1. /\ pc \in [Handlers -> HandlerPCs] /\ frame \in [Handlers -> Frames] /\ calls \in Counts
      /\ frame[h].device \in Devices /\ calls[d][k] \in Nat /\ k \in Kinds
  BY DEF TypeOK, TriggerTransition, TriggerHeartbeat, Counts, Kinds, HandlerKinds
<1>2. IsFiniteSet(Owing(d, k)) /\ Cardinality(Owing(d, k)) \in Nat
  BY OwingFinite
<1>3. h \in Owing(d, k) =>
        Cardinality(Owing(d, k) \ {h}) = Cardinality(Owing(d, k)) - 1
  BY <1>2, FS_RemoveElement
<1>4. \/ Owing(d, k)' = Owing(d, k) /\ calls'[d][k] = calls[d][k]
      \/ /\ h \in Owing(d, k) /\ Owing(d, k)' = Owing(d, k) \ {h}
         /\ calls'[d][k] = calls[d][k] + 1
  <2>1. CASE TriggerHeartbeat(h)
    <3>1. calls'[d][k] = IF d = frame[h].device /\ k = "heartbeat"
                         THEN calls[d][k] + 1 ELSE calls[d][k]
      <4>1. calls' = Count(calls, frame[h].device, "heartbeat") /\ "heartbeat" \in Kinds
        BY <2>1 DEF TriggerHeartbeat, Kinds
      <4> QED
        BY <1>1, <4>1, OneCount
    <3>2. /\ pc[h] = "beat" /\ pc' = [pc EXCEPT ![h] = "idle"]
          /\ \A g \in Handlers : g # h => frame'[g] = frame[g]
      BY <1>1, <2>1 DEF TriggerHeartbeat, Return
    <3>3. Owing(d, k)' = IF d = frame[h].device /\ k = "heartbeat"
                         THEN Owing(d, k) \ {h} ELSE Owing(d, k)
      BY <1>1, <3>2 DEF Owing, WasOnline, HandlerKinds
    <3>4. d = frame[h].device /\ k = "heartbeat" => h \in Owing(d, k)
      BY <3>2 DEF Owing
    <3> QED
      BY <3>1, <3>3, <3>4
  <2>2. CASE TriggerTransition(h)
    <3> DEFINE due == /\ d = frame[h].device
                      /\ \/ k = "registered" /\ pc[h] = "new"
                         \/ k = "online" /\ pc[h] = "known" /\ ~WasOnline(h)
    <3>1. calls'[d][k] = IF due THEN calls[d][k] + 1 ELSE calls[d][k]
      <4>1. /\ \/ pc[h] = "new" /\ calls' = Count(calls, frame[h].device, "registered")
               \/ pc[h] = "known" /\ ~WasOnline(h)
                    /\ calls' = Count(calls, frame[h].device, "online")
               \/ pc[h] = "known" /\ WasOnline(h) /\ calls' = calls
            /\ {"registered", "online"} \subseteq Kinds
        BY <2>2 DEF TriggerTransition, Kinds
      <4> QED
        BY <1>1, <4>1, OneCount
    <3>2. /\ pc[h] \in {"new", "known"} /\ pc' = [pc EXCEPT ![h] = "beat"]
          /\ frame' = frame
      BY <2>2 DEF TriggerTransition
    <3>3. Owing(d, k)' = IF due THEN Owing(d, k) \ {h} ELSE Owing(d, k)
      BY <1>1, <3>2 DEF Owing, WasOnline, HandlerKinds
    <3>4. due => h \in Owing(d, k)
      BY DEF Owing
    <3> QED
      BY <3>1, <3>3, <3>4
  <2> QED
    BY <2>1, <2>2
<1>5. CASE Owing(d, k)' = Owing(d, k) /\ calls'[d][k] = calls[d][k]
  BY <1>5 DEF Held
<1>6. CASE /\ h \in Owing(d, k) /\ Owing(d, k)' = Owing(d, k) \ {h}
           /\ calls'[d][k] = calls[d][k] + 1
  <2>1. Cardinality(Owing(d, k))' = Cardinality(Owing(d, k)) - 1
    BY <1>3, <1>6
  <2> QED
    BY <1>1, <1>2, <1>6, <2>1 DEF Held
<1> QED
  BY <1>4, <1>5, <1>6

\* No other step but a crash changes what has been called or is owed.
LEMMA HeldOtherwise ==
  ASSUME TypeOK, [Next]_vars, ~Crash,
         \A h \in Handlers : ~UpsertDevice(h),
         NEW d \in Devices, NEW k \in HandlerKinds
  PROVE  Held(d, k)' = Held(d, k)
<1>0. /\ pc \in [Handlers -> HandlerPCs] /\ frame \in [Handlers -> Frames] /\ calls \in Counts
      /\ \A h \in Handlers : pc[h] # "idle" <=> frame[h].device \in Devices
      /\ k \in Kinds
  BY DEF TypeOK, Kinds, HandlerKinds
<1>1. ASSUME NEW h \in Handlers, TriggerTransition(h) \/ TriggerHeartbeat(h)
      PROVE  Held(d, k)' = Held(d, k)
  BY <1>1, HeldByTrigger
<1>2. ASSUME NEW h \in Handlers, NEW e \in Devices, Arrive(h, e)
      PROVE  Held(d, k)' = Held(d, k)
  BY <1>0, <1>2 DEF Arrive, Held, Owing, WasOnline
<1>3. ASSUME NEW h \in Handlers, GetDevice(h) \/ ReadClock(h) \/ HandlerStorageFails(h)
      PROVE  Held(d, k)' = Held(d, k)
  <2>1. /\ calls' = calls
        /\ \A g \in Handlers : \/ pc'[g] = pc[g] /\ frame'[g] = frame[g]
                               \/ {pc[g], pc'[g]} \subseteq {"idle", "get", "stamp", "upsert"}
    BY <1>0, <1>3 DEF GetDevice, ReadClock, HandlerStorageFails, Return
  <2>2. Owing(d, k)' = Owing(d, k)
    BY <2>1 DEF Owing, WasOnline
  <2> QED
    BY <2>1, <2>2 DEF Held
<1>4. CASE Checker
  <2>1. UNCHANGED <<pc, frame>> /\ calls'[d][k] = calls[d][k]
    <3>1. ASSUME NEW e \in Devices, TriggerOffline(e)
          PROVE  UNCHANGED <<pc, frame>> /\ calls'[d][k] = calls[d][k]
      <4>1. calls' = Count(calls, e, "offline") /\ "offline" \in Kinds /\ k # "offline"
        BY <3>1 DEF TriggerOffline, Kinds, HandlerKinds
      <4> QED
        BY <1>0, <3>1, <4>1, OneCount DEF TriggerOffline
    <3>2. CASE ReadCutoff \/ MarkOffline \/ EndIteration \/ EndWait
      BY <3>2 DEF ReadCutoff, MarkOffline, EndIteration, EndWait
    <3> QED
      BY <1>4, <3>1, <3>2 DEF Checker
  <2> QED
    BY <2>1 DEF Held, Owing, WasOnline
<1>5. CASE Tick \/ CheckerStorageFails \/ UNCHANGED vars
  BY <1>5 DEF Tick, CheckerStorageFails, vars, Held, Owing, WasOnline
<1> QED
  BY <1>1, <1>2, <1>3, <1>4, <1>5 DEF Next, Handler

\* What an upsert counts as having happened to its device.
LEMMA UpsertMoves ==
  ASSUME TypeOK, NEW h \in Handlers, UpsertDevice(h), NEW d \in Devices, NEW k \in Kinds
  PROVE  moves'[d][k] = moves[d][k] +
           IF /\ d = frame[h].device
              /\ \/ k = "heartbeat"
                 \/ k = "registered" /\ devices[d].status = "absent"
                 \/ k = "online" /\ devices[d].status = "offline"
           THEN 1 ELSE 0
<1>1. /\ moves \in Counts /\ moves[d][k] \in Nat
      /\ devices[d].status \in {"absent", "online", "offline"}
  BY DEF TypeOK, Counts, Row
<1>2. CASE d = frame[h].device
  <2>1. moves'[d] = [j \in Kinds |-> IF j \in MoveOf(devices[d])
                                     THEN moves[d][j] + 1 ELSE moves[d][j]]
    BY <1>1, <1>2 DEF UpsertDevice, Counts
  <2>2. k \in MoveOf(devices[d]) <=> \/ k = "heartbeat"
                                     \/ k = "registered" /\ devices[d].status = "absent"
                                     \/ k = "online" /\ devices[d].status = "offline"
    BY <1>1 DEF MoveOf
  <2> QED
    BY <1>1, <1>2, <2>1, <2>2
<1>3. CASE d # frame[h].device
  <2>1. moves'[d] = moves[d]
    BY <1>1, <1>3 DEF UpsertDevice, Counts
  <2> QED
    BY <1>1, <1>3, <2>1
<1> QED
  BY <1>2, <1>3

\* What mark_offline counts, and that nothing else is counted anywhere.
LEMMA OtherMoves ==
  ASSUME TypeOK, [Next]_vars, \A h \in Handlers : ~UpsertDevice(h),
         NEW d \in Devices, NEW k \in Kinds
  PROVE  moves'[d][k] = moves[d][k] +
           IF MarkOffline /\ k = "offline" /\ d \in transitioned' THEN 1 ELSE 0
<1>1. moves \in Counts /\ moves[d] \in [Kinds -> Nat] /\ moves[d][k] \in Nat
  BY DEF TypeOK, Counts
<1>2. CASE MarkOffline
  <2>1. moves'[d] = IF d \in transitioned' THEN [moves[d] EXCEPT !["offline"] = @ + 1]
                                           ELSE moves[d]
    BY <1>2 DEF MarkOffline
  <2> QED
    BY <1>1, <1>2, <2>1
<1>3. CASE ~MarkOffline
  <2>1. moves' = moves
    BY <1>3, TableStep
  <2> QED
    BY <1>1, <1>3, <2>1
<1> QED
  BY <1>2, <1>3

\* One crash more loses a callback of each handler at most.
LEMMA LossBound ==
  ASSUME NEW c \in Nat, NEW n \in Nat
  PROVE  c * n \in Nat /\ (c + 1) * n = c * n + n
OBVIOUS

\* CallbacksAccounted is inductive, next to HandedOver.
LEMMA AccountedStep ==
  TypeOK /\ HandedOver /\ CallbacksAccounted /\ [Next]_vars => CallbacksAccounted'
<1> SUFFICES ASSUME TypeOK, HandedOver, CallbacksAccounted, [Next]_vars,
                    NEW d \in Devices, NEW k \in {"registered", "heartbeat", "offline"}
             PROVE  (moves[d][k] - calls[d][k] - InFlight(d, k)
                       \in 0..(crashes * Cardinality(Handlers)))'
  BY DEF CallbacksAccounted
<1> DEFINE n == Cardinality(Handlers)
<1>0. /\ n \in Nat /\ n >= 1 /\ crashes \in Nat /\ crashes * n \in Nat
      /\ crashes' \in Nat /\ crashes' * n \in Nat
      /\ crashes' = IF Crash THEN crashes + 1 ELSE crashes
      /\ crashes' * n = crashes * n + IF Crash THEN n ELSE 0
  <2>1. n \in Nat /\ n >= 1 /\ crashes \in Nat
    BY OwingFinite DEF TypeOK
  <2>2. crashes' = IF Crash THEN crashes + 1 ELSE crashes
    BY DEF Next, Handler, Checker, Tick, Arrive, GetDevice, ReadClock, UpsertDevice,
       HandlerStorageFails, TriggerTransition, TriggerHeartbeat, ReadCutoff,
       MarkOffline, CheckerStorageFails, TriggerOffline, EndIteration, EndWait,
       Crash, vars
  <2>3. crashes * n \in Nat /\ (crashes + 1) * n = crashes * n + n
    BY <2>1, LossBound
  <2> HIDE DEF n
  <2>4. CASE Crash
    BY <2>1, <2>2, <2>3, <2>4
  <2>5. CASE ~Crash
    BY <2>1, <2>2, <2>3, <2>5
  <2> QED
    BY <2>4, <2>5
<1> HIDE DEF n
<1>1. /\ moves[d][k] \in Nat /\ calls[d][k] \in Nat
      /\ moves'[d][k] \in Nat /\ calls'[d][k] \in Nat
      /\ moves[d][k] - calls[d][k] - InFlight(d, k) \in 0..(crashes * n)
  BY TypeStep DEF TypeOK, Counts, Kinds, CallbacksAccounted, n
<1>2. CASE k \in {"registered", "heartbeat"}
  <2>1. /\ Cardinality(Owing(d, k)) \in Nat /\ Cardinality(Owing(d, k)) <= n
        /\ Cardinality(Owing(d, k))' \in Nat
        /\ k \in HandlerKinds /\ k \in Kinds /\ k # "offline"
    <3>1. k \in HandlerKinds /\ k \in Kinds /\ k # "offline"
      BY <1>2 DEF HandlerKinds, Kinds
    <3> QED
      BY <3>1, OwingFinite DEF n
  <2>2. /\ InFlight(d, k) = Cardinality(Owing(d, k))
        /\ InFlight(d, k)' = Cardinality(Owing(d, k))'
    BY <1>2 DEF InFlight
  <2>3. Held(d, k) = calls[d][k] + Cardinality(Owing(d, k))
        /\ Held(d, k)' = calls'[d][k] + Cardinality(Owing(d, k))'
    BY DEF Held
  <2>4. CASE Crash
    <3>1. Owing(d, k)' = {} /\ calls' = calls /\ moves' = moves
      BY <2>4 DEF Crash, Owing
    <3>2. Cardinality(Owing(d, k))' = 0
      BY <3>1, FS_EmptySet
    <3> QED
      BY <1>0, <1>1, <2>1, <2>2, <2>4, <3>1, <3>2 DEF n
  <2>5. ASSUME NEW h \in Handlers, UpsertDevice(h)
        PROVE  moves'[d][k] - Held(d, k)' = moves[d][k] - Held(d, k)
    <3>1. moves'[d][k] = moves[d][k] +
            IF /\ d = frame[h].device
               /\ \/ k = "heartbeat"
                  \/ k = "registered" /\ devices[d].status = "absent"
            THEN 1 ELSE 0
      BY <1>2, <2>1, <2>5, UpsertMoves
    <3>2. Held(d, k)' = Held(d, k) +
            IF /\ d = frame[h].device
               /\ \/ k = "heartbeat"
                  \/ k = "registered" /\ devices[d].status = "absent"
            THEN 1 ELSE 0
      BY <1>2, <2>1, <2>5, HeldByUpsert
    <3> QED
      BY <1>1, <2>1, <2>3, <3>1, <3>2
  <2>6. CASE ~Crash /\ \A h \in Handlers : ~UpsertDevice(h)
    <3>1. moves'[d][k] = moves[d][k] /\ Held(d, k)' = Held(d, k)
      BY <1>1, <2>1, <2>6, OtherMoves, HeldOtherwise
    <3> QED
      BY <1>0, <1>1, <2>1, <2>2, <2>3, <2>6, <3>1 DEF n
  <2>7. ASSUME NEW h \in Handlers, UpsertDevice(h) PROVE ~Crash
    BY <2>7 DEF UpsertDevice, Crash, TypeOK, HandlerPCs
  <2> QED
    BY <1>0, <1>1, <2>1, <2>2, <2>3, <2>4, <2>5, <2>6, <2>7 DEF n
<1>3. CASE k = "offline"
  <2>1. /\ InFlight(d, k) = IF d \in transitioned THEN 1 ELSE 0
        /\ InFlight(d, k)' = IF d \in transitioned' THEN 1 ELSE 0
        /\ k \in Kinds
    BY <1>3 DEF InFlight, Kinds
  <2>2. CASE Crash
    <3>1. transitioned' = {} /\ calls' = calls /\ moves' = moves
      BY <2>2 DEF Crash
    <3> QED
      BY <1>0, <1>1, <2>1, <2>2, <3>1 DEF n
  <2>3. CASE MarkOffline
    <3>1. transitioned = {} /\ calls' = calls /\ ~Crash
      BY <2>3 DEF MarkOffline, HandedOver, Crash
    <3>2. \A h \in Handlers : ~UpsertDevice(h)
      BY <2>3 DEF MarkOffline, UpsertDevice, checker
    <3>3. moves'[d][k] = moves[d][k] + IF d \in transitioned' THEN 1 ELSE 0
      BY <1>3, <2>1, <2>3, <3>2, OtherMoves
    <3> QED
      BY <1>0, <1>1, <2>1, <3>1, <3>3 DEF n
  <2>4. ASSUME NEW e \in Devices, TriggerOffline(e)
        PROVE  /\ moves' = moves /\ ~Crash
               /\ calls'[d][k] + InFlight(d, k)' = calls[d][k] + InFlight(d, k)
    <3>1. /\ calls' = Count(calls, e, "offline") /\ calls \in Counts
          /\ e \in transitioned /\ transitioned' = transitioned \ {e}
          /\ moves' = moves /\ cpc = "notify" /\ cpc' = "notify"
      BY <2>4 DEF TriggerOffline, TypeOK
    <3>2. calls'[d][k] = IF e = d THEN calls[d][k] + 1 ELSE calls[d][k]
      BY <1>3, <2>1, <3>1, OneCount
    <3> QED
      BY <1>1, <2>1, <3>1, <3>2 DEF Crash
  <2>5. ASSUME NEW h \in Handlers, UpsertDevice(h)
        PROVE  moves'[d][k] = moves[d][k] /\ calls' = calls /\ transitioned' = transitioned
               /\ ~Crash
    <3>1. moves'[d][k] = moves[d][k]
      BY <1>1, <1>3, <2>1, <2>5, UpsertMoves
    <3> QED
      BY <2>5, <3>1 DEF UpsertDevice, checker, Crash, TypeOK, HandlerPCs
  <2>6. CASE /\ ~Crash /\ ~MarkOffline /\ \A e \in Devices : ~TriggerOffline(e)
             /\ \A h \in Handlers : ~UpsertDevice(h)
    <3>1. moves'[d][k] = moves[d][k]
      BY <1>1, <2>1, <2>6, OtherMoves
    <3>2. transitioned' = transitioned
      BY <2>6 DEF Next, Handler, Checker, Tick, Arrive, GetDevice, ReadClock,
         HandlerStorageFails, TriggerTransition, TriggerHeartbeat, ReadCutoff,
         CheckerStorageFails, EndIteration, EndWait, vars, checker
    <3>3. calls'[d][k] = calls[d][k]
      <4>1. ASSUME NEW h \in Handlers, TriggerTransition(h) \/ TriggerHeartbeat(h)
            PROVE  calls'[d][k] = calls[d][k]
        <5>1. frame[h].device \in Devices /\ calls \in Counts
          BY <4>1 DEF TriggerTransition, TriggerHeartbeat, TypeOK
        <5> QED
          BY <1>3, <4>1, <5>1, OfflineCount DEF TriggerTransition, TriggerHeartbeat, Kinds
      <4>2. CASE \A h \in Handlers : ~TriggerTransition(h) /\ ~TriggerHeartbeat(h)
        BY <2>6, <4>2 DEF Next, Handler, Checker, Tick, Arrive, GetDevice, ReadClock,
           HandlerStorageFails, ReadCutoff, CheckerStorageFails, EndIteration, EndWait, vars
      <4> QED
        BY <4>1, <4>2
    <3> QED
      BY <1>0, <1>1, <2>1, <2>6, <3>1, <3>2, <3>3 DEF n
  <2> QED
    BY <1>0, <1>1, <2>1, <2>2, <2>3, <2>4, <2>5, <2>6 DEF n
<1> QED
  BY <1>2, <1>3

\* Every registration, stored heartbeat and timeout is announced once, held by a
\* running thread, or lost in a crash, which loses at most one of each kind per
\* handler.
THEOREM AllCallbacksAccounted == Spec => []CallbacksAccounted
<1>1. Init => HandedOver /\ AnnouncedOnce
  BY DEF Init, HandedOver, AnnouncedOnce, NoCounts, Kinds
<1>2. Init => CallbacksAccounted
  <2> SUFFICES ASSUME Init, NEW d \in Devices,
                      NEW k \in {"registered", "heartbeat", "offline"}
               PROVE  moves[d][k] - calls[d][k] - InFlight(d, k)
                        \in 0..(crashes * Cardinality(Handlers))
    BY DEF CallbacksAccounted
  <2>1. moves[d][k] = 0 /\ calls[d][k] = 0 /\ crashes = 0
    BY DEF Init, NoCounts, Kinds
  <2>2. Owing(d, k) = {} /\ transitioned = {}
    BY DEF Init, Owing
  <2>3. InFlight(d, k) = 0
    BY <2>2, FS_EmptySet DEF InFlight
  <2>4. 0 * Cardinality(Handlers) = 0
    BY OwingFinite
  <2> QED
    BY <2>1, <2>3, <2>4
<1> QED
  BY <1>1, <1>2, AnnouncedStep, AccountedStep, TypeCorrect, PTL DEF Spec

-----------------------------------------------------------------------------
(* Returns: on_device_online, where it can be relied on. *)

\* The inductive strengthening on an event loop: between get_device and
\* upsert_device of a handler no other handler and no mark_offline writes the row.
LoopInv ==
  OnEventLoop =>
    /\ \A g, h \in Handlers : pc[g] = "upsert" /\ pc[h] = "upsert" => g = h
    /\ \A h \in Handlers : pc[h] # "stamp"
    /\ \A h \in Handlers : pc[h] = "upsert" =>
         /\ cpc # "mark"
         /\ frame[h].existing = devices[frame[h].device].status

\* LoopInv is inductive.
LEMMA LoopStep == TypeOK /\ LoopInv /\ [Next]_vars => LoopInv'
<1> SUFFICES ASSUME TypeOK, LoopInv, [Next]_vars, backend' = "async" PROVE LoopInv'
  BY DEF LoopInv, OnEventLoop
<1>0. /\ pc \in [Handlers -> HandlerPCs] /\ frame \in [Handlers -> Frames]
      /\ devices \in [Devices -> Row]
      /\ \A h \in Handlers : pc[h] # "idle" <=> frame[h].device \in Devices
      /\ backend = "async" /\ OnEventLoop /\ ~ClockBeforeLock
  BY BackendStep DEF TypeOK, OnEventLoop, ClockBeforeLock
<1> USE DEF LoopInv
<1>1. ASSUME NEW h \in Handlers, GetDevice(h) PROVE LoopInv'
  <2>1. /\ cpc' = cpc /\ cpc # "mark" /\ devices' = devices
        /\ \A g \in Handlers : pc[g] # "upsert"
    BY <1>0, <1>1 DEF GetDevice, LoopFree, checker
  <2>2. /\ pc' = [pc EXCEPT ![h] = "upsert"]
        /\ frame' = [frame EXCEPT ![h].existing = devices[frame[h].device].status]
    BY <1>0, <1>1 DEF GetDevice
  <2>3. /\ frame'[h].existing = devices[frame[h].device].status
        /\ frame'[h].device = frame[h].device
    BY <1>0, <2>2 DEF Frames
  <2> QED
    BY <1>0, <2>1, <2>2, <2>3
<1>2. ASSUME NEW h \in Handlers, UpsertDevice(h) PROVE LoopInv'
  <2>1. \A g \in Handlers : pc'[g] # "upsert" /\ pc'[g] # "stamp"
    BY <1>0, <1>2 DEF UpsertDevice
  <2> QED
    BY <2>1
<1>3. ASSUME NEW h \in Handlers, NEW d \in Devices, Arrive(h, d) PROVE LoopInv'
  <2>1. /\ \A g \in Handlers : /\ pc'[g] # "stamp"
                               /\ pc'[g] = "upsert" => pc[g] = "upsert" /\ frame'[g] = frame[g]
        /\ UNCHANGED <<devices, cpc>>
    BY <1>0, <1>3 DEF Arrive, checker
  <2> QED
    BY <1>0, <2>1
<1>4. ASSUME NEW h \in Handlers, TriggerTransition(h) \/ TriggerHeartbeat(h) PROVE LoopInv'
  <2>1. /\ \A g \in Handlers : /\ pc'[g] # "stamp"
                               /\ pc'[g] = "upsert" => pc[g] = "upsert" /\ frame'[g] = frame[g]
        /\ UNCHANGED <<devices, cpc>>
    BY <1>0, <1>4 DEF TriggerTransition, TriggerHeartbeat, Return, checker
  <2> QED
    BY <1>0, <2>1
<1>5. CASE Checker
  <2>1. CASE MarkOffline
    <3>1. \A h \in Handlers : pc'[h] # "upsert" /\ pc'[h] # "stamp"
      BY <1>0, <2>1 DEF MarkOffline
    <3> QED
      BY <3>1
  <2>2. CASE ReadCutoff
    <3>1. \A h \in Handlers : pc'[h] # "upsert" /\ pc'[h] # "stamp"
      BY <1>0, <2>2 DEF ReadCutoff, LoopFree
    <3> QED
      BY <3>1
  <2>3. CASE EndIteration \/ EndWait \/ \E d \in Devices : TriggerOffline(d)
    <3>1. UNCHANGED <<backend, pc, frame, devices>> /\ cpc' # "mark"
      BY <2>3 DEF EndIteration, EndWait, TriggerOffline
    <3> QED
      BY <1>0, <3>1
  <2> QED
    BY <1>5, <2>1, <2>2, <2>3 DEF Checker
<1>6. CASE Tick \/ UNCHANGED vars
  BY <1>0, <1>6 DEF Tick, vars, checker
<1>7. ASSUME NEW h \in Handlers PROVE ~ReadClock(h) /\ ~HandlerStorageFails(h)
  BY <1>0 DEF ReadClock, HandlerStorageFails
<1>8. ~CheckerStorageFails /\ ~Crash
  BY <1>0 DEF CheckerStorageFails, Crash
<1> QED
  BY <1>1, <1>2, <1>3, <1>4, <1>5, <1>6, <1>7, <1>8 DEF Next, Handler

\* Under LoopInv a return of the table and the duty to announce it arise together.
LEMMA ReturnsStep ==
  TypeOK /\ LoopInv /\ ReturnsExactOnLoop /\ [Next]_vars => ReturnsExactOnLoop'
<1> SUFFICES ASSUME TypeOK, LoopInv, ReturnsExactOnLoop, [Next]_vars,
                    backend' = "async", NEW d \in Devices
             PROVE  moves'[d]["online"] = Held(d, "online")'
  BY DEF ReturnsExactOnLoop, InFlight, Held
<1>1. /\ backend = "async" /\ moves[d]["online"] \in Nat
      /\ "online" \in HandlerKinds /\ "online" \in Kinds /\ "online" # "offline"
  BY BackendStep DEF TypeOK, Counts, Kinds, HandlerKinds
<1>2. moves[d]["online"] = Held(d, "online")
  BY <1>1 DEF ReturnsExactOnLoop, InFlight, Held
<1>3. ASSUME NEW h \in Handlers, UpsertDevice(h)
      PROVE  moves'[d]["online"] = Held(d, "online")'
  <2>1. /\ frame[h].existing = devices[frame[h].device].status
        /\ devices[d].status \in {"absent", "online", "offline"}
    BY <1>1, <1>3 DEF LoopInv, OnEventLoop, UpsertDevice, TypeOK, Row
  <2>2. moves'[d]["online"] = moves[d]["online"] +
          IF d = frame[h].device /\ devices[d].status = "offline" THEN 1 ELSE 0
    BY <1>1, <1>3, UpsertMoves
  <2>3. Held(d, "online")' = Held(d, "online") +
          IF d = frame[h].device /\ devices[d].status # "absent" /\ ~WasOnline(h)
          THEN 1 ELSE 0
    BY <1>1, <1>3, HeldByUpsert
  <2> QED
    BY <1>2, <2>1, <2>2, <2>3 DEF WasOnline
<1>4. CASE \A h \in Handlers : ~UpsertDevice(h)
  <2>1. ~Crash
    BY <1>1 DEF Crash
  <2>2. Held(d, "online")' = Held(d, "online")
    BY <1>1, <1>4, <2>1, HeldOtherwise
  <2>3. moves'[d]["online"] = moves[d]["online"]
    BY <1>1, <1>4, OtherMoves
  <2> QED
    BY <1>2, <2>2, <2>3
<1> QED
  BY <1>3, <1>4

\* In the asynchronous server on_device_online is called once per return of an
\* offline device and for nothing else, for any number of tasks.
THEOREM ReturnsExact == Spec => []ReturnsExactOnLoop
<1>1. Init => LoopInv
  BY DEF Init, LoopInv
<1>2. Init => ReturnsExactOnLoop
  <2> SUFFICES ASSUME Init, NEW d \in Devices
               PROVE  moves[d]["online"] = calls[d]["online"] + InFlight(d, "online")
    BY DEF ReturnsExactOnLoop
  <2>1. Owing(d, "online") = {}
    BY DEF Init, Owing
  <2>2. InFlight(d, "online") = 0
    BY <2>1, FS_EmptySet DEF InFlight
  <2> QED
    BY <2>2 DEF Init, NoCounts, Kinds
<1> QED
  BY <1>1, <1>2, LoopStep, ReturnsStep, TypeCorrect, PTL DEF Spec

\* The inductive strengthening where a device has one heartbeat in flight: only
\* its own handler can take a row that was not online out of that status.
AloneInv ==
  OneAtATime =>
    /\ \A g, h \in Handlers :
         pc[g] # "idle" /\ frame[g].device = frame[h].device => g = h
    /\ \A h \in Handlers :
         pc[h] \in {"stamp", "upsert"} /\ frame[h].existing # "online" =>
           devices[frame[h].device].status = frame[h].existing

\* AloneInv is inductive.
LEMMA AloneStep == TypeOK /\ AloneInv /\ [Next]_vars => AloneInv'
<1> SUFFICES ASSUME TypeOK, AloneInv, [Next]_vars, OneAtATime PROVE AloneInv'
  BY DEF AloneInv
<1>0. /\ pc \in [Handlers -> HandlerPCs] /\ frame \in [Handlers -> Frames]
      /\ devices \in [Devices -> Row]
      /\ \A h \in Handlers : pc[h] # "idle" <=> frame[h].device \in Devices
  BY DEF TypeOK
<1> USE DEF AloneInv
<1>1. ASSUME NEW h \in Handlers, NEW d \in Devices, Arrive(h, d) PROVE AloneInv'
  <2>1. /\ pc[h] = "idle" /\ \A g \in Handlers : frame[g].device # d
        /\ pc' = [pc EXCEPT ![h] = "get"] /\ frame'[h].device = d
        /\ \A g \in Handlers : g # h => frame'[g] = frame[g]
        /\ devices' = devices
    BY <1>0, <1>1 DEF Arrive, NoFrame, Frames
  <2> QED
    BY <1>0, <2>1
<1>2. ASSUME NEW h \in Handlers, GetDevice(h) PROVE AloneInv'
  <2>1. /\ pc[h] = "get" /\ devices' = devices
        /\ pc'[h] # "idle" /\ \A g \in Handlers : g # h => pc'[g] = pc[g]
        /\ frame'[h].device = frame[h].device
        /\ frame'[h].existing = devices[frame[h].device].status
        /\ \A g \in Handlers : g # h => frame'[g] = frame[g]
    BY <1>0, <1>2 DEF GetDevice, Frames
  <2> QED
    BY <1>0, <2>1
<1>3. ASSUME NEW h \in Handlers, ReadClock(h) PROVE AloneInv'
  <2>1. /\ pc[h] = "stamp" /\ devices' = devices
        /\ \A g \in Handlers : /\ frame'[g].device = frame[g].device
                               /\ frame'[g].existing = frame[g].existing
                               /\ pc'[g] = IF g = h THEN "upsert" ELSE pc[g]
    BY <1>0, <1>3 DEF ReadClock, Frames
  <2> QED
    BY <1>0, <2>1
<1>4. ASSUME NEW h \in Handlers, UpsertDevice(h) PROVE AloneInv'
  <2>1. /\ pc[h] = "upsert" /\ frame' = frame
        /\ pc'[h] \in {"new", "known"} /\ \A g \in Handlers : g # h => pc'[g] = pc[g]
    BY <1>0, <1>4 DEF UpsertDevice
  <2>2. \A e \in Devices : e # frame[h].device => devices'[e] = devices[e]
    BY <1>4, UpsertRows
  <2> QED
    BY <1>0, <2>1, <2>2
<1>5. ASSUME NEW h \in Handlers,
             TriggerTransition(h) \/ TriggerHeartbeat(h) \/ HandlerStorageFails(h)
      PROVE  AloneInv'
  <2>1. /\ pc[h] # "idle" /\ devices' = devices
        /\ \/ pc'[h] = "idle" /\ frame'[h] = NoFrame
           \/ pc'[h] = "beat" /\ frame'[h] = frame[h]
        /\ \A g \in Handlers : g # h => pc'[g] = pc[g] /\ frame'[g] = frame[g]
    BY <1>0, <1>5 DEF TriggerTransition, TriggerHeartbeat, HandlerStorageFails, Return
  <2>2. NoFrame.device \notin Devices
    BY DEF NoFrame
  <2> QED
    BY <1>0, <2>1, <2>2
<1>6. CASE MarkOffline
  <2>1. \A d \in Devices : devices[d].status # "online" => devices'[d].status = devices[d].status
    BY <1>6, MarkedRows
  <2>2. UNCHANGED <<pc, frame>>
    BY <1>6 DEF MarkOffline
  <2>3. \A h \in Handlers : frame[h].existing \in {"absent", "online", "offline"}
    BY <1>0 DEF Frames
  <2> QED
    BY <1>0, <2>1, <2>2, <2>3
<1>7. CASE UNCHANGED <<pc, frame, devices>>
  BY <1>7
<1>8. CASE Crash
  <2>1. \A h \in Handlers : pc'[h] = "idle"
    BY <1>8 DEF Crash
  <2> QED
    BY <2>1
<1> QED
  BY <1>1, <1>2, <1>3, <1>4, <1>5, <1>6, <1>7, <1>8
     DEF Next, Handler, Checker, Tick, ReadCutoff, TriggerOffline, EndIteration, EndWait,
         CheckerStorageFails, vars

\* Under AloneInv no duty to call on_device_online arises without a return.
LEMMA OnlineStep ==
  TypeOK /\ AloneInv /\ [Next]_vars
    /\ (OneAtATime => \A d \in Devices : Held(d, "online") <= moves[d]["online"])
    => (OneAtATime => \A d \in Devices : Held(d, "online") <= moves[d]["online"])'
<1> SUFFICES ASSUME TypeOK, AloneInv, [Next]_vars, OneAtATime, NEW d \in Devices,
                    Held(d, "online") <= moves[d]["online"]
             PROVE  Held(d, "online")' <= moves'[d]["online"]
  OBVIOUS
<1>1. /\ moves[d]["online"] \in Nat /\ calls[d]["online"] \in Nat
      /\ "online" \in HandlerKinds /\ "online" \in Kinds /\ "online" # "offline"
  BY DEF TypeOK, Counts, Kinds, HandlerKinds
<1>2. Held(d, "online") \in Nat
  <2>1. Cardinality(Owing(d, "online")) \in Nat
    BY OwingFinite
  <2> QED
    BY <1>1, <2>1 DEF Held
<1>3. ASSUME NEW h \in Handlers, UpsertDevice(h)
      PROVE  Held(d, "online")' <= moves'[d]["online"]
  <2>1. /\ ~WasOnline(h) => devices[frame[h].device].status = frame[h].existing
        /\ devices[d].status \in {"absent", "online", "offline"}
    BY <1>3 DEF AloneInv, UpsertDevice, WasOnline, TypeOK, Row
  <2>2. moves'[d]["online"] = moves[d]["online"] +
          IF d = frame[h].device /\ devices[d].status = "offline" THEN 1 ELSE 0
    BY <1>1, <1>3, UpsertMoves
  <2>3. Held(d, "online")' = Held(d, "online") +
          IF d = frame[h].device /\ devices[d].status # "absent" /\ ~WasOnline(h)
          THEN 1 ELSE 0
    BY <1>1, <1>3, HeldByUpsert
  <2> QED
    BY <1>1, <1>2, <2>1, <2>2, <2>3 DEF WasOnline
<1>4. CASE Crash
  <2>1. Owing(d, "online")' = {} /\ calls' = calls /\ moves' = moves
    BY <1>4 DEF Crash, Owing
  <2>2. Held(d, "online")' = calls[d]["online"]
    <3>1. Cardinality(Owing(d, "online"))' = 0
      BY <2>1, FS_EmptySet
    <3> QED
      BY <1>1, <2>1, <3>1 DEF Held
  <2>3. calls[d]["online"] <= Held(d, "online")
    BY <1>1, OwingFinite DEF Held
  <2> QED
    BY <1>1, <1>2, <2>1, <2>2, <2>3
<1>5. CASE ~Crash /\ \A h \in Handlers : ~UpsertDevice(h)
  <2>1. Held(d, "online")' = Held(d, "online")
    BY <1>1, <1>5, HeldOtherwise
  <2>2. moves'[d]["online"] = moves[d]["online"]
    BY <1>1, <1>5, OtherMoves
  <2> QED
    BY <2>1, <2>2
<1> QED
  BY <1>3, <1>4, <1>5

\* If a device never has two heartbeats in flight, on_device_online is called no
\* more often than it returned, with any backend and any crashes.
THEOREM OnlineForReturns == Spec => [](OneAtATime => OnlineOnlyAfterOffline)
<1> DEFINE HeldReturns ==
      OneAtATime => \A d \in Devices : Held(d, "online") <= moves[d]["online"]
<1>1. Init => AloneInv /\ HeldReturns
  <2> SUFFICES ASSUME Init, NEW d \in Devices
               PROVE  AloneInv /\ Held(d, "online") <= moves[d]["online"]
    BY DEF Init, AloneInv
  <2>1. Owing(d, "online") = {}
    BY DEF Init, Owing
  <2>2. Held(d, "online") = 0
    <3>1. Cardinality(Owing(d, "online")) = 0
      BY <2>1, FS_EmptySet
    <3> QED
      BY <3>1 DEF Init, Held, NoCounts, Kinds
  <2>3. AloneInv
    BY DEF Init, AloneInv, NoFrame
  <2> QED
    BY <2>2, <2>3 DEF Init, NoCounts, Kinds
<1>2. TypeOK /\ HeldReturns => (OneAtATime => OnlineOnlyAfterOffline)
  <2> SUFFICES ASSUME TypeOK, NEW d \in Devices, Held(d, "online") <= moves[d]["online"]
               PROVE  calls[d]["online"] <= moves[d]["online"]
    BY DEF OnlineOnlyAfterOffline
  <2>1. /\ calls[d]["online"] \in Nat /\ moves[d]["online"] \in Nat
    BY DEF TypeOK, Counts, Kinds
  <2>2. Cardinality(Owing(d, "online")) \in Nat
    BY OwingFinite
  <2> QED
    BY <2>1, <2>2 DEF Held
<1>3. TypeOK /\ AloneInv /\ HeldReturns /\ [Next]_vars => HeldReturns'
  BY OnlineStep
<1> QED
  BY <1>1, <1>2, <1>3, AloneStep, TypeCorrect, PTL DEF Spec
=============================================================================
