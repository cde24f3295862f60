------------------------- MODULE AsyncDevice_proofs -------------------------
(***************************************************************************)
(* Proofs about AsyncDevice for any application tasks, retry budget and    *)
(* number of starts, heartbeats, reports and cancellations.                *)
(***************************************************************************)
EXTENDS AsyncDevice, FiniteSetTheorems, TLAPS

-----------------------------------------------------------------------------
(* Type correctness. *)

MainPlaces == {"idle", "first", "started", "ready", "report", "join", "close", "wait"}
BeatPlaces == {"none", "new", "sleep", "beat", "hook", "join", "close", "done"}
Notes == {"raced", "selfstopped", "late", "half", "cut", "replaced", "left_heartbeat",
          "left_report"}

\* TypeOK, in the groups that the actions change.
DeviceOK == running \in BOOLEAN /\ closed \in BOOLEAN /\ task \in 0..MaxStarts
SendsOK ==
  /\ session \in {"none", "open", "closed"} /\ orphaned \in BOOLEAN /\ detached \subseteq Tasks
  /\ attempts \in [Endpoints -> 0..MaxRetries] /\ tries \in [Tasks -> 0..(MaxRetries + 2)]
StopsOK == awaited \in [Tasks -> 0..MaxStarts] /\ cancelled \subseteq Runs
CountersOK ==
  /\ starts \in 0..MaxStarts /\ beats \in [Runs -> 0..MaxBeats]
  /\ reports \in 0..MaxReports /\ cancels \in 0..MaxCancels
PlacesOK ==
  /\ pc \in [Tasks -> MainPlaces \cup BeatPlaces]
  /\ \A m \in Mains : pc[m] \in MainPlaces
  /\ \A b \in Beats : pc[b] \in BeatPlaces
NotesOK == noted \subseteq Notes

\* Whoever is in start() has a run left to make.
Starters == {c \in Mains : pc[c] \in Starting}
Room == IsFiniteSet(Starters) /\ starts + Cardinality(Starters) <= MaxStarts

TypeInv == DeviceOK /\ SendsOK /\ StopsOK /\ CountersOK /\ PlacesOK /\ NotesOK /\ Room

LEMMA Bounds ==
  /\ MaxRetries \in Nat /\ MaxStarts \in Nat /\ MaxBeats \in Nat /\ MaxReports \in Nat
  /\ MaxCancels \in Nat
  /\ Runs \subseteq 1..MaxStarts /\ 0 \notin Runs
  /\ \A k \in 0..MaxStarts : k # 0 => k \in Runs
  /\ Mains \subseteq Tasks /\ Beats \subseteq Tasks /\ \A i \in Runs : Beat(i) \in Beats
  /\ \A m \in Mains : m \notin Beats
BY AsyncDeviceAssumption, TasksAssumption DEF Runs, Tasks, Beats

LEMMA TypeGroups == TypeInv => TypeOK
BY DEF TypeInv, TypeOK, DeviceOK, SendsOK, StopsOK, CountersOK, PlacesOK, NotesOK, MainPlaces,
   BeatPlaces, Notes

LEMMA TypeInit == Init => TypeInv
<1> SUFFICES ASSUME Init PROVE TypeInv
  OBVIOUS
<1>1. 0 \in 0..MaxStarts /\ 0 \in 0..MaxRetries /\ 0 \in 0..(MaxRetries + 2) /\ 0 \in 0..MaxBeats
      /\ 0 \in 0..MaxReports /\ 0 \in 0..MaxCancels
  BY Bounds
<1>2. DeviceOK /\ StopsOK /\ NotesOK
  BY <1>1 DEF Init, DeviceOK, StopsOK, NotesOK
<1>3. SendsOK /\ CountersOK
  BY <1>1 DEF Init, SendsOK, CountersOK
<1>4. PlacesOK
  BY Bounds DEF Init, PlacesOK, MainPlaces, BeatPlaces
<1>5. Room
  <2>1. Starters = {}
    BY Bounds DEF Init, Starters, Starting
  <2> QED
    BY <2>1, FS_EmptySet, Bounds DEF Init, Room
<1> QED
  BY <1>2, <1>3, <1>4, <1>5 DEF TypeInv

\* One task moves.
LEMMA PlaceKeeps ==
  ASSUME PlacesOK, NEW t \in Tasks, NEW l, pc' = [pc EXCEPT ![t] = l],
         t \in Mains => l \in MainPlaces, t \in Beats => l \in BeatPlaces
  PROVE  PlacesOK'
BY Bounds DEF PlacesOK, Tasks

\* Nobody enters start().
LEMMA RoomKeeps ==
  ASSUME Room, starts' = starts, \A m \in Mains : pc'[m] \in Starting => pc[m] \in Starting,
         starts \in Nat
  PROVE  Room'
<1>1. Starters' \subseteq Starters
  BY DEF Starters
<1>2. IsFiniteSet(Starters') /\ Cardinality(Starters') <= Cardinality(Starters)
  BY <1>1, FS_Subset DEF Room
<1>3. Cardinality(Starters) \in Nat /\ Cardinality(Starters') \in Nat
  BY <1>2, FS_CardinalityType DEF Room
<1> QED
  BY <1>2, <1>3, Bounds DEF Room

\* The message a task is sending has its endpoint, by where the task is.
LEMMA EndpointIs ==
  ASSUME NEW t \in Tasks
  PROVE  /\ EndpointOf(t) \in Endpoints
         /\ pc[t] = "report" => EndpointOf(t) = "report"
         /\ pc[t] # "report" => EndpointOf(t) = "heartbeat"
BY DEF EndpointOf, Endpoints

\* Where the sends go on, and what a note adds.
LEMMA SendPlaces ==
  ASSUME PlacesOK, NEW t \in Tasks, pc[t] \in Sending
  PROVE  /\ t \in Mains => Answered[pc[t]] \in {"started", "idle"} /\ GivenUp[pc[t]] = "idle"
         /\ t \in Beats => Answered[pc[t]] = "hook" /\ GivenUp[pc[t]] = "hook"
         /\ Answered[pc[t]] \in Starting => pc[t] \in Starting
         /\ GivenUp[pc[t]] \notin Starting
         /\ t \in Mains => pc[t] \in {"first", "report"}
         /\ t \in Beats => pc[t] = "beat"
BY DEF PlacesOK, MainPlaces, BeatPlaces, Answered, GivenUp, Sending, Starting

LEMMA NotesAdded ==
  ASSUME NotesOK
  PROVE  /\ \A e \in Notes : \A b \in BOOLEAN : Note(e, b) => NotesOK'
         /\ \A t \in Tasks : Abandon(t) => NotesOK'
<1>1. ASSUME NEW e \in Notes, NEW b \in BOOLEAN, Note(e, b) PROVE NotesOK'
  BY <1>1 DEF NotesOK, Note
<1>2. ASSUME NEW t \in Tasks, Abandon(t) PROVE NotesOK'
  <2>1. Left[EndpointOf(t)] \in Notes
    <3>1. EndpointOf(t) = "heartbeat" \/ EndpointOf(t) = "report"
      BY DEF EndpointOf
    <3>2. Left["heartbeat"] = "left_heartbeat" /\ Left["report"] = "left_report"
      BY DEF Left
    <3> QED
      BY <3>1, <3>2 DEF Notes
  <2>2. noted' = noted \/ noted' = noted \cup {Left[EndpointOf(t)]}
    BY <1>2 DEF Abandon, Note
  <2> QED
    BY <2>1, <2>2 DEF NotesOK
<1> QED
  BY <1>1, <1>2

LEMMA CountReset ==
  ASSUME attempts \in [Endpoints -> 0..MaxRetries], NotesOK, NEW e \in Endpoints, ResetAttempts(e)
  PROVE  attempts' \in [Endpoints -> 0..MaxRetries] /\ NotesOK'
BY Bounds DEF ResetAttempts, NotesOK

LEMMA SendTypes ==
  ASSUME TypeInv, NEW t \in Tasks, SendStep(t)
  PROVE  TypeInv'
<1>0. /\ DeviceOK /\ SendsOK /\ StopsOK /\ CountersOK /\ PlacesOK /\ NotesOK /\ Room
      /\ pc[t] \in Sending
  BY DEF TypeInv, SendStep, Answer, Retry, GiveUp, SendRaises, InSend
<1>1. DeviceOK' /\ StopsOK' /\ CountersOK'
  BY <1>0 DEF DeviceOK, StopsOK, CountersOK, SendStep, Answer, Retry, GiveUp, SendRaises, device,
     counters
<1>2. \E l : /\ pc' = [pc EXCEPT ![t] = l]
             /\ t \in Mains => l \in MainPlaces
             /\ t \in Beats => l \in BeatPlaces
             /\ l \in Starting => pc[t] \in Starting
  <2>1. CASE Answer(t)
    <3>1. pc' = [pc EXCEPT ![t] = Answered[pc[t]]]
      BY <2>1 DEF Answer, EndSend, Goto
    <3> QED
      BY <1>0, <3>1, SendPlaces DEF MainPlaces, BeatPlaces
  <2>2. CASE Retry(t)
    <3>1. pc' = [pc EXCEPT ![t] = pc[t]]
      BY <1>0, <2>2 DEF Retry, PlacesOK
    <3> QED
      BY <1>0, <3>1 DEF PlacesOK
  <2>3. CASE GiveUp(t)
    <3>1. pc' = [pc EXCEPT ![t] = GivenUp[pc[t]]]
      BY <2>3 DEF GiveUp, EndSend, Goto
    <3>2. /\ t \in Mains => GivenUp[pc[t]] \in MainPlaces
          /\ t \in Beats => GivenUp[pc[t]] \in BeatPlaces
          /\ GivenUp[pc[t]] \in Starting => pc[t] \in Starting
      BY <1>0, SendPlaces DEF MainPlaces, BeatPlaces
    <3> QED
      BY <3>1, <3>2
  <2>4. CASE SendRaises(t)
    <3> DEFINE l == IF pc[t] = "beat" THEN LoopTest ELSE "idle"
    <3>1. pc' = [pc EXCEPT ![t] = l]
      BY <2>4 DEF SendRaises, EndSend, Goto
    <3>2. l \in {"sleep", "done", "idle"} /\ (t \in Beats => l # "idle") /\ (t \in Mains => l = "idle")
      BY <1>0, SendPlaces DEF LoopTest
    <3> QED
      BY <3>1, <3>2 DEF MainPlaces, BeatPlaces, Starting
  <2> QED
    BY <2>1, <2>2, <2>3, <2>4 DEF SendStep
<1>3. PlacesOK'
  BY <1>0, <1>2, PlaceKeeps
<1>4. Room'
  <2>1. \A m \in Mains : pc'[m] \in Starting => pc[m] \in Starting
    BY <1>0, <1>2, Bounds DEF PlacesOK
  <2>2. starts' = starts /\ starts \in Nat
    BY <1>0, Bounds DEF SendStep, Answer, Retry, GiveUp, SendRaises, counters, CountersOK
  <2> QED
    BY <1>0, <2>1, <2>2, RoomKeeps
<1>5. SendsOK' /\ NotesOK'
  <2>0. 0 \in 0..(MaxRetries + 2) /\ EndpointOf(t) \in Endpoints
    BY Bounds, EndpointIs
  <2>1. CASE Retry(t)
    <3>1. attempts[EndpointOf(t)] \in 0..MaxRetries /\ tries[t] \in 0..(MaxRetries + 2)
      BY <1>0, <2>0 DEF SendsOK
    <3>2. attempts[EndpointOf(t)] + 1 \in 0..MaxRetries
      BY <2>1, <3>1, Bounds DEF Retry
    <3>3. (IF tries[t] > MaxRetries + 1 THEN tries[t] ELSE tries[t] + 1) \in 0..(MaxRetries + 2)
      BY <3>1, Bounds
    <3>4. attempts' \in [Endpoints -> 0..MaxRetries] /\ tries' \in [Tasks -> 0..(MaxRetries + 2)]
      BY <1>0, <2>1, <3>2, <3>3 DEF Retry, Attempt, SendsOK
    <3>5. session' = "open" /\ orphaned' = orphaned /\ detached' = detached
      BY <2>1 DEF Retry, Attempt, OpenSession
    <3>6. NotesOK'
      BY <1>0, <2>1, NotesAdded DEF Retry, Attempt, Notes, SendsOK, DeviceOK, Note, NotesOK
    <3> QED
      BY <1>0, <3>4, <3>5, <3>6 DEF SendsOK
  <2>2. CASE Answer(t) \/ GiveUp(t) \/ SendRaises(t)
    <3>1. UNCHANGED transport /\ tries' = [tries EXCEPT ![t] = 0]
      BY <2>2 DEF Answer, GiveUp, SendRaises, EndSend
    <3>2. attempts' \in [Endpoints -> 0..MaxRetries] /\ NotesOK'
      BY <1>0, <2>0, <2>2, CountReset, NotesAdded DEF Answer, GiveUp, SendRaises, SendsOK
    <3> QED
      BY <1>0, <2>0, <3>1, <3>2 DEF SendsOK, transport
  <2> QED
    BY <2>1, <2>2 DEF SendStep
<1> QED
  BY <1>1, <1>3, <1>4, <1>5 DEF TypeInv

LEMMA StartTypes ==
  ASSUME TypeInv, NEW m \in Mains,
         Start(m) \/ Report(m) \/ WaitClosed(m) \/ Cancel(m) \/ MainStep(m)
  PROVE  TypeInv'
<1>0. /\ DeviceOK /\ SendsOK /\ StopsOK /\ CountersOK /\ PlacesOK /\ NotesOK /\ Room
      /\ m \in Tasks /\ m \notin Beats /\ starts \in Nat
      /\ 0 \in 0..(MaxRetries + 2) /\ 1 \in 0..(MaxRetries + 2)
  BY Bounds DEF TypeInv, CountersOK
<1>1. CASE Start(m)
  <2>1. DeviceOK' /\ StopsOK' /\ CountersOK'
    BY <1>0, <1>1 DEF Start, DeviceOK, StopsOK, CountersOK, device, counters
  <2>2. SendsOK' /\ NotesOK'
    BY <1>0, <1>1 DEF Start, OpenSession, SendsOK, NotesOK, Notes
  <2>3. PlacesOK'
    BY <1>0, <1>1, PlaceKeeps DEF Start, Goto, MainPlaces
  <2>4. Starters' = Starters \cup {m} /\ m \notin Starters
    BY <1>0, <1>1 DEF Start, Goto, Starters, Starting, PlacesOK
  <2>5. starts + Cardinality(Starters) < MaxStarts /\ starts' = starts
    BY <1>1 DEF Start, Starters, counters
  <2>6. IsFiniteSet(Starters') /\ Cardinality(Starters') = Cardinality(Starters) + 1
    BY <1>0, <2>4, FS_AddElement DEF Room
  <2>7. Cardinality(Starters) \in Nat
    BY <1>0, FS_CardinalityType DEF Room
  <2>8. Room'
    BY <1>0, <2>5, <2>6, <2>7, Bounds DEF Room
  <2> QED
    BY <2>1, <2>2, <2>3, <2>8 DEF TypeInv
<1>2. CASE Started(m)
  <2>1. m \in Starters
    BY <1>2 DEF Started, Starters, Starting
  <2>2. /\ IsFiniteSet(Starters \ {m}) /\ Cardinality(Starters \ {m}) = Cardinality(Starters) - 1
    BY <1>0, <2>1, FS_RemoveElement DEF Room
  <2>3. Cardinality(Starters) \in Nat /\ Cardinality(Starters \ {m}) \in Nat
    BY <1>0, <2>2, FS_CardinalityType DEF Room
  <2>4. starts' = starts + 1 /\ starts' \in Runs /\ starts' \in 0..MaxStarts
    BY <1>0, <1>2, <2>2, <2>3, Bounds DEF Started, Room, Runs
  <2>5. Beat(starts') \in Beats /\ Beat(starts') \notin Mains /\ Beat(starts') \in Tasks
    BY <2>4, Bounds
  <2>6. pc' = [pc EXCEPT ![m] = "ready", ![Beat(starts')] = "new"]
    BY <1>2 DEF Started
  <2>7. PlacesOK'
    BY <1>0, <2>5, <2>6, Bounds DEF PlacesOK, MainPlaces, BeatPlaces
  <2>8. Starters' = Starters \ {m}
    BY <1>0, <2>5, <2>6, Bounds DEF Starters, Starting, PlacesOK
  <2>9. Room'
    BY <1>0, <2>2, <2>3, <2>4, <2>8, Bounds DEF Room
  <2>10. DeviceOK' /\ StopsOK' /\ SendsOK' /\ NotesOK'
    BY <1>0, <1>2, <2>4 DEF Started, DeviceOK, StopsOK, SendsOK, NotesOK, transport
  <2>11. CountersOK'
    BY <1>0, <1>2, <2>4 DEF Started, CountersOK
  <2> QED
    BY <2>7, <2>9, <2>10, <2>11 DEF TypeInv
<1>3. CASE Report(m) \/ WaitClosed(m) \/ Cancel(m) \/ Ready(m)
  <2>1. \E l \in {"idle", "report", "wait"} : pc' = [pc EXCEPT ![m] = l]
    BY <1>3 DEF Report, WaitClosed, Cancel, Ready, EndSend, Goto
  <2>2. starts' = starts /\ DeviceOK' /\ StopsOK'
    BY <1>0, <1>3 DEF Report, WaitClosed, Cancel, Ready, device, counters, DeviceOK, StopsOK
  <2>3. PlacesOK'
    BY <1>0, <2>1, PlaceKeeps DEF MainPlaces
  <2>4. Room'
    <3>1. \A n \in Mains : pc'[n] \in Starting => pc[n] \in Starting
      BY <1>0, <2>1, Bounds DEF PlacesOK, Starting
    <3> QED
      BY <1>0, <2>2, <3>1, RoomKeeps
  <2>5. CountersOK'
    <3>1. reports' \in 0..MaxReports /\ cancels' \in 0..MaxCancels
      <4>1. reports' = reports \/ (reports < MaxReports /\ reports' = reports + 1)
        BY <1>3 DEF Report, WaitClosed, Cancel, Ready, counters
      <4>2. cancels' = cancels \/ (cancels < MaxCancels /\ cancels' = cancels + 1)
        BY <1>3 DEF Report, WaitClosed, Cancel, Ready, counters
      <4> QED
        BY <1>0, <4>1, <4>2, Bounds DEF CountersOK
    <3>2. beats' = beats
      BY <1>3 DEF Report, WaitClosed, Cancel, Ready, counters
    <3> QED
      BY <1>0, <2>2, <3>1, <3>2 DEF CountersOK
  <2>6. SendsOK'
    BY <1>0, <1>3 DEF Report, WaitClosed, Cancel, Ready, EndSend, Attempt, OpenSession, transport, SendsOK
  <2>7. NotesOK'
    <3>1. CASE Report(m)
      BY <1>0, <3>1 DEF Report, Attempt, Note, NotesOK, Notes
    <3>2. CASE Cancel(m)
      BY <1>0, <3>2, NotesAdded DEF Cancel, Notes
    <3>3. CASE WaitClosed(m) \/ Ready(m)
      BY <1>0, <3>3 DEF WaitClosed, Ready, NotesOK
    <3> QED
      BY <1>3, <3>1, <3>2, <3>3
  <2> QED
    BY <2>2, <2>3, <2>4, <2>5, <2>6, <2>7 DEF TypeInv
<1> QED
  BY <1>1, <1>2, <1>3 DEF MainStep

\* transport() moves no task.
LEMMA ReplaceTypes ==
  ASSUME TypeInv, NEW m \in Mains, ReplaceTransport(m)
  PROVE  TypeInv'
<1>0. /\ DeviceOK /\ SendsOK /\ StopsOK /\ CountersOK /\ PlacesOK /\ NotesOK /\ Room
      /\ starts \in Nat
  BY Bounds DEF TypeInv, CountersOK
<1>1. DeviceOK' /\ StopsOK' /\ PlacesOK' /\ starts' = starts
  BY <1>0 DEF ReplaceTransport, device, DeviceOK, StopsOK, PlacesOK
<1>2. SendsOK'
  BY <1>0 DEF ReplaceTransport, SendsOK
<1>3. CountersOK'
  <2>1. reports' \in 0..MaxReports
    BY <1>0, Bounds DEF ReplaceTransport, CountersOK
  <2> QED
    BY <1>0, <2>1 DEF ReplaceTransport, CountersOK
<1>4. NotesOK'
  BY <1>0, NotesAdded DEF ReplaceTransport, SendsOK, Notes
<1>5. Room'
  BY <1>0, <1>1, RoomKeeps DEF ReplaceTransport
<1> QED
  BY <1>1, <1>2, <1>3, <1>4, <1>5 DEF TypeInv

LEMMA StopTypes ==
  ASSUME TypeInv, NEW t \in Tasks, Stop(t) \/ StopStep(t)
  PROVE  TypeInv'
<1>0. /\ DeviceOK /\ SendsOK /\ StopsOK /\ CountersOK /\ PlacesOK /\ NotesOK /\ Room
      /\ starts \in Nat /\ 0 \in 0..MaxStarts
  BY Bounds DEF TypeInv, CountersOK
<1>1. CountersOK' /\ starts' = starts
  BY <1>0 DEF Stop, StopStep, Join, Closed, counters, CountersOK
<1>2. DeviceOK' /\ SendsOK'
  BY <1>0 DEF Stop, StopStep, Join, Closed, SessionClosed, transport, DeviceOK, SendsOK
<1>3. StopsOK'
  <2>1. task # 0 => task \in Runs
    BY <1>0, Bounds DEF DeviceOK
  <2>2. cancelled' \subseteq Runs
    BY <1>0, <2>1 DEF Stop, StopStep, Join, Closed, StopsOK
  <2>3. awaited' \in [Tasks -> 0..MaxStarts]
    BY <1>0 DEF Stop, StopStep, Join, Closed, StopsOK, DeviceOK
  <2> QED
    BY <2>2, <2>3 DEF StopsOK
<1>4. NotesOK'
  BY <1>0 DEF Stop, StopStep, Join, Closed, NotesOK, Notes
<1>5. PlacesOK' /\ \A m \in Mains : pc'[m] \in Starting => pc[m] \in Starting
  <2>1. CASE Closed(t)
    BY <1>0, <2>1, Bounds DEF Closed, PlacesOK, MainPlaces, BeatPlaces, Starting
  <2>2. CASE Stop(t) \/ Join(t)
    <3>1. \E l \in {"join", "close"} : pc' = [pc EXCEPT ![t] = l]
      BY <2>2 DEF Stop, Join, Goto
    <3>2. PlacesOK'
      BY <1>0, <3>1, PlaceKeeps DEF MainPlaces, BeatPlaces
    <3> QED
      BY <1>0, <3>1, <3>2 DEF PlacesOK, Starting
  <2> QED
    BY <2>1, <2>2 DEF StopStep
<1> QED
  BY <1>0, <1>1, <1>2, <1>3, <1>4, <1>5, RoomKeeps DEF TypeInv

LEMMA BeatTypes ==
  ASSUME TypeInv, NEW i \in Runs, BeatStep(i)
  PROVE  TypeInv'
<1>0. /\ DeviceOK /\ SendsOK /\ StopsOK /\ CountersOK /\ PlacesOK /\ NotesOK /\ Room
      /\ Beat(i) \in Tasks /\ Beat(i) \in Beats /\ Beat(i) \notin Mains /\ starts \in Nat
      /\ 0 \in 0..(MaxRetries + 2) /\ 1 \in 0..(MaxRetries + 2)
  BY Bounds DEF TypeInv, CountersOK
<1>1. DeviceOK' /\ StopsOK' /\ starts' = starts
  BY <1>0 DEF BeatStep, Again, SendBeat, BeatCancelled, device, counters, DeviceOK, StopsOK
<1>2. SendsOK'
  BY <1>0 DEF BeatStep, Again, SendBeat, BeatCancelled, EndSend, Attempt, OpenSession, transport, SendsOK
<1>3. \E l \in {"sleep", "done", "beat"} : pc' = [pc EXCEPT ![Beat(i)] = l]
  BY DEF BeatStep, Again, SendBeat, BeatCancelled, EndSend, Goto, LoopTest
<1>4. PlacesOK'
  BY <1>0, <1>3, PlaceKeeps DEF BeatPlaces
<1>5. Room'
  <2>1. \A m \in Mains : pc'[m] = pc[m]
    BY <1>0, <1>3, Bounds DEF PlacesOK
  <2> QED
    BY <1>0, <1>1, <2>1, RoomKeeps
<1>6. NotesOK'
  <2>1. CASE SendBeat(i)
    BY <1>0, <2>1 DEF SendBeat, Attempt, Note, NotesOK, Notes
  <2>2. CASE BeatCancelled(i)
    BY <1>0, <2>2, NotesAdded DEF BeatCancelled
  <2>3. CASE Again(i)
    BY <1>0, <2>3 DEF Again, NotesOK
  <2> QED
    BY <2>1, <2>2, <2>3 DEF BeatStep
<1>7. CountersOK'
  <2>1. CASE SendBeat(i)
    <3>1. beats[i] + 1 \in 0..MaxBeats
      BY <1>0, <2>1, Bounds DEF SendBeat, CountersOK
    <3> QED
      BY <1>0, <2>1, <3>1 DEF SendBeat, CountersOK
  <2>2. CASE Again(i) \/ BeatCancelled(i)
    BY <1>0, <2>2 DEF Again, BeatCancelled, counters, CountersOK
  <2> QED
    BY <2>1, <2>2 DEF BeatStep
<1> QED
  BY <1>1, <1>2, <1>4, <1>5, <1>6, <1>7 DEF TypeInv

LEMMA TypeStep == TypeInv /\ [Next]_vars => TypeInv'
<1> SUFFICES ASSUME TypeInv, [Next]_vars PROVE TypeInv'
  OBVIOUS
<1>1. CASE Next
  BY <1>1, StartTypes, ReplaceTypes, StopTypes, SendTypes, BeatTypes DEF Next
<1>2. CASE UNCHANGED vars
  BY <1>2 DEF vars, device, transport, counters, TypeInv, DeviceOK, SendsOK, StopsOK, CountersOK,
     PlacesOK, NotesOK, Room, Starters
<1> QED
  BY <1>1, <1>2

\* The types hold in every state; the runs a start() may still make are counted before it makes them.
THEOREM TypeCorrect == Spec => []TypeOK
BY TypeInit, TypeStep, TypeGroups, PTL DEF Spec

-----------------------------------------------------------------------------
(* One call of start() or stop() at a time. *)

AtMostOne(S) == \A x, y \in S : x = y

\* At most one task is within start() or stop(), unless two ever were.
OneActive == "raced" \notin noted => AtMostOne(Active)

\* How far the one call is, ...
Stage(t) ==
  /\ pc[t] \in Starting \cup {"join", "close"} => ~running
  /\ pc[t] \in {"join", "close"} => ~closed
  /\ pc[t] = "join" => awaited[t] = task
  /\ pc[t] = "close" => session # "open" \/ "late" \in noted
  /\ t \in Beats /\ pc[t] \in {"join", "close"} => "selfstopped" \in noted
\* ... and what the attributes tell then of the heartbeat tasks and the session.
Orderly ==
  /\ running => ~closed
  /\ task # 0 => running \/ \E t \in Tasks : pc[t] = "join"
  /\ \A t \in Tasks : Stage(t)
  /\ closed /\ session = "open" => {"half", "late"} \cap noted # {}
  /\ orphaned => {"late", "replaced"} \cap noted # {}
  /\ "selfstopped" \notin noted => Alive \subseteq {task}

OrderlyInv == "raced" \notin noted => Orderly

LEMMA Types ==
  ASSUME TypeInv
  PROVE  /\ pc \in [Tasks -> MainPlaces \cup BeatPlaces] /\ awaited \in [Tasks -> 0..MaxStarts]
         /\ tries \in [Tasks -> 0..(MaxRetries + 2)] /\ running \in BOOLEAN /\ closed \in BOOLEAN
         /\ orphaned \in BOOLEAN
         /\ \A m \in Mains : m \in Tasks /\ m \notin Beats /\ pc[m] \in MainPlaces
         /\ \A b \in Beats : b \in Tasks /\ b \notin Mains /\ pc[b] \in BeatPlaces
         /\ \A i \in Runs : Beat(i) \in Beats
         /\ \A i, j \in Runs : Beat(i) = Beat(j) => i = j
BY Bounds DEF TypeInv, PlacesOK, StopsOK, SendsOK, DeviceOK, Beat

Names == {"raced", "selfstopped", "late", "cut", "replaced"}

\* What has happened stays noted, but for what a later step makes good.
LEMMA NotesStay ==
  ASSUME [Next]_vars
  PROVE  \A n \in Names : n \in noted => n \in noted'
<1>1. ASSUME NEW e \in Endpoints, ResetAttempts(e)
      PROVE  \A n \in Names : n \in noted => n \in noted'
  <2>1. Left[e] \in {"left_heartbeat", "left_report"}
    <3>1. Left["heartbeat"] = "left_heartbeat" /\ Left["report"] = "left_report"
      BY DEF Left
    <3> QED
      BY <3>1 DEF Endpoints
  <2> QED
    BY <1>1, <2>1 DEF ResetAttempts, Names
<1>2. ASSUME NEW t \in Tasks, SendStep(t)
      PROVE  \A n \in Names : n \in noted => n \in noted'
  BY <1>1, <1>2, EndpointIs DEF SendStep, Answer, Retry, GiveUp, SendRaises, Attempt, Abandon, Note
<1>3. ASSUME NEW m \in Mains, \/ Start(m) \/ Report(m) \/ WaitClosed(m) \/ Cancel(m)
                              \/ ReplaceTransport(m) \/ MainStep(m)
      PROVE  \A n \in Names : n \in noted => n \in noted'
  BY <1>3 DEF Start, Report, WaitClosed, Cancel, ReplaceTransport, MainStep, Started, Ready, Attempt,
     Abandon, Note, Names
<1>4. ASSUME NEW t \in Tasks, Stop(t) \/ StopStep(t)
      PROVE  \A n \in Names : n \in noted => n \in noted'
  BY <1>4 DEF Stop, StopStep, Join, Closed, Names
<1>5. ASSUME NEW i \in Runs, BeatStep(i)
      PROVE  \A n \in Names : n \in noted => n \in noted'
  BY <1>5 DEF BeatStep, Again, SendBeat, BeatCancelled, Attempt, Abandon, Note
<1>6. CASE UNCHANGED vars
  BY <1>6 DEF vars
<1> QED
  BY <1>2, <1>3, <1>4, <1>5, <1>6 DEF Next

\* Who is past a check alone, and who stays in the call.
LEMMA OthersStay ==
  ASSUME TypeInv, [Next]_vars
  PROVE  \/ \E t \in Tasks : /\ \A u \in Tasks : u # t => pc'[u] = pc[u]
                             /\ "raced" \notin noted' => Active \subseteq {t}
         \/ Active' \subseteq Active
<1>1. ASSUME NEW m \in Mains, Start(m)
      PROVE  /\ \A u \in Tasks : u # m => pc'[u] = pc[u]
             /\ "raced" \notin noted' => Active \subseteq {m}
  BY <1>1, Types DEF Start, Goto
<1>2. ASSUME NEW t \in Tasks, Stop(t)
      PROVE  /\ \A u \in Tasks : u # t => pc'[u] = pc[u]
             /\ "raced" \notin noted' => Active \subseteq {t}
  <2>1. "raced" \notin noted' => Active \ {t} = {}
    BY <1>2 DEF Stop
  <2> QED
    BY <1>2, <2>1, Types DEF Stop, Goto
<1>3. ASSUME NEW m \in Mains, \/ Report(m) \/ WaitClosed(m) \/ Cancel(m) \/ ReplaceTransport(m)
                              \/ Ready(m)
      PROVE  Active' \subseteq Active
  BY <1>3, Types DEF Report, WaitClosed, Cancel, ReplaceTransport, Ready, EndSend, Goto, Active,
     Starting
<1>4. ASSUME NEW m \in Mains, Started(m) PROVE Active' \subseteq Active
  <2>1. \A u \in Tasks : pc'[u] = pc[u] \/ pc'[u] = "new" \/ u = m
    BY <1>4, Types DEF Started
  <2>2. m \in Active
    BY <1>4, Types DEF Started, Active, Starting
  <2> QED
    BY <2>1, <2>2 DEF Active, Starting
<1>5. ASSUME NEW t \in Tasks, StopStep(t) PROVE Active' \subseteq Active
  BY <1>5, Types DEF StopStep, Join, Closed, Goto, Active, Starting
<1>6. ASSUME NEW t \in Tasks, SendStep(t) PROVE Active' \subseteq Active
  <2>1. PlacesOK /\ pc[t] \in Sending
    BY <1>6 DEF TypeInv, SendStep, Answer, Retry, GiveUp, SendRaises, InSend
  <2>2. CASE Answer(t) \/ GiveUp(t)
    <3>1. \E l : /\ pc' = [pc EXCEPT ![t] = l] /\ l \in {"started", "idle", "hook"}
                 /\ l \in Starting => pc[t] \in Starting
      BY <2>1, <2>2, SendPlaces DEF Answer, GiveUp, EndSend, Goto, Tasks
    <3> QED
      BY <3>1, Types DEF Active, Starting
  <2>3. CASE Retry(t)
    BY <2>3 DEF Retry, Active
  <2>4. CASE SendRaises(t)
    BY <2>4, Types DEF SendRaises, EndSend, LoopTest, Goto, Active, Starting
  <2> QED
    BY <1>6, <2>2, <2>3, <2>4 DEF SendStep
<1>7. ASSUME NEW i \in Runs, BeatStep(i) PROVE Active' \subseteq Active
  BY <1>7, Types DEF BeatStep, Again, SendBeat, BeatCancelled, EndSend, LoopTest, Goto, Active, Starting
<1>8. CASE UNCHANGED vars
  BY <1>8 DEF vars, Active
<1> QED
  BY <1>1, <1>2, <1>3, <1>4, <1>5, <1>6, <1>7, <1>8, Bounds DEF Next, MainStep

LEMMA OneActiveStep == TypeInv /\ OneActive /\ [Next]_vars => OneActive'
<1> SUFFICES ASSUME TypeInv, OneActive, [Next]_vars, "raced" \notin noted'
             PROVE  AtMostOne(Active)'
  BY DEF OneActive
<1>1. AtMostOne(Active)
  BY NotesStay DEF OneActive, Names
<1>2. ASSUME NEW t \in Tasks, \A u \in Tasks : u # t => pc'[u] = pc[u], Active \subseteq {t}
      PROVE  AtMostOne(Active)'
  BY <1>2 DEF Active, AtMostOne
<1>3. CASE Active' \subseteq Active
  BY <1>1, <1>3 DEF AtMostOne
<1> QED
  BY <1>2, <1>3, OthersStay

\* A step outside stop() that starts no heartbeat task.
LEMMA Keeps ==
  ASSUME Orderly, UNCHANGED <<running, task, closed, awaited, orphaned>>,
         \A t \in Tasks : /\ pc'[t] \in Starting => pc[t] \in Starting
                          /\ pc'[t] = "close" => pc[t] = "close"
                          /\ pc'[t] = "join" <=> pc[t] = "join",
         Alive' \subseteq Alive,
         session' = session \/ (session # "open" /\ ~running => "late" \in noted'),
         \A n \in Names : n \in noted => n \in noted',
         "half" \in noted => "half" \in noted'
  PROVE  Orderly'
<1>1. \A t \in Tasks : Stage(t)'
  <2> SUFFICES ASSUME NEW t \in Tasks PROVE Stage(t)'
    OBVIOUS
  <2>1. Stage(t)
    BY DEF Orderly
  <2>2. pc'[t] = "close" => session' # "open" \/ "late" \in noted'
    BY <2>1 DEF Stage, Names
  <2> QED
    BY <2>1, <2>2 DEF Stage, Names
<1>2. closed' /\ session' = "open" => {"half", "late"} \cap noted' # {}
  <2> SUFFICES ASSUME closed, session' = "open" PROVE "half" \in noted' \/ "late" \in noted'
    OBVIOUS
  <2>1. ~running
    BY DEF Orderly
  <2>2. CASE session = "open"
    <3>1. "half" \in noted \/ "late" \in noted
      BY <2>2 DEF Orderly
    <3> QED
      BY <3>1 DEF Names
  <2>3. CASE session # "open"
    BY <2>1, <2>3
  <2> QED
    BY <2>2, <2>3
<1> QED
  BY <1>1, <1>2 DEF Orderly, Names

\* The caller that moves is alone: nobody else's stage says anything.
LEMMA AloneKeeps ==
  ASSUME NEW t \in Tasks, Stage(t)', \A u \in Tasks : u # t => pc'[u] \notin Starting \cup {"join", "close"}
  PROVE  \A u \in Tasks : Stage(u)'
BY DEF Stage

\* A heartbeat task that is alive stays the one it is, if no other comes to life.
LEMMA AliveKeeps ==
  ASSUME \A b \in Beats : pc'[b] \notin {"none", "done"} => pc[b] \notin {"none", "done"}
  PROVE  Alive' \subseteq Alive
BY Bounds DEF Alive

LEMMA SendOrderly ==
  ASSUME TypeInv, Orderly, [Next]_vars, NEW t \in Tasks, SendStep(t)
  PROVE  Orderly'
<1>0. PlacesOK /\ pc[t] \in Sending /\ \A n \in Names : n \in noted => n \in noted'
  BY NotesStay DEF TypeInv, SendStep, Answer, Retry, GiveUp, SendRaises, InSend, Names
<1>1. UNCHANGED <<running, task, closed, awaited, orphaned>>
  BY DEF SendStep, Answer, Retry, GiveUp, SendRaises, Attempt, OpenSession, device, transport
<1>2. session' = session \/ (session # "open" /\ ~running => "late" \in noted')
  BY DEF SendStep, Answer, Retry, GiveUp, SendRaises, Attempt, Note, transport
<1>3. "half" \in noted => "half" \in noted'
  <2>1. ASSUME NEW e \in Endpoints PROVE Left[e] # "half"
    <3>1. Left["heartbeat"] = "left_heartbeat" /\ Left["report"] = "left_report"
      BY DEF Left
    <3> QED
      BY <3>1 DEF Endpoints
  <2> QED
    BY <2>1, EndpointIs DEF SendStep, Answer, Retry, GiveUp, SendRaises, ResetAttempts, Attempt, Abandon, Note
<1>4. \E l : /\ pc' = [pc EXCEPT ![t] = l]
             /\ l # pc[t] => l \in {"started", "idle", "hook", "sleep", "done"}
             /\ l \in Starting => pc[t] \in Starting
  <2>1. CASE Answer(t) \/ GiveUp(t)
    BY <1>0, <2>1, SendPlaces DEF Answer, GiveUp, EndSend, Goto, Tasks
  <2>2. CASE Retry(t)
    <3>1. pc' = [pc EXCEPT ![t] = pc[t]]
      BY <2>2, Types DEF Retry
    <3> QED
      BY <3>1
  <2>3. CASE SendRaises(t)
    <3> DEFINE l == IF pc[t] = "beat" THEN LoopTest ELSE "idle"
    <3>1. pc' = [pc EXCEPT ![t] = l]
      BY <2>3 DEF SendRaises, EndSend, Goto
    <3>2. l \in {"sleep", "done", "idle"}
      BY DEF LoopTest
    <3> QED
      BY <3>1, <3>2 DEF Starting
  <2> QED
    BY <2>1, <2>2, <2>3 DEF SendStep
<1>5. \A u \in Tasks : /\ pc'[u] \in Starting => pc[u] \in Starting
                       /\ pc'[u] = "close" => pc[u] = "close"
                       /\ pc'[u] = "join" <=> pc[u] = "join"
                       /\ pc'[u] # pc[u] => pc[u] \in Sending
  BY <1>0, <1>4, Types DEF Sending
<1>6. Alive' \subseteq Alive
  <2>1. \A u \in Tasks : pc'[u] # pc[u] => pc[u] \notin {"none", "done"}
    BY <1>5 DEF Sending
  <2> QED
    BY <2>1, Types, AliveKeeps
<1> QED
  BY <1>0, <1>1, <1>2, <1>3, <1>5, <1>6, Keeps

LEMMA MainOrderly ==
  ASSUME TypeInv, OneActive, Orderly, [Next]_vars, "raced" \notin noted', NEW m \in Mains,
         Start(m) \/ Report(m) \/ WaitClosed(m) \/ Cancel(m) \/ MainStep(m)
  PROVE  Orderly'
<1>0. m \in Tasks /\ m \notin Beats /\ \A n \in Names : n \in noted => n \in noted'
  BY Bounds, NotesStay DEF Names
<1>1. CASE Start(m)
  <2>1. /\ Active = {} /\ pc[m] = "idle" /\ ~running /\ pc'[m] = "first" /\ "half" \in noted'
        /\ \A u \in Tasks : u # m => pc'[u] = pc[u]
        /\ UNCHANGED <<running, task, closed, awaited, orphaned>>
    BY <1>0, <1>1, Types DEF Start, Goto, OpenSession, device
  <2>2. \A u \in Tasks : pc[u] \notin Starting \cup {"join", "close"}
    BY <2>1 DEF Active
  <2>3. Stage(m)'
    BY <1>0, <2>1 DEF Stage
  <2>4. \A u \in Tasks : Stage(u)'
    BY <1>0, <2>1, <2>2, <2>3, AloneKeeps
  <2>5. Alive' \subseteq Alive
    BY <1>0, <2>1, Types, AliveKeeps
  <2>6. task = 0
    BY <2>1, <2>2 DEF Orderly
  <2> QED
    BY <1>0, <2>1, <2>4, <2>5, <2>6 DEF Orderly, Names
<1>2. CASE Started(m)
  <2>1. /\ pc[m] = "started" /\ m \in Active /\ pc'[m] = "ready"
        /\ \A u \in Tasks : u # m /\ u # Beat(starts') => pc'[u] = pc[u]
        /\ pc'[Beat(starts')] = "new" \/ Beat(starts') \notin Tasks
        /\ Beat(starts') # m
    <3>1. Beat(starts') # m
      BY <1>0, Types, Bounds, <1>2 DEF Started, TypeInv, CountersOK, Beats, MainPlaces, Starting
    <3> QED
      BY <1>0, <1>2, <3>1, Types DEF Started, Active, Starting
  <2>2. running' /\ ~closed' /\ task' = starts' /\ orphaned' = orphaned
    BY <1>2 DEF Started, transport
  <2>3. \A u \in Tasks : u # m => pc[u] \notin Starting \cup {"join", "close"}
    BY <1>0, <2>1, NotesStay DEF OneActive, AtMostOne, Active, Names
  <2>4. ~running
    BY <1>0, <2>1 DEF Orderly, Stage, Starting
  <2>5. task = 0
    BY <2>1, <2>3, <2>4 DEF Orderly
  <2>6. \A u \in Tasks : Stage(u)'
    BY <2>1, <2>3 DEF Stage, Starting
  <2>7. "selfstopped" \notin noted' => Alive' \subseteq {task'}
    <3> SUFFICES ASSUME "selfstopped" \notin noted', NEW i \in Runs, i # starts',
                        pc'[Beat(i)] \notin {"none", "done"}
                 PROVE  FALSE
      BY <2>2 DEF Alive
    <3>1. Beat(i) # Beat(starts')
      BY DEF Beat
    <3>2. i \in Alive
      BY <2>1, <3>1, <1>0, Types DEF Alive
    <3> QED
      BY <1>0, <2>5, <3>2, Bounds DEF Orderly, Names
  <2> QED
    BY <1>0, <2>2, <2>6, <2>7 DEF Orderly, Names
<1>3. CASE Report(m) \/ WaitClosed(m) \/ Cancel(m) \/ Ready(m)
  <2>1. /\ \A u \in Tasks : u # m => pc'[u] = pc[u]
        /\ pc'[m] \in {"report", "wait", "idle"} /\ pc[m] # "join"
    BY <1>0, <1>3, Types DEF Report, WaitClosed, Cancel, Ready, EndSend, Goto
  <2>2. UNCHANGED <<running, task, closed, awaited, orphaned>>
    BY <1>3 DEF Report, WaitClosed, Cancel, Ready, Attempt, OpenSession, device, transport
  <2>3. session' = session \/ (session # "open" /\ ~running => "late" \in noted')
    BY <1>3 DEF Report, WaitClosed, Cancel, Ready, Attempt, Note, transport
  <2>4. "half" \in noted => "half" \in noted'
    BY <1>3 DEF Report, WaitClosed, Cancel, Ready, Attempt, Abandon, Note
  <2>5. Alive' \subseteq Alive
    BY <1>0, <2>1, Types, AliveKeeps
  <2>6. \A t \in Tasks : /\ pc'[t] \in Starting => pc[t] \in Starting
                         /\ pc'[t] = "close" => pc[t] = "close"
                         /\ pc'[t] = "join" <=> pc[t] = "join"
    BY <2>1 DEF Starting
  <2> QED
    BY <1>0, <2>2, <2>3, <2>4, <2>5, <2>6, Keeps
<1> QED
  BY <1>1, <1>2, <1>3 DEF MainStep

LEMMA ReplaceOrderly ==
  ASSUME Orderly, [Next]_vars, NEW m \in Mains, ReplaceTransport(m)
  PROVE  Orderly'
<1>1. /\ UNCHANGED <<running, task, closed, awaited, pc>> /\ session' = "none"
      /\ orphaned' = (orphaned \/ session = "open")
      /\ session = "open" => "replaced" \in noted'
      /\ \A n \in Names : n \in noted => n \in noted'
  BY NotesStay DEF ReplaceTransport, device, Note
<1>2. \A t \in Tasks : Stage(t)'
  BY <1>1 DEF Orderly, Stage, Names
<1>3. orphaned' => "late" \in noted' \/ "replaced" \in noted'
  BY <1>1 DEF Orderly, Names
<1>4. Alive' = Alive
  BY <1>1 DEF Alive
<1> QED
  BY <1>1, <1>2, <1>3, <1>4 DEF Orderly, Names

LEMMA BeatOrderly ==
  ASSUME TypeInv, Orderly, [Next]_vars, NEW i \in Runs, BeatStep(i)
  PROVE  Orderly'
<1>0. \A n \in Names : n \in noted => n \in noted'
  BY NotesStay DEF Names
<1>1. /\ \A u \in Tasks : u # Beat(i) => pc'[u] = pc[u]
      /\ pc'[Beat(i)] \in {"sleep", "done", "beat"}
      /\ pc[Beat(i)] # "join"
  BY Types DEF BeatStep, Again, SendBeat, BeatCancelled, EndSend, LoopTest, Goto
<1>2. UNCHANGED <<running, task, closed, awaited, orphaned>>
  BY DEF BeatStep, Again, SendBeat, BeatCancelled, Attempt, OpenSession, device, transport
<1>3. session' = session \/ (session # "open" /\ ~running => "late" \in noted')
  BY DEF BeatStep, Again, SendBeat, BeatCancelled, Attempt, Note, transport
<1>4. "half" \in noted => "half" \in noted'
  BY DEF BeatStep, Again, SendBeat, BeatCancelled, Attempt, Abandon, Note
<1>5. pc[Beat(i)] \in {"none", "done"} => pc'[Beat(i)] = "done"
  BY Types DEF BeatStep, Again, SendBeat, BeatCancelled, EndSend, Goto
<1>6. Alive' \subseteq Alive
  BY <1>1, <1>5, Types, AliveKeeps
<1>7. \A t \in Tasks : /\ pc'[t] \in Starting => pc[t] \in Starting
                       /\ pc'[t] = "close" => pc[t] = "close"
                       /\ pc'[t] = "join" <=> pc[t] = "join"
  BY <1>1 DEF Starting
<1> QED
  BY <1>0, <1>2, <1>3, <1>4, <1>6, <1>7, Keeps

LEMMA StopOrderly ==
  ASSUME TypeInv, OneActive, Orderly, [Next]_vars, "raced" \notin noted', NEW t \in Tasks,
         Stop(t) \/ StopStep(t)
  PROVE  Orderly'
<1>0. /\ \A n \in Names : n \in noted => n \in noted'
      /\ task = 0 \/ task \in Runs
      /\ t \in Mains \/ t \in Beats
  BY NotesStay, Bounds DEF Names, TypeInv, DeviceOK, Tasks
<1>1. CASE Stop(t)
  <2>1. /\ running /\ ~running' /\ pc[t] \in {"idle", "ready", "hook"} /\ pc'[t] = "join"
        /\ awaited'[t] = task /\ UNCHANGED <<task, closed, session, orphaned>>
        /\ \A u \in Tasks : u # t => pc'[u] = pc[u]
        /\ t \in Beats => "selfstopped" \in noted'
        /\ "half" \in noted => "half" \in noted'
    BY <1>1, Types DEF Stop, MayStop, Goto, transport
  <2>2. Active \ {t} = {}
    BY <1>1 DEF Stop
  <2>3. ~closed /\ Stage(t)'
    BY <2>1 DEF Orderly, Stage, Starting
  <2>4. \A u \in Tasks : u # t => pc[u] \notin Starting \cup {"join", "close"}
    BY <2>2 DEF Active
  <2>5. \A u \in Tasks : Stage(u)'
    BY <2>1, <2>3, <2>4, AloneKeeps
  <2>6. "selfstopped" \notin noted' => Alive' \subseteq {task}
    <3> SUFFICES ASSUME "selfstopped" \notin noted' PROVE Alive' \subseteq {task}
      OBVIOUS
    <3>1. Alive' \subseteq Alive
      BY <2>1, Types, AliveKeeps
    <3> QED
      BY <1>0, <3>1 DEF Orderly, Names
  <2> QED
    BY <1>0, <2>1, <2>3, <2>5, <2>6 DEF Orderly, Names
<1>2. CASE StopStep(t)
  <2>1. /\ pc[t] \in {"join", "close"} /\ t \in Active /\ Stage(t)
    BY <1>2 DEF StopStep, Join, Closed, Active, Orderly
  <2>2. \A u \in Tasks : u # t => pc[u] \notin Starting \cup {"join", "close"}
    BY <1>0, <2>1 DEF OneActive, AtMostOne, Active, Names
  <2>3. CASE Join(t)
    <3>1. /\ pc[t] = "join" /\ pc'[t] = "close" /\ task' = 0 /\ session' # "open"
          /\ UNCHANGED <<running, closed, orphaned, noted>>
          /\ session' # "none" => session # "none"
          /\ \A u \in Tasks : u # t => pc'[u] = pc[u]
          /\ awaited[t] # 0 => pc[Beat(awaited[t])] = "done" \/ t = Beat(awaited[t])
      BY <2>3, Types DEF Join, Goto
    <3>2. Stage(t)'
      BY <2>1, <3>1 DEF Stage, Starting
    <3>3. \A u \in Tasks : Stage(u)'
      BY <2>2, <3>1, <3>2, AloneKeeps
    <3>4. "selfstopped" \notin noted => Alive' \subseteq {0}
      <4> SUFFICES ASSUME "selfstopped" \notin noted, NEW i \in Alive' PROVE FALSE
        OBVIOUS
      <4>1. t \notin Beats
        BY <2>1 DEF Stage
      <4>2. Alive' \subseteq Alive
        BY <3>1, <4>1, Types, AliveKeeps
      <4>3. i = task /\ i \in Runs /\ pc[Beat(i)] # "done"
        BY <4>2 DEF Orderly, Alive
      <4>4. awaited[t] = task /\ task # 0
        BY <2>1, <3>1, <4>3, Bounds DEF Stage
      <4> QED
        BY <3>1, <4>1, <4>3, <4>4, Types
    <3>5. ~running /\ ~closed
      BY <2>1 DEF Stage
    <3> QED
      BY <3>1, <3>3, <3>4, <3>5 DEF Orderly
  <2>4. CASE Closed(t)
    <3>1. /\ pc[t] = "close" /\ closed' /\ UNCHANGED <<running, task>>
          /\ session' = "open" => session = "open"
          /\ orphaned' => orphaned \/ session = "open"
          /\ \A u \in Tasks : pc'[u] # pc[u] => pc'[u] \in {"idle", "hook"} /\ (u = t \/ pc[u] = "wait")
          /\ pc'[t] # "close"
      BY <2>4, Types DEF Closed, SessionClosed
    <3>2. ~running /\ (session # "open" \/ "late" \in noted)
      BY <2>1, <3>1 DEF Stage
    <3>3. task = 0
      BY <2>2, <3>1, <3>2 DEF Orderly
    <3>4. \A u \in Tasks : pc'[u] \notin Starting \cup {"join", "close"}
      BY <2>1, <2>2, <3>1 DEF Starting
    <3>5. \A u \in Tasks : Stage(u)'
      BY <3>4 DEF Stage
    <3>6. orphaned' => {"late", "replaced"} \cap noted' # {}
      BY <1>0, <3>1, <3>2 DEF Orderly, Names
    <3>7. Alive' \subseteq Alive
      <4>1. \A u \in Tasks : pc'[u] # pc[u] => pc[u] \in {"close", "wait"}
        BY <3>1
      <4> QED
        BY <4>1, Types, AliveKeeps
    <3> QED
      BY <1>0, <3>1, <3>2, <3>3, <3>5, <3>6, <3>7 DEF Orderly, Names
  <2> QED
    BY <1>2, <2>3, <2>4 DEF StopStep
<1> QED
  BY <1>1, <1>2

LEMMA OrderlyStep == TypeInv /\ OneActive /\ OrderlyInv /\ [Next]_vars => OrderlyInv'
<1> SUFFICES ASSUME TypeInv, OneActive, OrderlyInv, [Next]_vars, "raced" \notin noted'
             PROVE  Orderly'
  BY DEF OrderlyInv
<1>1. Orderly
  BY NotesStay DEF OrderlyInv, Names
<1>2. CASE UNCHANGED vars
  BY <1>1, <1>2 DEF vars, device, transport, Orderly, Stage, Alive
<1>3. CASE Next
  BY <1>1, <1>3, MainOrderly, ReplaceOrderly, StopOrderly, SendOrderly, BeatOrderly DEF Next
<1> QED
  BY <1>2, <1>3

-----------------------------------------------------------------------------
(* The heartbeat on its way, and its count. *)

Clean == "raced" \notin noted /\ "selfstopped" \notin noted
Senders == {t \in Tasks : pc[t] \in {"first", "beat"}}

\* There is no heartbeat task while the first heartbeat is sent, and no other one later.
LEMMA OneSender ==
  ASSUME TypeInv, OneActive, OrderlyInv, Clean
  PROVE  AtMostOne(Senders)
<1> SUFFICES ASSUME NEW t \in Senders, NEW u \in Senders PROVE t = u
  BY DEF AtMostOne
<1>0. /\ Orderly /\ AtMostOne(Active) /\ t \in Tasks /\ u \in Tasks
      /\ pc[t] \in {"first", "beat"} /\ pc[u] \in {"first", "beat"}
  BY DEF OrderlyInv, OneActive, Clean, Senders
<1>1. ASSUME NEW b \in Tasks, pc[b] = "beat"
      PROVE  task # 0 /\ b = Beat(task)
  <2>1. b \in Beats
    BY <1>1, Types DEF Tasks, MainPlaces
  <2>2. PICK i \in Runs : b = Beat(i)
    BY <2>1 DEF Beats
  <2>3. i \in Alive
    BY <1>1, <2>2 DEF Alive
  <2> QED
    BY <1>0, <2>2, <2>3, Bounds DEF Orderly, Clean
<1>2. ASSUME NEW m \in Tasks, pc[m] = "first"
      PROVE  m \in Active /\ task = 0
  <2>1. m \in Active
    BY <1>2 DEF Active, Starting
  <2>2. ~running
    BY <1>0, <1>2 DEF Orderly, Stage, Starting
  <2>3. \A n \in Tasks : pc[n] # "join"
    BY <1>0, <1>2, <2>1 DEF AtMostOne, Active
  <2> QED
    BY <1>0, <2>1, <2>2, <2>3 DEF Orderly
<1> QED
  BY <1>0, <1>1, <1>2 DEF AtMostOne

\* The count of the heartbeat's sends.
Count ==
  "left_heartbeat" \notin noted =>
    /\ Senders = {} => attempts["heartbeat"] = 0
    /\ \A t \in Senders : tries[t] = attempts["heartbeat"] + 1
CountInv == Clean => Count

LEMMA CountKeeps ==
  ASSUME Count, Senders' = Senders, attempts'["heartbeat"] = attempts["heartbeat"],
         \A t \in Senders : tries'[t] = tries[t],
         "left_heartbeat" \in noted => "left_heartbeat" \in noted'
  PROVE  Count'
BY DEF Count

\* The one that sends is done with it.
LEMMA CountEnds ==
  ASSUME NEW t \in Senders, AtMostOne(Senders), Senders' \subseteq Senders \ {t},
         attempts'["heartbeat"] = 0 \/ "left_heartbeat" \in noted'
  PROVE  Count'
<1>1. Senders' = {}
  BY DEF AtMostOne
<1> QED
  BY <1>1 DEF Count

\* A heartbeat is sent for the first time.
LEMMA CountBegins ==
  ASSUME Count, Senders = {}, NEW t, Senders' = {t}, attempts' = attempts, tries'[t] = 1,
         "left_heartbeat" \in noted => "left_heartbeat" \in noted'
  PROVE  Count'
<1> SUFFICES ASSUME "left_heartbeat" \notin noted' PROVE tries'[t] = attempts'["heartbeat"] + 1
  BY DEF Count
<1>1. attempts["heartbeat"] = 0
  BY DEF Count
<1> QED
  BY <1>1

\* A send that ends otherwise leaves its count, if there is one.
LEMMA Abandoned ==
  ASSUME TypeInv, NEW t \in Tasks, Abandon(t)
  PROVE  /\ "left_heartbeat" \in noted => "left_heartbeat" \in noted'
         /\ t \in Senders => attempts["heartbeat"] = 0 \/ "left_heartbeat" \in noted'
<1>1. "left_heartbeat" \in noted => "left_heartbeat" \in noted'
  BY DEF Abandon, Note
<1>2. ASSUME t \in Senders PROVE attempts["heartbeat"] = 0 \/ "left_heartbeat" \in noted'
  <2>1. EndpointOf(t) = "heartbeat" /\ pc[t] \in Sending
    BY <1>2, EndpointIs DEF Senders, Sending
  <2>2. Left["heartbeat"] = "left_heartbeat"
    BY DEF Left
  <2>3. attempts["heartbeat"] \in 0..MaxRetries
    BY DEF TypeInv, SendsOK, Endpoints
  <2>4. attempts["heartbeat"] > 0 => "left_heartbeat" \in noted'
    BY <2>1, <2>2 DEF Abandon, Note
  <2>5. \A k \in 0..MaxRetries : k = 0 \/ k > 0
    BY Bounds
  <2> QED
    BY <2>3, <2>4, <2>5
<1> QED
  BY <1>1, <1>2

LEMMA CountStep ==
  ASSUME TypeInv, OneActive, OrderlyInv, CountInv, [Next]_vars, Clean',
         \A t, u \in Senders' : t = u
  PROVE  Count'
<1>0. /\ Clean /\ Count /\ AtMostOne(Senders)
      /\ attempts \in [Endpoints -> 0..MaxRetries] /\ tries \in [Tasks -> 0..(MaxRetries + 2)]
      /\ "heartbeat" \in Endpoints /\ "report" \in Endpoints
      /\ Left["heartbeat"] = "left_heartbeat" /\ Left["report"] = "left_report"
  BY NotesStay, OneSender DEF CountInv, Clean, TypeInv, SendsOK, Endpoints, Left, Names
<1>1. ASSUME NEW t \in Tasks, Answer(t) \/ GiveUp(t) PROVE Count'
  <2>1. /\ pc[t] \in Sending /\ ResetAttempts(EndpointOf(t)) /\ tries' = [tries EXCEPT ![t] = 0]
        /\ \A u \in Tasks : u # t => pc'[u] = pc[u]
        /\ pc'[t] \notin {"first", "beat"}
    <3>1. \E l \in {"started", "idle", "hook"} : pc' = [pc EXCEPT ![t] = l]
      BY <1>1, SendPlaces DEF Answer, GiveUp, InSend, EndSend, Goto, TypeInv, Tasks
    <3> QED
      BY <1>1, <3>1, Types DEF Answer, GiveUp, InSend, EndSend
  <2>2. CASE pc[t] = "report"
    <3>1. EndpointOf(t) = "report" /\ Senders' = Senders /\ t \notin Senders
      BY <2>1, <2>2 DEF Senders, EndpointOf
    <3> QED
      BY <1>0, <2>1, <3>1, CountKeeps DEF ResetAttempts, Senders
  <2>3. CASE pc[t] # "report"
    <3>1. EndpointOf(t) = "heartbeat" /\ t \in Senders /\ Senders' \subseteq Senders \ {t}
      BY <2>1, <2>3 DEF Senders, EndpointOf, Sending
    <3> QED
      BY <1>0, <2>1, <3>1, CountEnds DEF ResetAttempts
  <2> QED
    BY <2>2, <2>3
<1>2. ASSUME NEW t \in Tasks, Retry(t) PROVE Count'
  <2>1. /\ pc[t] \in Sending /\ pc' = pc /\ Senders' = Senders
        /\ attempts' = [attempts EXCEPT ![EndpointOf(t)] = @ + 1]
        /\ attempts[EndpointOf(t)] < MaxRetries
        /\ tries' = [tries EXCEPT ![t] = IF tries[t] > MaxRetries + 1 THEN tries[t] ELSE tries[t] + 1]
        /\ "left_heartbeat" \in noted => "left_heartbeat" \in noted'
        /\ "left_heartbeat" \in noted' => "left_heartbeat" \in noted
    BY <1>2 DEF Retry, InSend, Attempt, Note, Senders
  <2>2. CASE pc[t] = "report"
    <3>1. EndpointOf(t) = "report" /\ t \notin Senders
      BY <2>1, <2>2 DEF Senders, EndpointOf
    <3> QED
      BY <1>0, <2>1, <3>1, CountKeeps DEF Senders
  <2>3. CASE pc[t] # "report"
    <3>1. EndpointOf(t) = "heartbeat" /\ t \in Senders
      BY <2>1, <2>3 DEF Senders, EndpointOf, Sending
    <3>2. Senders' = {t}
      BY <1>0, <2>1, <3>1 DEF AtMostOne
    <3> SUFFICES ASSUME "left_heartbeat" \notin noted
                 PROVE  tries'[t] = attempts'["heartbeat"] + 1
      BY <2>1, <3>2 DEF Count
    <3>3. tries[t] = attempts["heartbeat"] + 1 /\ attempts["heartbeat"] < MaxRetries
      BY <1>0, <2>1, <3>1 DEF Count
    <3>4. tries[t] \in Nat /\ attempts["heartbeat"] \in Nat /\ ~(tries[t] > MaxRetries + 1)
      <4>1. tries[t] \in 0..(MaxRetries + 2) /\ attempts["heartbeat"] \in 0..MaxRetries
        BY <1>0
      <4> QED
        BY <3>3, <4>1, Bounds
    <3>5. tries'[t] = tries[t] + 1 /\ attempts'["heartbeat"] = attempts["heartbeat"] + 1
      BY <1>0, <2>1, <3>1, <3>4
    <3> QED
      BY <3>3, <3>4, <3>5
  <2> QED
    BY <2>2, <2>3
<1>3. ASSUME NEW t \in Tasks, Abandon(t), attempts' = attempts, tries' = [tries EXCEPT ![t] = 0],
             \A u \in Tasks : u # t => pc'[u] = pc[u], pc'[t] \notin {"first", "beat"}
      PROVE  Count'
  <2>1. CASE t \in Senders
    <3>1. Senders' \subseteq Senders \ {t}
      BY <1>3 DEF Senders
    <3> QED
      BY <1>0, <1>3, <2>1, <3>1, Abandoned, CountEnds
  <2>2. CASE t \notin Senders
    <3>1. Senders' = Senders /\ \A u \in Senders : tries'[u] = tries[u]
      BY <1>0, <1>3, <2>2 DEF Senders
    <3> QED
      BY <1>0, <1>3, <2>2, <3>1, Abandoned, CountKeeps
  <2> QED
    BY <2>1, <2>2
<1>4. ASSUME NEW t \in Tasks, SendRaises(t) PROVE Count'
  <2>1. \A u \in Tasks : u # t => pc'[u] = pc[u]
    BY <1>4, Types DEF SendRaises, EndSend, Goto
  <2>2. pc'[t] \notin {"first", "beat"}
    BY <1>4, Types DEF SendRaises, EndSend, LoopTest, Goto
  <2> QED
    BY <1>3, <1>4, <2>1, <2>2 DEF SendRaises, EndSend
<1>5. ASSUME NEW m \in Mains, Cancel(m) PROVE Count'
  <2>1. /\ m \in Tasks /\ \A u \in Tasks : u # m => pc'[u] = pc[u]
        /\ pc'[m] = "idle" /\ attempts' = attempts /\ tries' = [tries EXCEPT ![m] = 0]
    BY <1>5, Types DEF Cancel, EndSend, Goto
  <2>2. CASE pc[m] = "close"
    <3>1. m \notin Senders /\ Senders' = Senders
      BY <2>1, <2>2 DEF Senders
    <3> QED
      BY <1>0, <1>5, <2>1, <2>2, <3>1, CountKeeps DEF Cancel, Note, Senders
  <2>3. CASE pc[m] # "close"
    BY <1>3, <1>5, <2>1, <2>3 DEF Cancel
  <2> QED
    BY <2>2, <2>3
<1>6. ASSUME NEW i \in Runs, BeatCancelled(i) PROVE Count'
  <2>1. /\ Beat(i) \in Tasks /\ \A u \in Tasks : u # Beat(i) => pc'[u] = pc[u]
        /\ pc'[Beat(i)] = "done" /\ attempts' = attempts /\ tries' = [tries EXCEPT ![Beat(i)] = 0]
    BY <1>6, Types DEF BeatCancelled, EndSend, Goto
  <2> QED
    BY <1>3, <1>6, <2>1 DEF BeatCancelled
<1>7. ASSUME NEW t \in Tasks, pc[t] \in {"idle", "sleep"}, pc'[t] \in {"first", "beat"},
             \A u \in Tasks : u # t => pc'[u] = pc[u], attempts' = attempts,
             tries' = [tries EXCEPT ![t] = 1],
             "left_heartbeat" \in noted => "left_heartbeat" \in noted'
      PROVE  Count'
  <2>1. t \notin Senders /\ Senders' = Senders \cup {t}
    BY <1>7 DEF Senders
  <2>2. Senders = {} /\ Senders' = {t}
    BY <2>1
  <2>3. tries'[t] = 1
    BY <1>0, <1>7
  <2> QED
    BY <1>0, <1>7, <2>2, <2>3, CountBegins
<1>8. ASSUME NEW m \in Mains, Start(m) PROVE Count'
  <2>1. /\ m \in Tasks /\ \A u \in Tasks : u # m => pc'[u] = pc[u]
        /\ pc[m] = "idle" /\ pc'[m] = "first"
    BY <1>8, Types DEF Start, Goto
  <2> QED
    BY <1>7, <1>8, <2>1 DEF Start
<1>9. ASSUME NEW i \in Runs, SendBeat(i) PROVE Count'
  <2>1. /\ Beat(i) \in Tasks /\ \A u \in Tasks : u # Beat(i) => pc'[u] = pc[u]
        /\ pc[Beat(i)] = "sleep" /\ pc'[Beat(i)] = "beat"
    BY <1>9, Types DEF SendBeat, Goto
  <2> QED
    BY <1>7, <1>9, <2>1 DEF SendBeat, Attempt, Note
<1>10. ASSUME attempts' = attempts, Senders' = Senders, \A u \in Senders : tries'[u] = tries[u],
              "left_heartbeat" \in noted => "left_heartbeat" \in noted'
       PROVE  Count'
  BY <1>0, <1>10, CountKeeps
<1>11. ASSUME NEW m \in Mains, Report(m) PROVE Count'
  <2>1. /\ m \notin Senders /\ Senders' = Senders /\ attempts' = attempts
        /\ tries' = [tries EXCEPT ![m] = 1] /\ ("left_heartbeat" \in noted => "left_heartbeat" \in noted')
    BY <1>11, Types DEF Report, Goto, Attempt, Note, Senders
  <2> QED
    BY <1>0, <1>10, <2>1 DEF Senders
<1>12. ASSUME NEW m \in Mains, WaitClosed(m) \/ Ready(m) PROVE Count'
  <2>1. Senders' = Senders
    BY <1>12, Types DEF WaitClosed, Ready, Goto, Senders
  <2> QED
    BY <1>10, <1>12, <2>1 DEF WaitClosed, Ready
<1>13. ASSUME NEW m \in Mains, Started(m) PROVE Count'
  <2>1. Senders' \subseteq Senders /\ UNCHANGED <<attempts, tries>>
        /\ ("left_heartbeat" \in noted => "left_heartbeat" \in noted')
    BY <1>13, Types DEF Started, Senders
  <2>2. Senders' = Senders
    <3>1. Orderly /\ AtMostOne(Active) /\ m \in Tasks /\ m \in Active /\ pc[m] = "started"
      BY <1>0, <1>13, Bounds DEF Started, OrderlyInv, OneActive, Clean, Active, Starting
    <3>2. task = 0
      BY <3>1 DEF Orderly, Stage, AtMostOne, Active, Starting
    <3>3. \A b \in Beats : pc[b] # "beat"
      BY <1>0, <3>1, <3>2, Bounds DEF Orderly, Clean, Alive, Beats
    <3>4. \A u \in Tasks : pc[u] # "beat"
      BY <3>3, Types DEF Tasks, MainPlaces
    <3>5. \A u \in Tasks : pc[u] = "first" => pc'[u] = "first"
      <4> SUFFICES ASSUME NEW u \in Tasks, pc[u] = "first" PROVE pc'[u] = "first"
        OBVIOUS
      <4>1. u \in Active /\ u # m
        BY <3>1 DEF Active, Starting
      <4> QED
        BY <3>1, <4>1 DEF AtMostOne
    <3> QED
      BY <2>1, <3>4, <3>5 DEF Senders
  <2> QED
    BY <1>10, <2>1, <2>2
<1>14. ASSUME NEW t \in Tasks, Stop(t) \/ StopStep(t) PROVE Count'
  <2>1. /\ attempts' = attempts /\ tries' = tries
        /\ ("left_heartbeat" \in noted => "left_heartbeat" \in noted')
    BY <1>14 DEF Stop, StopStep, Join, Closed
  <2>2. Senders' = Senders
    <3>1. CASE Closed(t)
      BY <3>1, Types DEF Closed, Senders
    <3>2. CASE Stop(t) \/ Join(t)
      BY <3>2, Types DEF Stop, MayStop, Join, Goto, Senders
    <3> QED
      BY <1>14, <3>1, <3>2 DEF StopStep
  <2> QED
    BY <1>10, <2>1, <2>2
<1>15. ASSUME NEW i \in Runs, Again(i) PROVE Count'
  <2>1. Senders' = Senders
    BY <1>15, Types DEF Again, Goto, LoopTest, Senders
  <2> QED
    BY <1>10, <1>15, <2>1 DEF Again
<1>16. CASE UNCHANGED vars
  <2>1. Senders' = Senders
    BY <1>16 DEF vars, Senders
  <2> QED
    BY <1>10, <1>16, <2>1 DEF vars
<1>17. ASSUME NEW m \in Mains, ReplaceTransport(m) PROVE Count'
  <2>1. Senders' = Senders
    BY <1>17 DEF ReplaceTransport, Senders
  <2> QED
    BY <1>10, <1>17, <2>1 DEF ReplaceTransport, Note
<1> QED
  BY <1>1, <1>2, <1>4, <1>5, <1>6, <1>8, <1>9, <1>11, <1>12, <1>13, <1>14, <1>15, <1>16, <1>17
     DEF Next, SendStep, MainStep, BeatStep

SafeInv == TypeInv /\ OneActive /\ OrderlyInv /\ CountInv

LEMMA Safe == Spec => []SafeInv
<1>1. Init => SafeInv
  <2> SUFFICES ASSUME Init PROVE SafeInv
    OBVIOUS
  <2>1. \A t \in Tasks : pc[t] \in {"idle", "none"}
    BY DEF Init
  <2>2. OneActive
    BY <2>1 DEF OneActive, AtMostOne, Active, Starting
  <2>3. \A t \in Tasks : Stage(t)
    BY <2>1 DEF Stage, Starting
  <2>4. Alive = {}
    BY Bounds DEF Init, Alive
  <2>5. OrderlyInv
    BY <2>3, <2>4 DEF Init, OrderlyInv, Orderly
  <2>6. Senders = {} /\ attempts["heartbeat"] = 0
    BY <2>1 DEF Init, Senders, Endpoints
  <2>7. CountInv
    BY <2>6 DEF CountInv, Count
  <2> QED
    BY <2>2, <2>5, <2>7, TypeInit DEF SafeInv
<1>2. SafeInv /\ [Next]_vars => SafeInv'
  <2> SUFFICES ASSUME SafeInv, [Next]_vars PROVE SafeInv'
    OBVIOUS
  <2>1. TypeInv' /\ OneActive' /\ OrderlyInv'
    BY TypeStep, OneActiveStep, OrderlyStep DEF SafeInv
  <2>2. CountInv'
    <3> SUFFICES ASSUME Clean' PROVE Count'
      BY DEF CountInv
    <3>1. (TypeInv /\ OneActive /\ OrderlyInv /\ Clean => AtMostOne(Senders))'
      BY OneSender, PTL
    <3>2. \A t, u \in Senders' : t = u
      BY <2>1, <3>1 DEF AtMostOne
    <3> QED
      BY <3>2, CountStep DEF SafeInv
  <2> QED
    BY <2>1, <2>2 DEF SafeInv
<1> QED
  BY <1>1, <1>2, PTL DEF Spec

\* While one call at a time starts and stops the device, a closed device does not run, has no
\* heartbeat task that did not stop it itself, and no open session but one that a start() still under
\* way or failed, or a send outside of its runs, has opened.
THEOREM ClosedReleasesAll == Spec => []ClosedMeansReleased
<1>1. SafeInv => ClosedMeansReleased
  <2> SUFFICES ASSUME SafeInv, closed, "raced" \notin noted
               PROVE  /\ ~running /\ task = 0
                      /\ Alive # {} => "selfstopped" \in noted
                      /\ session = "open" => {"half", "late"} \cap noted # {}
    BY DEF ClosedMeansReleased
  <2>1. Orderly
    BY DEF SafeInv, OrderlyInv
  <2>2. ~running
    BY <2>1 DEF Orderly
  <2>3. \A t \in Tasks : pc[t] # "join"
    BY <2>1 DEF Orderly, Stage
  <2>4. task = 0
    BY <2>1, <2>2, <2>3 DEF Orderly
  <2>5. 0 \notin Alive
    BY Bounds DEF Alive
  <2> QED
    BY <2>1, <2>2, <2>4, <2>5 DEF Orderly
<1> QED
  BY <1>1, Safe, PTL

\* Under the same condition an open session is left behind only by transport(), which drops it with
\* the old transport, or if a send outside of the runs opened it: start(), stop() and the sends of a
\* running device lose none.
THEOREM SessionsAreClosed == Spec => []NoSessionOrphaned
<1>1. SafeInv => NoSessionOrphaned
  BY DEF SafeInv, OrderlyInv, Orderly, NoSessionOrphaned
<1> QED
  BY <1>1, Safe, PTL

\* While one call at a time starts and stops the device, and no heartbeat hook stops it, there
\* is one heartbeat task, the one that the attribute names, and one heartbeat on its way.
THEOREM OneHeartbeat == Spec => []OneHeartbeatTask
<1>1. SafeInv => OneHeartbeatTask
  <2> SUFFICES ASSUME SafeInv, Clean
               PROVE  Alive \subseteq {task} /\ Cardinality(Senders) <= 1
    BY DEF OneHeartbeatTask, Clean, Senders
  <2>1. Alive \subseteq {task}
    BY DEF SafeInv, OrderlyInv, Orderly, Clean
  <2>2. AtMostOne(Senders)
    BY OneSender DEF SafeInv
  <2>3. CASE Senders = {}
    BY <2>1, <2>3, FS_EmptySet
  <2>4. CASE Senders # {}
    <3>1. PICK t \in Senders : TRUE
      BY <2>4
    <3>2. Senders = {t}
      BY <2>2, <3>1 DEF AtMostOne
    <3>3. Cardinality({t}) = 1
      BY FS_Singleton
    <3> QED
      BY <2>1, <3>2, <3>3
  <2> QED
    BY <2>3, <2>4
<1> QED
  BY <1>1, Safe, PTL

\* Under the same conditions the retry budget of the heartbeat on its way is exact: the count is
\* that of its own failed sends, and zero when none is on its way.
THEOREM RetryCountIsExact == Spec => []RetryCountExact
<1>1. SafeInv => RetryCountExact
  <2> SUFFICES ASSUME SafeInv, Clean, "left_heartbeat" \notin noted
               PROVE  /\ Senders = {} => attempts["heartbeat"] = 0
                      /\ \A t \in Senders : tries[t] = attempts["heartbeat"] + 1
    BY DEF RetryCountExact, Clean, Senders
  <2> QED
    BY DEF SafeInv, CountInv, Count
<1> QED
  BY <1>1, Safe, PTL
=============================================================================
