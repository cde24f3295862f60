----------------------- MODULE DeviceLifecycle_proofs -----------------------
(* Proofs about DeviceLifecycle for any application threads and any bounds. *)
EXTENDS DeviceLifecycle, TLAPS

USE DeviceBoundsAssumption

PCs == {"idle", "connect", "wifi", "first", "run", "clear", "make", "spawn", "ready",
        "blocked", "stop", "join", "close"}

\* A caller within start() past its check has a run of its own, not spawned
\* before it is past SetRunning.
InStart ==
  \A c \in Callers : pc[c] \in {"connect", "wifi", "first", "run", "clear", "make"}
                       => mine[c] \in Runs

TypeInv == TypeOK /\ InStart

LEMMA GotoTypes ==
  ASSUME TypeOK, NEW c \in Callers, NEW l \in PCs, Goto(c, l)
  PROVE  /\ pc' \in [Callers -> PCs] /\ pc'[c] = l
         /\ \A d \in Callers \ {c} : pc'[d] = pc[d]
BY DEF TypeOK, Goto, PCs

LEMMA PastCheckTypes ==
  ASSUME TypeOK, NEW c, NEW l, PastCheck(c, l)
  PROVE  raced' \in BOOLEAN /\ Goto(c, l)
BY DEF TypeOK, PastCheck

LEMMA TypeInit == Init => TypeInv
<1> SUFFICES ASSUME Init PROVE TypeInv
  OBVIOUS
<1>1. /\ {heartbeat_thread, starts} \subseteq 0..MaxStarts /\ heartbeat_thread = 0
      /\ sends \in [Runs -> 0..MaxSends] /\ mine \in [Callers -> 0..MaxStarts]
  BY DEF Init
<1>2. /\ {raced, abandoned, slow, halfstarted} \subseteq BOOLEAN /\ running \in BOOLEAN
      /\ stop_event \in {"set", "clear"} /\ transport \in {"new", "open", "closed"}
      /\ beat \in [Runs -> {"none", "new", "wait", "send", "hook", "done"}]
      /\ pc \in [Callers -> PCs] /\ \A c \in Callers : pc[c] = "idle"
  BY DEF Init, PCs
<1> QED
  BY <1>1, <1>2 DEF TypeInv, TypeOK, InStart, PCs

LEMMA TypeStep == TypeInv /\ [Next]_vars => TypeInv'
<1> SUFFICES ASSUME TypeInv, [Next]_vars PROVE TypeInv'
  OBVIOUS
<1> USE DEF attributes, threads, history
<1> USE DEF TypeInv, TypeOK, InStart, Runs
<1>0. Mains \subseteq Callers
  BY DEF Callers
<1>1. ASSUME NEW m \in Mains, StartCheck(m) PROVE TypeInv'
  <2>1. raced' \in BOOLEAN /\ pc' = [pc EXCEPT ![m] = "connect"]
    BY <1>1, PastCheckTypes DEF StartCheck, Goto
  <2>2. /\ starts' = starts + 1 /\ starts' \in Runs /\ starts' \in 0..MaxStarts
        /\ mine' = [mine EXCEPT ![m] = starts']
        /\ UNCHANGED <<attributes, beat, sends, abandoned, slow, halfstarted>>
    BY <1>1 DEF StartCheck
  <2> QED
    BY <1>0, <2>1, <2>2
<1>2. ASSUME NEW m \in Mains, ReplaceTransport(m) PROVE TypeInv'
  BY <1>2 DEF ReplaceTransport
<1>3. ASSUME NEW m \in Mains, Connect(m) PROVE TypeInv'
  BY <1>0, <1>3 DEF Connect, Goto
<1>4. ASSUME NEW m \in Mains, NoWifi(m) \/ Wifi(m) PROVE TypeInv'
  BY <1>0, <1>4 DEF NoWifi, Wifi, Goto
<1>5. ASSUME NEW m \in Mains, FirstHeartbeatFails(m) \/ FirstHeartbeat(m) PROVE TypeInv'
  BY <1>0, <1>5 DEF FirstHeartbeatFails, FirstHeartbeat, Goto
<1>6. ASSUME NEW m \in Mains, SetRunning(m) PROVE TypeInv'
  BY <1>0, <1>6 DEF SetRunning, Goto
<1>7. ASSUME NEW m \in Mains, MakeThread(m) PROVE TypeInv'
  <2>1. mine[m] \in Runs /\ mine[m] \in 0..MaxStarts /\ mine[m] # 0
    BY <1>0, <1>7 DEF MakeThread
  <2>2. /\ beat' = [beat EXCEPT ![mine[m]] = "new"] /\ heartbeat_thread' = mine[m]
    BY <1>7 DEF MakeThread
  <2>3. /\ beat' \in [Runs -> {"none", "new", "wait", "send", "hook", "done"}]
        /\ beat'[heartbeat_thread'] # "none"
    BY <2>1, <2>2
  <2> QED
    BY <1>0, <1>7, <2>1, <2>2, <2>3 DEF MakeThread, Goto
<1>7a. ASSUME NEW m \in Mains, Clear(m) PROVE TypeInv'
  BY <1>0, <1>7a DEF Clear, Goto
<1>7b. ASSUME NEW m \in Mains, Spawn(m) PROVE TypeInv'
  <2>1. PICK l \in {"ready", "idle"} : Goto(m, l)
    BY <1>7b DEF Spawn
  <2>2. pc' \in [Callers -> PCs] /\ pc'[m] = l /\ \A d \in Callers \ {m} : pc'[d] = pc[d]
    BY <1>0, <2>1 DEF Goto, PCs
  <2>3. /\ beat' \in [Runs -> {"none", "new", "wait", "send", "hook", "done"}]
        /\ \A j \in Runs : beat[j] # "none" => beat'[j] # "none"
    BY <1>7b DEF Spawn
  <2>4. UNCHANGED <<attributes, starts, sends, mine, history>>
    BY <1>7b DEF Spawn
  <2>5. InStart'
    BY <2>1, <2>2, <2>4
  <2>6. heartbeat_thread' # 0 => beat'[heartbeat_thread'] # "none"
    BY <2>3, <2>4
  <2>7. TypeOK'
    BY <2>2, <2>3, <2>4, <2>6 DEF PCs
  <2> QED
    BY <2>5, <2>7
<1>8. ASSUME NEW m \in Mains, Ready(m) \/ Unblock(m) PROVE TypeInv'
  BY <1>0, <1>8 DEF Ready, Unblock, Goto
<1>9. ASSUME NEW c \in Callers, StopCheck(c) PROVE TypeInv'
  <2>1. raced' \in BOOLEAN /\ Goto(c, "stop")
    BY <1>9, PastCheckTypes DEF StopCheck
  <2>2. pc' \in [Callers -> PCs] /\ pc'[c] = "stop" /\ \A d \in Callers \ {c} : pc'[d] = pc[d]
    BY <2>1 DEF Goto, PCs
  <2> QED
    BY <1>9, <2>1, <2>2 DEF StopCheck, PCs
<1>10. ASSUME NEW c \in Callers, StopSet(c) PROVE TypeInv'
  BY <1>10 DEF StopSet, Goto
<1>11. ASSUME NEW c \in Callers, Join(c) PROVE TypeInv'
  <2>1. PICK l \in {"idle", "close"} : Goto(c, l)
    BY <1>11 DEF Join
  <2>2. pc' \in [Callers -> PCs] /\ pc'[c] = l /\ \A d \in Callers \ {c} : pc'[d] = pc[d]
    BY <2>1 DEF Goto, PCs
  <2>3. heartbeat_thread' = heartbeat_thread \/ heartbeat_thread' = 0
    BY <1>11 DEF Join
  <2>4. {abandoned', slow'} \subseteq BOOLEAN
    BY <1>11 DEF Join
  <2>5. UNCHANGED <<running, stop_event, transport, starts, beat, sends, mine, raced, halfstarted>>
    BY <1>11 DEF Join
  <2>6. TypeOK'
    BY <2>2, <2>3, <2>4, <2>5 DEF PCs
  <2>7. InStart'
    BY <2>2, <2>5
  <2> QED
    BY <2>6, <2>7
<1>12. ASSUME NEW c \in Callers, CloseTransport(c) PROVE TypeInv'
  <2>1. Goto(c, "idle") /\ transport' = "closed" /\ halfstarted' = FALSE
    BY <1>12 DEF CloseTransport
  <2>2. pc' \in [Callers -> PCs] /\ pc'[c] = "idle" /\ \A d \in Callers \ {c} : pc'[d] = pc[d]
    BY <2>1 DEF Goto, PCs
  <2>3. UNCHANGED <<running, stop_event, heartbeat_thread, threads, mine, raced, abandoned, slow>>
    BY <1>12 DEF CloseTransport
  <2>4. InStart'
    BY <2>2, <2>3
  <2>5. {raced, abandoned, slow, halfstarted}' \subseteq BOOLEAN
    BY <2>1, <2>3
  <2>6. TypeOK'
    BY <2>1, <2>2, <2>3, <2>5 DEF PCs
  <2> QED
    BY <2>4, <2>6
<1>13. ASSUME NEW i \in Runs, Wait(i) PROVE TypeInv'
  <2>1. beat' \in [Runs -> {"none", "new", "wait", "send", "hook", "done"}]
        /\ \A j \in Runs : beat[j] # "none" => beat'[j] # "none"
    BY <1>13 DEF Wait
  <2>2. sends' \in [Runs -> 0..MaxSends]
    BY <1>13 DEF Wait
  <2>3. UNCHANGED <<attributes, starts, pc, mine, history>>
    BY <1>13 DEF Wait
  <2>4. heartbeat_thread' # 0 => beat'[heartbeat_thread'] # "none"
    BY <2>1, <2>3
  <2> QED
    BY <2>1, <2>2, <2>3, <2>4
<1>14. ASSUME NEW i \in Runs, Sent(i) \/ HooksReturn(i) PROVE TypeInv'
  BY <1>14 DEF Sent, HooksReturn
<1>15. CASE UNCHANGED vars
  BY <1>15 DEF vars
<1>16. MayStop \subseteq Callers
  BY DEF MayStop, Callers
<1> QED
  BY <1>1, <1>2, <1>3, <1>4, <1>5, <1>6, <1>7, <1>8, <1>9, <1>10, <1>11, <1>12, <1>13,
     <1>14, <1>15, <1>16, <1>7a, <1>7b DEF Next, StartStep, StopStep, BeatStep

\* Every reachable state has the types TypeOK states: self._heartbeat_thread, when
\* it is not None, is a thread that some start() has made.
THEOREM TypeCorrect == Spec => []TypeOK
<1>1. TypeInv => TypeOK
  BY DEF TypeInv
<1> QED
  BY <1>1, TypeInit, TypeStep, PTL DEF Spec

-----------------------------------------------------------------------------
\* Heartbeat threads that have been made and have not ended.
Live == {i \in Runs : beat[i] \notin {"none", "done"}}

\* At most one start() or stop() is past its check, unless two ever were.
OneActive == ~raced => \A c, d \in Active : c = d

Clean == ~raced /\ ~abandoned /\ ~slow

\* Where the threads and the transport are while one call at a time works on them:
\* only the thread of the device's attribute lives, none while a start() has not
\* come to its own, and a stop() joins that one.
Orderly ==
  /\ Live \subseteq {heartbeat_thread}
  /\ \A c \in Callers :
       /\ pc[c] \in {"connect", "wifi", "first", "run", "clear", "make", "close"} => Live = {}
       /\ pc[c] \in {"clear", "make", "spawn", "ready", "stop"} => running
       /\ pc[c] = "join" => mine[c] = heartbeat_thread /\ ~running
  /\ ~running /\ (\A c \in Callers : pc[c] # "join") => Live = {}
  /\ ~running /\ transport = "open" =>
       halfstarted \/ \E c \in Callers : pc[c] \in {"wifi", "first", "run", "join", "close"}

IInv == TypeInv /\ OneActive /\ (Clean => Orderly)

LEMMA ActiveIs == \A c \in Callers : c \in Active <=> pc[c] \notin {"idle", "blocked"}
BY DEF Active

LEMMA OneActiveStep ==
  ASSUME TypeInv, OneActive, [Next]_vars
  PROVE  OneActive'
<1> USE DEF TypeInv, TypeOK, attributes, threads, history
<1>0. Mains \subseteq Callers /\ MayStop \subseteq Callers
  BY DEF Callers, MayStop
<1>1. ASSUME NEW c \in Callers, NEW l \in PCs, PastCheck(c, l) PROVE OneActive'
  <2>1. /\ pc' = [pc EXCEPT ![c] = l] /\ raced' = (raced \/ Active \ {c} # {})
    BY <1>1 DEF PastCheck, Goto
  <2>2. ~raced' => Active \subseteq {c}
    BY <2>1
  <2>3. Active' \subseteq Active \cup {c}
    BY <2>1 DEF Active
  <2> QED
    BY <2>2, <2>3 DEF OneActive
<1>2. ASSUME NEW c \in Active, NEW l, Goto(c, l), UNCHANGED raced PROVE OneActive'
  <2>1. Active' \subseteq Active
    BY <1>2 DEF Active, Goto
  <2> QED
    BY <1>2, <2>1 DEF OneActive
<1>3. ASSUME UNCHANGED <<pc, raced>> PROVE OneActive'
  BY <1>3 DEF OneActive, Active
<1>4. ASSUME NEW m \in Mains, StartStep(m) PROVE OneActive'
  <2>1. CASE Unblock(m)
    <3>1. Active' \subseteq Active /\ UNCHANGED raced
      BY <1>0, <2>1 DEF Unblock, Goto, Active
    <3> QED
      BY <3>1 DEF OneActive
  <2>2. CASE ~Unblock(m)
    <3>1. pc[m] \in {"connect", "wifi", "first", "run", "clear", "make", "spawn", "ready"}
          /\ UNCHANGED raced
      BY <1>4, <2>2 DEF StartStep, Connect, NoWifi, Wifi, FirstHeartbeatFails, FirstHeartbeat,
                        SetRunning, Clear, MakeThread, Spawn, Ready
    <3>2. m \in Active
      BY <1>0, <3>1 DEF Active
    <3>3. \E l : Goto(m, l)
      BY <1>4, <2>2 DEF StartStep, Connect, NoWifi, Wifi, FirstHeartbeatFails, FirstHeartbeat,
                        SetRunning, Clear, MakeThread, Spawn, Ready
    <3> QED
      BY <1>2, <3>1, <3>2, <3>3
  <2> QED
    BY <2>1, <2>2
<1>5. ASSUME NEW c \in Callers, StopStep(c) PROVE OneActive'
  <2>1. c \in Active /\ UNCHANGED raced
    BY <1>5 DEF StopStep, StopSet, Join, CloseTransport, Active
  <2>2. \E l : Goto(c, l)
    BY <1>5 DEF StopStep, StopSet, Join, CloseTransport
  <2> QED
    BY <1>2, <2>1, <2>2
<1>6. ASSUME NEW m \in Mains, StartCheck(m) \/ ReplaceTransport(m) PROVE OneActive'
  BY <1>0, <1>1, <1>3, <1>6 DEF StartCheck, ReplaceTransport, PCs
<1>7. ASSUME NEW c \in Callers, StopCheck(c) PROVE OneActive'
  BY <1>1, <1>7 DEF StopCheck, PCs
<1>8. ASSUME NEW i \in Runs, BeatStep(i) PROVE OneActive'
  BY <1>3, <1>8 DEF BeatStep, Wait, Sent, HooksReturn
<1>9. CASE UNCHANGED vars
  BY <1>3, <1>9 DEF vars
<1> QED
  BY <1>0, <1>4, <1>5, <1>6, <1>7, <1>8, <1>9 DEF Next

Alone(c) == \A d \in Callers \ {c} : pc[d] \in {"idle", "blocked"}

LEMMA ActiveIsAlone ==
  ASSUME OneActive, ~raced, NEW c \in Callers, pc[c] \notin {"idle", "blocked"}
  PROVE  Alone(c)
BY DEF OneActive, Active, Alone

\* The only active caller moves to l: what is left to show.
LEMMA AloneKeeps ==
  ASSUME TypeInv, NEW c \in Callers, Alone(c), NEW l \in PCs, Goto(c, l),
         Live' \subseteq {heartbeat_thread'},
         l \in {"connect", "wifi", "first", "run", "clear", "make", "close"} => Live' = {},
         l \in {"clear", "make", "spawn", "ready", "stop"} => running',
         l = "join" => mine'[c] = heartbeat_thread' /\ ~running',
         ~running' /\ l # "join" => Live' = {},
         ~running' /\ transport' = "open" =>
           halfstarted' \/ l \in {"wifi", "first", "run", "join", "close"}
  PROVE  Orderly'
<1>1. pc'[c] = l /\ \A d \in Callers \ {c} : pc'[d] = pc[d]
  BY GotoTypes DEF TypeInv
<1>2. \A d \in Callers \ {c} : pc'[d] \in {"idle", "blocked"}
  BY <1>1 DEF Alone
<1> QED
  BY <1>1, <1>2 DEF Orderly

\* Nothing moves but callers outside, and heartbeat threads may end.
LEMMA QuietKeeps ==
  ASSUME Orderly, Live' \subseteq Live, UNCHANGED <<running, heartbeat_thread, mine, halfstarted>>,
         transport' \in {transport, "new"},
         \A d \in Callers : \/ pc'[d] = pc[d]
                            \/ {pc[d], pc'[d]} \subseteq {"idle", "blocked"}
  PROVE  Orderly'
<1>1. Live' \subseteq {heartbeat_thread'}
  BY DEF Orderly
<1>2. \A d \in Callers, l \in PCs \ {"idle", "blocked"} : pc'[d] = l <=> pc[d] = l
  BY DEF PCs
<1>3. \A d \in Callers :
        /\ pc'[d] \in {"connect", "wifi", "first", "run", "clear", "make", "close"} => Live' = {}
        /\ pc'[d] \in {"clear", "make", "spawn", "ready", "stop"} => running'
        /\ pc'[d] = "join" => mine'[d] = heartbeat_thread' /\ ~running'
  BY <1>2 DEF Orderly, PCs
<1>4. ~running' /\ (\A d \in Callers : pc'[d] # "join") => Live' = {}
  BY <1>2 DEF Orderly, PCs
<1>5. ~running' /\ transport' = "open" =>
        halfstarted' \/ \E d \in Callers : pc'[d] \in {"wifi", "first", "run", "join", "close"}
  BY <1>2 DEF Orderly, PCs
<1> QED
  BY <1>1, <1>3, <1>4, <1>5 DEF Orderly

LEMMA OrderlyStep ==
  ASSUME IInv, [Next]_vars, Clean'
  PROVE  Orderly'
<1> USE DEF attributes, threads, history
<1>0. /\ Mains \subseteq Callers /\ MayStop \subseteq Callers
      /\ Clean /\ Orderly /\ TypeInv /\ OneActive
  <2>1. Mains \subseteq Callers /\ MayStop \subseteq Callers
    BY DEF Callers, MayStop
  <2>2. ~raced
    <3>1. UNCHANGED raced \/ \E c : raced' = (raced \/ Active \ {c} # {})
      BY DEF Next, vars, StartStep, StopStep, BeatStep, StartCheck, ReplaceTransport, Connect, NoWifi,
             Wifi, FirstHeartbeatFails, FirstHeartbeat, SetRunning, Clear, MakeThread, Spawn, Ready, Unblock, StopCheck,
             StopSet, Join, CloseTransport, Wait, Sent, HooksReturn, PastCheck
    <3> QED
      BY <3>1 DEF Clean
  <2>3. ~abandoned /\ ~slow
    <3>1. (UNCHANGED abandoned \/ abandoned' = TRUE) /\ (UNCHANGED slow \/ slow' = TRUE)
      BY DEF Next, vars, StartStep, StopStep, BeatStep, StartCheck, ReplaceTransport, Connect, NoWifi,
             Wifi, FirstHeartbeatFails, FirstHeartbeat, SetRunning, Clear, MakeThread, Spawn, Ready, Unblock, StopCheck,
             StopSet, Join, CloseTransport, Wait, Sent, HooksReturn
    <3> QED
      BY <3>1 DEF Clean
  <2>4. Clean
    BY <2>2, <2>3 DEF Clean
  <2> QED
    BY <2>1, <2>4 DEF IInv
<1>1. ASSUME UNCHANGED beat PROVE Live' = Live
  BY <1>1 DEF Live
<1>2. ASSUME NEW c \in Callers, pc[c] \notin {"idle", "blocked"} PROVE Alone(c)
  BY <1>0, <1>2, ActiveIsAlone DEF Clean
<1>3. ASSUME NEW c \in Callers, NEW l, PastCheck(c, l) PROVE Alone(c) /\ Goto(c, l)
  BY <1>0, <1>3 DEF PastCheck, Alone, Active, Clean
<1>4. ASSUME NEW c \in Callers, Alone(c)
      PROVE  /\ ~running /\ pc[c] # "join" => Live = {}
             /\ ~running /\ transport = "open" =>
                  halfstarted \/ pc[c] \in {"wifi", "first", "run", "join", "close"}
             /\ Live \subseteq {heartbeat_thread}
             /\ pc[c] \in {"connect", "wifi", "first", "run", "clear", "make", "close"} => Live = {}
             /\ pc[c] \in {"clear", "make", "spawn", "ready", "stop"} => running
             /\ pc[c] = "join" => mine[c] = heartbeat_thread /\ ~running
  BY <1>0, <1>4 DEF Orderly, Alone
<1>5. ASSUME NEW m \in Mains, StartCheck(m) PROVE Orderly'
  <2>1. Alone(m) /\ Goto(m, "connect") /\ ~running /\ pc[m] = "idle"
        /\ UNCHANGED <<running, heartbeat_thread, transport, beat, halfstarted>>
    BY <1>0, <1>3, <1>5 DEF StartCheck
  <2> QED
    BY <1>0, <1>1, <1>4, <2>1, AloneKeeps DEF PCs
<1>6. ASSUME NEW m \in Mains, Connect(m) PROVE Orderly'
  <2>1. PICK l \in {"wifi", "idle"} : Goto(m, l) /\ (l = "idle" => UNCHANGED transport)
    BY <1>6 DEF Connect
  <2>2. pc[m] = "connect" /\ UNCHANGED <<running, heartbeat_thread, beat, halfstarted>> /\ Alone(m)
    BY <1>0, <1>2, <1>6 DEF Connect
  <2> QED
    BY <1>0, <1>1, <1>4, <2>1, <2>2, AloneKeeps DEF PCs
<1>7. ASSUME NEW m \in Mains, NoWifi(m) \/ FirstHeartbeatFails(m) PROVE Orderly'
  <2>1. /\ pc[m] \in {"wifi", "first"} /\ Goto(m, "idle") /\ halfstarted' /\ Alone(m)
        /\ UNCHANGED <<running, heartbeat_thread, transport, beat>>
    BY <1>0, <1>2, <1>7 DEF NoWifi, FirstHeartbeatFails
  <2> QED
    BY <1>0, <1>1, <1>4, <2>1, AloneKeeps DEF PCs
<1>8. ASSUME NEW m \in Mains, Wifi(m) \/ FirstHeartbeat(m) PROVE Orderly'
  <2>1. PICK l \in {"first", "run"} : Goto(m, l)
    BY <1>8 DEF Wifi, FirstHeartbeat
  <2>2. /\ pc[m] \in {"wifi", "first"} /\ Alone(m)
        /\ UNCHANGED <<running, heartbeat_thread, transport, beat, halfstarted>>
    BY <1>0, <1>2, <1>8 DEF Wifi, FirstHeartbeat
  <2> QED
    BY <1>0, <1>1, <1>4, <2>1, <2>2, AloneKeeps DEF PCs
<1>9. ASSUME NEW m \in Mains, SetRunning(m) PROVE Orderly'
  <2>1. /\ pc[m] = "run" /\ Goto(m, "clear") /\ running' /\ Alone(m)
        /\ UNCHANGED <<heartbeat_thread, transport, beat, halfstarted>>
    BY <1>0, <1>2, <1>9 DEF SetRunning
  <2> QED
    BY <1>0, <1>1, <1>4, <2>1, AloneKeeps DEF PCs
<1>10. ASSUME NEW m \in Mains, MakeThread(m) PROVE Orderly'
  <2>1. /\ pc[m] = "make" /\ Goto(m, "spawn") /\ Alone(m) /\ heartbeat_thread' = mine[m]
        /\ beat' = [beat EXCEPT ![mine[m]] = "new"]
        /\ UNCHANGED running
    BY <1>0, <1>2, <1>10 DEF MakeThread
  <2>2. Live = {} /\ running
    BY <1>0, <1>4, <2>1
  <2>3. Live' \subseteq {mine[m]}
    BY <1>0, <2>1, <2>2 DEF Live, TypeInv, TypeOK
  <2> QED
    BY <1>0, <2>1, <2>2, <2>3, AloneKeeps DEF PCs
<1>10a. ASSUME NEW m \in Mains, Clear(m) PROVE Orderly'
  <2>1. /\ pc[m] = "clear" /\ Goto(m, "make") /\ Alone(m)
        /\ UNCHANGED <<running, heartbeat_thread, transport, beat, halfstarted>>
    BY <1>0, <1>2, <1>10a DEF Clear
  <2> QED
    BY <1>0, <1>1, <1>4, <2>1, AloneKeeps DEF PCs
<1>10b. ASSUME NEW m \in Mains, Spawn(m) PROVE Orderly'
  <2>1. PICK l \in {"ready", "idle"} : Goto(m, l)
    BY <1>10b DEF Spawn
  <2>2. /\ pc[m] = "spawn" /\ Alone(m) /\ running
        /\ UNCHANGED <<running, heartbeat_thread, transport, halfstarted>>
    BY <1>0, <1>2, <1>4, <1>10b DEF Spawn
  <2>3. Live' \subseteq Live
    BY <1>0, <1>10b DEF Spawn, Live, TypeInv, TypeOK
  <2>4. Live' \subseteq {heartbeat_thread'}
    BY <1>0, <2>2, <2>3 DEF Orderly
  <2> QED
    BY <1>0, <2>1, <2>2, <2>4, AloneKeeps DEF PCs
<1>11. ASSUME NEW m \in Mains, Ready(m) PROVE Orderly'
  <2>1. PICK l \in {"idle", "blocked"} : Goto(m, l)
    BY <1>11 DEF Ready
  <2>2. /\ pc[m] = "ready" /\ Alone(m)
        /\ UNCHANGED <<running, heartbeat_thread, transport, beat, halfstarted>>
    BY <1>0, <1>2, <1>11 DEF Ready
  <2> QED
    BY <1>0, <1>1, <1>4, <2>1, <2>2, AloneKeeps DEF PCs
<1>12. ASSUME NEW c \in Callers, StopCheck(c) PROVE Orderly'
  <2>1. Alone(c) /\ Goto(c, "stop") /\ running /\ pc[c] \in {"idle", "blocked", "ready"}
        /\ UNCHANGED <<running, heartbeat_thread, transport, beat, halfstarted>>
    BY <1>0, <1>3, <1>12 DEF StopCheck
  <2> QED
    BY <1>0, <1>1, <1>4, <2>1, AloneKeeps DEF PCs
<1>13. ASSUME NEW c \in Callers, StopSet(c) PROVE Orderly'
  <2>1. /\ pc[c] = "stop" /\ Goto(c, "join") /\ Alone(c) /\ running' = FALSE
        /\ mine' = [mine EXCEPT ![c] = heartbeat_thread]
        /\ UNCHANGED <<heartbeat_thread, transport, beat, halfstarted>>
    BY <1>0, <1>2, <1>13 DEF StopSet
  <2>2. mine'[c] = heartbeat_thread
    BY <1>0, <2>1 DEF TypeInv, TypeOK
  <2> QED
    BY <1>0, <1>1, <1>4, <2>1, <2>2, AloneKeeps DEF PCs
<1>14. ASSUME NEW c \in Callers, Join(c) PROVE Orderly'
  <2>0. pc[c] = "join" /\ Alone(c) /\ mine[c] = heartbeat_thread
    BY <1>0, <1>2, <1>14 DEF Join, Orderly
  <2>1. /\ Goto(c, "close") /\ heartbeat_thread' = 0
        /\ mine[c] \notin {i \in Runs : beat[i] # "done"}
        /\ UNCHANGED <<running, transport, beat, halfstarted>>
    BY <1>14, <2>0 DEF Join, Clean
  <2>2. Live = {}
    BY <1>4, <2>0, <2>1 DEF Live
  <2> QED
    BY <1>0, <1>1, <1>4, <2>0, <2>1, <2>2, AloneKeeps DEF PCs
<1>15. ASSUME NEW c \in Callers, CloseTransport(c) PROVE Orderly'
  <2>1. /\ pc[c] = "close" /\ Goto(c, "idle") /\ Alone(c) /\ transport' = "closed"
        /\ UNCHANGED <<running, heartbeat_thread, beat>>
    BY <1>0, <1>2, <1>15 DEF CloseTransport
  <2> QED
    BY <1>0, <1>1, <1>4, <2>1, AloneKeeps DEF PCs
<1>16. ASSUME NEW m \in Mains, Unblock(m) \/ ReplaceTransport(m) PROVE Orderly'
  <2>1. /\ \A d \in Callers : pc'[d] = pc[d] \/ {pc[d], pc'[d]} \subseteq {"idle", "blocked"}
        /\ UNCHANGED <<running, heartbeat_thread, mine, halfstarted, beat>>
        /\ transport' \in {transport, "new"}
    BY <1>0, <1>16 DEF Unblock, ReplaceTransport, Goto, TypeInv, TypeOK
  <2> QED
    BY <1>0, <1>1, <2>1, QuietKeeps
<1>17. ASSUME NEW i \in Runs, BeatStep(i) PROVE Orderly'
  <2>1. UNCHANGED <<pc, running, heartbeat_thread, mine, halfstarted, transport>>
    BY <1>17 DEF BeatStep, Wait, Sent, HooksReturn
  <2>2. Live' \subseteq Live
    BY <1>0, <1>17 DEF BeatStep, Wait, Sent, HooksReturn, Live, TypeInv, TypeOK
  <2> QED
    BY <1>0, <2>1, <2>2, QuietKeeps
<1>18. CASE UNCHANGED vars
  BY <1>0, <1>1, <1>18, QuietKeeps DEF vars
<1> QED
  BY <1>0, <1>5, <1>6, <1>7, <1>8, <1>9, <1>10, <1>11, <1>12, <1>13, <1>14, <1>15, <1>16,
     <1>17, <1>18, <1>10a, <1>10b DEF Next, StartStep, StopStep

LEMMA InitHolds == Init => IInv
<1> SUFFICES ASSUME Init PROVE IInv
  OBVIOUS
<1>1. TypeInv
  BY TypeInit
<1>2. Active = {} /\ Live = {}
  BY DEF Init, Active, Live
<1> QED
  BY <1>1, <1>2 DEF Init, IInv, OneActive, Orderly

\* A stopped device has no heartbeat thread left, of this run or an earlier one, and
\* its transport is not open, whatever start()s failed and whoever stopped it, as
\* long as no two of the calls ran at once, none stopped itself and none timed out.
THEOREM StoppedIsReleased == Spec => []StoppedMeansReleased
<1>1. IInv /\ [Next]_vars => IInv'
  BY TypeStep, OneActiveStep, OrderlyStep DEF IInv
<1>2. IInv => StoppedMeansReleased
  BY DEF IInv, TypeInv, TypeOK, Clean, Orderly, Active, Live, StoppedMeansReleased
<1> QED
  BY <1>1, <1>2, InitHolds, PTL DEF Spec
=============================================================================
