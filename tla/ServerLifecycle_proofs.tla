----------------------- MODULE ServerLifecycle_proofs -----------------------
(* Theorems about ServerLifecycle, for any threads and any bounds. *)
EXTENDS ServerLifecycle, FiniteSetTheorems, TLAPS

-----------------------------------------------------------------------------
(* Types. *)

\* A request that is being handled has the number of an accepted one.
Numbered == \A h \in Handlers : request[h] # "idle" => event[h] \in 1..MaxRequests

\* A checker enters an iteration within its bound.
Bounded == \A i \in Runs : checker[i] = "mark" => marks[i] < MaxMarks

TypeInv == TypeOK /\ Numbered /\ Bounded

LEMMA TypeInit == Init => TypeInv
<1> SUFFICES ASSUME Init PROVE TypeInv
  OBVIOUS
<1>1. 0 \in 0..MaxStarts /\ 0 \in 0..MaxMarks /\ 0 \in 0..MaxRequests
  BY LifecycleBoundsAssumption
<1>2. TypeOK
  BY <1>1 DEF Init, TypeOK
<1>3. Numbered /\ Bounded
  BY DEF Init, Numbered, Bounded
<1> QED
  BY <1>2, <1>3 DEF TypeInv

\* What the actions of start() and stop() have in common: they leave the requests alone.
LEMMA StartStepTyped ==
  ASSUME TypeInv, NEW m \in Mains,
         StartCheck(m) \/ ReplaceStorage(m) \/ BindFails(m) \/ Interrupt(m) \/ StartStep(m)
  PROVE  TypeInv'
<1> USE LifecycleBoundsAssumption
    DEF TypeInv, TypeOK, Numbered, Bounded, attributes, threads, requests, Runs, Goto, PastCheck
<1>0. m \in Callers
  BY DEF Callers
<1>1. CASE StartCheck(m)
  BY <1>0, <1>1 DEF StartCheck
<1>2. CASE ReplaceStorage(m)
  BY <1>0, <1>2 DEF ReplaceStorage
<1>3. CASE BindFails(m)
  BY <1>0, <1>3 DEF BindFails
<1>4. CASE Interrupt(m)
  BY <1>0, <1>4 DEF Interrupt
<1>5. CASE SetRunning(m)
  <2>1. /\ starts' \in 0..MaxStarts /\ running' = TRUE /\ storage' \in {"new", "open", "closed"}
        /\ mine' = [mine EXCEPT ![m] = starts'] /\ pc' = [pc EXCEPT ![m] = "clear"]
    BY <1>5 DEF SetRunning
  <2>2. UNCHANGED <<stop_event, httpd, timeout_thread, socket, serve, shutdown, checker, marks,
                    requests, raced, abandoned, slow>>
    BY <1>5 DEF SetRunning
  <2> QED
    BY <1>0, <2>1, <2>2
<1>10. CASE StartChecker(m)
  <2>1. /\ timeout_thread' = mine[m] /\ stop_event' = "clear" /\ pc' = [pc EXCEPT ![m] = "bind"]
        /\ checker' = [checker EXCEPT ![mine[m]] = "test"]
    BY <1>10 DEF StartChecker
  <2>2. UNCHANGED <<running, httpd, storage, starts, socket, serve, shutdown, marks, mine, requests,
                    raced, abandoned, slow>>
    BY <1>10 DEF StartChecker
  <2>3. checker' \in [Runs -> {"none", "test", "mark", "hook", "done"}]
    BY <2>1
  <2>4. timeout_thread' \in 0..MaxStarts
    BY <1>0, <2>1
  <2>5. Bounded'
    BY <2>1, <2>2
  <2> QED
    BY <1>0, <2>1, <2>2, <2>3, <2>4, <2>5
<1>6. CASE Bind(m)
  <2>1. mine[m] \in 0..MaxStarts
    BY <1>0
  <2>2. socket' \in [Runs -> {"none", "open", "closed"}]
    BY <1>6 DEF Bind
  <2>3. UNCHANGED <<running, stop_event, timeout_thread, storage, starts, serve, shutdown,
                    checker, marks, mine, requests, raced, abandoned, slow>>
    BY <1>6 DEF Bind
  <2>4. pc' = [pc EXCEPT ![m] = "serve"] /\ httpd' = mine[m]
    BY <1>6 DEF Bind
  <2> QED
    BY <1>0, <2>1, <2>2, <2>3, <2>4
<1>7. CASE ServeInThread(m)
  BY <1>0, <1>7 DEF ServeInThread
<1>8. CASE ServeHere(m)
  BY <1>0, <1>8 DEF ServeHere
<1>9. CASE Unblock(m)
  BY <1>0, <1>9 DEF Unblock
<1> QED
  BY <1>1, <1>2, <1>3, <1>4, <1>5, <1>6, <1>7, <1>8, <1>9, <1>10 DEF StartStep

LEMMA StopStepTyped ==
  ASSUME TypeInv, NEW c \in Callers, StopCheck(c) \/ StopStep(c)
  PROVE  TypeInv'
<1> USE LifecycleBoundsAssumption
    DEF TypeInv, TypeOK, Numbered, Bounded, attributes, threads, requests, Runs, Goto, PastCheck
<1>1. CASE StopCheck(c)
  BY <1>1 DEF StopCheck
<1>2. CASE StopSet(c)
  BY <1>2 DEF StopSet
<1>3. CASE Shutdown(c)
  <2>0. httpd # 0 => httpd \in 1..MaxStarts
    OBVIOUS
  <2>5. shutdown' \in {shutdown, shutdown \cup {httpd}} /\ (httpd = 0 => shutdown' = shutdown)
    BY <1>3 DEF Shutdown
  <2>6. mine' \in {mine, [mine EXCEPT ![c] = httpd]}
    BY <1>3 DEF Shutdown
  <2>7. shutdown' \subseteq Runs
    BY <2>0, <2>5
  <2>8. mine' \in [Callers -> 0..MaxStarts]
    BY <2>6
  <2>1. shutdown' \subseteq Runs /\ mine' \in [Callers -> 0..MaxStarts]
    BY <2>7, <2>8
  <2>2. UNCHANGED <<attributes, starts, socket, serve, checker, marks, requests, raced, slow>>
    BY <1>3 DEF Shutdown
  <2>3. abandoned' \in BOOLEAN
    BY <1>3 DEF Shutdown
  <2>4. pc' \in {[pc EXCEPT ![c] = "idle"], [pc EXCEPT ![c] = "closing"]}
    BY <1>3 DEF Shutdown
  <2> QED
    BY <2>1, <2>2, <2>3, <2>4
<1>4. CASE ServerClose(c)
  <2>1. socket' \in [Runs -> {"none", "open", "closed"}] /\ httpd' = 0
    BY <1>4 DEF ServerClose
  <2>2. UNCHANGED <<running, stop_event, timeout_thread, storage, starts, serve, shutdown,
                    checker, marks, mine, requests, raced, slow>>
    BY <1>4 DEF ServerClose
  <2>3. abandoned' \in BOOLEAN
    BY <1>4 DEF ServerClose
  <2>4. pc' \in {[pc EXCEPT ![c] = "idle"], [pc EXCEPT ![c] = "join"]}
    BY <1>4 DEF ServerClose
  <2>7. pc' \in [Callers -> {"idle", "start", "clear", "bind", "serve", "blocked",
                              "stop", "shutdown", "closing", "join", "close"}]
    BY <2>4
  <2>8. httpd' \in 0..MaxStarts
    BY <2>1
  <2>5. TypeOK'
    BY <2>1, <2>2, <2>3, <2>7, <2>8
  <2>6. Numbered' /\ Bounded'
    BY <2>2
  <2> QED
    BY <2>5, <2>6
<1>5. CASE Join(c)
  <2>1. timeout_thread' \in {0, timeout_thread}
    BY <1>5 DEF Join
  <2>2. UNCHANGED <<running, stop_event, httpd, storage, threads, mine, requests, raced>>
    BY <1>5 DEF Join
  <2>3. abandoned' \in BOOLEAN /\ slow' \in BOOLEAN
    BY <1>5 DEF Join
  <2>4. pc' \in {[pc EXCEPT ![c] = "idle"], [pc EXCEPT ![c] = "close"]}
    BY <1>5 DEF Join
  <2>5. pc' \in [Callers -> {"idle", "start", "clear", "bind", "serve", "blocked",
                              "stop", "shutdown", "closing", "join", "close"}]
    BY <2>4
  <2>6. timeout_thread' \in 0..MaxStarts
    BY <2>1
  <2>7. TypeOK'
    BY <2>2, <2>3, <2>5, <2>6
  <2>8. Numbered' /\ Bounded'
    BY <2>2
  <2> QED
    BY <2>7, <2>8
<1>6. CASE CloseStorage(c)
  BY <1>6 DEF CloseStorage
<1> QED
  BY <1>1, <1>2, <1>3, <1>4, <1>5, <1>6 DEF StopStep

LEMMA OneMore ==
  ASSUME NEW k \in 0..MaxMarks, k < MaxMarks
  PROVE  k + 1 \in 0..MaxMarks
<1>1. MaxMarks \in Nat
  BY LifecycleBoundsAssumption
<1> QED
  BY <1>1

LEMMA ThreadStepTyped ==
  ASSUME TypeInv, NEW i \in Runs, ThreadStep(i)
  PROVE  TypeInv'
<1> USE LifecycleBoundsAssumption
    DEF TypeInv, TypeOK, Numbered, Bounded, attributes, threads, requests, Runs
<1>1. CASE ServeEnds(i)
  BY <1>1 DEF ServeEnds
<1>2. CASE CheckStopEvent(i)
  BY <1>2 DEF CheckStopEvent
<1>3. CASE Mark(i)
  <2>0. marks[i] \in 0..MaxMarks /\ marks[i] < MaxMarks
    BY <1>3 DEF Mark
  <2>1. marks[i] + 1 \in 0..MaxMarks
    BY <2>0, OneMore
  <2>2. marks' \in [Runs -> 0..MaxMarks]
    BY <1>3, <2>1 DEF Mark
  <2>3. checker' \in {[checker EXCEPT ![i] = "test"], [checker EXCEPT ![i] = "hook"]}
    BY <1>3 DEF Mark
  <2>4. \A j \in Runs : checker'[j] = "mark" => checker[j] = "mark" /\ marks'[j] = marks[j]
    BY <1>3, <2>3 DEF Mark
  <2> QED
    BY <1>3, <2>2, <2>3, <2>4 DEF Mark
<1>4. CASE HooksReturn(i)
  BY <1>4 DEF HooksReturn
<1> QED
  BY <1>1, <1>2, <1>3, <1>4 DEF ThreadStep

LEMMA RequestStepTyped ==
  ASSUME TypeInv, NEW h \in Handlers,
         (\E i \in Runs : Accept(i, h)) \/ Save(h) \/ Answer(h)
  PROVE  TypeInv'
<1> USE LifecycleBoundsAssumption
    DEF TypeInv, TypeOK, Numbered, Bounded, attributes, threads, requests
<1>1. ASSUME NEW i \in Runs, Accept(i, h) PROVE TypeInv'
  BY <1>1 DEF Accept
<1>2. CASE Save(h)
  BY <1>2 DEF Save, Inserted
<1>3. CASE Answer(h)
  BY <1>3 DEF Answer
<1> QED
  BY <1>1, <1>2, <1>3

LEMMA TypeStep == TypeInv /\ [Next]_vars => TypeInv'
<1> SUFFICES ASSUME TypeInv, [Next]_vars PROVE TypeInv'
  OBVIOUS
<1>1. CASE Next
  <2>1. MayStop \subseteq Callers
    BY DEF MayStop, Callers, Checkers
  <2> QED
    BY <1>1, <2>1, StartStepTyped, StopStepTyped, ThreadStepTyped, RequestStepTyped DEF Next
<1>2. CASE UNCHANGED vars
  BY <1>2 DEF vars, attributes, threads, requests, TypeInv, TypeOK, Numbered, Bounded
<1> QED
  BY <1>1, <1>2

\* Every variable keeps its type.
THEOREM TypeCorrect == Spec => []TypeOK
<1>1. TypeInv => TypeOK
  BY DEF TypeInv
<1> QED
  BY <1>1, TypeInit, TypeStep, PTL DEF Spec

-----------------------------------------------------------------------------
(* A report answered with 200 is stored. *)

\* A request whose hooks are running has its row, whatever stop() has closed since.
HookedIsStored == \A h \in Handlers : request[h] = "hook" => event[h] \in stored

StoredInv == HookedIsStored /\ AnsweredIsStored

\* Only the request threads write the log and read it.
LEMMA RequestsLeftAlone ==
  ASSUME [Next]_vars
  PROVE  \/ UNCHANGED requests
         \/ \E i \in Runs, h \in Handlers : Accept(i, h)
         \/ \E h \in Handlers : Save(h) \/ Answer(h)
BY DEF Next, StartStep, StopStep, ThreadStep, StartCheck, SetRunning, StartChecker, Bind, BindFails,
       ServeInThread, ServeHere, Unblock, Interrupt, ReplaceStorage, StopCheck, StopSet,
       Shutdown, ServerClose, Join, CloseStorage, ServeEnds, CheckStopEvent, Mark,
       HooksReturn, vars

LEMMA StoredStep == TypeInv /\ StoredInv /\ [Next]_vars => StoredInv'
<1> SUFFICES ASSUME TypeInv, StoredInv, [Next]_vars PROVE StoredInv'
  OBVIOUS
<1> USE DEF StoredInv, HookedIsStored, AnsweredIsStored
<1>0. request \in [Handlers -> {"idle", "save", "hook"}] /\ event \in [Handlers -> 0..MaxRequests]
  BY DEF TypeInv, TypeOK
<1>1. CASE UNCHANGED requests
  BY <1>1 DEF requests
<1>2. ASSUME NEW i \in Runs, NEW h \in Handlers, Accept(i, h) PROVE StoredInv'
  BY <1>0, <1>2 DEF Accept
<1>3. ASSUME NEW h \in Handlers, Save(h) PROVE StoredInv'
  BY <1>0, <1>3 DEF Save, Inserted
<1>4. ASSUME NEW h \in Handlers, Answer(h) PROVE StoredInv'
  BY <1>0, <1>4 DEF Answer
<1> QED
  BY <1>1, <1>2, <1>3, <1>4, RequestsLeftAlone

\* A report answered with 200 is in the store, however often the server is started and
\* stopped and its storage closed under the request threads.
THEOREM AnsweredReportsAreStored == Spec => []AnsweredIsStored
<1>1. Init => StoredInv
  BY DEF Init, StoredInv, HookedIsStored, AnsweredIsStored
<1>2. StoredInv => AnsweredIsStored
  BY DEF StoredInv
<1> QED
  BY <1>1, <1>2, StoredStep, TypeInit, TypeStep, PTL DEF Spec

-----------------------------------------------------------------------------
(* One call of start() or stop() at a time. *)

AtMostOne(S) == \A x, y \in S : x = y

\* At most one call is in progress, unless two ever were.
OneActive == ~raced => AtMostOne(Active)

Clean == ~raced /\ ~abandoned

Live(i) == checker[i] \notin {"none", "done"}

\* What one call at a time finds: everything that runs is what the server's attributes
\* name, but for checkers that a join gave up on ...
Named ==
  \A i \in Runs : /\ socket[i] = "open" => i = httpd
                  /\ serve[i] = "loop" => i = httpd
                  /\ Live(i) => slow \/ i = timeout_thread
\* ... the attributes say how far the call is, ...
Place(c) ==
  /\ pc[c] \in {"clear", "bind", "serve"} => running
  /\ pc[c] \in {"start", "clear", "bind", "join", "close"} => httpd = 0
  /\ pc[c] \in {"start", "clear", "close"} => timeout_thread = 0
  /\ pc[c] \in {"clear", "bind", "serve"} => mine[c] # 0
  /\ pc[c] = "serve" => httpd = mine[c]
  /\ pc[c] = "closing" => httpd = mine[c]
\* ... and between calls a server that does not run names nothing.
Released == ~running /\ Active = {} => httpd = 0 /\ timeout_thread = 0 /\ storage # "open"
Orderly == Named /\ (\A c \in Callers : Place(c)) /\ Released

CleanInv == Clean => Orderly

Alone(c) == \A d \in Callers : d # c => pc[d] \in {"idle", "blocked"}

LEMMA Types ==
  ASSUME TypeInv
  PROVE  /\ pc \in [Callers -> {"idle", "start", "clear", "bind", "serve", "blocked", "stop", "shutdown",
                                "closing", "join", "close"}]
         /\ mine \in [Callers -> 0..MaxStarts] /\ raced \in BOOLEAN
         /\ abandoned \in BOOLEAN /\ slow \in BOOLEAN
         /\ socket \in [Runs -> {"none", "open", "closed"}]
         /\ serve \in [Runs -> {"none", "loop", "done"}]
         /\ checker \in [Runs -> {"none", "test", "mark", "hook", "done"}]
         /\ starts \in Nat /\ 0 \notin Runs
BY LifecycleBoundsAssumption DEF TypeInv, TypeOK, Runs

LEMMA MainsAndMayStop == Mains \subseteq Callers /\ MayStop \subseteq Callers
BY DEF MayStop, Callers, Checkers

\* Who is past its check, when nobody else was.
LEMMA Checked ==
  ASSUME TypeInv, NEW c \in Callers, NEW l \in {"start", "stop"}, PastCheck(c, l)
  PROVE  /\ pc'[c] = l /\ \A d \in Callers : d # c => pc'[d] = pc[d]
         /\ raced => raced'
         /\ ~raced' => Alone(c)
<1>1. pc' = [pc EXCEPT ![c] = l] /\ raced' = (raced \/ Active \ {c} # {})
  BY DEF PastCheck, Goto
<1>2. ASSUME ~raced' PROVE Alone(c)
  <2>1. Active \ {c} = {}
    BY <1>1, <1>2
  <2> QED
    BY <2>1 DEF Active, Alone
<1> QED
  BY <1>1, <1>2, Types

\* Every other step leaves the callers alone that are not in progress.
LEMMA OthersStay ==
  ASSUME TypeInv, [Next]_vars
  PROVE  \/ \E c \in Callers, l \in {"start", "stop"} : PastCheck(c, l)
         \/ raced' = raced /\ Active' \subseteq Active
<1>1. ASSUME NEW m \in Mains, StartCheck(m) \/ (Unblock(m) /\ running)
      PROVE  \E c \in Callers, l \in {"start", "stop"} : PastCheck(c, l)
  BY <1>1, MainsAndMayStop DEF StartCheck, Unblock
<1>2. ASSUME NEW c \in Callers, StopCheck(c) PROVE PastCheck(c, "stop")
  BY <1>2 DEF StopCheck
<1>3. ASSUME NEW m \in Mains,
             \/ ReplaceStorage(m) \/ BindFails(m) \/ Interrupt(m)
             \/ SetRunning(m) \/ StartChecker(m) \/ Bind(m) \/ ServeInThread(m) \/ ServeHere(m)
             \/ (Unblock(m) /\ ~running)
      PROVE  raced' = raced /\ Active' \subseteq Active
  BY <1>3, Types DEF ReplaceStorage, BindFails, Interrupt, SetRunning, StartChecker, Bind, ServeInThread,
     ServeHere, Unblock, Goto, Active
<1>4. ASSUME NEW c \in Callers, StopStep(c)
      PROVE  raced' = raced /\ Active' \subseteq Active
  BY <1>4, Types DEF StopStep, StopSet, Shutdown, ServerClose, Join, CloseStorage, Goto, Active
<1>5. ASSUME NEW i \in Runs, ThreadStep(i)
      PROVE  raced' = raced /\ Active' \subseteq Active
  BY <1>5 DEF ThreadStep, ServeEnds, CheckStopEvent, Mark, HooksReturn, Active
<1>6. ASSUME NEW h \in Handlers, (\E i \in Runs : Accept(i, h)) \/ Save(h) \/ Answer(h)
      PROVE  raced' = raced /\ Active' \subseteq Active
  BY <1>6 DEF Accept, Save, Answer, Active
<1>7. CASE UNCHANGED vars
  BY <1>7 DEF vars, Active
<1>8. ASSUME NEW m \in Mains, StartStep(m)
      PROVE  \/ \E c \in Callers, l \in {"start", "stop"} : PastCheck(c, l)
             \/ raced' = raced /\ Active' \subseteq Active
  BY <1>1, <1>3, <1>8 DEF StartStep
<1> QED
  BY <1>1, <1>2, <1>3, <1>4, <1>5, <1>6, <1>7, <1>8, MainsAndMayStop DEF Next

LEMMA OneActiveStep == TypeInv /\ OneActive /\ [Next]_vars => OneActive'
<1> SUFFICES ASSUME TypeInv, OneActive, [Next]_vars, ~raced' PROVE AtMostOne(Active)'
  BY DEF OneActive
<1>1. ASSUME NEW c \in Callers, NEW l \in {"start", "stop"}, PastCheck(c, l)
      PROVE  AtMostOne(Active)'
  BY <1>1, Checked DEF Alone, Active, AtMostOne
<1>2. CASE raced' = raced /\ Active' \subseteq Active
  BY <1>2 DEF OneActive, AtMostOne
<1> QED
  BY <1>1, <1>2, OthersStay

\* The histories only grow.
LEMMA CleanBefore == TypeInv /\ [Next]_vars /\ Clean' => Clean
<1> SUFFICES ASSUME TypeInv, [Next]_vars, Clean' PROVE Clean
  OBVIOUS
<1>1. ~raced
  <2>1. ASSUME NEW c \in Callers, NEW l \in {"start", "stop"}, PastCheck(c, l) PROVE ~raced
    BY <2>1, Checked DEF Clean
  <2> QED
    BY <2>1, OthersStay DEF Clean
<1>2. ~abandoned
  <2>1. \/ abandoned' = abandoned \/ abandoned' = TRUE
        \/ abandoned' = (abandoned \/ httpd = 0)
    BY DEF Next, vars, StartStep, StopStep, ThreadStep, StartCheck, ReplaceStorage, BindFails, Interrupt,
       SetRunning, StartChecker, Bind, ServeInThread, ServeHere, Unblock, StopCheck, StopSet, Shutdown,
       ServerClose, Join, CloseStorage, ServeEnds, CheckStopEvent, Mark, HooksReturn, Accept, Save, Answer
  <2> QED
    BY <2>1, Types DEF Clean
<1> QED
  BY <1>1, <1>2 DEF Clean

\* Nobody else is in progress: what is left to show of the caller that moves.
LEMMA AloneKeeps ==
  ASSUME NEW c \in Callers, Alone(c), \A d \in Callers : d # c => pc'[d] = pc[d],
         Named', Place(c)',
         ~running' /\ pc'[c] \in {"idle", "blocked"} =>
           httpd' = 0 /\ timeout_thread' = 0 /\ storage' # "open"
  PROVE  Orderly'
<1>1. \A d \in Callers : d # c => pc'[d] \in {"idle", "blocked"}
  BY DEF Alone
<1>2. \A d \in Callers : d # c => Place(d)'
  BY <1>1 DEF Place
<1>3. Released'
  BY DEF Released, Active
<1> QED
  BY <1>2, <1>3 DEF Orderly

\* A step that leaves the calls and the attributes as they are, and starts nothing.
LEMMA QuietKeeps ==
  ASSUME Orderly, UNCHANGED <<running, httpd, timeout_thread, pc, mine, slow>>,
         running \/ storage' \in {storage, "new"},
         \A i \in Runs : /\ socket'[i] = "open" => socket[i] = "open"
                         /\ serve'[i] = "loop" => serve[i] = "loop"
                         /\ Live(i)' => Live(i)
  PROVE  Orderly'
<1>1. Named'
  BY DEF Orderly, Named
<1>2. \A c \in Callers : Place(c)'
  BY DEF Orderly, Place
<1>3. Released'
  BY DEF Orderly, Released, Active
<1> QED
  BY <1>1, <1>2, <1>3 DEF Orderly

LEMMA StartOrderly ==
  ASSUME TypeInv, OneActive, Orderly, Clean, Clean', NEW m \in Mains,
         StartCheck(m) \/ ReplaceStorage(m) \/ BindFails(m) \/ Interrupt(m) \/ StartStep(m)
  PROVE  Orderly'
<1>0. m \in Callers
  BY MainsAndMayStop
<1>1. Named /\ Place(m) /\ Released
  BY <1>0 DEF Orderly
<1>2. pc[m] \notin {"idle", "blocked"} => Alone(m)
  BY <1>0 DEF OneActive, AtMostOne, Active, Alone, Clean
<1>3. CASE StartCheck(m)
  <2>1. /\ Alone(m) /\ pc'[m] = "start" /\ \A d \in Callers : d # m => pc'[d] = pc[d]
    BY <1>0, <1>3, Checked DEF StartCheck, Clean
  <2>2. UNCHANGED <<running, httpd, timeout_thread, socket, serve, checker, mine, slow>>
        /\ pc[m] = "idle" /\ ~running
    BY <1>3 DEF StartCheck, attributes, threads
  <2>3. Active = {}
    BY <2>1, <2>2 DEF Alone, Active
  <2>4. Named' /\ Place(m)'
    BY <1>1, <2>1, <2>2, <2>3 DEF Named, Place, Released, Live
  <2> QED
    BY <1>0, <2>1, <2>4, AloneKeeps
<1>4. CASE ReplaceStorage(m)
  BY <1>4, QuietKeeps DEF ReplaceStorage, threads, Live
<1>5. CASE Interrupt(m)
  BY <1>5, Types, QuietKeeps DEF Interrupt, attributes, Live
<1>6. CASE BindFails(m)
  <2>1. /\ pc[m] = "bind" /\ Alone(m) /\ pc'[m] = "idle" /\ \A d \in Callers : d # m => pc'[d] = pc[d]
    BY <1>0, <1>2, <1>6, Types DEF BindFails, Goto
  <2>2. UNCHANGED <<running, httpd, timeout_thread, socket, serve, checker, mine, slow>>
    BY <1>6 DEF BindFails, attributes, threads
  <2>3. Named' /\ Place(m)' /\ running'
    BY <1>1, <2>1, <2>2 DEF Named, Place, Live
  <2> QED
    BY <1>0, <2>1, <2>3, AloneKeeps
<1>7. CASE SetRunning(m)
  <2>1. /\ pc[m] = "start" /\ Alone(m) /\ pc'[m] = "clear"
        /\ \A d \in Callers : d # m => pc'[d] = pc[d]
    BY <1>0, <1>2, <1>7, Types DEF SetRunning, Goto
  <2>2. /\ UNCHANGED <<httpd, timeout_thread, socket, serve, checker, slow>> /\ running'
        /\ mine'[m] # 0
    BY <1>0, <1>7, Types DEF SetRunning
  <2>3. httpd = 0 /\ timeout_thread = 0
    BY <1>1, <2>1 DEF Place
  <2>4. Named' /\ Place(m)'
    BY <1>1, <2>1, <2>2, <2>3 DEF Named, Place, Live
  <2> QED
    BY <1>0, <2>1, <2>2, <2>4, AloneKeeps
<1>11. CASE StartChecker(m)
  <2>1. /\ pc[m] = "clear" /\ Alone(m) /\ pc'[m] = "bind"
        /\ \A d \in Callers : d # m => pc'[d] = pc[d]
    BY <1>0, <1>2, <1>11, Types DEF StartChecker, Goto
  <2>2. /\ UNCHANGED <<running, httpd, socket, serve, mine, slow>>
        /\ checker' = [checker EXCEPT ![mine[m]] = "test"] /\ timeout_thread' = mine[m]
    BY <1>11 DEF StartChecker
  <2>3. httpd = 0 /\ timeout_thread = 0 /\ running /\ mine[m] # 0
    BY <1>1, <2>1 DEF Place
  <2>4. \A i \in Runs : Live(i)' => Live(i) \/ i = mine[m]
    BY <2>2, Types DEF Live
  <2>5. Named'
    BY <1>1, <2>2, <2>3, <2>4, Types DEF Named
  <2>6. Place(m)'
    BY <2>1, <2>2, <2>3 DEF Place
  <2> QED
    BY <1>0, <2>1, <2>2, <2>3, <2>5, <2>6, AloneKeeps
<1>8. CASE Bind(m)
  <2>1. /\ pc[m] = "bind" /\ Alone(m) /\ pc'[m] = "serve"
        /\ \A d \in Callers : d # m => pc'[d] = pc[d]
    BY <1>0, <1>2, <1>8, Types DEF Bind, Goto
  <2>2. /\ UNCHANGED <<running, timeout_thread, serve, checker, mine, slow>>
        /\ socket' = [socket EXCEPT ![mine[m]] = "open"] /\ httpd' = mine[m]
    BY <1>8 DEF Bind
  <2>3. httpd = 0 /\ running
    BY <1>1, <2>1 DEF Place
  <2>4. mine[m] # 0
    BY <1>1, <2>1 DEF Place
  <2>5. Named'
    BY <1>1, <2>2, <2>3, Types DEF Named, Live
  <2>6. Place(m)'
    BY <2>1, <2>2, <2>3, <2>4 DEF Place
  <2> QED
    BY <1>0, <2>1, <2>2, <2>3, <2>5, <2>6, AloneKeeps
<1>9. CASE ServeInThread(m) \/ ServeHere(m)
  <2>1. /\ pc[m] = "serve" /\ Alone(m) /\ pc'[m] \in {"idle", "blocked"}
        /\ \A d \in Callers : d # m => pc'[d] = pc[d]
    BY <1>0, <1>2, <1>9, Types DEF ServeInThread, ServeHere, Goto
  <2>2. /\ UNCHANGED <<running, httpd, timeout_thread, socket, checker, slow>>
        /\ serve' = serve \/ serve' = [serve EXCEPT ![httpd] = "loop"]
    BY <1>9 DEF ServeInThread, ServeHere, attributes
  <2>3. Named' /\ Place(m)' /\ running'
    BY <1>1, <2>1, <2>2, Types DEF Named, Place, Live
  <2> QED
    BY <1>0, <2>1, <2>3, AloneKeeps
<1>10. CASE Unblock(m)
  <2>1. /\ UNCHANGED <<running, httpd, timeout_thread, storage, socket, serve, checker, mine, slow>>
        /\ pc[m] = "blocked"
    BY <1>1, <1>10 DEF Unblock, attributes, threads, Place
  <2>2. CASE running
    <3>1. /\ Alone(m) /\ pc'[m] = "stop" /\ \A d \in Callers : d # m => pc'[d] = pc[d]
      BY <1>0, <1>10, <2>2, Checked DEF Unblock, Clean
    <3>2. Named' /\ Place(m)'
      BY <1>1, <2>1, <3>1 DEF Named, Place, Live
    <3> QED
      BY <1>0, <3>1, <3>2, AloneKeeps
  <2>3. CASE ~running
    <3>1. pc' = [pc EXCEPT ![m] = "idle"]
      BY <1>10, <2>3 DEF Unblock, Goto
    <3>2. Active' = Active
      BY <1>0, <2>1, <3>1, Types DEF Active
    <3>3. Named' /\ Released'
      BY <1>1, <2>1, <3>2 DEF Named, Released, Live
    <3>4. ASSUME NEW c \in Callers PROVE Place(c)'
      <4>1. pc'[c] = pc[c] \/ pc'[c] = "idle"
        BY <1>0, <3>1, Types
      <4>2. Place(c)
        BY DEF Orderly
      <4> QED
        BY <2>1, <4>1, <4>2 DEF Place
    <3> QED
      BY <3>3, <3>4 DEF Orderly
  <2> QED
    BY <2>2, <2>3
<1> QED
  BY <1>3, <1>4, <1>5, <1>6, <1>7, <1>8, <1>9, <1>10, <1>11 DEF StartStep

LEMMA StopOrderly ==
  ASSUME TypeInv, OneActive, Orderly, Clean, Clean', NEW c \in Callers, StopCheck(c) \/ StopStep(c)
  PROVE  Orderly'
<1>1. Named /\ Place(c) /\ Released
  BY DEF Orderly
<1>2. pc[c] \notin {"idle", "blocked"} => Alone(c)
  BY DEF OneActive, AtMostOne, Active, Alone, Clean
<1>3. CASE StopCheck(c)
  <2>1. /\ Alone(c) /\ pc'[c] = "stop" /\ \A d \in Callers : d # c => pc'[d] = pc[d]
    BY <1>3, Checked DEF StopCheck, Clean
  <2>2. UNCHANGED <<running, httpd, timeout_thread, socket, serve, checker, mine, slow>>
    BY <1>3 DEF StopCheck, attributes, threads
  <2>3. Named' /\ Place(c)'
    BY <1>1, <2>1, <2>2 DEF Named, Place, Live
  <2> QED
    BY <2>1, <2>3, AloneKeeps
<1>4. CASE StopSet(c)
  <2>1. /\ Alone(c) /\ pc'[c] = IF httpd = 0 THEN "join" ELSE "shutdown"
        /\ \A d \in Callers : d # c => pc'[d] = pc[d]
    BY <1>2, <1>4, Types DEF StopSet, Goto
  <2>2. UNCHANGED <<httpd, timeout_thread, socket, serve, checker, mine, slow>>
    BY <1>4 DEF StopSet, threads
  <2>3. Named' /\ Place(c)'
    BY <1>1, <2>1, <2>2 DEF Named, Place, Live
  <2> QED
    BY <2>1, <2>3, AloneKeeps
<1>5. CASE Shutdown(c)
  <2>1. httpd # 0
    BY <1>5, Types DEF Shutdown, Clean
  <2>2. /\ Alone(c) /\ pc'[c] = "closing" /\ mine'[c] = httpd
        /\ \A d \in Callers : d # c => pc'[d] = pc[d]
    BY <1>2, <1>5, <2>1, Types DEF Shutdown, Goto
  <2>3. UNCHANGED <<httpd, timeout_thread, socket, serve, checker, slow>>
    BY <1>5 DEF Shutdown, attributes
  <2>4. Named' /\ Place(c)'
    BY <1>1, <2>2, <2>3 DEF Named, Place, Live
  <2> QED
    BY <2>2, <2>4, AloneKeeps
<1>6. CASE ServerClose(c)
  <2>1. httpd # 0 /\ httpd = mine[c] /\ serve[httpd] = "done"
    BY <1>1, <1>6, Types DEF ServerClose, Clean, Place
  <2>2. /\ Alone(c) /\ pc'[c] = "join" /\ \A d \in Callers : d # c => pc'[d] = pc[d]
    BY <1>2, <1>6, <2>1, Types DEF ServerClose, Goto
  <2>3. /\ UNCHANGED <<running, timeout_thread, serve, checker, slow>>
        /\ httpd' = 0 /\ socket' = [socket EXCEPT ![httpd] = "closed"]
    BY <1>6, <2>1 DEF ServerClose
  <2>4. Named'
    BY <1>1, <2>1, <2>3, Types DEF Named, Live
  <2>5. Place(c)'
    BY <2>2, <2>3 DEF Place
  <2> QED
    BY <2>2, <2>4, <2>5, AloneKeeps
<1>7. CASE Join(c)
  <2>1. ~(timeout_thread # 0 /\ Checker(timeout_thread) = c)
    BY <1>7 DEF Join, Clean
  <2>2. /\ pc[c] = "join" /\ Alone(c) /\ pc'[c] = "close"
        /\ \A d \in Callers : d # c => pc'[d] = pc[d]
    BY <1>2, <1>7, <2>1, Types DEF Join, Goto
  <2>3. /\ UNCHANGED <<running, httpd, socket, serve, checker>> /\ timeout_thread' = 0
        /\ httpd = 0 /\ (slow => slow')
        /\ slow' \/ timeout_thread = 0 \/ checker[timeout_thread] = "done"
    BY <1>1, <1>7, <2>1, <2>2 DEF Join, threads, Place
  <2>4. Named'
    BY <1>1, <2>3, Types DEF Named, Live
  <2>5. Place(c)'
    BY <2>2, <2>3 DEF Place
  <2> QED
    BY <2>2, <2>4, <2>5, AloneKeeps
<1>8. CASE CloseStorage(c)
  <2>1. /\ pc[c] = "close" /\ Alone(c) /\ pc'[c] = "idle"
        /\ \A d \in Callers : d # c => pc'[d] = pc[d]
    BY <1>2, <1>8, Types DEF CloseStorage, Goto
  <2>2. /\ UNCHANGED <<running, httpd, timeout_thread, socket, serve, checker, mine, slow>>
        /\ httpd = 0 /\ timeout_thread = 0 /\ storage' = "closed"
    BY <1>1, <1>8, <2>1 DEF CloseStorage, threads, Place
  <2>3. Named' /\ Place(c)'
    BY <1>1, <2>1, <2>2 DEF Named, Place, Live
  <2> QED
    BY <2>1, <2>2, <2>3, AloneKeeps
<1> QED
  BY <1>3, <1>4, <1>5, <1>6, <1>7, <1>8 DEF StopStep

LEMMA OrderlyStep == TypeInv /\ OneActive /\ CleanInv /\ [Next]_vars => CleanInv'
<1> SUFFICES ASSUME TypeInv, OneActive, CleanInv, [Next]_vars, Clean' PROVE Orderly'
  BY DEF CleanInv
<1>1. Clean /\ Orderly
  BY CleanBefore DEF CleanInv
<1>2. ASSUME NEW m \in Mains,
             StartCheck(m) \/ ReplaceStorage(m) \/ BindFails(m) \/ Interrupt(m) \/ StartStep(m)
      PROVE  Orderly'
  BY <1>1, <1>2, StartOrderly
<1>3. ASSUME NEW c \in Callers, StopCheck(c) \/ StopStep(c) PROVE Orderly'
  BY <1>1, <1>3, StopOrderly
<1>4. ASSUME NEW i \in Runs, ThreadStep(i) PROVE Orderly'
  <2>1. UNCHANGED <<running, httpd, timeout_thread, pc, mine, slow, storage, socket>>
    BY <1>4 DEF ThreadStep, ServeEnds, CheckStopEvent, Mark, HooksReturn, attributes
  <2>2. \A j \in Runs : (serve'[j] = "loop" => serve[j] = "loop") /\ (Live(j)' => Live(j))
    BY <1>4, Types DEF ThreadStep, ServeEnds, CheckStopEvent, Mark, HooksReturn, Live
  <2> QED
    BY <1>1, <2>1, <2>2, QuietKeeps
<1>5. ASSUME NEW h \in Handlers, (\E i \in Runs : Accept(i, h)) \/ Save(h) \/ Answer(h) PROVE Orderly'
  BY <1>1, <1>5, QuietKeeps DEF Accept, Save, Answer, attributes, threads, Live
<1>6. CASE UNCHANGED vars
  BY <1>1, <1>6, QuietKeeps DEF vars, attributes, threads, Live
<1> QED
  BY <1>2, <1>3, <1>4, <1>5, <1>6, MainsAndMayStop DEF Next

SafeInv == TypeInv /\ OneActive /\ CleanInv

LEMMA Safe == Spec => []SafeInv
<1>1. Init => SafeInv
  <2> SUFFICES ASSUME Init PROVE OneActive /\ Orderly
    BY TypeInit DEF SafeInv, CleanInv
  <2>1. OneActive /\ Released
    BY DEF Init, OneActive, AtMostOne, Active, Released
  <2>2. Named /\ \A c \in Callers : Place(c)
    BY DEF Init, Named, Live, Place
  <2> QED
    BY <2>1, <2>2 DEF Orderly
<1>2. SafeInv /\ [Next]_vars => SafeInv'
  BY TypeStep, OneActiveStep, OrderlyStep DEF SafeInv
<1> QED
  BY <1>1, <1>2, PTL DEF Spec

\* A server that is stopped holds no socket, loop or open storage, and no checker but one that
\* a join gave up on, over however many starts, failed starts and stops.
THEOREM StoppedReleasesAll == Spec => []StoppedMeansReleased
<1>1. SafeInv => StoppedMeansReleased
  <2> SUFFICES ASSUME SafeInv, ~raced, ~abandoned, ~running, Active = {}
               PROVE  /\ \A i \in Runs : socket[i] # "open" /\ serve[i] # "loop"
                      /\ ~slow => \A i \in Runs : checker[i] \in {"none", "done"}
                      /\ storage # "open"
    BY DEF StoppedMeansReleased
  <2>1. Named /\ httpd = 0 /\ timeout_thread = 0 /\ storage # "open"
    BY DEF SafeInv, CleanInv, Clean, Orderly, Released
  <2> QED
    BY <2>1, Types DEF SafeInv, Named, Live
<1> QED
  BY <1>1, Safe, PTL

\* While one call of start() or stop() is in progress at a time, and none has ended early, there
\* is one checker at most: the one that the attribute names.
THEOREM OneCheckerAtATime == Spec => []OneChecker
<1>1. SafeInv => OneChecker
  <2> SUFFICES ASSUME SafeInv, ~raced, ~abandoned, ~slow
               PROVE  Cardinality({i \in Runs : Live(i)}) <= 1
    BY DEF OneChecker, Live
  <2> DEFINE S == {i \in Runs : Live(i)}
  <2>1. S \subseteq {timeout_thread}
    BY DEF SafeInv, CleanInv, Clean, Orderly, Named
  <2>2. IsFiniteSet({timeout_thread}) /\ Cardinality({timeout_thread}) = 1
    BY FS_Singleton
  <2> HIDE DEF S
  <2>3. Cardinality(S) <= Cardinality({timeout_thread})
    BY <2>1, <2>2, FS_Subset
  <2> QED
    BY <2>2, <2>3 DEF S
<1> QED
  BY <1>1, Safe, PTL
=============================================================================
