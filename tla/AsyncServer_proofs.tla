------------------------- MODULE AsyncServer_proofs -------------------------
(***************************************************************************)
(* Proofs about AsyncServer for any application and request tasks and any  *)
(* number of starts, requests, iterations and calls in progress at once.   *)
(***************************************************************************)
EXTENDS AsyncServer, FiniteSetTheorems, TLAPS

-----------------------------------------------------------------------------
(* The inductive invariants. *)

\* The storage connection: while no two first calls have overlapped there is one
\* opening at most, none once a connection is open, and none has been left.
AtMostOne(S) == \A x, y \in S : x = y
ConnInv ==
  ~doubled => AtMostOne(Opening) /\ (conn => Opening = {}) /\ ~leaked

\* Whoever opened the connection is still there to create its tables.
MakingSchema == (\E i \in Runs : timeout[i] = "schema") \/ \E h \in Handlers : request[h] = "schema"
SchemaInv == conn /\ ~cut => schema \/ MakingSchema

\* The run of a start() is its own, and its timeout task does not exist yet.
InStart(m) == pc[m] \in {"setup", "listen"}
OwnRun ==
  /\ \A i \in Runs : /\ i > starts => timeout[i] = "none"
                     /\ i = timeout_task \/ i \in cancelled => timeout[i] # "none"
  /\ \A m \in Mains : InStart(m) => /\ mine[m] \in Runs /\ mine[m] <= starts
                                   /\ timeout[mine[m]] = "none"
  /\ \A m, n \in Mains : InStart(m) /\ InStart(n) /\ mine[m] = mine[n] => m = n

\* At most one call of start() or stop() is in progress, unless two ever were.
OneActive == ~raced => AtMostOne(Active)

Clean == ~raced /\ ~selfstopped

Live(i) == timeout[i] \notin {"none", "done"}
NoneLive == \A i \in Runs : ~Live(i)
NoneOpen == \A i \in Runs : socket[i] # "open"
NoRequest == \A h \in Handlers : request[h] = "idle"

\* What one call at a time finds: everything that runs is what the server's attributes
\* name, and a stop() has ended what it is past.
Stopping == {"join", "site", "cleanup", "close"}
Named ==
  /\ \A i \in Runs : /\ pc[TimeoutTask(i)] = "idle"
                     /\ Live(i) => i = timeout_task
                     /\ socket[i] = "open" => i = site /\ served[i] = runner
  /\ \A h \in Handlers : request[h] # "idle" => via[h] = runner
  /\ running => closed = "clear"
  /\ closed = "set" => ~conn
Place(c) ==
  /\ pc[c] # "idle" => ~running
  /\ pc[c] \in {"setup", "listen"} => NoneLive /\ NoneOpen /\ NoRequest
  /\ pc[c] = "listen" => mine[c] = site /\ served[mine[c]] = runner
  /\ pc[c] \in Stopping => closed = "clear"
  /\ pc[c] = "join" => mine[c] = timeout_task
  /\ pc[c] \in {"site", "cleanup", "close"} => NoneLive
  /\ pc[c] \in {"cleanup", "close"} => NoneOpen
  /\ pc[c] = "cleanup" => mine[c] = runner
  /\ pc[c] = "close" => NoRequest
Released ==
  ~running /\ (\A c \in Callers : pc[c] \notin Stopping) => NoneLive /\ NoneOpen /\ NoRequest
Orderly == Named /\ (\A c \in Callers : Place(c)) /\ Released

CleanInv == Clean => Orderly

-----------------------------------------------------------------------------
(* Type correctness. *)

LEMMA Bounds ==
  /\ MaxStarts \in Nat /\ MaxRequests \in Nat /\ MaxMarks \in Nat
  /\ Runs \subseteq 0..MaxStarts /\ 0 \in 0..MaxStarts /\ 0 \notin Runs
BY AsyncServerBoundsAssumption DEF Runs

PCs == {"idle", "setup", "listen", "join", "site", "cleanup", "close"}
TaskPlaces == {"none", "mark", "connect", "schema", "hook", "done"}
RequestPlaces == {"idle", "connect", "schema", "hook"}

\* TypeOK, in the groups that the actions change.
AttributesOK ==
  /\ running \in BOOLEAN /\ closed \in {"set", "clear"}
  /\ runner \in 0..MaxStarts /\ site \in 0..MaxStarts /\ timeout_task \in 0..MaxStarts
ConnectionOK ==
  /\ conn \in BOOLEAN /\ schema \in BOOLEAN /\ leaked \in BOOLEAN
  /\ doubled \in BOOLEAN /\ cut \in BOOLEAN
TasksOK ==
  /\ starts \in 0..MaxStarts /\ served \in [Runs -> 0..MaxStarts]
  /\ socket \in [Runs -> {"none", "open", "closed"}]
  /\ timeout \in [Runs -> TaskPlaces]
  /\ marks \in [Runs -> 0..MaxMarks] /\ cancelled \subseteq Runs
CallersOK ==
  /\ pc \in [Callers -> PCs] /\ mine \in [Callers -> 0..MaxStarts]
  /\ raced \in BOOLEAN /\ selfstopped \in BOOLEAN
RequestsOK ==
  /\ request \in [Handlers -> RequestPlaces] /\ via \in [Handlers -> 0..MaxStarts]
  /\ accepted \in 0..MaxRequests
TypeParts == AttributesOK /\ ConnectionOK /\ TasksOK /\ CallersOK /\ RequestsOK

LEMMA Parts == (TypeOK <=> TypeParts) /\ (TypeOK' <=> TypeParts')
BY DEF TypeOK, TypeParts, AttributesOK, ConnectionOK, TasksOK, CallersOK, RequestsOK, PCs,
       TaskPlaces, RequestPlaces

LEMMA MainsAndMayStop ==
  /\ Mains \subseteq Callers /\ MayStop \subseteq Callers /\ Handlers \subseteq Callers
  /\ \A i \in Runs : TimeoutTask(i) \in Callers
BY DEF Callers, MayStop

\* Where a call that uses the storage goes on.
LEMMA CalledPlaces ==
  ASSUME NEW fails \in {"mark", "idle"}
  PROVE  Called(fails) \in {"connect", "hook", fails} /\ (Called(fails) = "connect" => ~conn)
BY DEF Called

LEMMA TypeInit == Init => TypeOK
<1> SUFFICES ASSUME Init PROVE TypeParts
  BY Parts
<1>1. AttributesOK /\ ConnectionOK
  BY Bounds DEF Init, AttributesOK, ConnectionOK
<1>2. TasksOK /\ CallersOK /\ RequestsOK
  <2>1. 0 \in 0..MaxMarks /\ 0 \in 0..MaxRequests
    BY Bounds
  <2>2. TasksOK
    BY <2>1, Bounds DEF Init, TasksOK, TaskPlaces
  <2>3. CallersOK
    BY Bounds DEF Init, CallersOK, PCs
  <2>4. RequestsOK
    BY <2>1, Bounds DEF Init, RequestsOK, RequestPlaces
  <2> QED
    BY <2>2, <2>3, <2>4
<1> QED
  BY <1>1, <1>2 DEF TypeParts

LEMMA StartTypes ==
  ASSUME TypeOK, NEW m \in Mains, StartRunner(m) \/ ListenFails(m) \/ StartStep(m)
  PROVE  TypeOK'
<1>0. TypeParts /\ m \in Callers
  BY Parts, MainsAndMayStop
<1>1. CASE StartRunner(m)
  <2>1. starts' \in 0..MaxStarts /\ starts' \in Runs
    BY <1>0, <1>1, Bounds DEF StartRunner, TypeParts, TasksOK, Runs
  <2>2. AttributesOK' /\ ConnectionOK' /\ TasksOK' /\ RequestsOK'
    BY <1>0, <1>1, <2>1 DEF StartRunner, TypeParts, TasksOK, AttributesOK, ConnectionOK, RequestsOK,
       connection, requests
  <2>3. CallersOK'
    BY <1>0, <1>1, <2>1 DEF StartRunner, PastCheck, Goto, TypeParts, CallersOK, PCs
  <2> QED
    BY <2>2, <2>3, Parts DEF TypeParts
<1>2. CASE MakeSite(m)
  <2>0. mine[m] \in 0..MaxStarts /\ runner \in 0..MaxStarts
    BY <1>0 DEF TypeParts, CallersOK, AttributesOK
  <2>1. AttributesOK' /\ ConnectionOK' /\ TasksOK' /\ RequestsOK'
    BY <1>0, <1>2, <2>0 DEF MakeSite, TypeParts, TasksOK, AttributesOK, ConnectionOK, RequestsOK,
       connection, requests
  <2>2. CallersOK'
    BY <1>0, <1>2 DEF MakeSite, Goto, TypeParts, CallersOK, AttributesOK, PCs
  <2> QED
    BY <2>1, <2>2, Parts DEF TypeParts
<1>3. CASE Listening(m)
  <2>1. mine[m] \in 0..MaxStarts
    BY <1>0 DEF TypeParts, CallersOK
  <2>2. AttributesOK' /\ ConnectionOK' /\ RequestsOK'
    BY <1>0, <1>3, <2>1 DEF Listening, TypeParts, AttributesOK, ConnectionOK, RequestsOK,
       connection, requests
  <2>3. TasksOK'
    BY <1>0, <1>3, <2>1 DEF Listening, TypeParts, TasksOK, TaskPlaces
  <2>4. CallersOK'
    BY <1>0, <1>3 DEF Listening, Goto, TypeParts, CallersOK, PCs
  <2> QED
    BY <2>2, <2>3, <2>4, Parts DEF TypeParts
<1>4. CASE ListenFails(m)
  <2>1. AttributesOK' /\ ConnectionOK' /\ TasksOK' /\ RequestsOK'
    BY <1>0, <1>4 DEF ListenFails, TypeParts, TasksOK, AttributesOK, ConnectionOK, RequestsOK,
       connection, requests, tasks, attributes
  <2>2. CallersOK'
    BY <1>0, <1>4 DEF ListenFails, Goto, TypeParts, CallersOK, PCs
  <2> QED
    BY <2>1, <2>2, Parts DEF TypeParts
<1> QED
  BY <1>1, <1>2, <1>3, <1>4 DEF StartStep

LEMMA StopTypes ==
  ASSUME TypeOK, NEW c \in Callers, Stop(c) \/ StopStep(c)
  PROVE  TypeOK'
<1>0. TypeParts
  BY Parts
<1>1. CASE Stop(c)
  <2>1. timeout_task \in 0..MaxStarts /\ (timeout_task # 0 => timeout_task \in Runs)
    BY <1>0, Bounds DEF TypeParts, AttributesOK, Runs
  <2>2. AttributesOK' /\ ConnectionOK' /\ RequestsOK'
    BY <1>0, <1>1 DEF Stop, TypeParts, AttributesOK, ConnectionOK, RequestsOK,
       connection, requests
  <2>3. TasksOK'
    BY <1>0, <1>1, <2>1 DEF Stop, TypeParts, TasksOK
  <2>4. CallersOK'
    BY <1>0, <1>1, <2>1, Bounds DEF Stop, PastCheck, Goto, TypeParts, CallersOK, PCs
  <2> QED
    BY <2>2, <2>3, <2>4, Parts DEF TypeParts
<1>2. CASE TaskJoined(c)
  <2>1. AttributesOK' /\ ConnectionOK' /\ RequestsOK' /\ TasksOK'
    BY <1>0, <1>2, Bounds DEF TaskJoined, TypeParts, AttributesOK, ConnectionOK, RequestsOK, TasksOK,
       connection, requests
  <2>2. CallersOK'
    BY <1>0, <1>2 DEF TaskJoined, Goto, TypeParts, CallersOK, PCs
  <2> QED
    BY <2>1, <2>2, Parts DEF TypeParts
<1>3. CASE StopSite(c)
  <2>1. AttributesOK' /\ ConnectionOK' /\ RequestsOK'
    BY <1>0, <1>3, Bounds DEF StopSite, TypeParts, AttributesOK, ConnectionOK, RequestsOK,
       connection, requests
  <2>2. TasksOK'
    BY <1>0, <1>3 DEF StopSite, TypeParts, TasksOK
  <2>3. CallersOK'
    BY <1>0, <1>3 DEF StopSite, Goto, TypeParts, CallersOK, AttributesOK, PCs
  <2> QED
    BY <2>1, <2>2, <2>3, Parts DEF TypeParts
<1>4. CASE Cleanup(c)
  <2>1. AttributesOK' /\ ConnectionOK' /\ RequestsOK' /\ TasksOK'
    BY <1>0, <1>4, Bounds DEF Cleanup, TypeParts, AttributesOK, ConnectionOK, RequestsOK, TasksOK,
       connection, requests, tasks
  <2>2. CallersOK'
    BY <1>0, <1>4 DEF Cleanup, Goto, TypeParts, CallersOK, PCs
  <2> QED
    BY <2>1, <2>2, Parts DEF TypeParts
<1>5. CASE CancelRequests(c)
  <2>1. AttributesOK' /\ TasksOK'
    BY <1>0, <1>5 DEF CancelRequests, TypeParts, AttributesOK, TasksOK, attributes, tasks
  <2>2. ConnectionOK'
    BY <1>0, <1>5 DEF CancelRequests, Halfway, TypeParts, ConnectionOK
  <2>3. RequestsOK'
    BY <1>0, <1>5 DEF CancelRequests, TypeParts, RequestsOK, RequestPlaces
  <2>4. CallersOK'
    BY <1>0, <1>5 DEF CancelRequests, TypeParts, CallersOK, PCs
  <2> QED
    BY <2>1, <2>2, <2>3, <2>4, Parts DEF TypeParts
<1>6. CASE CloseStorage(c)
  <2>1. AttributesOK' /\ ConnectionOK' /\ RequestsOK' /\ TasksOK'
    BY <1>0, <1>6 DEF CloseStorage, TypeParts, AttributesOK, ConnectionOK, RequestsOK, TasksOK,
       requests, tasks
  <2>2. CallersOK'
    BY <1>0, <1>6 DEF CloseStorage, Goto, TypeParts, CallersOK, PCs
  <2> QED
    BY <2>1, <2>2, Parts DEF TypeParts
<1> QED
  BY <1>1, <1>2, <1>3, <1>4, <1>5, <1>6 DEF StopStep

LEMMA TaskTypes ==
  ASSUME TypeOK, NEW i \in Runs, TaskStep(i)
  PROVE  TypeOK'
<1>0. TypeParts
  BY Parts
<1>1. AttributesOK' /\ RequestsOK'
  BY <1>0 DEF TaskStep, MarkOffline, TaskConnected, TaskMakesSchema, TaskOpeningFails, NextIteration, TaskCancelled,
     attributes, requests, TypeParts, AttributesOK, RequestsOK
<1>2. ConnectionOK'
  BY <1>0 DEF TaskStep, MarkOffline, TaskConnected, TaskMakesSchema, TaskOpeningFails, NextIteration, TaskCancelled,
     GetConn, Connected, MakeSchema, Halfway, connection, TypeParts, ConnectionOK
<1>3. CallersOK'
  BY <1>0 DEF TaskStep, MarkOffline, TaskConnected, TaskMakesSchema, TaskOpeningFails, NextIteration, TaskCancelled,
     Goto, TypeParts, CallersOK, PCs
<1>4. TasksOK'
  <2>1. /\ starts' \in 0..MaxStarts /\ socket' \in [Runs -> {"none", "open", "closed"}]
        /\ served' \in [Runs -> 0..MaxStarts] /\ cancelled' \subseteq Runs
    BY <1>0 DEF TaskStep, MarkOffline, TaskConnected, TaskMakesSchema, TaskOpeningFails, NextIteration, TaskCancelled,
       TypeParts, TasksOK
  <2>2. \E p \in TaskPlaces : timeout' = [timeout EXCEPT ![i] = p]
    BY CalledPlaces DEF TaskStep, MarkOffline, TaskConnected, TaskMakesSchema, TaskOpeningFails, NextIteration,
       TaskCancelled, TaskPlaces
  <2>3. marks' \in [Runs -> 0..MaxMarks]
    <3>1. CASE MarkOffline(i)
      <4>1. marks[i] \in 0..MaxMarks /\ marks[i] < MaxMarks
        BY <1>0, <3>1 DEF MarkOffline, TypeParts, TasksOK
      <4>2. marks[i] + 1 \in 0..MaxMarks
        BY <4>1, Bounds
      <4> QED
        BY <1>0, <3>1, <4>2 DEF MarkOffline, TypeParts, TasksOK
    <3>2. CASE ~MarkOffline(i)
      BY <1>0, <3>2 DEF TaskStep, TaskConnected, TaskMakesSchema, TaskOpeningFails, NextIteration, TaskCancelled,
         TypeParts, TasksOK
    <3> QED
      BY <3>1, <3>2
  <2> QED
    BY <1>0, <2>1, <2>2, <2>3 DEF TypeParts, TasksOK
<1> QED
  BY <1>1, <1>2, <1>3, <1>4, Parts DEF TypeParts

LEMMA RequestTypes ==
  ASSUME TypeOK, NEW h \in Handlers, (\E i \in Runs : Accept(i, h)) \/ RequestStep(h)
  PROVE  TypeOK'
<1>0. TypeParts
  BY Parts
<1>1. AttributesOK' /\ TasksOK' /\ CallersOK'
  BY <1>0 DEF Accept, RequestStep, RequestConnected, RequestMakesSchema, RequestOpeningFails, Answer, attributes, tasks,
     TypeParts, AttributesOK, TasksOK, CallersOK
<1>2. ConnectionOK'
  BY <1>0 DEF Accept, RequestStep, RequestConnected, RequestMakesSchema, RequestOpeningFails, Answer,
     GetConn, Connected, MakeSchema, Halfway, connection, TypeParts, ConnectionOK
<1>3. RequestsOK'
  <2>1. ASSUME NEW i \in Runs, Accept(i, h) PROVE RequestsOK'
    <3>1. \E p \in RequestPlaces : request' = [request EXCEPT ![h] = p]
      BY <2>1, CalledPlaces DEF Accept, RequestPlaces
    <3>2. accepted' \in 0..MaxRequests
      BY <1>0, <2>1, Bounds DEF Accept, TypeParts, RequestsOK
    <3>3. via' = [via EXCEPT ![h] = served[i]] /\ served[i] \in 0..MaxStarts
      BY <1>0, <2>1 DEF Accept, TypeParts, TasksOK
    <3> QED
      BY <1>0, <3>1, <3>2, <3>3 DEF TypeParts, RequestsOK
  <2>2. ASSUME RequestStep(h) PROVE RequestsOK'
    BY <1>0, <2>2 DEF RequestStep, RequestConnected, RequestMakesSchema, RequestOpeningFails, Answer,
       TypeParts, RequestsOK, RequestPlaces
  <2> QED
    BY <2>1, <2>2
<1> QED
  BY <1>1, <1>2, <1>3, Parts DEF TypeParts

LEMMA TypeStep == TypeOK /\ [Next]_vars => TypeOK'
<1> SUFFICES ASSUME TypeOK, [Next]_vars PROVE TypeOK'
  OBVIOUS
<1>1. CASE Next
  BY <1>1, MainsAndMayStop, StartTypes, StopTypes, TaskTypes, RequestTypes DEF Next
<1>2. CASE UNCHANGED vars
  BY <1>2 DEF vars, attributes, connection, tasks, requests, TypeOK
<1> QED
  BY <1>1, <1>2

\* The types hold in every state.
THEOREM TypeCorrect == Spec => []TypeOK
BY TypeInit, TypeStep, PTL DEF Spec

-----------------------------------------------------------------------------
(* The runs. *)

LEMMA OwnRunStep == TypeOK /\ OwnRun /\ [Next]_vars => OwnRun'
<1> SUFFICES ASSUME TypeOK, OwnRun, [Next]_vars PROVE OwnRun'
  OBVIOUS
<1>0. /\ pc \in [Callers -> PCs] /\ mine \in [Callers -> 0..MaxStarts] /\ starts \in Nat
      /\ timeout \in [Runs -> TaskPlaces] /\ Runs \subseteq Nat
      /\ Mains \subseteq Callers
  BY Parts, Bounds, MainsAndMayStop DEF TypeParts, CallersOK, TasksOK
\* Whoever is in start() was there, with the same run, whose task has not been created.
<1>1. ASSUME starts' = starts,
             \A i \in Runs : timeout[i] = "none" <=> timeout'[i] = "none",
             \A i \in Runs : i = timeout_task' \/ i \in cancelled' =>
                              i = timeout_task \/ i \in cancelled,
             \A m \in Mains : InStart(m)' => InStart(m) /\ mine'[m] = mine[m]
      PROVE  OwnRun'
  <2>1. \A i \in Runs : /\ i > starts' => timeout'[i] = "none"
                        /\ i = timeout_task' \/ i \in cancelled' => timeout'[i] # "none"
    BY <1>1 DEF OwnRun
  <2>2. \A m \in Mains : InStart(m)' => /\ mine'[m] \in Runs /\ mine'[m] <= starts'
                                        /\ timeout'[mine'[m]] = "none"
    BY <1>1 DEF OwnRun
  <2>3. \A m, n \in Mains : InStart(m)' /\ InStart(n)' /\ mine'[m] = mine'[n] => m = n
    BY <1>1 DEF OwnRun
  <2> QED
    BY <2>1, <2>2, <2>3 DEF OwnRun
<1>2. ASSUME NEW m \in Mains, StartRunner(m) PROVE OwnRun'
  <2>1. /\ starts' = starts + 1 /\ starts' \in Runs /\ timeout' = timeout
        /\ UNCHANGED <<timeout_task, cancelled>>
        /\ mine'[m] = starts' /\ \A n \in Mains : n # m => mine'[n] = mine[n] /\ pc'[n] = pc[n]
    BY <1>0, <1>2, Bounds DEF StartRunner, PastCheck, Goto, Runs
  <2>2. \A n \in Mains : n # m /\ InStart(n)' => /\ mine'[n] \in Runs /\ mine'[n] <= starts
                                                  /\ timeout'[mine'[n]] = "none"
    BY <2>1 DEF OwnRun, InStart
  <2>3. timeout'[starts'] = "none"
    BY <1>0, <2>1 DEF OwnRun
  <2>4. \A n, k \in Mains : InStart(n)' /\ InStart(k)' /\ mine'[n] = mine'[k] => n = k
    BY <1>0, <2>1, <2>2 DEF OwnRun, InStart
  <2>9. starts \in Nat /\ starts' = starts + 1
    BY <1>0, <2>1
  <2>a. \A i \in Nat : i > starts' => i > starts
    BY <2>9
  <2>7. \A i \in Runs : i > starts' => i > starts
    BY <1>0, <2>a
  <2>8. \A i \in Runs : i = timeout_task' \/ i \in cancelled' => timeout'[i] # "none"
    BY <2>1 DEF OwnRun
  <2>5. \A i \in Runs : /\ i > starts' => timeout'[i] = "none"
                        /\ i = timeout_task' \/ i \in cancelled' => timeout'[i] # "none"
    BY <2>1, <2>7, <2>8 DEF OwnRun
  <2>6. \A n \in Mains : InStart(n)' => /\ mine'[n] \in Runs /\ mine'[n] <= starts'
                                        /\ timeout'[mine'[n]] = "none"
    BY <1>0, <2>1, <2>2, <2>3
  <2> QED
    BY <2>4, <2>5, <2>6 DEF OwnRun
<1>3. ASSUME NEW m \in Mains, ListenFails(m) \/ MakeSite(m) PROVE OwnRun'
  <2>1. /\ UNCHANGED <<starts, timeout, mine, timeout_task, cancelled>> /\ InStart(m)
        /\ \A n \in Mains : n # m => pc'[n] = pc[n]
    BY <1>0, <1>3 DEF ListenFails, MakeSite, Goto, tasks, attributes, InStart
  <2> QED
    BY <1>1, <2>1 DEF InStart
<1>4. ASSUME NEW m \in Mains, Listening(m) PROVE OwnRun'
  <2>1. /\ UNCHANGED <<starts, mine, cancelled>> /\ InStart(m) /\ ~InStart(m)'
        /\ timeout_task' = mine[m]
        /\ timeout' = [timeout EXCEPT ![mine[m]] = "mark"]
        /\ \A n \in Mains : n # m => pc'[n] = pc[n]
    BY <1>0, <1>4 DEF Listening, Goto, InStart
  <2>2. \A i \in Runs : i # mine[m] => timeout'[i] = timeout[i]
    BY <1>0, <2>1
  <2>3. mine[m] \in Runs /\ mine[m] <= starts
    BY <2>1 DEF OwnRun
  <2>4. \A i \in Runs : /\ i > starts' => timeout'[i] = "none"
                        /\ i = timeout_task' \/ i \in cancelled' => timeout'[i] # "none"
    BY <1>0, <2>1, <2>2, <2>3 DEF OwnRun
  <2>5. \A n \in Mains : InStart(n)' => n # m /\ InStart(n) /\ mine'[n] = mine[n]
    BY <2>1 DEF InStart
  <2>6. \A n \in Mains : InStart(n)' => mine[n] # mine[m]
    BY <2>1, <2>5 DEF OwnRun
  <2> QED
    BY <2>1, <2>2, <2>4, <2>5, <2>6 DEF OwnRun
<1>5. ASSUME NEW c \in Callers, Stop(c) \/ StopStep(c) PROVE OwnRun'
  <2>1. /\ UNCHANGED <<starts, timeout>>
        /\ \A i \in Runs : i = timeout_task' \/ i \in cancelled' =>
                           i = timeout_task \/ i \in cancelled
    BY <1>5, Bounds DEF Stop, StopStep, TaskJoined, StopSite, Cleanup, CancelRequests, CloseStorage,
       tasks, attributes
  <2>2. CASE CancelRequests(c)
    <3>1. \A d \in Callers : pc'[d] \in {pc[d], "idle"} /\ mine'[d] = mine[d]
      BY <2>2 DEF CancelRequests
    <3> QED
      BY <1>0, <1>1, <2>1, <3>1 DEF InStart
  <2>3. CASE ~CancelRequests(c)
    <3>1. /\ pc'[c] \notin {"setup", "listen"}
          /\ \A d \in Callers : d # c => pc'[d] = pc[d] /\ mine'[d] = mine[d]
      BY <1>0, <1>5, <2>3 DEF Stop, StopStep, TaskJoined, StopSite, Cleanup, CloseStorage, PastCheck,
         Goto
    <3> QED
      BY <1>0, <1>1, <2>1, <3>1 DEF InStart
  <2> QED
    BY <2>2, <2>3
<1>6. ASSUME NEW i \in Runs, TaskStep(i) PROVE OwnRun'
  <2>0. timeout[i] # "none"
    BY <1>6 DEF TaskStep, MarkOffline, TaskConnected, TaskMakesSchema, TaskOpeningFails, NextIteration,
       TaskCancelled, OwnRun
  <2>1. /\ UNCHANGED <<starts, mine, timeout_task>> /\ cancelled' \subseteq cancelled
        /\ \A j \in Runs : j # i => timeout'[j] = timeout[j]
        /\ timeout'[i] # "none"
    BY <1>0, <1>6, CalledPlaces DEF TaskStep, MarkOffline, TaskConnected, TaskMakesSchema,
       TaskOpeningFails, NextIteration, TaskCancelled, attributes
  <2>2. \A d \in Callers : pc'[d] \in {pc[d], "idle"}
    BY <1>0, <1>6 DEF TaskStep, MarkOffline, TaskConnected, TaskMakesSchema, TaskOpeningFails, NextIteration,
       TaskCancelled, Goto
  <2> QED
    BY <1>0, <1>1, <2>0, <2>1, <2>2 DEF InStart
<1>7. ASSUME NEW h \in Handlers, (\E i \in Runs : Accept(i, h)) \/ RequestStep(h) PROVE OwnRun'
  <2>1. UNCHANGED <<starts, timeout, mine, pc, timeout_task, cancelled>>
    BY <1>7 DEF Accept, RequestStep, RequestConnected, RequestMakesSchema, RequestOpeningFails, Answer, tasks, attributes
  <2> QED
    BY <1>1, <2>1 DEF InStart
<1>8. CASE UNCHANGED vars
  BY <1>1, <1>8 DEF vars, tasks, attributes, InStart
<1> QED
  BY <1>2, <1>3, <1>4, <1>5, <1>6, <1>7, <1>8, MainsAndMayStop DEF Next, StartStep

-----------------------------------------------------------------------------
(* The storage connection. *)

\* The steps that leave the connection, and everyone who uses it, alone; and that end
\* calls that were opening one.
LEMMA ConnectionMoves ==
  ASSUME TypeOK, [Next]_vars
  PROVE  \/ UNCHANGED <<connection, timeout, request>>
         \/ \E c \in Callers : CancelRequests(c) /\ UNCHANGED timeout
         \/ conn' = FALSE /\ UNCHANGED <<schema, leaked, doubled, cut, timeout, request>>
         \/ \E m \in Mains : Listening(m) /\ UNCHANGED <<connection, request>>
         \/ \E i \in Runs : TaskStep(i) /\ UNCHANGED request
         \/ \E h \in Handlers : /\ (\E i \in Runs : Accept(i, h)) \/ RequestStep(h)
                                /\ UNCHANGED timeout
<1>1. CASE \E m \in Mains : StartRunner(m) \/ ListenFails(m) \/ StartStep(m)
  BY <1>1 DEF StartRunner, ListenFails, StartStep, MakeSite, Listening, tasks, requests
<1>2. CASE \E c \in Callers : Stop(c) \/ StopStep(c)
  BY <1>2 DEF Stop, StopStep, TaskJoined, StopSite, Cleanup, CancelRequests, CloseStorage,
     tasks, requests
<1>3. CASE \E i \in Runs : TaskStep(i)
  BY <1>3 DEF TaskStep, MarkOffline, TaskConnected, TaskMakesSchema, TaskOpeningFails, NextIteration, TaskCancelled,
     requests
<1>4. CASE \E h \in Handlers : (\E i \in Runs : Accept(i, h)) \/ RequestStep(h)
  BY <1>4 DEF Accept, RequestStep, RequestConnected, RequestMakesSchema, RequestOpeningFails, Answer, tasks
<1>5. CASE UNCHANGED vars
  BY <1>5 DEF vars, tasks, requests
<1> QED
  BY <1>1, <1>2, <1>3, <1>4, <1>5, MainsAndMayStop DEF Next

\* Run i's timeout task goes to l; request h goes to l.
LEMMA TaskGoes ==
  ASSUME TypeOK, NEW i \in Runs, NEW l \in TaskPlaces, timeout' = [timeout EXCEPT ![i] = l],
         UNCHANGED request
  PROVE  /\ Opening' \subseteq Opening \cup {TimeoutTask(i)}
         /\ l # "connect" => Opening' \subseteq Opening \ {TimeoutTask(i)}
<1>1. timeout \in [Runs -> TaskPlaces]
  BY Parts DEF TypeParts, TasksOK
<1>2. ASSUME NEW j \in Runs, timeout'[j] = "connect"
      PROVE  (j # i => timeout[j] = "connect") /\ (l # "connect" => j # i)
  BY <1>1, <1>2
<1>3. \A j, k \in Runs : TimeoutTask(j) = TimeoutTask(k) => j = k
  BY DEF TimeoutTask
<1>4. \A h \in Handlers : h # TimeoutTask(i)
  BY TasksAssumption
<1> QED
  BY <1>2, <1>3, <1>4 DEF Opening

LEMMA RequestGoes ==
  ASSUME TypeOK, NEW h \in Handlers, NEW l \in RequestPlaces, request' = [request EXCEPT ![h] = l],
         UNCHANGED timeout
  PROVE  /\ Opening' \subseteq Opening \cup {h}
         /\ l # "connect" => Opening' \subseteq Opening \ {h}
<1>1. request \in [Handlers -> RequestPlaces]
  BY Parts DEF TypeParts, RequestsOK
<1>2. ASSUME NEW g \in Handlers, request'[g] = "connect"
      PROVE  (g # h => request[g] = "connect") /\ (l # "connect" => g # h)
  BY <1>1, <1>2
<1>3. \A j \in Runs : TimeoutTask(j) # h
  BY TasksAssumption
<1> QED
  BY <1>2, <1>3 DEF Opening

\* What a call does to the connection and to those who open one.
LEMMA ConnKeeps ==
  ASSUME TypeOK, ConnInv, NEW x,
         \/ /\ GetConn /\ UNCHANGED conn
            /\ \/ Opening' \subseteq Opening
               \/ ~conn /\ Opening' \subseteq Opening \cup {x}
         \/ x \in Opening /\ Connected /\ Opening' \subseteq Opening \ {x}
         \/ /\ Opening' \subseteq Opening /\ (conn' = conn \/ conn' = FALSE)
            /\ UNCHANGED <<leaked, doubled>>
  PROVE  ConnInv'
<1> SUFFICES ASSUME ~doubled' PROVE AtMostOne(Opening)' /\ (conn' => Opening' = {}) /\ ~leaked'
  BY DEF ConnInv
<1>0. conn \in BOOLEAN /\ doubled \in BOOLEAN
  BY Parts DEF TypeParts, ConnectionOK
<1>1. CASE GetConn /\ UNCHANGED conn /\ Opening' \subseteq Opening
  <2>1. ~doubled /\ leaked' = leaked
    BY <1>0, <1>1 DEF GetConn
  <2> QED
    BY <1>1, <2>1 DEF ConnInv, AtMostOne
<1>2. CASE GetConn /\ UNCHANGED conn /\ ~conn /\ Opening' \subseteq Opening \cup {x}
  <2>0. ~doubled /\ leaked' = leaked /\ conn' = conn
    BY <1>0, <1>2 DEF GetConn
  <2>3. Opening = {}
    BY <1>0, <1>2 DEF GetConn
  <2>1. Opening = {} /\ ~leaked' /\ ~conn'
    BY <1>2, <2>0, <2>3 DEF ConnInv
  <2>2. Opening' \subseteq {x}
    BY <1>2, <2>1
  <2> QED
    BY <2>1, <2>2 DEF AtMostOne
<1>3. CASE x \in Opening /\ Connected /\ Opening' \subseteq Opening \ {x}
  <2>1. ~doubled /\ ~conn /\ AtMostOne(Opening) /\ ~leaked
    BY <1>3 DEF Connected, ConnInv
  <2>2. ~leaked'
    BY <1>3, <2>1 DEF Connected
  <2>3. Opening' = {}
    BY <1>3, <2>1 DEF AtMostOne
  <2> QED
    BY <2>2, <2>3 DEF AtMostOne
<1>4. CASE Opening' \subseteq Opening /\ (conn' = conn \/ conn' = FALSE) /\ UNCHANGED <<leaked, doubled>>
  <2>0. ~doubled /\ leaked' = leaked /\ (conn' => conn)
    BY <1>4
  <2>1. ~leaked' /\ AtMostOne(Opening) /\ (conn' => Opening = {})
    BY <2>0 DEF ConnInv
  <2> QED
    BY <1>4, <2>1 DEF AtMostOne
<1> QED
  BY <1>1, <1>2, <1>3, <1>4

LEMMA ConnStep == TypeOK /\ ConnInv /\ [Next]_vars => ConnInv'
<1> SUFFICES ASSUME TypeOK, ConnInv, [Next]_vars PROVE ConnInv'
  OBVIOUS
<1>0. /\ timeout \in [Runs -> TaskPlaces] /\ request \in [Handlers -> RequestPlaces]
      /\ conn \in BOOLEAN
  BY Parts DEF TypeParts, TasksOK, RequestsOK, ConnectionOK
<1>1. CASE UNCHANGED <<connection, timeout, request>>
  BY <1>1 DEF connection, ConnInv, Opening
<1>2. ASSUME NEW c \in Callers, CancelRequests(c), UNCHANGED timeout PROVE ConnInv'
  <2>1. Opening' \subseteq Opening
    BY <1>0, <1>2 DEF CancelRequests, Opening
  <2> QED
    BY <1>2, <2>1, ConnKeeps DEF CancelRequests, Halfway
<1>3. CASE conn' = FALSE /\ UNCHANGED <<schema, leaked, doubled, cut, timeout, request>>
  <2>1. Opening' = Opening
    BY <1>3 DEF Opening
  <2> QED
    BY <1>3, <2>1, ConnKeeps
<1>4. ASSUME NEW m \in Mains, Listening(m), UNCHANGED <<connection, request>> PROVE ConnInv'
  <2>1. \A i \in Runs : timeout'[i] = "connect" => timeout[i] = "connect"
    BY <1>0, <1>4 DEF Listening
  <2>2. Opening' \subseteq Opening
    BY <1>4, <2>1 DEF Opening
  <2> QED
    BY <1>4, <2>2, ConnKeeps DEF connection
<1>5. ASSUME NEW i \in Runs, TaskStep(i), UNCHANGED request PROVE ConnInv'
  <2>1. CASE MarkOffline(i)
    <3>1. timeout' = [timeout EXCEPT ![i] = Called("mark")] /\ GetConn /\ UNCHANGED conn
      BY <2>1 DEF MarkOffline, GetConn
    <3>2. Called("mark") \in TaskPlaces /\ (Called("mark") = "connect" => ~conn)
      BY CalledPlaces DEF TaskPlaces
    <3>3. Opening' \subseteq Opening \/ (~conn /\ Opening' \subseteq Opening \cup {TimeoutTask(i)})
      BY <1>5, <3>1, <3>2, TaskGoes
    <3> QED
      BY <3>1, <3>3, ConnKeeps
  <2>2. CASE TaskConnected(i)
    <3>1. TimeoutTask(i) \in Opening /\ Connected /\ timeout' = [timeout EXCEPT ![i] = "schema"]
      BY <2>2 DEF TaskConnected, Opening
    <3>2. Opening' \subseteq Opening \ {TimeoutTask(i)}
      BY <1>5, <3>1, TaskGoes DEF TaskPlaces
    <3> QED
      BY <3>1, <3>2, ConnKeeps
  <2>3. CASE \/ TaskMakesSchema(i) \/ TaskOpeningFails(i) \/ NextIteration(i)
           \/ TaskCancelled(i)
    <3>1. \E l \in TaskPlaces \ {"connect"} : timeout' = [timeout EXCEPT ![i] = l]
      BY <2>3 DEF TaskMakesSchema, TaskOpeningFails, NextIteration, TaskCancelled, TaskPlaces
    <3>2. Opening' \subseteq Opening
      BY <1>5, <3>1, TaskGoes
    <3>3. UNCHANGED <<conn, leaked, doubled>>
      BY <2>3 DEF TaskMakesSchema, TaskOpeningFails, NextIteration, TaskCancelled, MakeSchema, Halfway, connection
    <3> QED
      BY <3>2, <3>3, ConnKeeps
  <2> QED
    BY <1>5, <2>1, <2>2, <2>3 DEF TaskStep
<1>6. ASSUME NEW h \in Handlers, (\E i \in Runs : Accept(i, h)) \/ RequestStep(h), UNCHANGED timeout
      PROVE  ConnInv'
  <2>1. CASE \E i \in Runs : Accept(i, h)
    <3>1. request' = [request EXCEPT ![h] = Called("idle")] /\ GetConn /\ UNCHANGED conn
      BY <2>1 DEF Accept, GetConn
    <3>2. Called("idle") \in RequestPlaces /\ (Called("idle") = "connect" => ~conn)
      BY CalledPlaces DEF RequestPlaces
    <3>3. Opening' \subseteq Opening \/ (~conn /\ Opening' \subseteq Opening \cup {h})
      BY <1>6, <3>1, <3>2, RequestGoes
    <3> QED
      BY <3>1, <3>3, ConnKeeps
  <2>2. CASE RequestConnected(h)
    <3>1. h \in Opening /\ Connected /\ request' = [request EXCEPT ![h] = "schema"]
      BY <2>2 DEF RequestConnected, Opening
    <3>2. Opening' \subseteq Opening \ {h}
      BY <1>6, <3>1, RequestGoes DEF RequestPlaces
    <3> QED
      BY <3>1, <3>2, ConnKeeps
  <2>3. CASE RequestMakesSchema(h) \/ RequestOpeningFails(h) \/ Answer(h)
    <3>1. \E l \in RequestPlaces \ {"connect"} : request' = [request EXCEPT ![h] = l]
      BY <2>3 DEF RequestMakesSchema, RequestOpeningFails, Answer, RequestPlaces
    <3>2. Opening' \subseteq Opening
      BY <1>6, <3>1, RequestGoes
    <3>3. UNCHANGED <<conn, leaked, doubled>>
      BY <2>3 DEF RequestMakesSchema, RequestOpeningFails, Answer, MakeSchema, Halfway, connection
    <3> QED
      BY <3>2, <3>3, ConnKeeps
  <2> QED
    BY <1>6, <2>1, <2>2, <2>3 DEF RequestStep
<1> QED
  BY <1>1, <1>2, <1>3, <1>4, <1>5, <1>6, ConnectionMoves

LEMMA SchemaStep == TypeOK /\ OwnRun /\ SchemaInv /\ [Next]_vars => SchemaInv'
<1> SUFFICES ASSUME TypeOK, OwnRun, SchemaInv, [Next]_vars, conn', ~cut', ~schema'
             PROVE  MakingSchema'
  BY DEF SchemaInv
<1>0. /\ timeout \in [Runs -> TaskPlaces] /\ request \in [Handlers -> RequestPlaces]
      /\ conn \in BOOLEAN /\ schema \in BOOLEAN
  BY Parts DEF TypeParts, TasksOK, RequestsOK, ConnectionOK
<1>1. CASE UNCHANGED <<connection, timeout, request>>
  BY <1>1 DEF connection, SchemaInv, MakingSchema
<1>2. ASSUME NEW c \in Callers, CancelRequests(c), UNCHANGED timeout PROVE MakingSchema'
  <2>1. UNCHANGED <<conn, schema>> /\ ~cut
    BY <1>2 DEF CancelRequests, Halfway
  <2>2. MakingSchema
    BY <2>1 DEF SchemaInv
  <2>3. \A h \in Handlers : request[h] = "schema" => request'[h] = "schema"
    BY <1>0, <1>2 DEF CancelRequests, Halfway
  <2> QED
    BY <1>2, <2>2, <2>3 DEF MakingSchema
<1>3. ASSUME NEW m \in Mains, Listening(m), UNCHANGED <<connection, request>> PROVE MakingSchema'
  <2>1. UNCHANGED <<conn, schema, cut>>
    BY <1>3 DEF connection
  <2>2. MakingSchema
    BY <2>1 DEF SchemaInv
  <2>3. \A i \in Runs : timeout[i] = "schema" => timeout'[i] = "schema"
    BY <1>0, <1>3 DEF Listening, OwnRun, InStart
  <2> QED
    BY <1>3, <2>2, <2>3 DEF MakingSchema
<1>4. ASSUME NEW i \in Runs, TaskStep(i), UNCHANGED request PROVE MakingSchema'
  <2>1. CASE TaskConnected(i)
    BY <1>0, <2>1 DEF TaskConnected, MakingSchema
  <2>2. CASE ~TaskConnected(i)
    <3>0. /\ conn' = conn /\ cut' \in {cut, cut \/ timeout[i] = "schema"}
          /\ schema' \in {schema, schema \/ conn}
          /\ timeout[i] = "schema" =>
               TaskMakesSchema(i) \/ TaskOpeningFails(i) \/ TaskCancelled(i)
      BY <1>0, <1>4, <2>2 DEF TaskStep, MarkOffline, TaskMakesSchema, TaskOpeningFails, NextIteration, TaskCancelled,
         GetConn, MakeSchema, Halfway, connection
    <3>1. conn /\ ~cut /\ ~schema /\ timeout[i] # "schema"
      BY <1>0, <3>0 DEF TaskMakesSchema, TaskOpeningFails, TaskCancelled, MakeSchema, Halfway
    <3>2. MakingSchema
      BY <3>1 DEF SchemaInv
    <3>3. \A j \in Runs : j # i => timeout'[j] = timeout[j]
      BY <1>0, <1>4 DEF TaskStep, MarkOffline, TaskConnected, TaskMakesSchema, TaskOpeningFails, NextIteration,
         TaskCancelled
    <3> QED
      BY <1>4, <3>1, <3>2, <3>3 DEF MakingSchema
  <2> QED
    BY <2>1, <2>2
<1>5. ASSUME NEW h \in Handlers, (\E i \in Runs : Accept(i, h)) \/ RequestStep(h), UNCHANGED timeout
      PROVE  MakingSchema'
  <2>1. CASE RequestConnected(h)
    BY <1>0, <2>1 DEF RequestConnected, MakingSchema
  <2>2. CASE ~RequestConnected(h)
    <3>0. /\ conn' = conn /\ cut' \in {cut, cut \/ request[h] = "schema"}
          /\ schema' \in {schema, schema \/ conn}
          /\ request[h] = "schema" => RequestMakesSchema(h) \/ RequestOpeningFails(h)
      BY <1>0, <1>5, <2>2 DEF Accept, RequestStep, RequestMakesSchema, RequestOpeningFails, Answer,
         GetConn, MakeSchema, Halfway, connection
    <3>1. conn /\ ~cut /\ ~schema /\ request[h] # "schema"
      BY <1>0, <3>0 DEF RequestMakesSchema, RequestOpeningFails, MakeSchema, Halfway
    <3>2. MakingSchema
      BY <3>1 DEF SchemaInv
    <3>3. \A g \in Handlers : g # h => request'[g] = request[g]
      BY <1>0, <1>5 DEF Accept, RequestStep, RequestConnected, RequestMakesSchema, RequestOpeningFails, Answer
    <3> QED
      BY <1>5, <3>1, <3>2, <3>3 DEF MakingSchema
  <2> QED
    BY <2>1, <2>2
<1> QED
  BY <1>1, <1>2, <1>3, <1>4, <1>5, ConnectionMoves

\* A connection nobody is setting up has its tables, unless setting one up was cut short
\* by a cancellation or by a PRAGMA or script that raised.
THEOREM ConnectionHasTables == Spec => []TablesExist
<1>1. Init => SchemaInv /\ OwnRun
  BY Bounds DEF Init, SchemaInv, OwnRun, InStart, Callers
<1>2. SchemaInv => TablesExist
  <2> SUFFICES ASSUME SchemaInv, conn, ~cut,
                      \A i \in Runs : timeout[i] \notin {"connect", "schema"},
                      \A h \in Handlers : request[h] \notin {"connect", "schema"}
               PROVE  schema
    BY DEF TablesExist
  <2>1. ~MakingSchema
    BY DEF MakingSchema
  <2> QED
    BY <2>1 DEF SchemaInv
<1> QED
  BY <1>1, <1>2, OwnRunStep, SchemaStep, TypeInit, TypeStep, PTL DEF Spec

-----------------------------------------------------------------------------
(* One call of start() or stop() at a time. *)

Alone(c) == \A d \in Callers : d # c => pc[d] = "idle"

\* Who is past its check, when nobody else was.
LEMMA Checked ==
  ASSUME TypeOK, NEW c \in Callers, NEW l \in PCs, PastCheck(c, l)
  PROVE  /\ pc' = [pc EXCEPT ![c] = l] /\ pc'[c] = l
         /\ \A d \in Callers : d # c => pc'[d] = pc[d]
         /\ raced => raced'
         /\ ~raced' => Alone(c)
<1>1. pc \in [Callers -> PCs] /\ raced \in BOOLEAN
  BY Parts DEF TypeParts, CallersOK
<1>2. pc' = [pc EXCEPT ![c] = l] /\ raced' = (raced \/ Active \ {c} # {})
  BY DEF PastCheck, Goto
<1>3. ASSUME ~raced' PROVE Alone(c)
  <2>1. Active \ {c} = {}
    BY <1>2, <1>3
  <2> QED
    BY <2>1 DEF Active, Alone
<1> QED
  BY <1>1, <1>2, <1>3

\* Every other step leaves the callers that are idle idle.
LEMMA OthersStay ==
  ASSUME TypeOK, [Next]_vars
  PROVE  \/ \E c \in Callers, l \in {"setup", "join"} : PastCheck(c, l)
         \/ /\ raced' = raced
            /\ \A d \in Callers : pc[d] = "idle" => pc'[d] = "idle"
<1>0. pc \in [Callers -> PCs]
  BY Parts DEF TypeParts, CallersOK
<1>1. CASE \E m \in Mains : StartRunner(m)
  BY <1>1, MainsAndMayStop DEF StartRunner
<1>2. CASE \E c \in Callers : Stop(c)
  BY <1>2 DEF Stop
<1>3. ASSUME NEW m \in Mains, ListenFails(m) \/ StartStep(m)
      PROVE  raced' = raced /\ \A d \in Callers : pc[d] = "idle" => pc'[d] = "idle"
  BY <1>0, <1>3 DEF ListenFails, StartStep, MakeSite, Listening, Goto
<1>4. ASSUME NEW c \in Callers, StopStep(c)
      PROVE  raced' = raced /\ \A d \in Callers : pc[d] = "idle" => pc'[d] = "idle"
  BY <1>0, <1>4 DEF StopStep, TaskJoined, StopSite, Cleanup, CancelRequests, CloseStorage, Goto
<1>5. ASSUME NEW i \in Runs, TaskStep(i)
      PROVE  raced' = raced /\ \A d \in Callers : pc[d] = "idle" => pc'[d] = "idle"
  BY <1>0, <1>5 DEF TaskStep, MarkOffline, TaskConnected, TaskMakesSchema, TaskOpeningFails, NextIteration,
     TaskCancelled, Goto
<1>6. ASSUME NEW h \in Handlers, (\E i \in Runs : Accept(i, h)) \/ RequestStep(h)
      PROVE  raced' = raced /\ \A d \in Callers : pc[d] = "idle" => pc'[d] = "idle"
  BY <1>6 DEF Accept, RequestStep, RequestConnected, RequestMakesSchema, RequestOpeningFails, Answer
<1>7. CASE UNCHANGED vars
  BY <1>7 DEF vars
<1> QED
  BY <1>1, <1>2, <1>3, <1>4, <1>5, <1>6, <1>7, MainsAndMayStop DEF Next

LEMMA OneActiveStep == TypeOK /\ OneActive /\ [Next]_vars => OneActive'
<1> SUFFICES ASSUME TypeOK, OneActive, [Next]_vars, ~raced' PROVE AtMostOne(Active)'
  BY DEF OneActive
<1>1. ASSUME NEW c \in Callers, NEW l \in {"setup", "join"}, PastCheck(c, l)
      PROVE  AtMostOne(Active)'
  <2>1. l \in PCs
    BY DEF PCs
  <2> QED
    BY <1>1, <2>1, Checked DEF Alone, Active, AtMostOne
<1>2. CASE raced' = raced /\ \A d \in Callers : pc[d] = "idle" => pc'[d] = "idle"
  <2>1. Active' \subseteq Active
    BY <1>2 DEF Active
  <2> QED
    BY <1>2, <2>1 DEF OneActive, AtMostOne
<1> QED
  BY <1>1, <1>2, OthersStay

\* The histories only grow.
LEMMA CleanBefore == TypeOK /\ [Next]_vars /\ Clean' => Clean
<1> SUFFICES ASSUME TypeOK, [Next]_vars, Clean' PROVE Clean
  OBVIOUS
<1>0. raced \in BOOLEAN /\ selfstopped \in BOOLEAN
  BY Parts DEF TypeParts, CallersOK
<1>1. ~raced
  <2>1. ASSUME NEW c \in Callers, NEW l \in {"setup", "join"}, PastCheck(c, l) PROVE ~raced
    BY <1>0, <2>1 DEF PastCheck, Clean
  <2> QED
    BY <2>1, OthersStay DEF Clean
<1>2. ~selfstopped
  <2>1. selfstopped' = selfstopped \/ \E b \in BOOLEAN : selfstopped' = (selfstopped \/ b)
    BY DEF Next, vars, StartStep, StopStep, TaskStep, RequestStep, StartRunner, MakeSite, Listening,
       ListenFails, Stop, TaskJoined, StopSite, Cleanup, CancelRequests, CloseStorage, MarkOffline,
       TaskConnected, TaskMakesSchema, TaskOpeningFails, NextIteration, TaskCancelled, Accept, RequestConnected,
       RequestMakesSchema, RequestOpeningFails, Answer
  <2> QED
    BY <1>0, <2>1 DEF Clean
<1> QED
  BY <1>1, <1>2 DEF Clean

\* Everyone else is idle: what is left to show of the caller that moves.
LEMMA AloneKeeps ==
  ASSUME NEW c \in Callers, Alone(c), \A d \in Callers : d # c => pc'[d] = pc[d],
         Named', Place(c)',
         ~running' /\ pc'[c] \notin Stopping => NoneLive' /\ NoneOpen' /\ NoRequest'
  PROVE  Orderly'
<1>1. \A d \in Callers : d # c => pc'[d] = "idle"
  BY DEF Alone
<1>2. \A d \in Callers : d # c => Place(d)'
  BY <1>1 DEF Place, Stopping
<1> QED
  BY <1>1, <1>2 DEF Orderly, Released

\* What a caller finds that is alone.
LEMMA AloneFinds ==
  ASSUME Orderly, NEW c \in Callers, Alone(c), ~running, pc[c] \notin Stopping
  PROVE  NoneLive /\ NoneOpen /\ NoRequest
<1>1. \A d \in Callers : pc[d] \notin Stopping
  BY DEF Alone, Stopping
<1> QED
  BY <1>1 DEF Orderly, Released

LEMMA NotATask == \A c \in Mains \cup Handlers : \A i \in Runs : c # TimeoutTask(i)
BY TasksAssumption

LEMMA StartOrderly ==
  ASSUME TypeOK, OwnRun, OneActive, Orderly, Clean, Clean',
         NEW m \in Mains, StartRunner(m) \/ ListenFails(m) \/ StartStep(m)
  PROVE  Orderly'
<1>0. /\ m \in Callers /\ pc \in [Callers -> PCs] /\ mine \in [Callers -> 0..MaxStarts]
      /\ served \in [Runs -> 0..MaxStarts] /\ \A i \in Runs : m # TimeoutTask(i)
      /\ timeout \in [Runs -> TaskPlaces]
      /\ socket \in [Runs -> {"none", "open", "closed"}]
      /\ \A i \in Runs : TimeoutTask(i) \in Callers
  BY Parts, MainsAndMayStop, NotATask DEF TypeParts, CallersOK, TasksOK
<1>1. Named /\ Place(m) /\ Released
  BY <1>0 DEF Orderly
<1>2. pc[m] # "idle" => Alone(m)
  BY <1>0 DEF OneActive, AtMostOne, Active, Alone, Clean
<1>3. CASE StartRunner(m)
  <2>1. /\ Alone(m) /\ pc'[m] = "setup" /\ \A d \in Callers : d # m => pc'[d] = pc[d]
    BY <1>0, <1>3, Checked DEF StartRunner, Clean, PCs
  <2>2. /\ ~running /\ pc[m] = "idle"
        /\ UNCHANGED <<running, site, timeout_task, closed, conn, timeout, socket, request, via>>
    BY <1>3 DEF StartRunner, connection, requests
  <2>3. NoneLive /\ NoneOpen /\ NoRequest
    BY <1>0, <2>1, <2>2, AloneFinds DEF Stopping
  <2>4. NoneLive' /\ NoneOpen' /\ NoRequest'
    BY <2>2, <2>3 DEF NoneLive, NoneOpen, NoRequest, Live
  <2>5. Named'
    BY <1>0, <1>1, <2>1, <2>2, <2>4 DEF Named, NoneLive, NoneOpen, NoRequest
  <2>6. Place(m)'
    BY <2>1, <2>2, <2>4 DEF Place, Stopping
  <2> QED
    BY <1>0, <2>1, <2>4, <2>5, <2>6, AloneKeeps
<1>4. CASE ListenFails(m) \/ MakeSite(m)
  <2>1. /\ pc[m] \in {"setup", "listen"} /\ Alone(m) /\ pc'[m] \in {"idle", "listen"}
        /\ \A d \in Callers : d # m => pc'[d] = pc[d]
    BY <1>0, <1>2, <1>4 DEF ListenFails, MakeSite, Goto
  <2>2. UNCHANGED <<running, runner, timeout_task, closed, conn, timeout, socket, request, via, mine>>
    BY <1>4 DEF ListenFails, MakeSite, connection, requests, attributes, tasks
  <2>3. NoneLive /\ NoneOpen /\ NoRequest /\ ~running
    BY <1>1, <2>1 DEF Place
  <2>4. NoneLive' /\ NoneOpen' /\ NoRequest'
    BY <2>2, <2>3 DEF NoneLive, NoneOpen, NoRequest, Live
  <2>5. Named'
    BY <1>0, <1>1, <2>1, <2>2, <2>4 DEF Named, NoneLive, NoneOpen, NoRequest
  <2>6. pc'[m] = "listen" => mine'[m] = site' /\ served'[mine'[m]] = runner'
    <3>1. mine[m] \in Runs
      BY <2>1 DEF OwnRun, InStart
    <3> QED
      BY <1>0, <1>4, <3>1 DEF ListenFails, MakeSite, Goto
  <2>7. Place(m)'
    BY <2>1, <2>2, <2>3, <2>4, <2>6 DEF Place, Stopping
  <2> QED
    BY <1>0, <2>1, <2>4, <2>5, <2>7, AloneKeeps
<1>5. CASE Listening(m)
  <2>1. /\ pc[m] = "listen" /\ Alone(m) /\ pc'[m] = "idle"
        /\ \A d \in Callers : d # m => pc'[d] = pc[d]
    BY <1>0, <1>2, <1>5 DEF Listening, Goto
  <2>2. /\ UNCHANGED <<runner, site, conn, request, via, served>>
        /\ socket' = [socket EXCEPT ![mine[m]] = "open"]
        /\ timeout' = [timeout EXCEPT ![mine[m]] = "mark"]
        /\ timeout_task' = mine[m] /\ running' /\ closed' = "clear"
    BY <1>5 DEF Listening, connection, requests
  <2>3. NoneLive /\ NoneOpen /\ NoRequest /\ mine[m] = site /\ served[mine[m]] = runner
    BY <1>1, <2>1 DEF Place
  <2>4. \A i \in Runs : i # mine[m] => timeout'[i] = timeout[i] /\ socket'[i] = socket[i]
    BY <1>0, <2>2
  <2>5. Named'
    BY <1>0, <1>1, <2>1, <2>2, <2>3, <2>4 DEF Named, NoneLive, NoneOpen, NoRequest, Live
  <2>6. Place(m)'
    BY <2>1 DEF Place, Stopping
  <2> QED
    BY <1>0, <2>1, <2>2, <2>5, <2>6, AloneKeeps
<1> QED
  BY <1>3, <1>4, <1>5 DEF StartStep

LEMMA StopOrderly ==
  ASSUME TypeOK, OneActive, Orderly, Clean, Clean', NEW c \in Callers,
         (c \in MayStop /\ Stop(c)) \/ StopStep(c)
  PROVE  Orderly'
<1>0. /\ pc \in [Callers -> PCs] /\ mine \in [Callers -> 0..MaxStarts]
      /\ socket \in [Runs -> {"none", "open", "closed"}]
      /\ request \in [Handlers -> RequestPlaces]
      /\ selfstopped \in BOOLEAN
      /\ \A i \in Runs : TimeoutTask(i) \in Callers
  BY Parts, MainsAndMayStop DEF TypeParts, CallersOK, TasksOK, RequestsOK
<1>1. Named /\ Place(c) /\ Released
  BY DEF Orderly
<1>2. pc[c] # "idle" => Alone(c) /\ \A i \in Runs : c # TimeoutTask(i)
  BY <1>1 DEF OneActive, AtMostOne, Active, Alone, Clean, Named
<1>3. CASE c \in MayStop /\ Stop(c)
  <2>1. /\ Alone(c) /\ pc'[c] = "join" /\ \A d \in Callers : d # c => pc'[d] = pc[d]
    BY <1>0, <1>3, Checked DEF Stop, Clean, PCs
  <2>2. ~(timeout_task # 0 /\ c = TimeoutTask(timeout_task))
    BY <1>3 DEF Stop, Clean
  <2>3. \A i \in Runs : c # TimeoutTask(i)
    <3> SUFFICES ASSUME NEW i \in Runs, c = TimeoutTask(i) PROVE FALSE
      OBVIOUS
    <3>1. \E j \in Runs : c = TimeoutTask(j) /\ timeout[j] = "hook"
      BY <1>3, NotATask DEF MayStop
    <3>2. i = timeout_task
      BY <1>1, <3>1 DEF Named, Live, TimeoutTask
    <3> QED
      BY <2>2, <3>2, Bounds
  <2>4. /\ UNCHANGED <<runner, site, timeout_task, closed, conn, timeout, socket, served, request, via>>
        /\ running /\ ~running' /\ mine'[c] = timeout_task
    BY <1>0, <1>3, <2>2 DEF Stop, connection, requests
  <2>5. Named'
    BY <1>0, <1>1, <2>1, <2>3, <2>4 DEF Named, Live
  <2>6. Place(c)'
    BY <1>1, <2>1, <2>4 DEF Place, Stopping, Named
  <2> QED
    BY <2>1, <2>5, <2>6, AloneKeeps DEF Stopping
<1>4. CASE TaskJoined(c)
  <2>1. /\ pc[c] = "join" /\ Alone(c) /\ pc'[c] = "site"
        /\ \A d \in Callers : d # c => pc'[d] = pc[d]
    BY <1>0, <1>2, <1>4 DEF TaskJoined, Goto
  <2>2. /\ UNCHANGED <<running, runner, site, closed, conn, timeout, socket, served, request, via, mine>>
        /\ timeout_task' = 0 /\ ~running /\ closed = "clear" /\ mine[c] = timeout_task
    BY <1>1, <1>4, <2>1 DEF TaskJoined, connection, requests, Place, Stopping
  <2>3. mine[c] \notin {i \in Runs : timeout[i] # "done"} \/ \E i \in cancelled : c = TimeoutTask(i)
    BY <1>4 DEF TaskJoined, JoinReturns
  <2>4. cancelled \subseteq Runs
    BY Parts DEF TypeParts, TasksOK
  <2>5. mine[c] \notin {i \in Runs : timeout[i] # "done"}
    BY <1>2, <2>1, <2>3, <2>4
  <2>6. NoneLive'
    BY <1>1, <2>2, <2>5 DEF Named, NoneLive, Live
  <2>7. Named'
    BY <1>0, <1>1, <1>2, <2>1, <2>2, <2>6 DEF Named, NoneLive
  <2>8. Place(c)'
    BY <2>1, <2>2, <2>6 DEF Place, Stopping
  <2> QED
    BY <2>1, <2>7, <2>8, AloneKeeps DEF Stopping
<1>5. CASE StopSite(c)
  <2>1. /\ pc[c] = "site" /\ Alone(c) /\ pc'[c] = "cleanup"
        /\ \A d \in Callers : d # c => pc'[d] = pc[d]
    BY <1>0, <1>2, <1>5 DEF StopSite, Goto
  <2>2. /\ UNCHANGED <<running, runner, timeout_task, closed, conn, timeout, served, request, via>>
        /\ ~running /\ closed = "clear" /\ NoneLive /\ mine'[c] = runner
    BY <1>0, <1>1, <1>5, <2>1 DEF StopSite, connection, requests, Place, Stopping
  <2>3. NoneOpen'
    BY <1>0, <1>1, <1>5, Bounds DEF StopSite, NoneOpen, Named
  <2>4. NoneLive'
    BY <2>2 DEF NoneLive, Live
  <2>5. Named'
    BY <1>0, <1>1, <1>2, <2>1, <2>2, <2>3, <2>4 DEF Named, NoneLive, NoneOpen
  <2>6. Place(c)'
    BY <2>1, <2>2, <2>3, <2>4 DEF Place, Stopping
  <2> QED
    BY <2>1, <2>5, <2>6, AloneKeeps DEF Stopping
<1>6. CASE Cleanup(c)
  <2>1. /\ pc[c] = "cleanup" /\ Alone(c) /\ pc'[c] = "close"
        /\ \A d \in Callers : d # c => pc'[d] = pc[d]
    BY <1>0, <1>2, <1>6 DEF Cleanup, Goto
  <2>2. /\ UNCHANGED <<running, site, timeout_task, closed, conn, timeout, socket, served, request, via>>
        /\ ~running /\ closed = "clear" /\ NoneLive /\ NoneOpen /\ mine[c] = runner
    BY <1>1, <1>6, <2>1 DEF Cleanup, connection, requests, tasks, Place, Stopping
  <2>3. NoRequest
    BY <1>1, <1>6, <2>2 DEF Cleanup, InProgress, NoRequest, Named
  <2>4. NoneLive' /\ NoneOpen' /\ NoRequest'
    BY <2>2, <2>3 DEF NoneLive, Live, NoneOpen, NoRequest
  <2>5. Named'
    BY <1>0, <1>1, <1>2, <2>1, <2>2, <2>4 DEF Named, NoneLive, NoneOpen, NoRequest
  <2>6. Place(c)'
    BY <2>1, <2>2, <2>4 DEF Place, Stopping
  <2> QED
    BY <2>1, <2>5, <2>6, AloneKeeps DEF Stopping
<1>7. CASE CancelRequests(c)
  <2> DEFINE ended == {h \in InProgress(mine[c]) : pc[h] # "join"}
  <2>1. /\ pc[c] = "cleanup" /\ Alone(c) /\ ended \cap Active = {}
        /\ pc' = [d \in Callers |-> IF d \in ended THEN "idle" ELSE pc[d]]
    BY <1>0, <1>2, <1>7 DEF CancelRequests, Clean
  <2>2. \A d \in Callers : pc'[d] = pc[d]
    BY <2>1 DEF Active
  <2>3. /\ UNCHANGED <<running, runner, site, timeout_task, closed, conn, timeout, socket, served, via, mine>>
        /\ \A h \in Handlers : request'[h] # "idle" => request[h] # "idle"
    BY <1>0, <1>7 DEF CancelRequests, Halfway, attributes, tasks
  <2>4. Named'
    BY <1>0, <1>1, <2>2, <2>3 DEF Named, Live
  <2>5. Place(c)'
    BY <1>1, <2>1, <2>2, <2>3 DEF Place, Stopping, NoneLive, NoneOpen, Live
  <2> QED
    BY <2>1, <2>2, <2>4, <2>5, AloneKeeps DEF Stopping
<1>8. CASE CloseStorage(c)
  <2>1. /\ pc[c] = "close" /\ Alone(c) /\ pc'[c] = "idle"
        /\ \A d \in Callers : d # c => pc'[d] = pc[d]
    BY <1>0, <1>2, <1>8 DEF CloseStorage, Goto
  <2>2. /\ UNCHANGED <<running, runner, site, timeout_task, timeout, socket, served, request, via>>
        /\ ~running /\ conn' = FALSE /\ NoneLive /\ NoneOpen /\ NoRequest
    BY <1>1, <1>8, <2>1 DEF CloseStorage, requests, tasks, Place
  <2>3. NoneLive' /\ NoneOpen' /\ NoRequest'
    BY <2>2 DEF NoneLive, Live, NoneOpen, NoRequest
  <2>4. Named'
    BY <1>0, <1>1, <1>2, <2>1, <2>2, <2>3 DEF Named, NoneLive, NoneOpen, NoRequest
  <2>5. Place(c)'
    BY <2>1 DEF Place, Stopping
  <2> QED
    BY <2>1, <2>3, <2>4, <2>5, AloneKeeps
<1> QED
  BY <1>3, <1>4, <1>5, <1>6, <1>7, <1>8 DEF StopStep

\* While something runs the server is not closed.
LEMMA BusyNotClosed ==
  ASSUME Orderly, ~(NoneLive /\ NoneOpen /\ NoRequest)
  PROVE  closed = "clear"
<1>1. CASE running
  BY <1>1 DEF Orderly, Named
<1>2. CASE ~running
  <2>1. PICK c \in Callers : pc[c] \in Stopping
    BY <1>2 DEF Orderly, Released
  <2> QED
    BY <2>1 DEF Orderly, Place
<1> QED
  BY <1>1, <1>2

\* A step of the timeout task or of a request: it does not touch the server's attributes.
LEMMA QuietKeeps ==
  ASSUME Orderly,
         UNCHANGED <<running, runner, site, timeout_task, closed, pc, mine, served, socket>>,
         \A i \in Runs : Live(i)' => Live(i),
         \A h \in Handlers : request'[h] # "idle" =>
            (request[h] # "idle" /\ via'[h] = via[h]) \/ (via'[h] = runner /\ ~NoneOpen),
         conn' => conn \/ closed = "clear"
  PROVE  Orderly'
<1>1. (NoneLive => NoneLive') /\ (NoneOpen => NoneOpen') /\ (NoRequest /\ NoneOpen => NoRequest')
  BY DEF NoneLive, NoneOpen, NoRequest
<1>2. Named'
  <2>1. /\ \A i \in Runs : /\ pc'[TimeoutTask(i)] = "idle"
                           /\ Live(i)' => i = timeout_task'
                           /\ socket'[i] = "open" => i = site' /\ served'[i] = runner'
        /\ running' => closed' = "clear"
    BY DEF Orderly, Named
  <2>2. \A h \in Handlers : request'[h] # "idle" => via'[h] = runner'
    BY DEF Orderly, Named
  <2>3. closed' = "set" => ~conn'
    BY DEF Orderly, Named
  <2> QED
    BY <2>1, <2>2, <2>3 DEF Named
<1>3. ASSUME NEW c \in Callers PROVE Place(c)'
  <2>1. Place(c)
    BY DEF Orderly
  <2> QED
    BY <1>1, <2>1 DEF Place
<1>4. Released'
  BY <1>1 DEF Orderly, Released
<1> QED
  BY <1>2, <1>3, <1>4 DEF Orderly

LEMMA TaskOrderly ==
  ASSUME TypeOK, Orderly, NEW i \in Runs, TaskStep(i), OwnRun
  PROVE  Orderly'
<1>0. /\ timeout \in [Runs -> TaskPlaces] /\ pc \in [Callers -> PCs]
      /\ TimeoutTask(i) \in Callers /\ pc[TimeoutTask(i)] = "idle"
  BY Parts, MainsAndMayStop DEF TypeParts, CallersOK, TasksOK, Orderly, Named
<1>1. UNCHANGED <<running, runner, site, timeout_task, closed, mine, served, socket, request, via>>
  BY DEF TaskStep, MarkOffline, TaskConnected, TaskMakesSchema, TaskOpeningFails, NextIteration, TaskCancelled,
     attributes, requests
<1>2. pc' = pc
  BY <1>0 DEF TaskStep, MarkOffline, TaskConnected, TaskMakesSchema, TaskOpeningFails, NextIteration, TaskCancelled, Goto
<1>3. /\ \A j \in Runs : j # i => timeout'[j] = timeout[j]
      /\ timeout[i] # "none" /\ timeout[i] # "done"
  <2>1. \E p \in TaskPlaces : timeout' = [timeout EXCEPT ![i] = p]
    BY CalledPlaces DEF TaskStep, MarkOffline, TaskConnected, TaskMakesSchema, TaskOpeningFails, NextIteration,
       TaskCancelled, TaskPlaces
  <2>2. timeout[i] # "none"
    BY DEF TaskStep, MarkOffline, TaskConnected, TaskMakesSchema, TaskOpeningFails, NextIteration, TaskCancelled, OwnRun
  <2>3. timeout[i] # "done"
    BY DEF TaskStep, MarkOffline, TaskConnected, TaskMakesSchema, TaskOpeningFails, NextIteration, TaskCancelled
  <2> QED
    BY <1>0, <2>1, <2>2, <2>3
<1>4. closed = "clear"
  BY <1>3, BusyNotClosed DEF NoneLive, Live
<1>5. \A j \in Runs : Live(j)' => Live(j)
  BY <1>3 DEF Live
<1> QED
  BY <1>1, <1>2, <1>4, <1>5, QuietKeeps

LEMMA RequestOrderly ==
  ASSUME TypeOK, Orderly, NEW h \in Handlers, (\E i \in Runs : Accept(i, h)) \/ RequestStep(h)
  PROVE  Orderly'
<1>0. request \in [Handlers -> RequestPlaces] /\ via \in [Handlers -> 0..MaxStarts]
  BY Parts DEF TypeParts, RequestsOK
<1>1. /\ UNCHANGED <<running, runner, site, timeout_task, closed, mine, served, socket, pc>>
      /\ timeout' = timeout
  BY DEF Accept, RequestStep, RequestConnected, RequestMakesSchema, RequestOpeningFails, Answer, attributes, tasks
<1>2. \A j \in Runs : Live(j)' => Live(j)
  BY <1>1 DEF Live
<1>3. ASSUME NEW i \in Runs, Accept(i, h)
      PROVE  /\ conn' = conn /\ ~NoneOpen
             /\ \A g \in Handlers : g # h => request'[g] = request[g] /\ via'[g] = via[g]
             /\ via'[h] = runner
  <2>1. conn' = conn /\ socket[i] = "open" /\ via' = [via EXCEPT ![h] = served[i]]
    BY <1>3 DEF Accept, GetConn
  <2>2. served[i] = runner /\ ~NoneOpen
    BY <2>1 DEF Orderly, Named, NoneOpen
  <2>3. \A g \in Handlers : g # h => request'[g] = request[g]
    BY <1>0, <1>3 DEF Accept
  <2> QED
    BY <1>0, <2>1, <2>2, <2>3
<1>4. ASSUME RequestStep(h)
      PROVE  /\ via' = via /\ request[h] # "idle" /\ closed = "clear"
             /\ \A g \in Handlers : g # h => request'[g] = request[g]
  <2>1. via' = via /\ request[h] # "idle"
    BY <1>4 DEF RequestStep, RequestConnected, RequestMakesSchema, RequestOpeningFails, Answer
  <2>2. \A g \in Handlers : g # h => request'[g] = request[g]
    BY <1>0, <1>4 DEF RequestStep, RequestConnected, RequestMakesSchema, RequestOpeningFails, Answer
  <2>3. closed = "clear"
    BY <2>1, BusyNotClosed DEF NoRequest
  <2> QED
    BY <2>1, <2>2, <2>3
<1>5. CASE \E i \in Runs : Accept(i, h)
  <2>1. PICK i \in Runs : Accept(i, h)
    BY <1>5
  <2> QED
    BY <1>1, <1>2, <1>3, <2>1, QuietKeeps
<1>6. CASE RequestStep(h)
  BY <1>1, <1>2, <1>4, <1>6, QuietKeeps
<1> QED
  BY <1>5, <1>6

LEMMA OrderlyStep == TypeOK /\ OwnRun /\ OneActive /\ CleanInv /\ [Next]_vars => CleanInv'
<1> SUFFICES ASSUME TypeOK, OwnRun, OneActive, CleanInv, [Next]_vars, Clean' PROVE Orderly'
  BY DEF CleanInv
<1>1. Clean /\ Orderly
  BY CleanBefore DEF CleanInv
<1>2. ASSUME NEW m \in Mains, StartRunner(m) \/ ListenFails(m) \/ StartStep(m) PROVE Orderly'
  BY <1>1, <1>2, StartOrderly
<1>3. ASSUME NEW c \in Callers, (c \in MayStop /\ Stop(c)) \/ StopStep(c) PROVE Orderly'
  BY <1>1, <1>3, StopOrderly
<1>4. ASSUME NEW i \in Runs, TaskStep(i) PROVE Orderly'
  BY <1>1, <1>4, TaskOrderly
<1>5. ASSUME NEW h \in Handlers, (\E i \in Runs : Accept(i, h)) \/ RequestStep(h) PROVE Orderly'
  BY <1>1, <1>5, RequestOrderly
<1>6. CASE UNCHANGED vars
  BY <1>1, <1>6 DEF vars, attributes, connection, tasks, requests, Orderly, Named, Place, Released,
     NoneLive, Live, NoneOpen, NoRequest
<1> QED
  BY <1>2, <1>3, <1>4, <1>5, <1>6, MainsAndMayStop DEF Next

LEMMA SafeInit == Init => OneActive /\ CleanInv
<1> SUFFICES ASSUME Init PROVE OneActive /\ Orderly
  BY DEF CleanInv
<1>1. \A c \in Callers : pc[c] = "idle"
  BY DEF Init
<1>2. OneActive
  BY <1>1 DEF OneActive, AtMostOne, Active
<1>3. Named
  BY <1>1, MainsAndMayStop DEF Init, Named, Live
<1>4. \A c \in Callers : Place(c)
  BY <1>1 DEF Place, Stopping
<1>5. NoneLive /\ NoneOpen /\ NoRequest
  BY DEF Init, NoneLive, Live, NoneOpen, NoRequest
<1> QED
  BY <1>2, <1>3, <1>4, <1>5 DEF Orderly, Released

SafeInv == TypeOK /\ OwnRun /\ ConnInv /\ OneActive /\ CleanInv

LEMMA Safe == Spec => []SafeInv
<1>1. Init => SafeInv
  <2> SUFFICES ASSUME Init PROVE OwnRun /\ ConnInv
    BY TypeInit, SafeInit DEF SafeInv
  <2>1. OwnRun
    BY Bounds DEF Init, OwnRun, InStart, Callers
  <2>2. ConnInv
    BY DEF Init, ConnInv, Opening, AtMostOne
  <2> QED
    BY <2>1, <2>2
<1>2. SafeInv /\ [Next]_vars => SafeInv'
  BY TypeStep, OwnRunStep, ConnStep, OneActiveStep, OrderlyStep DEF SafeInv
<1> QED
  BY <1>1, <1>2, PTL DEF Spec

\* A server that is stopped holds nothing that its attributes do not name: the sockets
\* are closed, the timeout tasks have ended, no request goes on and the connection is closed.
THEOREM StoppedReleasesAll == Spec => []StoppedMeansReleased
<1>1. SafeInv => StoppedMeansReleased
  <2> SUFFICES ASSUME SafeInv, closed = "set", ~raced, ~selfstopped, Active = {}
               PROVE  /\ \A i \in Runs : socket[i] # "open" /\ timeout[i] \in {"none", "done"}
                      /\ \A h \in Handlers : request[h] = "idle"
                      /\ ~conn
                      /\ leaked => doubled
    BY DEF StoppedMeansReleased
  <2>1. Orderly
    BY DEF SafeInv, CleanInv, Clean
  <2>2. NoneLive /\ NoneOpen /\ NoRequest
    BY <2>1, BusyNotClosed
  <2>3. ~conn
    BY <2>1 DEF Orderly, Named
  <2>4. leaked => doubled
    BY DEF SafeInv, ConnInv
  <2> QED
    BY <2>2, <2>3, <2>4 DEF NoneLive, Live, NoneOpen, NoRequest
<1> QED
  BY <1>1, Safe, PTL

\* While one call of start() or stop() is in progress at a time there is one timeout task at
\* most: the one that the attribute names.
THEOREM OneTimeout == Spec => []OneTimeoutTask
<1>1. SafeInv => OneTimeoutTask
  <2> SUFFICES ASSUME SafeInv, ~raced, ~selfstopped
               PROVE  Cardinality({i \in Runs : Live(i)}) <= 1
    BY DEF OneTimeoutTask, Live
  <2> DEFINE S == {i \in Runs : Live(i)}
  <2>1. S \subseteq {timeout_task}
    BY DEF SafeInv, CleanInv, Clean, Orderly, Named
  <2>2. IsFiniteSet({timeout_task}) /\ Cardinality({timeout_task}) = 1
    BY FS_Singleton
  <2> HIDE DEF S
  <2>3. Cardinality(S) <= Cardinality({timeout_task})
    BY <2>1, <2>2, FS_Subset
  <2> QED
    BY <2>2, <2>3 DEF S
<1> QED
  BY <1>1, Safe, PTL
=============================================================================
