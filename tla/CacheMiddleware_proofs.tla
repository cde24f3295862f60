----------------------- MODULE CacheMiddleware_proofs -----------------------
(***************************************************************************)
(* Proofs about CacheMiddleware for any threads, payloads, max_entries,    *)
(* drains, restarts and faults: how far concurrent calls overshoot         *)
(* max_entries, and what a device that makes its calls one at a time keeps *)
(* through any number of failed saves, kills and power losses.             *)
(***************************************************************************)
EXTENDS CacheMiddleware, FiniteSetTheorems, FunctionTheorems, TLAPS

USE EntriesAssumption, InodesAssumption, CacheBoundsAssumption

\* Threads that passed the test of max_entries and have not appended yet.
Appending == {t \in Threads : pc[t] = "append"}

Bound == MaxEntries + Cardinality(Threads) - 1
Short == {s \in Seq(Payloads) : Len(s) <= Bound}

\* A thread in on_error knows the payload it was called with.
Shapes ==
  /\ TypeOK
  /\ \A t \in Threads : pc[t] \in {"check", "append"} => item[t] \in Payloads

\* Every thread still to append counts as an entry; what the files and the
\* buffers hold, which a restart may bring back, is no longer than the bound.
Overshoot ==
  /\ Len(cache) + Cardinality(Appending) <= Bound
  /\ Appending # {} => MaxEntries >= 1

OnDisk ==
  /\ content \in [Inodes -> Short \cup {Empty, Torn}]
  /\ buffer \in [Threads -> Short]
  /\ medium \in Short \cup {Empty, Torn}

IInv == Shapes /\ Overshoot /\ OnDisk

LEMMA ThreadsCount == Cardinality(Threads) \in Nat /\ Cardinality(Threads) >= 1
<1>1. Cardinality(Threads) \in Nat
  BY FS_CardinalityType
<1>2. Cardinality(Threads) # 0
  BY FS_EmptySet
<1> QED
  BY <1>1, <1>2

LEMMA BoundNat == Bound \in Nat /\ Bound >= MaxEntries
BY ThreadsCount DEF Bound

LEMMA EmptyIsShort == <<>> \in Short
BY BoundNat DEF Short

LEMMA SubsetCount ==
  ASSUME NEW S \in SUBSET Threads
  PROVE  IsFiniteSet(S) /\ Cardinality(S) \in Nat /\ Cardinality(S) <= Cardinality(Threads)
BY FS_Subset, FS_CardinalityType

\* There is an inode left for a new temporary file.
LEMMA FreshExists ==
  ASSUME handle \in [Threads -> Inodes \cup {none}]
  PROVE  Fresh \in Inodes /\ Fresh # path
<1> DEFINE Held == {handle[u] : u \in Threads}
<1>1. IsFiniteSet(Held) /\ Cardinality(Held) <= Cardinality(Threads) /\ Cardinality(Held) \in Nat
  <2>1. IsFiniteSet(Held) /\ Cardinality(Held) <= Cardinality(Threads)
    <3>1. handle \in Surjection(Threads, Held)
      BY Fun_IsSurj
    <3> QED
      BY <3>1, FS_Surjection
  <2> HIDE DEF Held
  <2> QED
    BY <2>1, FS_CardinalityType
<1> HIDE DEF Held
<1>2. /\ IsFiniteSet(Held \cup {path})
      /\ Cardinality(Held \cup {path}) <= Cardinality(Threads) + 1
      /\ Cardinality(Held \cup {path}) \in Nat
  <2>1. /\ IsFiniteSet(Held \cup {path})
        /\ Cardinality(Held \cup {path}) = IF path \in Held THEN Cardinality(Held)
                                                          ELSE Cardinality(Held) + 1
    BY <1>1, FS_AddElement
  <2> QED
    BY <1>1, <2>1, ThreadsCount
<1>3. ~(Inodes \subseteq Held \cup {path})
  <2>1. Cardinality(Inodes) \in Nat
    BY FS_CardinalityType
  <2> QED
    BY <1>2, <2>1, ThreadsCount, FS_Subset
<1>4. \E i \in Inodes : i # path /\ \A u \in Threads : handle[u] # i
  BY <1>3 DEF Held
<1> QED
  BY <1>4 DEF Fresh

LEMMA InitHolds == Init => IInv
<1> SUFFICES ASSUME Init PROVE IInv
  OBVIOUS
<1>1. Appending = {}
  BY DEF Init, Appending
<1>2. Overshoot
  BY <1>1, BoundNat, FS_EmptySet DEF Init, Overshoot
<1>3. Shapes
  <2>1. <<>> \in Seq(Payloads)
    OBVIOUS
  <2>2. /\ cache \in Seq(Payloads) /\ items \in [Threads -> Seq(Payloads)]
        /\ buffer \in [Threads -> Seq(Payloads)]
        /\ content \in [Inodes -> Seq(Payloads) \cup {Empty, Torn}]
        /\ medium \in Seq(Payloads) \cup {Empty, Torn}
    BY <2>1 DEF Init
  <2>3. /\ pc \in [Threads -> PCs] /\ item \in [Threads -> Payloads \cup {none}]
        /\ handle \in [Threads -> Inodes \cup {none}]
        /\ \A t \in Threads : pc[t] = "idle"
    BY DEF Init, PCs
  <2>4. /\ {path, tmp} \subseteq Inodes \cup {none} /\ overlapped \in BOOLEAN
        /\ accepted \cup refused \cup drained \cup lost \subseteq Payloads /\ unsaved \in BOOLEAN
    BY DEF Init
  <2>5. drains \in 0..MaxDrains /\ crashes \in 0..MaxCrashes /\ faults \in 0..MaxFaults
    <3>1. drains = 0 /\ crashes = 0 /\ faults = 0
      BY DEF Init
    <3> QED
      BY <3>1
  <2> QED
    BY <2>2, <2>3, <2>4, <2>5 DEF Shapes, TypeOK
<1>4. OnDisk
  BY EmptyIsShort DEF Init, OnDisk
<1> QED
  BY <1>2, <1>3, <1>4 DEF IInv

\* No thread passes the test, and the list does not grow.
LEMMA NoneJoins ==
  ASSUME IInv, Len(cache') \in Nat, Len(cache') <= Len(cache), Appending' \subseteq Appending
  PROVE  Overshoot'
<1>1. Cardinality(Appending') <= Cardinality(Appending)
  <2>1. Appending \subseteq Threads
    BY DEF Appending
  <2>2. IsFiniteSet(Appending)
    BY <2>1, SubsetCount
  <2> HIDE DEF Appending
  <2> QED
    BY <2>2, FS_Subset
<1>2. Cardinality(Appending') \in Nat /\ Cardinality(Appending) \in Nat /\ Len(cache) \in Nat
  BY SubsetCount DEF Appending, IInv, Shapes, TypeOK
<1> QED
  BY <1>1, <1>2, BoundNat DEF IInv, Overshoot, Bound

LEMMA GotoElsewhere ==
  ASSUME IInv, NEW t \in Threads, NEW l \in PCs \ {"append"}, Goto(t, l)
  PROVE  pc' \in [Threads -> PCs] /\ Appending' = Appending \ {t}
BY DEF IInv, Shapes, TypeOK, Goto, Appending

LEMMA EnterBoolean ==
  ASSUME TypeOK, NEW t, Enter(t)
  PROVE  overlapped' \in BOOLEAN
BY DEF TypeOK, Enter

\* A restart reads back a list that was short enough to be written.
LEMMA RestartLoads ==
  ASSUME Restart, content' \in [Inodes -> Short \cup {Empty, Torn}], TypeOK
  PROVE  cache' \in Short
<1>1. path' \in Inodes \cup {none}
  BY DEF Restart, TypeOK
<1>2. Loaded' \in Short
  BY <1>1, EmptyIsShort DEF Loaded
<1> QED
  BY <1>2, EmptyIsShort DEF Restart

LEMMA FaultCounted ==
  ASSUME TypeOK, Fault
  PROVE  faults' \in 0..MaxFaults
BY DEF TypeOK, Fault

\* A call that returns, whether its save failed or not.
LEMMA ReturnShapes ==
  ASSUME TypeOK, NEW t \in Threads, NEW b \in BOOLEAN, Return(t, b)
  PROVE  /\ pc' \in [Threads -> PCs] /\ item' \in [Threads -> Payloads \cup {none}]
         /\ items' \in [Threads -> Seq(Payloads)] /\ unsaved' \in BOOLEAN
         /\ accepted' \cup refused' \cup drained' \cup lost' \subseteq Payloads
         /\ overlapped' \in BOOLEAN /\ drains' \in 0..MaxDrains /\ crashes' \in 0..MaxCrashes
         /\ \A u \in Threads \ {t} : pc'[u] = pc[u] /\ item'[u] = item[u] /\ items'[u] = items[u]
         /\ pc'[t] = "idle" /\ item'[t] = none /\ items'[t] = <<>>
<1>1. pc' = [pc EXCEPT ![t] = "idle"] /\ item' = [item EXCEPT ![t] = none]
  BY DEF Return, Goto
<1>2. /\ pc' \in [Threads -> PCs] /\ item' \in [Threads -> Payloads \cup {none}]
      /\ \A u \in Threads \ {t} : pc'[u] = pc[u] /\ item'[u] = item[u]
      /\ pc'[t] = "idle" /\ item'[t] = none
  BY <1>1 DEF TypeOK, PCs
<1>3. /\ items' \in [Threads -> Seq(Payloads)] /\ items'[t] = <<>>
      /\ \A u \in Threads \ {t} : items'[u] = items[u]
  BY DEF Return, TypeOK
<1>4. /\ accepted' = accepted \cup ({item[t]} \ {none}) /\ drained' = drained \cup Cached(items[t])
      /\ unsaved' = ~b /\ UNCHANGED <<refused, lost, drains, crashes, overlapped>>
  BY DEF Return
<1>5. Cached(items[t]) \subseteq Payloads /\ item[t] \in Payloads \cup {none}
  BY DEF TypeOK, Cached
<1>6. accepted' \cup refused' \cup drained' \cup lost' \subseteq Payloads
  BY <1>4, <1>5 DEF TypeOK
<1> QED
  BY <1>2, <1>3, <1>4, <1>6 DEF TypeOK

LEMMA ShapesStep ==
  ASSUME IInv, [Next]_vars
  PROVE  Shapes' /\ OnDisk'
<1> SUFFICES Shapes' /\ OnDisk'
  OBVIOUS
<1> USE DEF IInv, Shapes, TypeOK, OnDisk, Files, History, Bounds
<1>1. ASSUME NEW t \in Threads, NEW p \in Payloads, SendFails(t, p) PROVE Shapes' /\ OnDisk'
  <2>1. TypeOK' /\ OnDisk'
    BY <1>1, EnterBoolean DEF SendFails, Goto, PCs
  <2>2. \A u \in Threads : pc'[u] \in {"check", "append"} => item'[u] \in Payloads
    BY <1>1 DEF SendFails, Goto
  <2> QED
    BY <2>1, <2>2
<1>2. ASSUME NEW t \in Threads, DrainCopy(t) PROVE Shapes' /\ OnDisk'
  <2>1. TypeOK' /\ OnDisk'
    BY <1>2, EnterBoolean DEF DrainCopy, Goto, PCs
  <2>2. \A u \in Threads : pc'[u] \in {"check", "append"} => item'[u] \in Payloads
    BY <1>2 DEF DrainCopy, Goto
  <2> QED
    BY <2>1, <2>2
<1>3. ASSUME NEW t \in Threads, CheckFull(t) PROVE Shapes' /\ OnDisk'
  <2>1. TypeOK' /\ OnDisk'
    <3>1. item[t] \in Payloads
      BY <1>3 DEF CheckFull
    <3>2. /\ pc' \in [Threads -> PCs] /\ item' \in [Threads -> Payloads \cup {none}]
          /\ refused' \subseteq Payloads
      BY <1>3, <3>1 DEF CheckFull, Goto, PCs
    <3> QED
      BY <1>3, <3>2 DEF CheckFull
  <2>2. \A u \in Threads : pc'[u] \in {"check", "append"} => item'[u] \in Payloads
    BY <1>3 DEF CheckFull, Goto
  <2> QED
    BY <2>1, <2>2
<1>4. ASSUME NEW t \in Threads, AppendEntry(t) PROVE Shapes' /\ OnDisk'
  BY <1>4 DEF AppendEntry, Goto, PCs
<1>5. ASSUME NEW t \in Threads, DrainClear(t) PROVE Shapes' /\ OnDisk'
  BY <1>5 DEF DrainClear, Goto, PCs
<1>6. ASSUME NEW t \in Threads, OpenTmp(t) PROVE Shapes' /\ OnDisk'
  BY <1>6, FreshExists DEF OpenTmp, Goto, PCs
<1>7. ASSUME NEW t \in Threads, DumpJson(t) PROVE Shapes' /\ OnDisk'
  <2>1. cache \in Short
    <3>1. Len(cache) \in Nat /\ Cardinality(Appending) \in Nat
      BY SubsetCount DEF Appending
    <3> QED
      BY <3>1, BoundNat DEF Overshoot, Short
  <2> QED
    BY <1>7, <2>1 DEF DumpJson, Goto, PCs
<1>8. ASSUME NEW t \in Threads, CloseTmp(t) PROVE Shapes' /\ OnDisk'
  <2>1. TypeOK' /\ OnDisk'
    <3>1. buffer[t] \in Short /\ Short \subseteq Seq(Payloads)
      BY DEF Short
    <3>2. /\ content' \in [Inodes -> Short \cup {Empty, Torn}]
          /\ content' \in [Inodes -> Seq(Payloads) \cup {Empty, Torn}]
      BY <1>8, <3>1 DEF CloseTmp
    <3>3. buffer' \in [Threads -> Short] /\ buffer' \in [Threads -> Seq(Payloads)]
      BY <1>8, EmptyIsShort DEF CloseTmp
    <3>4. pc' \in [Threads -> PCs] /\ handle' \in [Threads -> Inodes \cup {none}]
      BY <1>8 DEF CloseTmp, Goto, PCs
    <3> QED
      BY <1>8, <3>2, <3>3, <3>4 DEF CloseTmp
  <2>2. \A u \in Threads : pc'[u] \in {"check", "append"} => item'[u] \in Payloads
    BY <1>8 DEF CloseTmp, Goto
  <2> QED
    BY <2>1, <2>2
<1>9. ASSUME NEW t \in Threads, ReplaceFile(t) PROVE Shapes' /\ OnDisk'
  <2>1. /\ Return(t, TRUE) /\ path' = tmp /\ tmp' = none /\ tmp # none
        /\ UNCHANGED <<cache, medium, content, handle, buffer, faults>>
    BY <1>9 DEF ReplaceFile, Return
  <2> QED
    BY ONLY TypeOK, OnDisk, Shapes, <2>1, ReturnShapes DEF TypeOK, OnDisk, Shapes
<1>10. ASSUME NEW t \in Threads, OpenFails(t) \/ ReplaceFails(t) PROVE Shapes' /\ OnDisk'
  <2>1. /\ Return(t, FALSE) /\ (Fault \/ UNCHANGED faults)
        /\ UNCHANGED <<cache, medium, path, tmp, content, handle, buffer>>
    BY <1>10 DEF OpenFails, ReplaceFails, Return
  <2>2. faults' \in 0..MaxFaults
    BY <2>1, FaultCounted
  <2> QED
    BY ONLY TypeOK, OnDisk, Shapes, <2>1, <2>2, ReturnShapes DEF TypeOK, OnDisk, Shapes
<1>11. ASSUME NEW t \in Threads, WriteFails(t) PROVE Shapes' /\ OnDisk'
  <2>1. /\ Return(t, FALSE) /\ Fault /\ UNCHANGED <<cache, medium, path, tmp>>
        /\ handle' = [handle EXCEPT ![t] = none] /\ buffer' = [buffer EXCEPT ![t] = <<>>]
    BY <1>11 DEF WriteFails, Return
  <2>2. /\ content' \in [Inodes -> Short \cup {Empty, Torn}]
        /\ content' \in [Inodes -> Seq(Payloads) \cup {Empty, Torn}]
    <3>1. PICK c \in {content[handle[t]], Torn} : content' = [content EXCEPT ![handle[t]] = c]
      BY <1>11 DEF WriteFails
    <3>2. CASE handle[t] \in Inodes
      BY <3>1, <3>2
    <3>3. CASE handle[t] \notin Inodes
      BY <3>1, <3>3
    <3> QED
      BY <3>2, <3>3
  <2>3. /\ buffer' \in [Threads -> Short] /\ buffer' \in [Threads -> Seq(Payloads)]
        /\ handle' \in [Threads -> Inodes \cup {none}] /\ faults' \in 0..MaxFaults
    BY <2>1, EmptyIsShort, FaultCounted
  <2> QED
    BY ONLY TypeOK, OnDisk, Shapes, <2>1, <2>2, <2>3, ReturnShapes DEF TypeOK, OnDisk, Shapes
<1>12. CASE Writeback
  BY <1>12 DEF Writeback
<1>13. ASSUME Restart, /\ content' \in [Inodes -> Short \cup {Empty, Torn}]
                       /\ content' \in [Inodes -> Seq(Payloads) \cup {Empty, Torn}]
                       /\ medium' \in Short \cup {Empty, Torn}
                       /\ medium' \in Seq(Payloads) \cup {Empty, Torn}
       PROVE  Shapes' /\ OnDisk'
  <2>1. cache' \in Short /\ cache' \in Seq(Payloads)
    BY <1>13, RestartLoads DEF Short
  <2>2. /\ \A u \in Threads : pc'[u] = "idle"
        /\ pc' \in [Threads -> PCs] /\ item' \in [Threads -> Payloads \cup {none}]
        /\ items' \in [Threads -> Seq(Payloads)] /\ handle' \in [Threads -> Inodes \cup {none}]
        /\ buffer' \in [Threads -> Short] /\ buffer' \in [Threads -> Seq(Payloads)]
    BY <1>13, EmptyIsShort DEF Restart, PCs
  <2>3. /\ UNCHANGED <<path, tmp, accepted, refused, drained, drains, overlapped>>
        /\ unsaved' \in BOOLEAN /\ lost' \subseteq Payloads
    BY <1>13 DEF Restart
  <2>4. faults' \in 0..MaxFaults /\ crashes' \in 0..MaxCrashes
    BY <1>13, FaultCounted DEF Restart
  <2> QED
    BY ONLY TypeOK, OnDisk, Shapes, <1>13, <2>1, <2>2, <2>3, <2>4 DEF TypeOK, OnDisk, Shapes
<1>14. CASE Killed
  BY <1>13, <1>14 DEF Killed
<1>15. CASE PowerLost
  <2>1. /\ Restart /\ medium' \in {medium, Empty} /\ path \in Inodes
        /\ content' = [content EXCEPT ![path] = medium']
    BY <1>15 DEF PowerLost
  <2> QED
    BY <1>13, <2>1
<1>16. CASE UNCHANGED vars
  BY <1>16 DEF vars
<1> QED
  BY <1>1, <1>2, <1>3, <1>4, <1>5, <1>6, <1>7, <1>8, <1>9, <1>10, <1>11, <1>12, <1>14, <1>15, <1>16
     DEF Next, Step

LEMMA OvershootStep ==
  ASSUME IInv, Shapes', OnDisk', [Next]_vars
  PROVE  Overshoot'
<1>0. /\ Len(cache) \in Nat /\ Len(cache') \in Nat
      /\ IsFiniteSet(Appending) /\ Cardinality(Appending) \in Nat
      /\ IsFiniteSet(Appending') /\ Cardinality(Appending') \in Nat
      /\ Cardinality(Appending') <= Cardinality(Threads)
  <2>1. Appending \in SUBSET Threads /\ Appending' \in SUBSET Threads
    BY ONLY Zenon DEF Appending
  <2>2. Len(cache) \in Nat /\ Len(cache') \in Nat
    BY DEF IInv, Shapes, TypeOK
  <2> QED
    BY <2>1, <2>2, SubsetCount
<1>1. ASSUME NEW t \in Threads, CheckFull(t), ~Full PROVE Overshoot'
  <2>1. cache' = cache /\ Len(cache) + 1 <= MaxEntries
    BY <1>0, <1>1 DEF CheckFull, Full
  <2> QED
    BY <1>0, <2>1, ThreadsCount DEF Overshoot, Bound
<1>2. ASSUME NEW t \in Threads, AppendEntry(t) PROVE Overshoot'
  <2>1. t \in Appending /\ Goto(t, "open") /\ cache' = Append(cache, item[t])
    BY <1>2 DEF AppendEntry, Appending
  <2>2. Appending' = Appending \ {t}
    BY <2>1, GotoElsewhere DEF PCs
  <2>3. Cardinality(Appending') = Cardinality(Appending) - 1
    BY <1>0, <2>1, <2>2, FS_RemoveElement
  <2>4. Len(cache') = Len(cache) + 1
    BY <2>1 DEF IInv, Shapes, TypeOK
  <2> QED
    BY <1>0, <2>2, <2>3, <2>4, BoundNat DEF IInv, Overshoot
<1>3. CASE Killed \/ PowerLost
  <2>1. Restart
    BY <1>3 DEF Killed, PowerLost
  <2>2. Appending' = {}
    BY <2>1 DEF Restart, Appending
  <2>3. cache' \in Short
    BY <2>1, RestartLoads DEF IInv, Shapes, OnDisk
  <2> QED
    BY <1>0, <2>2, <2>3, FS_EmptySet, BoundNat DEF Overshoot, Short
<1>4. ASSUME NEW t \in Threads, DrainClear(t) PROVE Overshoot'
  <2>1. cache' = <<>> /\ Goto(t, "open")
    BY <1>4 DEF DrainClear
  <2>2. Appending' \subseteq Appending
    BY <2>1, GotoElsewhere DEF PCs
  <2> QED
    BY <1>0, <2>1, <2>2, NoneJoins
<1>5. ASSUME NEW t \in Threads, NEW l \in PCs \ {"append"}, Goto(t, l), UNCHANGED cache
      PROVE  Overshoot'
  <2>1. Appending' \subseteq Appending
    BY <1>5, GotoElsewhere
  <2> QED
    BY <1>0, <1>5, <2>1, NoneJoins
<1>6. ASSUME NEW t \in Threads, NEW p \in Payloads, SendFails(t, p) PROVE Overshoot'
  BY <1>5, <1>6 DEF SendFails, PCs
<1>7. ASSUME NEW t \in Threads, CheckFull(t), Full PROVE Overshoot'
  BY <1>5, <1>7 DEF CheckFull, PCs
<1>8. ASSUME NEW t \in Threads, DrainCopy(t) \/ OpenTmp(t) \/ DumpJson(t) PROVE Overshoot'
  BY <1>5, <1>8 DEF DrainCopy, OpenTmp, DumpJson, PCs
<1>9. ASSUME NEW t \in Threads, CloseTmp(t) PROVE Overshoot'
  BY <1>5, <1>9 DEF CloseTmp, PCs
<1>11. ASSUME NEW t \in Threads, ReplaceFile(t) \/ OpenFails(t) \/ WriteFails(t) \/ ReplaceFails(t)
       PROVE  Overshoot'
  <2>1. Goto(t, "idle") /\ UNCHANGED cache
    BY <1>11 DEF ReplaceFile, OpenFails, WriteFails, ReplaceFails, Return
  <2> QED
    BY <1>5, <2>1 DEF PCs
<1>10. CASE UNCHANGED vars \/ Writeback
  <2>1. UNCHANGED cache /\ Appending' = Appending
    BY <1>10 DEF vars, Writeback, Appending
  <2> QED
    BY <1>0, <2>1, NoneJoins
<1> QED
  BY <1>1, <1>2, <1>3, <1>4, <1>6, <1>7, <1>8, <1>9, <1>10, <1>11 DEF Next, Step

LEMMA StepHolds == IInv /\ [Next]_vars => IInv'
BY ShapesStep, OvershootStep DEF IInv

\* The list, the files and the buffers hold payloads only, or a file is empty or
\* torn: no crash and no interleaving brings back anything else.
THEOREM TypeCorrect == Spec => []TypeOK
<1>1. IInv => TypeOK
  BY DEF IInv, Shapes
<1> QED
  BY <1>1, InitHolds, StepHolds, PTL DEF Spec

\* However many threads are in on_error and drain at once, and whatever a restart
\* reads back from the file: the list never holds more than max_entries and one
\* entry for each thread but one.
THEOREM OvershootIsBounded == Spec => []OvershootBounded
<1>1. IInv /\ [Next]_vars => IInv'
  BY StepHolds
<1>2. IInv => OvershootBounded
  <2>1. IInv => Len(cache) \in Nat /\ Cardinality(Appending) \in Nat
    BY SubsetCount DEF IInv, Shapes, TypeOK, Appending
  <2> QED
    BY <2>1, BoundNat, ThreadsCount DEF IInv, Overshoot, Bound, OvershootBounded
<1> QED
  BY <1>1, <1>2, InitHolds, PTL DEF Spec

-----------------------------------------------------------------------------
\* Unless two calls have been in progress at once, one thread at most is in one.
OneCaller == \A t, u \in Threads : pc[t] # "idle" /\ pc[u] # "idle" => t = u

Saving(t) == pc[t] \in {"open", "write", "close", "replace"}

\* What a call that is saving has made of the list: it holds the payload of an
\* on_error, or nothing at all.
Changed(t) ==
  \/ items[t] = <<>> /\ item[t] \in Payloads /\ item[t] \in Cached(cache)
  \/ item[t] = none /\ cache = <<>>

\* The temporary file is empty while it is written, and then whole.
Written(t) ==
  /\ pc[t] \in {"write", "close"} =>
       tmp # none /\ handle[t] = tmp /\ content[tmp] = Empty
  /\ pc[t] = "close" => buffer[t] = cache
  /\ pc[t] = "replace" => tmp # none /\ content[tmp] = cache

\* Where the only caller stands.
Place(t) ==
  /\ pc[t] = "idle" => item[t] = none
  /\ pc[t] \in {"idle", "check", "append"} => items[t] = <<>>
  /\ pc[t] = "clear" => item[t] = none /\ items[t] = cache
  /\ Saving(t) => Changed(t)
  /\ Written(t)

\* Unless the last save failed, the file is the list except while a call is saving,
\* and every accepted payload is in the file, was handed out, or is lost already.
Mirrored == ~unsaved /\ (\A t \in Threads : ~Saving(t)) => cache = Loaded
InFile == ~unsaved => accepted \subseteq Cached(Loaded) \cup drained \cup lost

\* The program, meanwhile, has it in the list or in the hands of a drain.
InHand == \A p \in accepted : \/ p \in Cached(cache) \cup drained \cup lost
                              \/ \E t \in Threads : p \in Cached(items[t])

Alone ==
  /\ OneCaller
  /\ \A t \in Threads : Place(t)
  /\ tmp # none => tmp # path
  /\ Mirrored /\ InFile /\ InHand

AloneInv == ~overlapped => Alone

\* The list that a file of payloads holds is what a restart loads.
LEMMA LoadedIs ==
  ASSUME TypeOK, path # none, content[path] \in Seq(Payloads)
  PROVE  Loaded = content[path]
<1>1. content[path] # Torn /\ content[path] # Empty
  <2>1. ASSUME content[path] = Torn \/ content[path] = Empty PROVE FALSE
    <3>1. content[path][1] \in Payloads /\ content[path][1] \in {"torn", "empty"}
      BY <2>1 DEF Torn, Empty
    <3> QED
      BY <3>1, NamesAssumption
  <2> QED
    BY <2>1
<1> QED
  BY <1>1 DEF Loaded

LEMMA LoadedType == TypeOK => Loaded \in Seq(Payloads)
BY DEF TypeOK, Loaded

LEMMA CachedEmpty == Cached(<<>>) = {}
BY DEF Cached

LEMMA CachedAppend ==
  ASSUME NEW s \in Seq(Payloads), NEW p \in Payloads
  PROVE  Cached(Append(s, p)) = Cached(s) \cup {p}
<1>1. /\ Len(Append(s, p)) = Len(s) + 1 /\ Len(s) \in Nat
      /\ \A i \in 1..(Len(s) + 1) : Append(s, p)[i] = IF i = Len(s) + 1 THEN p ELSE s[i]
  OBVIOUS
<1>2. ASSUME NEW x \in Cached(Append(s, p)) PROVE x \in Cached(s) \cup {p}
  BY <1>1, <1>2 DEF Cached
<1>3. ASSUME NEW x \in Cached(s) PROVE x \in Cached(Append(s, p))
  <2>1. PICK i \in 1..Len(s) : x = s[i]
    BY <1>3 DEF Cached
  <2>2. i \in 1..(Len(s) + 1) /\ i # Len(s) + 1
    BY <1>1, <2>1
  <2> QED
    BY <1>1, <2>1, <2>2 DEF Cached
<1>4. p \in Cached(Append(s, p))
  <2>1. Len(s) + 1 \in 1..Len(Append(s, p))
    BY <1>1
  <2> QED
    BY <1>1, <2>1 DEF Cached
<1> QED
  BY <1>2, <1>3, <1>4

\* A file that is neither renamed nor written loads as it did.
LEMMA LoadedSame ==
  ASSUME UNCHANGED path, path # none => content'[path] = content[path]
  PROVE  Loaded' = Loaded
BY DEF Loaded

LEMMA AloneInit == Init => AloneInv
<1> SUFFICES ASSUME Init PROVE Alone
  BY DEF AloneInv
<1>1. Loaded = <<>> /\ cache = <<>> /\ tmp = none /\ accepted = {}
  BY DEF Init, Loaded
<1>2. \A t \in Threads : pc[t] = "idle" /\ item[t] = none /\ items[t] = <<>>
  BY DEF Init
<1>3. Mirrored /\ InFile /\ InHand
  BY <1>1 DEF Mirrored, InFile, InHand
<1> QED
  BY <1>1, <1>2, <1>3 DEF Alone, OneCaller, Place, Saving, Written

\* A step of the only caller leaves every other thread idle.
LEMMA OnlyCaller ==
  ASSUME TypeOK, Alone, NEW t \in Threads, NEW l, Goto(t, l), pc[t] # "idle"
  PROVE  /\ OneCaller' /\ pc'[t] = l
         /\ \A u \in Threads \ {t} : pc[u] = "idle" /\ pc'[u] = "idle"
<1>1. pc \in [Threads -> PCs] /\ pc' = [pc EXCEPT ![t] = l]
  BY DEF TypeOK, Goto
<1>2. \A u \in Threads \ {t} : pc[u] = "idle"
  BY DEF Alone, OneCaller
<1> QED
  BY <1>1, <1>2 DEF OneCaller

\* A call begins while no other is in progress.
LEMMA Begins ==
  ASSUME TypeOK, AloneInv, NEW t \in Threads, NEW l, Goto(t, l), pc[t] = "idle", Enter(t),
         ~overlapped'
  PROVE  /\ Alone /\ OneCaller' /\ pc'[t] = l /\ pc[t] = "idle" /\ Place(t)
         /\ \A u \in Threads \ {t} : pc[u] = "idle" /\ pc'[u] = "idle"
<1>1. pc \in [Threads -> PCs] /\ pc' = [pc EXCEPT ![t] = l] /\ overlapped \in BOOLEAN
  BY DEF TypeOK, Goto
<1>2. ~overlapped /\ Others(t) = {}
  BY DEF Enter
<1>3. \A u \in Threads : pc[u] = "idle"
  BY <1>2 DEF Others
<1>4. Alone
  BY <1>2 DEF AloneInv
<1>5. Place(t)
  BY <1>4 DEF Alone
<1> QED
  BY <1>1, <1>3, <1>4, <1>5 DEF OneCaller

\* What a thread that is idle before and after a step of another keeps.
LEMMA IdlePlace ==
  ASSUME NEW u \in Threads, pc[u] = "idle", pc'[u] = "idle", Place(u),
         item'[u] = item[u], items'[u] = items[u]
  PROVE  Place(u)' /\ ~Saving(u)'
BY DEF Place, Saving, Written

\* A step of a call that changes neither the list nor the cache file.
LEMMA Quiet ==
  ASSUME Alone, OneCaller', NEW t \in Threads,
         \A u \in Threads \ {t} : /\ pc[u] = "idle" /\ pc'[u] = "idle"
                                  /\ item'[u] = item[u] /\ items'[u] = items[u],
         Cached(items[t]) \subseteq Cached(items'[t]),
         ~Saving(t) \/ Saving(t)', Place(t)', tmp' # none => tmp' # path',
         Loaded' = Loaded, UNCHANGED <<cache, accepted, drained, lost, unsaved>>
  PROVE  Alone'
<1>1. \A u \in Threads \ {t} : Place(u)'
  BY IdlePlace DEF Alone
<1>2. Mirrored'
  <2>1. ASSUME ~unsaved', \A u \in Threads : ~Saving(u)' PROVE cache' = Loaded'
    <3>1. \A u \in Threads : ~Saving(u)
      BY <2>1 DEF Saving
    <3> QED
      BY <2>1, <3>1 DEF Alone, Mirrored
  <2> QED
    BY <2>1 DEF Mirrored
<1>3. InFile'
  BY DEF Alone, InFile
<1>4. InHand'
  <2>1. \A u \in Threads : Cached(items[u]) \subseteq Cached(items'[u])
    OBVIOUS
  <2>2. cache' = cache /\ accepted' = accepted /\ drained' = drained /\ lost' = lost
    OBVIOUS
  <2> QED
    BY <2>1, <2>2 DEF Alone, InHand, Cached
<1> QED
  BY <1>1, <1>2, <1>3, <1>4 DEF Alone

\* A step that changes the list, which is yet to be saved.
LEMMA ListChanged ==
  ASSUME Alone, OneCaller', NEW t \in Threads,
         \A u \in Threads \ {t} : /\ pc[u] = "idle" /\ pc'[u] = "idle"
                                  /\ item'[u] = item[u] /\ items'[u] = items[u],
         Saving(t)', Place(t)', InHand', UNCHANGED <<path, tmp, accepted, drained, lost, unsaved>>,
         Loaded' = Loaded
  PROVE  Alone'
<1>1. \A u \in Threads \ {t} : Place(u)'
  BY IdlePlace DEF Alone
<1>2. Mirrored' /\ InFile'
  BY DEF Alone, Mirrored, InFile
<1> QED
  BY <1>1, <1>2 DEF Alone

\* A call returns: its save succeeded and the file is the list, or it failed and the
\* list is what holds the payloads.
LEMMA Returned ==
  ASSUME TypeOK, Alone, NEW t \in Threads, NEW b \in BOOLEAN, Saving(t), Return(t, b),
         b => Loaded' = cache, tmp' # none => tmp' # path'
  PROVE  Alone'
<1>1. /\ Goto(t, "idle") /\ unsaved' = ~b /\ cache' = cache /\ lost' = lost
      /\ accepted' = accepted \cup ({item[t]} \ {none}) /\ drained' = drained \cup Cached(items[t])
  BY DEF Return
<1>2. /\ OneCaller' /\ pc'[t] = "idle"
      /\ \A u \in Threads \ {t} : pc[u] = "idle" /\ pc'[u] = "idle"
  BY <1>1, OnlyCaller DEF Saving
<1>3. /\ item'[t] = none /\ items'[t] = <<>>
      /\ \A u \in Threads \ {t} : item'[u] = item[u] /\ items'[u] = items[u]
  BY ReturnShapes
<1>4. \A u \in Threads : Place(u)'
  <2>1. Place(t)'
    BY <1>2, <1>3 DEF Place, Saving, Written
  <2> QED
    BY <1>2, <1>3, <2>1, IdlePlace DEF Alone
<1>5. Changed(t) /\ \A u \in Threads \ {t} : items[u] = <<>>
  BY <1>2 DEF Alone, Place
<1>6. \A p \in accepted' : p \in Cached(cache) \cup drained' \cup lost'
  <2>1. ASSUME NEW p \in accepted PROVE p \in Cached(cache) \cup drained' \cup lost'
    <3>1. \/ p \in Cached(cache) \cup drained \cup lost
          \/ \E u \in Threads : p \in Cached(items[u])
      BY DEF Alone, InHand
    <3>2. ASSUME NEW u \in Threads, p \in Cached(items[u]) PROVE p \in drained'
      <4>1. u = t
        BY <1>5, <3>2, CachedEmpty
      <4> QED
        BY <1>1, <3>2, <4>1
    <3> QED
      BY <1>1, <3>1, <3>2
  <2>2. item[t] = none \/ item[t] \in Cached(cache)
    BY <1>5 DEF Changed
  <2> QED
    BY <1>1, <2>1, <2>2
<1>7. Mirrored' /\ InFile' /\ InHand'
  BY <1>1, <1>6 DEF Mirrored, InFile, InHand
<1> QED
  BY <1>2, <1>4, <1>7 DEF Alone

\* A program that starts again has in the list what it has of the file.
LEMMA Restarted ==
  ASSUME TypeOK, TypeOK', Alone, Restart
  PROVE  Alone'
<1>1. /\ \A u \in Threads : pc'[u] = "idle" /\ item'[u] = none /\ items'[u] = <<>>
      /\ UNCHANGED <<path, tmp, accepted, drained>>
      /\ unsaved' \/ cache' = Loaded'
      /\ lost' = IF unsaved \/ unsaved' \/ content' # content
                 THEN lost \cup (accepted \ (Cached(cache') \cup drained)) ELSE lost
  BY DEF Restart
<1>2. OneCaller' /\ (tmp' # none => tmp' # path') /\ Mirrored'
  BY <1>1 DEF OneCaller, Alone, Mirrored
<1>3. \A u \in Threads : Place(u)'
  BY <1>1 DEF Place, Saving, Written
<1>4. accepted \subseteq Cached(cache') \cup drained \cup lost'
  <2>1. CASE unsaved \/ unsaved' \/ content' # content
    BY <1>1, <2>1
  <2>2. CASE ~unsaved /\ ~unsaved' /\ content' = content
    <3>1. Loaded' = Loaded
      BY <1>1, <2>2, LoadedSame
    <3> QED
      BY <1>1, <2>2, <3>1 DEF Alone, InFile
  <2> QED
    BY <2>1, <2>2
<1>5. InFile' /\ InHand'
  BY <1>1, <1>4 DEF InFile, InHand
<1> QED
  BY <1>2, <1>3, <1>5 DEF Alone

LEMMA AloneStep ==
  ASSUME IInv, IInv', AloneInv, [Next]_vars
  PROVE  AloneInv'
<1> SUFFICES ASSUME ~overlapped' PROVE Alone'
  BY DEF AloneInv
<1> USE DEF Files, History, Bounds
<1>0. TypeOK /\ TypeOK' /\ Loaded \in Seq(Payloads)
  BY LoadedType DEF IInv, Shapes
<1>1. ASSUME NEW t \in Threads, NEW p \in Payloads, SendFails(t, p) PROVE Alone'
  <2>1. /\ Goto(t, "check") /\ pc[t] = "idle" /\ Enter(t) /\ item' = [item EXCEPT ![t] = p]
        /\ UNCHANGED <<cache, items, path, tmp, content, accepted, drained, lost, unsaved>>
    BY <1>1 DEF SendFails
  <2>2. /\ Alone /\ OneCaller' /\ pc'[t] = "check" /\ pc[t] = "idle" /\ Place(t)
        /\ \A u \in Threads \ {t} : pc[u] = "idle" /\ pc'[u] = "idle"
    BY <1>0, <2>1, Begins
  <2>3. \A u \in Threads \ {t} : item'[u] = item[u] /\ items'[u] = items[u]
    BY <1>0, <2>1 DEF TypeOK
  <2>4. Loaded' = Loaded /\ ~Saving(t) /\ items'[t] = items[t] /\ (tmp' # none => tmp' # path')
    BY <2>1, <2>2, LoadedSame DEF Saving, Alone
  <2>5. Place(t)'
    BY <2>1, <2>2, <2>4 DEF Place, Saving, Written
  <2> QED
    BY <2>1, <2>2, <2>3, <2>4, <2>5, Quiet
<1>2. ASSUME NEW t \in Threads, DrainCopy(t) PROVE Alone'
  <2>1. /\ Goto(t, "clear") /\ pc[t] = "idle" /\ Enter(t) /\ items' = [items EXCEPT ![t] = cache]
        /\ UNCHANGED <<cache, item, path, tmp, content, accepted, drained, lost, unsaved>>
    BY <1>2 DEF DrainCopy
  <2>2. /\ Alone /\ OneCaller' /\ pc'[t] = "clear" /\ pc[t] = "idle" /\ Place(t)
        /\ \A u \in Threads \ {t} : pc[u] = "idle" /\ pc'[u] = "idle"
    BY <1>0, <2>1, Begins
  <2>3. items'[t] = cache /\ \A u \in Threads \ {t} : item'[u] = item[u] /\ items'[u] = items[u]
    BY <1>0, <2>1 DEF TypeOK
  <2>4. Loaded' = Loaded /\ ~Saving(t) /\ items[t] = <<>> /\ (tmp' # none => tmp' # path')
    BY <2>1, <2>2, LoadedSame DEF Saving, Alone, Place
  <2>5. Cached(items[t]) \subseteq Cached(items'[t])
    BY <2>4, CachedEmpty
  <2>6. Place(t)'
    BY <2>1, <2>2, <2>3 DEF Place, Saving, Written
  <2> QED
    BY <2>1, <2>2, <2>3, <2>4, <2>5, <2>6, Quiet
<1>3. ASSUME NEW t \in Threads, NEW l \in PCs, Step(t), Goto(t, l), pc[t] # "idle", ~overlapped
      PROVE  /\ Alone /\ OneCaller' /\ pc'[t] = l /\ Place(t)
             /\ \A u \in Threads \ {t} : pc[u] = "idle" /\ pc'[u] = "idle"
  <2>1. Alone
    BY <1>3 DEF AloneInv
  <2> QED
    BY <1>0, <1>3, <2>1, OnlyCaller DEF Alone
<1>4. ASSUME NEW t \in Threads, CheckFull(t) PROVE Alone'
  <2> DEFINE l == IF Full THEN "idle" ELSE "append"
  <2>1. /\ Goto(t, l) /\ pc[t] = "check" /\ ~overlapped /\ l \in PCs
        /\ \/ item' = item /\ l = "append"
           \/ item' = [item EXCEPT ![t] = none] /\ l = "idle"
        /\ UNCHANGED <<cache, items, path, tmp, content, accepted, drained, lost, unsaved>>
    BY <1>4 DEF CheckFull, PCs
  <2> HIDE DEF l
  <2>2. /\ Alone /\ OneCaller' /\ pc'[t] = l /\ Place(t)
        /\ \A u \in Threads \ {t} : pc[u] = "idle" /\ pc'[u] = "idle"
    BY <1>3, <1>4, <2>1 DEF Step
  <2>3. /\ l = "idle" => item'[t] = none
        /\ \A u \in Threads \ {t} : item'[u] = item[u] /\ items'[u] = items[u]
    BY <1>0, <2>1 DEF TypeOK
  <2>4. Loaded' = Loaded /\ ~Saving(t) /\ items'[t] = items[t] /\ (tmp' # none => tmp' # path')
    BY <2>1, <2>2, LoadedSame DEF Saving, Alone
  <2>5. Place(t)'
    BY <2>1, <2>2, <2>3, <2>4 DEF Place, Saving, Written
  <2> QED
    BY <2>1, <2>2, <2>3, <2>4, <2>5, Quiet
<1>5. ASSUME NEW t \in Threads, AppendEntry(t) PROVE Alone'
  <2>1. /\ Goto(t, "open") /\ pc[t] = "append" /\ ~overlapped /\ cache' = Append(cache, item[t])
        /\ UNCHANGED <<item, items, path, tmp, content, accepted, drained, lost, unsaved>>
    BY <1>5 DEF AppendEntry
  <2>2. /\ Alone /\ OneCaller' /\ pc'[t] = "open" /\ Place(t)
        /\ \A u \in Threads \ {t} : pc[u] = "idle" /\ pc'[u] = "idle"
    BY <1>3, <1>5, <2>1 DEF Step, PCs
  <2>3. Loaded' = Loaded
    BY <2>1, LoadedSame
  <2>4. cache \in Seq(Payloads) /\ items[t] = <<>> /\ item[t] \in Payloads
    BY <1>0, <2>1, <2>2 DEF Place, IInv, Shapes, TypeOK
  <2>5. Cached(cache') = Cached(cache) \cup {item[t]}
    BY <2>1, <2>4, CachedAppend
  <2>6. Place(t)' /\ Saving(t)'
    BY <2>1, <2>2, <2>4, <2>5 DEF Place, Saving, Written, Changed
  <2>7. InHand'
    BY <2>1, <2>2, <2>5 DEF Alone, InHand, Cached
  <2> QED
    BY <2>1, <2>2, <2>3, <2>6, <2>7, ListChanged
<1>6. ASSUME NEW t \in Threads, DrainClear(t) PROVE Alone'
  <2>1. /\ Goto(t, "open") /\ pc[t] = "clear" /\ ~overlapped /\ cache' = <<>>
        /\ UNCHANGED <<item, items, path, tmp, content, accepted, drained, lost, unsaved>>
    BY <1>6 DEF DrainClear
  <2>2. /\ Alone /\ OneCaller' /\ pc'[t] = "open" /\ Place(t)
        /\ \A u \in Threads \ {t} : pc[u] = "idle" /\ pc'[u] = "idle"
    BY <1>3, <1>6, <2>1 DEF Step, PCs
  <2>3. Loaded' = Loaded
    BY <2>1, LoadedSame
  <2>4. item[t] = none /\ items[t] = cache
    BY <2>1, <2>2 DEF Place
  <2>6. Place(t)' /\ Saving(t)'
    BY <2>1, <2>2, <2>4 DEF Place, Saving, Written, Changed
  <2>7. InHand'
    <3>1. ASSUME NEW p \in accepted
          PROVE  \/ p \in drained \cup lost
                 \/ \E u \in Threads : p \in Cached(items[u])
      <4>1. \/ p \in Cached(cache) \cup drained \cup lost
            \/ \E u \in Threads : p \in Cached(items[u])
        BY <2>2 DEF Alone, InHand
      <4> QED
        BY <2>4, <4>1
    <3> QED
      BY <2>1, <3>1 DEF InHand, Cached
  <2> QED
    BY <2>1, <2>2, <2>3, <2>6, <2>7, ListChanged
<1>7. ASSUME NEW t \in Threads, OpenTmp(t) PROVE Alone'
  <2>1. /\ Goto(t, "write") /\ pc[t] = "open" /\ ~overlapped
        /\ tmp' = IF tmp # none THEN tmp ELSE Fresh
        /\ content' = [content EXCEPT ![tmp'] = Empty] /\ handle' = [handle EXCEPT ![t] = tmp']
        /\ UNCHANGED <<cache, path, buffer, item, items, accepted, drained, lost, unsaved>>
    BY <1>7 DEF OpenTmp
  <2>2. /\ Alone /\ OneCaller' /\ pc'[t] = "write" /\ Place(t)
        /\ \A u \in Threads \ {t} : pc[u] = "idle" /\ pc'[u] = "idle"
    BY <1>3, <1>7, <2>1 DEF Step, PCs
  <2>3. tmp' \in Inodes /\ tmp' # path' /\ tmp' # none
    BY <1>0, <2>1, <2>2, FreshExists, NamesAssumption DEF TypeOK, Alone
  <2>4. handle'[t] = tmp' /\ content'[tmp'] = Empty
    BY <1>0, <2>1, <2>3 DEF TypeOK
  <2>5. path # none => content'[path] = content[path]
    BY <1>0, <2>1, <2>3 DEF TypeOK
  <2>6. Loaded' = Loaded
    BY <2>1, <2>5, LoadedSame
  <2>7. Place(t)' /\ Saving(t)'
    BY <2>1, <2>2, <2>3, <2>4 DEF Place, Saving, Written, Changed
  <2> QED
    BY <2>1, <2>2, <2>3, <2>6, <2>7, Quiet
<1>8. ASSUME NEW t \in Threads, DumpJson(t) PROVE Alone'
  <2>1. /\ Goto(t, "close") /\ pc[t] = "write" /\ ~overlapped /\ buffer' = [buffer EXCEPT ![t] = cache]
        /\ UNCHANGED <<cache, path, tmp, content, handle, item, items, accepted, drained,
                       lost, unsaved>>
    BY <1>8 DEF DumpJson
  <2>2. /\ Alone /\ OneCaller' /\ pc'[t] = "close" /\ Place(t)
        /\ \A u \in Threads \ {t} : pc[u] = "idle" /\ pc'[u] = "idle"
    BY <1>3, <1>8, <2>1 DEF Step, PCs
  <2>3. Loaded' = Loaded /\ buffer'[t] = cache /\ (tmp' # none => tmp' # path')
    BY <1>0, <2>1, <2>2, LoadedSame DEF TypeOK, Alone
  <2>5. Place(t)' /\ Saving(t)'
    BY <2>1, <2>2, <2>3 DEF Place, Saving, Written, Changed
  <2> QED
    BY <2>1, <2>2, <2>3, <2>5, Quiet
<1>9. ASSUME NEW t \in Threads, CloseTmp(t) PROVE Alone'
  <2>1. /\ Goto(t, "replace") /\ pc[t] = "close" /\ ~overlapped
        /\ UNCHANGED <<cache, path, tmp, item, items, accepted, drained, lost, unsaved>>
    BY <1>9 DEF CloseTmp
  <2>2. /\ Alone /\ OneCaller' /\ pc'[t] = "replace" /\ Place(t)
        /\ \A u \in Threads \ {t} : pc[u] = "idle" /\ pc'[u] = "idle"
    BY <1>3, <1>9, <2>1 DEF Step, PCs
  <2>3. tmp # none /\ handle[t] = tmp /\ content[tmp] = Empty /\ buffer[t] = cache /\ tmp # path
    BY <2>1, <2>2 DEF Place, Written, Alone
  <2>4. content' = [content EXCEPT ![tmp] = cache]
    BY <1>9, <2>3 DEF CloseTmp
  <2>5. content'[tmp] = cache /\ (path # none => content'[path] = content[path])
    BY <1>0, <2>3, <2>4 DEF TypeOK
  <2>6. Loaded' = Loaded /\ (tmp' # none => tmp' # path')
    BY <2>1, <2>3, <2>5, LoadedSame
  <2>7. Place(t)' /\ Saving(t)'
    BY <2>1, <2>2, <2>3, <2>5 DEF Place, Saving, Written, Changed
  <2> QED
    BY <2>1, <2>2, <2>3, <2>6, <2>7, Quiet
<1>10. ASSUME NEW t \in Threads, ReplaceFile(t) PROVE Alone'
  <2>1. /\ Return(t, TRUE) /\ pc[t] = "replace" /\ ~overlapped
        /\ tmp' = none /\ path' = tmp /\ tmp # none /\ UNCHANGED <<cache, content>>
    BY <1>10 DEF ReplaceFile, Return
  <2>2. Alone /\ Place(t) /\ Saving(t)
    BY <2>1 DEF AloneInv, Alone, Saving
  <2>3. content[tmp] = cache
    BY <2>1, <2>2 DEF Place, Written
  <2>4. Loaded' = cache
    <3>1. path' # none /\ content'[path'] = cache /\ cache \in Seq(Payloads)
      BY <1>0, <2>1, <2>3 DEF TypeOK
    <3>2. TypeOK' /\ path' # none /\ content'[path'] \in Seq(Payloads)
      BY <1>0, <3>1
    <3>3. (TypeOK /\ path # none /\ content[path] \in Seq(Payloads) => Loaded = content[path])'
      BY LoadedIs, PTL
    <3> QED
      BY <3>1, <3>2, <3>3
  <2> QED
    BY <1>0, <2>1, <2>2, <2>4, Returned
<1>11. ASSUME NEW t \in Threads, OpenFails(t) \/ WriteFails(t) \/ ReplaceFails(t) PROVE Alone'
  <2>1. Return(t, FALSE) /\ Saving(t) /\ ~overlapped /\ UNCHANGED <<path, tmp>>
    BY <1>11 DEF OpenFails, WriteFails, ReplaceFails, Return, Saving
  <2>2. Alone /\ (tmp' # none => tmp' # path')
    BY <2>1 DEF AloneInv, Alone
  <2> QED
    BY <1>0, <2>1, <2>2, Returned
<1>12. CASE Killed \/ PowerLost
  <2>1. Restart /\ ~overlapped
    BY <1>12 DEF Killed, PowerLost, Restart
  <2> QED
    BY <1>0, <2>1, Restarted DEF AloneInv
<1>13. CASE UNCHANGED vars \/ Writeback
  <2>1. /\ UNCHANGED <<cache, path, tmp, content, pc, item, items, handle, buffer>>
        /\ UNCHANGED <<accepted, drained, lost, unsaved, overlapped>>
    BY <1>13 DEF Writeback, vars
  <2>2. Alone /\ Loaded' = Loaded
    BY <2>1, LoadedSame DEF AloneInv
  <2>3. OneCaller' /\ (tmp' # none => tmp' # path')
    BY <2>1, <2>2 DEF Alone, OneCaller
  <2>4. Mirrored' /\ InFile' /\ InHand'
    BY <2>1, <2>2 DEF Alone, Mirrored, InFile, InHand, Saving, Cached
  <2>5. \A t \in Threads : Place(t)'
    BY <2>1, <2>2 DEF Alone, Place, Saving, Written, Changed, Cached
  <2> QED
    BY <2>3, <2>4, <2>5 DEF Alone
<1> QED
  BY <1>1, <1>2, <1>4, <1>5, <1>6, <1>7, <1>8, <1>9, <1>10, <1>11, <1>12, <1>13 DEF Next, Step

\* A device that makes its calls one at a time finds in the file what it has in
\* the list whenever none is in progress and the last save did not raise, whatever
\* failed saves, kills and power losses came before.
THEOREM FileMirrorsList == Spec => []MirroredIfAlone
<1>1. IInv /\ IInv' /\ AloneInv /\ [Next]_vars => AloneInv'
  BY AloneStep
<1>2. AloneInv => MirroredIfAlone
  BY DEF AloneInv, Alone, Mirrored, Saving, MirroredIfAlone
<1> QED
  BY <1>1, <1>2, AloneInit, InitHolds, StepHolds, PTL DEF Spec

\* Such a device loses a payload whose on_error returned only with a stop after a
\* save that raised, with a power loss before the file was written back, or with a
\* load that raised: not when it is killed at any other step of a save or of a drain,
\* and not between the copy a drain takes and the list it clears.
THEOREM AcceptedIsKept == Spec => []NothingVanishesIfAlone
<1>1. IInv /\ IInv' /\ AloneInv /\ [Next]_vars => AloneInv'
  BY AloneStep
<1>2. AloneInv => NothingVanishesIfAlone
  BY DEF AloneInv, Alone, InHand, NothingVanishesIfAlone
<1> QED
  BY <1>1, <1>2, AloneInit, InitHolds, StepHolds, PTL DEF Spec
=============================================================================
