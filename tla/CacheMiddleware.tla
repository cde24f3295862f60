--------------------------- MODULE CacheMiddleware ---------------------------
(***************************************************************************)
(* CacheMiddleware (client/middleware.py): payloads of failed sends kept   *)
(* in a list and mirrored in a JSON file.  on_error and drain take no      *)
(* lock, and the heartbeat thread and the application's report() calls run *)
(* them at the same time, so each is one action per access to the shared   *)
(* list and per system call on the files.                                  *)
(*                                                                         *)
(* Files are modelled as the operating system has them: the names          *)
(* cache_path and cache_path.tmp each refer to an inode, an open handle    *)
(* keeps the inode it was opened on, and os.replace moves a name.  Nothing *)
(* is fsynced, so the medium holds an older version of the cache file      *)
(* until the system writes the new one back.  Any call on the files may    *)
(* raise OSError, which _persist and _load only log.                       *)
(***************************************************************************)
EXTENDS Naturals, Sequences, FiniteSets

CONSTANTS
  Threads,      \* threads that call the middleware
  Payloads,     \* payloads of sends that may fail, each at most once
  Inodes,       \* enough inodes for the two names and every open handle
  MaxEntries,   \* CacheMiddleware.max_entries
  MaxDrains,    \* bound: calls of drain
  MaxCrashes,   \* bound: times the program is killed or the device loses power
  MaxFaults     \* bound: system calls that raise OSError

ASSUME EntriesAssumption == MaxEntries \in Nat
ASSUME CacheBoundsAssumption == {MaxDrains, MaxCrashes, MaxFaults} \subseteq Nat
ASSUME InodesAssumption == /\ IsFiniteSet(Threads) /\ Threads # {}
                           /\ IsFiniteSet(Inodes)
                           /\ Cardinality(Inodes) >= 2 + Cardinality(Threads)

VARIABLES
  cache,     \* self._cache
  path, tmp, \* the inodes cache_path and cache_path.tmp name, or none
  content,   \* what each inode holds
  pc,        \* where each thread is in on_error, drain or _persist
  item,      \* the payload an on_error was called with
  items,     \* the entries a drain is about to return
  handle,    \* the inode each thread's open temporary file refers to
  buffer,    \* the bytes each open temporary file still buffers
  medium,    \* the cache file as far as it was written back to the medium
  accepted,  \* history: payloads whose on_error returned having cached them
  refused,   \* history: payloads that on_error found no room for
  drained,   \* history: payloads that drain returned to its caller
  lost,      \* history: accepted payloads gone with a list that was not saved, with
             \* a file not written back at a power loss, or with a load that failed
  unsaved,   \* history: the last save to end, or the load since, raised OSError
  overlapped, \* history: two calls have been in progress at once
  drains, crashes, faults

vars == <<cache, path, tmp, content, pc, item, items, handle, buffer, medium,
          accepted, refused, drained, lost, unsaved, overlapped, drains, crashes, faults>>

none == "none"        \* no file, no payload
Empty == <<"empty">>  \* a file that was truncated and not written yet
Torn == <<"torn">>    \* bytes that are not the JSON of a list

ASSUME NamesAssumption == /\ none \notin Inodes \cup Payloads
                          /\ {"empty", "torn"} \cap Payloads = {}

Cached(s) == {s[i] : i \in 1..Len(s)}

Init ==
  /\ cache = <<>>
  /\ path = none /\ tmp = none
  /\ content = [i \in Inodes |-> <<>>]
  /\ pc = [t \in Threads |-> "idle"]
  /\ item = [t \in Threads |-> none]
  /\ items = [t \in Threads |-> <<>>]
  /\ handle = [t \in Threads |-> none]
  /\ buffer = [t \in Threads |-> <<>>]
  /\ medium = Empty
  /\ accepted = {} /\ refused = {} /\ drained = {} /\ lost = {}
  /\ unsaved = FALSE /\ overlapped = FALSE
  /\ drains = 0 /\ crashes = 0 /\ faults = 0

Goto(t, l) == pc' = [pc EXCEPT ![t] = l]
Others(t) == {u \in Threads : u # t /\ pc[u] # "idle"}
Enter(t) == overlapped' = (overlapped \/ Others(t) # {})

Files == <<path, tmp, content, handle, buffer, medium>>
History == <<accepted, refused, drained, lost, unsaved>>
Bounds == <<drains, crashes, faults>>

-----------------------------------------------------------------------------
(* on_error *)

\* A send of a payload fails with a TransportError.
SendFails(t, p) ==
  /\ pc[t] = "idle"
  /\ p \notin accepted \cup refused \cup {item[u] : u \in Threads}
  /\ item' = [item EXCEPT ![t] = p]
  /\ Enter(t)
  /\ Goto(t, "check")
  /\ UNCHANGED <<cache, items, Files, History, Bounds>>

\* Mutant: `>` for `>=`.
FullAbove == Len(cache) > MaxEntries

Full == Len(cache) >= MaxEntries

\* if len(self._cache) >= self.max_entries: return False
CheckFull(t) ==
  /\ pc[t] = "check"
  /\ IF Full THEN /\ Goto(t, "idle")
                  /\ item' = [item EXCEPT ![t] = none]
                  /\ refused' = refused \cup {item[t]}
             ELSE Goto(t, "append") /\ UNCHANGED <<item, refused>>
  /\ UNCHANGED <<cache, items, Files, accepted, drained, lost, unsaved, Bounds, overlapped>>

\* Mutant: the entry is not persisted.
AppendUnsaved(t) ==
  /\ pc[t] = "append"
  /\ cache' = Append(cache, item[t])
  /\ accepted' = accepted \cup {item[t]}
  /\ item' = [item EXCEPT ![t] = none]
  /\ Goto(t, "idle")
  /\ UNCHANGED <<items, Files, refused, drained, lost, unsaved, Bounds, overlapped>>

\* self._cache.append(...)
AppendEntry(t) ==
  /\ pc[t] = "append"
  /\ cache' = Append(cache, item[t])
  /\ Goto(t, "open")
  /\ UNCHANGED <<item, items, Files, History, Bounds, overlapped>>

-----------------------------------------------------------------------------
(* drain *)

\* items = list(self._cache)
DrainCopy(t) ==
  /\ pc[t] = "idle"
  /\ drains < MaxDrains
  /\ drains' = drains + 1
  /\ items' = [items EXCEPT ![t] = cache]
  /\ Enter(t)
  /\ Goto(t, "clear")
  /\ UNCHANGED <<cache, item, Files, History, crashes, faults>>

\* Mutant: the empty cache is not persisted.
DrainClearUnsaved(t) ==
  /\ pc[t] = "clear"
  /\ cache' = <<>>
  /\ drained' = drained \cup Cached(items[t])
  /\ items' = [items EXCEPT ![t] = <<>>]
  /\ Goto(t, "idle")
  /\ UNCHANGED <<item, Files, accepted, refused, lost, unsaved, Bounds, overlapped>>

\* self._cache = []
DrainClear(t) ==
  /\ pc[t] = "clear"
  /\ cache' = <<>>
  /\ Goto(t, "open")
  /\ UNCHANGED <<item, items, Files, History, Bounds, overlapped>>

-----------------------------------------------------------------------------
(* _persist *)

Fresh == CHOOSE i \in Inodes : i # path /\ \A u \in Threads : handle[u] # i

\* A system call raises OSError.
Fault == faults < MaxFaults /\ faults' = faults + 1

\* _persist ends, having saved the list or logged an OSError, and on_error or
\* drain returns as if it had been saved.
Return(t, saved) ==
  /\ unsaved' = ~saved
  /\ accepted' = accepted \cup ({item[t]} \ {none})
  /\ drained' = drained \cup Cached(items[t])
  /\ item' = [item EXCEPT ![t] = none]
  /\ items' = [items EXCEPT ![t] = <<>>]
  /\ Goto(t, "idle")
  /\ UNCHANGED <<cache, medium, refused, lost, drains, crashes, overlapped>>

\* open(tmp, "w"): truncate the file of that name, or make a new one.
OpenTmp(t) ==
  /\ pc[t] = "open"
  /\ tmp' = IF tmp # none THEN tmp ELSE Fresh
  /\ content' = [content EXCEPT ![tmp'] = Empty]
  /\ handle' = [handle EXCEPT ![t] = tmp']
  /\ Goto(t, "write")
  /\ UNCHANGED <<cache, path, buffer, medium, item, items, History, Bounds, overlapped>>

\* open raises: a read-only or full disk, no permission, too many open files.
OpenFails(t) ==
  /\ pc[t] = "open"
  /\ Fault
  /\ Return(t, FALSE)
  /\ UNCHANGED <<path, tmp, content, handle, buffer>>

\* json.dump(self._cache, f) fills the buffer of the open file.
DumpJson(t) ==
  /\ pc[t] = "write"
  /\ buffer' = [buffer EXCEPT ![t] = cache]
  /\ Goto(t, "close")
  /\ UNCHANGED <<cache, path, tmp, content, handle, medium, item, items, History,
                 Bounds, overlapped>>

\* Closing the file writes the buffer from offset 0.  Over the longer list of
\* another thread that had opened the same file it leaves a tail behind.
CloseTmp(t) ==
  LET i == handle[t]
      whole == content[i] = Empty \/ Len(content[i]) <= Len(buffer[t]) IN
  /\ pc[t] = "close"
  /\ content' = [content EXCEPT ![i] = IF whole THEN buffer[t] ELSE Torn]
  /\ handle' = [handle EXCEPT ![t] = none]
  /\ buffer' = [buffer EXCEPT ![t] = <<>>]
  /\ Goto(t, "replace")
  /\ UNCHANGED <<cache, path, tmp, medium, item, items, History, Bounds, overlapped>>

\* The write, in json.dump or on close, raises, having written nothing or a part.
WriteFails(t) ==
  /\ pc[t] = "close"
  /\ Fault
  /\ \E c \in {content[handle[t]], Torn} : content' = [content EXCEPT ![handle[t]] = c]
  /\ handle' = [handle EXCEPT ![t] = none]
  /\ buffer' = [buffer EXCEPT ![t] = <<>>]
  /\ Return(t, FALSE)
  /\ UNCHANGED <<path, tmp>>

\* os.replace(tmp, cache_path)
ReplaceFile(t) ==
  /\ pc[t] = "replace"
  /\ tmp # none
  /\ path' = tmp
  /\ tmp' = none
  /\ Return(t, TRUE)
  /\ UNCHANGED <<content, handle, buffer, faults>>

\* os.replace raises, for one because another thread has moved tmp away.
ReplaceFails(t) ==
  /\ pc[t] = "replace"
  /\ \/ tmp = none /\ UNCHANGED faults
     \/ Fault
  /\ Return(t, FALSE)
  /\ UNCHANGED <<path, tmp, content, handle, buffer>>

-----------------------------------------------------------------------------
\* _load: the cache file, or an empty cache if there is none or it is corrupted.
Loaded == IF path = none \/ content[path] \in {Torn, Empty} THEN <<>> ELSE content[path]

\* The program starts again: what the calls in progress held is gone, and _load
\* reads the file or raises OSError.
Restart ==
  /\ crashes < MaxCrashes
  /\ crashes' = crashes + 1
  /\ UNCHANGED <<path, tmp, accepted, refused, drained, drains, overlapped>>
  /\ \/ cache' = Loaded' /\ unsaved' = FALSE /\ UNCHANGED faults
     \/ Fault /\ cache' = <<>> /\ unsaved' = TRUE
  /\ lost' = IF unsaved \/ unsaved' \/ content' # content
             THEN lost \cup (accepted \ (Cached(cache') \cup drained)) ELSE lost
  /\ pc' = [t \in Threads |-> "idle"]
  /\ item' = [t \in Threads |-> none]
  /\ items' = [t \in Threads |-> <<>>]
  /\ handle' = [t \in Threads |-> none]
  /\ buffer' = [t \in Threads |-> <<>>]

\* The program is killed between any two steps; the files are as they were.
Killed == UNCHANGED <<content, medium>> /\ Restart

\* The system writes the cache file back to the medium, in its own time.
Writeback ==
  /\ path # none /\ medium # content[path]
  /\ medium' = content[path]
  /\ UNCHANGED <<cache, path, tmp, content, pc, item, items, handle, buffer, History,
                 overlapped, Bounds>>

\* Power is lost between any two steps: a cache file not written back is again what
\* the medium holds of it, or empty.
PowerLost ==
  /\ path # none /\ medium # content[path]
  /\ medium' \in {medium, Empty}
  /\ content' = [content EXCEPT ![path] = medium']
  /\ Restart

Step(t) ==
  \/ CheckFull(t) \/ AppendEntry(t) \/ DrainClear(t)
  \/ OpenTmp(t) \/ DumpJson(t) \/ CloseTmp(t) \/ ReplaceFile(t)
  \/ OpenFails(t) \/ WriteFails(t) \/ ReplaceFails(t)

Next ==
  \/ \E t \in Threads, p \in Payloads : SendFails(t, p)
  \/ \E t \in Threads : DrainCopy(t)
  \/ \E t \in Threads : Step(t)
  \/ Killed \/ Writeback \/ PowerLost

Spec == Init /\ [][Next]_vars

-----------------------------------------------------------------------------
(* Correctness. *)

PCs == {"idle", "check", "append", "clear", "open", "write", "close", "replace"}

TypeOK ==
  /\ cache \in Seq(Payloads) /\ items \in [Threads -> Seq(Payloads)]
  /\ {path, tmp} \subseteq Inodes \cup {none}
  /\ handle \in [Threads -> Inodes \cup {none}]
  /\ content \in [Inodes -> Seq(Payloads) \cup {Empty, Torn}]
  /\ buffer \in [Threads -> Seq(Payloads)]
  /\ medium \in Seq(Payloads) \cup {Empty, Torn}
  /\ pc \in [Threads -> PCs]
  /\ item \in [Threads -> Payloads \cup {none}]
  /\ accepted \cup refused \cup drained \cup lost \subseteq Payloads
  /\ overlapped \in BOOLEAN /\ unsaved \in BOOLEAN
  /\ drains \in 0..MaxDrains /\ crashes \in 0..MaxCrashes /\ faults \in 0..MaxFaults

\* The cache file is never a half-written one, though nothing raises and the
\* program is never stopped: what _persist's comment promises of its rename.
FileNeverPartial == path # none => content[path] \notin {Torn, Empty}

\* When no call is in progress and the last save did not raise, the file holds what
\* the list holds, so a program that is killed finds the same entries again: a save
\* that failed is made good by the next that does not, as is a power loss.  As long
\* as no two calls were ever in progress at once.
MirroredIfAlone ==
  (~overlapped /\ ~unsaved /\ \A t \in Threads : pc[t] = "idle") => Loaded = cache

\* A payload whose on_error has returned stays in the cache, across restarts, until
\* a drain takes it and hands it to its caller; calls one at a time, as above.  It is
\* lost in three cases only, which Restart tells apart: the program stops while the
\* last save has failed, power is lost before the file was written back, or _load
\* cannot read the file.  A failed save alone loses none, the list keeps them.
NothingVanishesIfAlone ==
  ~overlapped =>
    \A p \in accepted :
      \/ p \in Cached(cache) \cup drained \cup lost
      \/ \E t \in Threads : p \in Cached(items[t])

\* Threads that all passed the test of max_entries before one of them appended
\* exceed it, by at most one entry each.
OvershootBounded == Len(cache) <= MaxEntries + Cardinality(Threads) - 1
=============================================================================
