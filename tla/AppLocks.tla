------------------------------ MODULE AppLocks ------------------------------
(***************************************************************************)
(* The two locks of AppState (state.rs): the storage mutex and the          *)
(* read-write lock around the provider registry, and every kind of call     *)
(* that takes them.  A call is a stretch of code that starts and ends with  *)
(* no lock held; a command that does this twice is two calls.               *)
(*                                                                          *)
(*   "row"      takes the storage mutex only (most commands and helpers)    *)
(*   "view"     ensure_registry with the storage mutex held: quota,         *)
(*              dashboard, providers, alerts, settings, evaluate_alerts_now *)
(*   "collect"  a refresh worker: storage for the hash key only, then       *)
(*              ensure_registry, then collection under the read guard       *)
(*   "seed"     the setup block that installs the default pets and fails    *)
(***************************************************************************)
EXTENDS Naturals, FiniteSets

CONSTANTS
  Calls,            \* the calls made, each on a thread of its own
  Kinds,            \* the kinds a call may have
  Nobody,           \* "no call" as the holder of a lock
  WriterPreferring  \* whether a waiting writer keeps new readers out

ASSUME NobodyAssumption == Nobody \notin Calls
ASSUME KindsAssumption == Kinds \subseteq {"row", "view", "collect", "seed"}
ASSUME PolicyAssumption == WriterPreferring \in BOOLEAN

VARIABLES
  storage,    \* holder of the storage mutex
  writer,     \* holder of the registry's write lock
  readers,    \* holders of the registry's read lock
  built,      \* the registry has been filled
  poisoned,   \* the mutexes whose holder panicked
  kind,       \* kind[c] of call c
  pc          \* pc[c]: where call c is

vars == <<storage, writer, readers, built, poisoned, kind, pc>>

\* "storage", "again", "write" and "read" wait for a lock; "holding",
\* "building" and "reading" have just got one.
Waiting == {"storage", "again", "write", "read"}
Places  == Waiting \cup {"idle", "holding", "building", "reading", "done"}

TypeOK ==
  /\ storage \in Calls \cup {Nobody}
  /\ writer \in Calls \cup {Nobody}
  /\ readers \subseteq Calls
  /\ built \in BOOLEAN
  /\ poisoned \subseteq {"storage", "registry"}
  /\ kind \in [Calls -> {"row", "view", "collect", "seed"}]
  /\ pc \in [Calls -> Places]

Init ==
  /\ storage = Nobody
  /\ writer = Nobody
  /\ readers = {}
  /\ built = FALSE
  /\ poisoned = {}
  /\ kind = [c \in Calls |-> "row"]
  /\ pc = [c \in Calls |-> "idle"]

Move(c, place) == pc' = [pc EXCEPT ![c] = place]

\* Every guard a call holds is dropped.
DropAll(c) ==
  /\ storage' = IF storage = c THEN Nobody ELSE storage
  /\ writer' = IF writer = c THEN Nobody ELSE writer
  /\ readers' = readers \ {c}

-----------------------------------------------------------------------------
(* Seeded faults, see the note in RefreshJob. *)

\* The worker keeps the storage guard of its first block.
LeaveStorageHeld(c) ==
  /\ pc[c] = "holding" /\ kind[c] \in {"view", "collect"}
  /\ Move(c, "write")
  /\ UNCHANGED <<storage, writer, readers, built, poisoned, kind>>

\* ensure_registry does not look whether the registry is there.
SkipBuild(c) ==
  /\ pc[c] = "building" /\ writer' = Nobody
  /\ Move(c, "read")
  /\ UNCHANGED <<storage, readers, built, poisoned, kind>>

\* ensure_registry tries again and again, and the new registry is never stored.
BuildLoops(c) ==
  /\ pc[c] = "building" /\ writer' = Nobody
  /\ Move(c, "write")
  /\ UNCHANGED <<storage, readers, built, poisoned, kind>>

\* After its collection a worker records the outcome before it lets go.
FinishThenRecord(c) ==
  /\ pc[c] = "reading"
  /\ Move(c, IF kind[c] = "collect" THEN "storage" ELSE "done")
  /\ IF kind[c] = "collect" THEN UNCHANGED <<storage, writer, readers>> ELSE DropAll(c)
  /\ kind' = [kind EXCEPT ![c] = IF @ = "collect" THEN "row" ELSE @]
  /\ UNCHANGED <<built, poisoned>>

\* Before ensure_registry, a view calls a helper that locks the storage itself.
LeaveThroughHelper(c) ==
  /\ pc[c] = "holding" /\ kind[c] \in {"view", "collect"}
  /\ Move(c, IF kind[c] = "view" THEN "again" ELSE "write")
  /\ storage' = IF kind[c] = "view" THEN storage ELSE Nobody
  /\ UNCHANGED <<writer, readers, built, poisoned, kind>>

-----------------------------------------------------------------------------
(* Calls *)

\* At most one full cycle collects at a time (RefreshJob); single-provider
\* refreshes are not limited, so neither are calls of kind "collect".
Start(c, k) ==
  /\ pc[c] = "idle"
  /\ kind' = [kind EXCEPT ![c] = k]
  /\ Move(c, "storage")
  /\ UNCHANGED <<storage, writer, readers, built, poisoned>>

\* ensure_storage: lock, open and migrate on first use.
TakeStorage(c) ==
  /\ pc[c] = "storage"
  /\ storage = Nobody
  /\ "storage" \notin poisoned
  /\ storage' = c
  /\ Move(c, "holding")
  /\ UNCHANGED <<writer, readers, built, poisoned, kind>>

\* lock() on a poisoned mutex is an Err, which the call propagates.
FindPoison(c) ==
  /\ \/ pc[c] \in {"storage", "again"} /\ storage = Nobody /\ "storage" \in poisoned
     \/ pc[c] = "write" /\ writer = Nobody /\ readers = {} /\ "registry" \in poisoned
     \/ pc[c] = "read" /\ writer = Nobody /\ "registry" \in poisoned
  /\ DropAll(c)
  /\ Move(c, "done")
  /\ UNCHANGED <<built, poisoned, kind>>

\* On to ensure_registry, which asks for the write lock first, every time.
\* A view keeps the storage guard; a worker's guard ended with its block.
LeaveStorage(c) ==
  /\ pc[c] = "holding"
  /\ kind[c] \in {"view", "collect"}
  /\ storage' = IF kind[c] = "view" THEN storage ELSE Nobody
  /\ Move(c, "write")
  /\ UNCHANGED <<writer, readers, built, poisoned, kind>>

TakeWrite(c) ==
  /\ pc[c] = "write"
  /\ writer = Nobody
  /\ readers = {}
  /\ "registry" \notin poisoned
  /\ writer' = c
  /\ Move(c, "building")
  /\ UNCHANGED <<storage, readers, built, poisoned, kind>>

\* Fill the registry if it is empty; the write guard ends with its block.
Build(c) ==
  /\ pc[c] = "building"
  /\ built' = TRUE
  /\ writer' = Nobody
  /\ Move(c, "read")
  /\ UNCHANGED <<storage, readers, poisoned, kind>>

TakeRead(c) ==
  /\ pc[c] = "read"
  /\ writer = Nobody
  /\ WriterPreferring => \A d \in Calls : pc[d] # "write"
  /\ "registry" \notin poisoned
  /\ readers' = readers \cup {c}
  /\ Move(c, "reading")
  /\ UNCHANGED <<storage, writer, built, poisoned, kind>>

\* The query or the collection is over; the guards are dropped.
Finish(c) ==
  /\ \/ pc[c] = "reading"
     \/ pc[c] = "holding" /\ kind[c] \in {"row", "seed"}
  /\ DropAll(c)
  /\ Move(c, "done")
  /\ UNCHANGED <<built, poisoned, kind>>

\* An Err anywhere between two waits: `?` drops the guards.
Bail(c) ==
  /\ pc[c] \in {"holding", "building", "reading"}
  /\ kind[c] # "seed"
  /\ DropAll(c)
  /\ Move(c, "done")
  /\ UNCHANGED <<built, poisoned, kind>>

\* A panic drops them too, and poisons the mutex and the write lock held.
Panic(c) ==
  /\ pc[c] \in {"holding", "building", "reading"}
  /\ poisoned' = poisoned \cup (IF storage = c THEN {"storage"} ELSE {})
                          \cup (IF writer = c THEN {"registry"} ELSE {})
  /\ DropAll(c)
  /\ Move(c, "done")
  /\ UNCHANGED <<built, kind>>

\* seed_default_pets returned Err: record_event locks the storage mutex while
\* the setup block still holds it.
RecordSeedFailure(c) ==
  /\ pc[c] = "holding"
  /\ kind[c] = "seed"
  /\ Move(c, "again")
  /\ UNCHANGED <<storage, writer, readers, built, poisoned, kind>>

-----------------------------------------------------------------------------
(* The specification *)

\* Everything a call does by itself, except ending its collection.
OwnStep(c) ==
  \/ TakeStorage(c) \/ FindPoison(c) \/ LeaveStorage(c) \/ TakeWrite(c)
  \/ Build(c) \/ TakeRead(c) \/ RecordSeedFailure(c)
  \/ ~(kind[c] = "collect" /\ pc[c] = "reading") /\ (Finish(c) \/ Bail(c) \/ Panic(c))

CollectionEnds(c) ==
  kind[c] = "collect" /\ pc[c] = "reading" /\ (Finish(c) \/ Bail(c) \/ Panic(c))

\* All calls have returned: nothing is left to do.
AllDone == (\A c \in Calls : pc[c] = "done") /\ UNCHANGED vars

Next ==
  \/ \E c \in Calls :
       \/ \E k \in Kinds : Start(c, k)
       \/ OwnStep(c)
       \/ CollectionEnds(c)
  \/ AllDone

Spec == Init /\ [][Next]_vars

\* Threads are scheduled; a collector may take for ever.
LiveSpec == Spec /\ \A c \in Calls : WF_vars(OwnStep(c))

\* No collector does.
CollectorsReturn == \A c \in Calls : WF_vars(CollectionEnds(c))

-----------------------------------------------------------------------------
(* Properties *)

\* The lock order: whoever waits for the storage mutex holds neither side of
\* the registry lock, so no two calls can wait for each other.
LockOrder ==
  \A c \in Calls : pc[c] \in {"storage", "again"} => writer # c /\ c \notin readers

\* Nobody waits for a mutex it holds itself (std's are not reentrant), but the
\* setup block, the only caller that locks again.
OnlySetupSelfWaits ==
  \A c \in Calls : pc[c] \in {"storage", "again"} /\ storage = c => kind[c] = "seed"

\* "The shared storage mutex is never held during a cycle."
CollectsWithoutStorage ==
  \A c \in Calls : kind[c] = "collect" /\ pc[c] = "reading" => storage # c

\* Whoever reads the registry reads the complete one, and nobody is filling it.
ReadersSeeRegistry ==
  \A c \in Calls : pc[c] = "reading" => built /\ c \in readers /\ writer = Nobody

\* A collector's panic is contained: it leaves both locks usable.
CollectorPanicIsHarmless ==
  [][\A c \in Calls :
       kind[c] = "collect" /\ pc[c] = "reading" /\ pc'[c] = "done" => poisoned' = poisoned]_vars

\* Every call returns, if collectors do and the setup block does not relock:
\* no set of calls deadlocks.
CallsReturn ==
  CollectorsReturn /\ [](\A c \in Calls : pc[c] # "again") =>
    \A c \in Calls : pc[c] = "storage" ~> pc[c] = "done"

\* "A running cycle never blocks the main thread's UI commands": the commands
\* that are not collectors return even if a collector does not.
UiReturns ==
  \A c \in Calls : pc[c] = "storage" /\ kind[c] # "collect" ~> pc[c] = "done"
=============================================================================
