----------------------------- MODULE RefreshJob -----------------------------
(***************************************************************************)
(* The shared refresh job of the desktop shell (commands/pipeline.rs) and   *)
(* the background loop that starts it (lib.rs).  Two atomic flags of        *)
(* AppState are all the coordination there is: refresh_running, claimed by  *)
(* a compare-and-swap and released by the worker thread's drop guard, and   *)
(* refresh_cancel_requested, stored by everyone.  A job is two threads of   *)
(* control: the driver (an async task that waits for the worker for at most *)
(* MANUAL_REFRESH_TIMEOUT, then reports) and the blocking worker, which     *)
(* outlives a timed-out driver.  Between the two the driver has its         *)
(* post-cycle block, which no timer bounds: it waits for the storage mutex  *)
(* and the registry's write lock (AppLocks), which another job's worker     *)
(* keeps from it for as long as its cycle lasts.                            *)
(***************************************************************************)
EXTENDS Naturals, Sequences

CONSTANTS
  Jobs,         \* slots for invocations of a refresh command; a slot is free
                \* again once its driver and its worker are both gone
  Commands,     \* the commands a user may invoke
  N,            \* number of registered providers
  MayTimeOut    \* whether the timer may fire before the worker returns

ASSUME NAssumption == N \in Nat \ {0}
ASSUME CommandsAssumption == Commands \subseteq {"start_refresh", "refresh_all"}
ASSUME TimeOutAssumption == MayTimeOut \in BOOLEAN

VARIABLES
  running,          \* AppState.refresh_running
  cancelRequested,  \* AppState.refresh_cancel_requested
  lastSync,         \* setting last_sync_time, against the cooldown
  command,          \* command[j]: which command job j is
  driver,           \* driver[j]: where the command / async task is
  worker,           \* worker[j]: where the blocking closure is
  persisted,        \* persisted[j]: providers written so far
  failure,          \* failure[j]: some provider reported a real failure
  result,           \* result[j]: what the closure returned
  cancelled,        \* cancelled[j]: the driver's local of that name
  phases,           \* phases[j]: the refresh-progress events of job j
  loop              \* the background loop: asleep, or past its cooldown check

flags   == <<running, cancelRequested>>
drivers == <<command, driver, cancelled>>
workers == <<worker, persisted, failure, result>>
vars == <<flags, lastSync, drivers, workers, phases, loop>>

\* "post" and "alerts" are the post-cycle block.
PostCycle    == {"post", "alerts"}
DriverStates == PostCycle \cup {"claimed", "waiting", "report", "clear", "done"}
Collecting   == {"collecting", "persisting", "checking", "returning"}
WorkerStates == {"ended"} \cup Collecting
Phases       == {"started", "progress", "completed", "partial", "failed"}
Terminal     == {"completed", "partial", "failed"}

TypeOK ==
  /\ running \in BOOLEAN
  /\ cancelRequested \in BOOLEAN
  /\ lastSync \in {"never", "recent", "old"}
  /\ command \in [Jobs -> {"start_refresh", "refresh_all"}]
  /\ driver \in [Jobs -> DriverStates]
  /\ worker \in [Jobs -> WorkerStates]
  /\ persisted \in [Jobs -> 0..N]
  /\ failure \in [Jobs -> BOOLEAN]
  /\ result \in [Jobs -> {"none", "ok", "err"}]
  /\ cancelled \in [Jobs -> BOOLEAN]
  /\ phases \in [Jobs -> Seq(Phases)]
  /\ loop \in {"asleep", "due"}

Init ==
  /\ running = FALSE
  /\ cancelRequested = FALSE
  /\ lastSync \in {"never", "recent", "old"}
  /\ command = [j \in Jobs |-> "start_refresh"]
  /\ driver = [j \in Jobs |-> "done"]
  /\ worker = [j \in Jobs |-> "ended"]
  /\ persisted = [j \in Jobs |-> 0]
  /\ failure = [j \in Jobs |-> FALSE]
  /\ result = [j \in Jobs |-> "none"]
  /\ cancelled = [j \in Jobs |-> FALSE]
  /\ phases = [j \in Jobs |-> <<>>]
  /\ loop = "asleep"

-----------------------------------------------------------------------------
(* Helpers *)

Goto(pc, j, where) == [pc EXCEPT ![j] = where]

\* emit_refresh_event: only start_refresh reports through events.
Emit(j, phase) ==
  phases' = IF command[j] = "start_refresh"
            THEN [phases EXCEPT ![j] = Append(@, phase)]
            ELSE phases

-----------------------------------------------------------------------------
(* Seeded faults: each is a mistake this code could plausibly have made, used *)
(* to check that a property notices it.  No action below refers to them.      *)

\* The claim is a plain store instead of a compare-and-swap.
ClaimUnchecked(j, c) ==
  /\ driver[j] = "done" /\ worker[j] = "ended"
  /\ running' = TRUE
  /\ command' = [command EXCEPT ![j] = c]
  /\ driver' = Goto(driver, j, "claimed")
  /\ persisted' = [persisted EXCEPT ![j] = 0]
  /\ phases' = [phases EXCEPT ![j] = <<>>]
  /\ UNCHANGED <<cancelRequested, lastSync, worker, cancelled, failure, result>>

\* The timeout branch releases the flag although the worker goes on.
TimeOutReleasing(j) ==
  /\ MayTimeOut /\ driver[j] = "waiting" /\ worker[j] # "ended"
  /\ running' = FALSE
  /\ Emit(j, "failed")
  /\ driver' = Goto(driver, j, IF command[j] = "start_refresh" THEN "clear" ELSE "done")
  /\ UNCHANGED <<cancelRequested, lastSync, command, cancelled, workers, loop>>

\* The driver reports the timeout and waits on.
TimeOutWaitsOn(j) ==
  /\ MayTimeOut /\ driver[j] = "waiting" /\ worker[j] = "collecting"
  /\ Emit(j, "failed")
  /\ worker' = Goto(worker, j, "persisting")
  /\ UNCHANGED <<flags, lastSync, drivers, persisted, failure, result, loop>>

\* The timeout bounds the collection only.
TimeOutOfCollection(j) ==
  /\ MayTimeOut /\ driver[j] = "waiting" /\ worker[j] = "collecting"
  /\ Emit(j, "failed")
  /\ driver' = Goto(driver, j, IF command[j] = "start_refresh" THEN "clear" ELSE "done")
  /\ UNCHANGED <<flags, lastSync, command, cancelled, workers, loop>>

\* Both results of the worker take the Ok arm.
HarvestIgnoresErr(j) ==
  /\ driver[j] = "waiting" /\ worker[j] = "ended"
  /\ driver' = Goto(driver, j, "post")
  /\ cancelled' = [cancelled EXCEPT ![j] = cancelRequested]
  /\ UNCHANGED <<flags, lastSync, command, workers, phases, loop>>

\* An error of the worker is swallowed: no "failed" goes out.
HarvestSilent(j) ==
  /\ driver[j] = "waiting" /\ worker[j] = "ended"
  /\ driver' = Goto(driver, j, IF result[j] = "ok" THEN "post" ELSE "clear")
  /\ cancelled' = [cancelled EXCEPT ![j] = cancelRequested]
  /\ UNCHANGED <<flags, lastSync, command, workers, phases, loop>>

\* The worker is spawned and not awaited.
HarvestDetached(j) ==
  /\ driver[j] = "waiting" /\ result[j] # "err"
  /\ driver' = Goto(driver, j, "post")
  /\ cancelled' = [cancelled EXCEPT ![j] = cancelRequested]
  /\ UNCHANGED <<flags, lastSync, command, workers, phases, loop>>

\* An off-by-one in the loop over the providers.
CheckCancelTooLate(j) ==
  /\ worker[j] = "checking"
  /\ worker' = Goto(worker, j,
       IF cancelRequested \/ persisted[j] > N THEN "returning" ELSE "persisting")
  /\ UNCHANGED <<flags, lastSync, drivers, persisted, failure, result, phases, loop>>

\* No drop guard: the flag is only stored on the normal way out.
AbortLeaks(j) ==
  /\ worker[j] \in {"collecting", "persisting"}
  /\ result' = [result EXCEPT ![j] = "err"]
  /\ worker' = Goto(worker, j, "ended")
  /\ UNCHANGED <<flags, lastSync, drivers, persisted, failure, phases, loop>>

-----------------------------------------------------------------------------
(* The command and its driver *)

\* refresh_running.compare_exchange(false, true): a busy flag turns the
\* command away (already_running / Err) and changes nothing.
Claim(j, c) ==
  /\ driver[j] = "done"
  /\ worker[j] = "ended"
  /\ ~running
  /\ running' = TRUE
  /\ command' = [command EXCEPT ![j] = c]
  /\ driver' = Goto(driver, j, "claimed")
  /\ persisted' = [persisted EXCEPT ![j] = 0]
  /\ failure' = [failure EXCEPT ![j] = FALSE]
  /\ result' = [result EXCEPT ![j] = "none"]
  /\ cancelled' = [cancelled EXCEPT ![j] = FALSE]
  /\ phases' = [phases EXCEPT ![j] = <<>>]
  /\ UNCHANGED <<cancelRequested, lastSync, worker>>

UserRefresh(j, c) == Claim(j, c) /\ UNCHANGED loop

\* The flag is cleared after the claim, in a store of its own; then the event
\* goes out and the worker is spawned.
Launch(j) ==
  /\ driver[j] = "claimed"
  /\ cancelRequested' = FALSE
  /\ Emit(j, "started")
  /\ driver' = Goto(driver, j, "waiting")
  /\ worker' = Goto(worker, j, "collecting")
  /\ UNCHANGED <<running, lastSync, command, cancelled, persisted, failure, result, loop>>

\* timeout(..).await: the worker's result is there.  start_refresh reads the
\* cancel flag before it reports; refresh_all propagates an error with `?`.
Harvest(j) ==
  /\ driver[j] = "waiting"
  /\ worker[j] = "ended"
  /\ \/ /\ result[j] = "ok"
        /\ driver' = Goto(driver, j, "post")
        /\ cancelled' = [cancelled EXCEPT ![j] = cancelRequested]
        /\ UNCHANGED phases
     \/ /\ result[j] = "err"
        /\ driver' = Goto(driver, j, IF command[j] = "start_refresh" THEN "clear" ELSE "done")
        /\ Emit(j, "failed")
        /\ UNCHANGED cancelled
  /\ UNCHANGED <<flags, lastSync, command, workers, loop>>

\* MANUAL_REFRESH_TIMEOUT elapsed first.  Dropping the JoinHandle does not
\* stop the blocking closure.
TimeOut(j) ==
  /\ MayTimeOut
  /\ driver[j] = "waiting"
  /\ worker[j] # "ended"
  /\ Emit(j, "failed")
  /\ driver' = Goto(driver, j, IF command[j] = "start_refresh" THEN "clear" ELSE "done")
  /\ UNCHANGED <<flags, lastSync, command, cancelled, workers, loop>>

\* record_sync_time, under the storage mutex; it gives up silently when the
\* storage cannot be used.  refresh_all has nothing more to do.
RecordSyncTime(j) ==
  /\ driver[j] = "post"
  /\ lastSync' \in {lastSync, "recent"}
  /\ driver' = Goto(driver, j, IF command[j] = "start_refresh" THEN "alerts" ELSE "done")
  /\ UNCHANGED <<flags, command, cancelled, workers, phases, loop>>

\* evaluate_alerts_now, under the storage mutex and behind ensure_registry's
\* write lock; its result is dropped.  What it writes is in Alerts.
EvaluateAlerts(j) ==
  /\ driver[j] = "alerts"
  /\ driver' = Goto(driver, j, "report")
  /\ UNCHANGED <<flags, lastSync, command, cancelled, workers, phases, loop>>

Report(j) ==
  /\ driver[j] = "report"
  /\ Emit(j, IF cancelled[j] \/ failure[j] THEN "partial" ELSE "completed")
  /\ driver' = Goto(driver, j, "clear")
  /\ UNCHANGED <<flags, lastSync, command, cancelled, workers, loop>>

\* The driver's last statement: an unconditional store, by which time another
\* job may have claimed the flag.
ClearCancel(j) ==
  /\ driver[j] = "clear"
  /\ cancelRequested' = FALSE
  /\ driver' = Goto(driver, j, "done")
  /\ UNCHANGED <<running, lastSync, command, cancelled, workers, phases, loop>>

-----------------------------------------------------------------------------
(* The blocking worker: refresh_now_with_progress *)

\* collect_all has joined its pool; nothing in it looks at the cancel flag.
CollectAll(j) ==
  /\ worker[j] = "collecting"
  /\ worker' = Goto(worker, j, "persisting")
  /\ UNCHANGED <<flags, lastSync, drivers, persisted, failure, result, phases, loop>>

\* One provider's batch is written and announced; it may have failed.
PersistProvider(j) ==
  /\ worker[j] = "persisting"
  /\ persisted' = [persisted EXCEPT ![j] = @ + 1]
  /\ failure' \in {failure, [failure EXCEPT ![j] = TRUE]}
  /\ Emit(j, "progress")
  /\ worker' = Goto(worker, j, "checking")
  /\ UNCHANGED <<flags, lastSync, drivers, result, loop>>

\* on_provider returns !refresh_cancel_requested.
CheckCancel(j) ==
  /\ worker[j] = "checking"
  /\ worker' = Goto(worker, j,
       IF cancelRequested \/ persisted[j] = N THEN "returning" ELSE "persisting")
  /\ UNCHANGED <<flags, lastSync, drivers, persisted, failure, result, phases, loop>>

\* The closure ends: RefreshRunningGuard is dropped, then the result is
\* delivered to whoever still waits for it.
Return(j, r) ==
  /\ running' = FALSE
  /\ result' = [result EXCEPT ![j] = r]
  /\ worker' = Goto(worker, j, "ended")
  /\ UNCHANGED <<cancelRequested, lastSync, drivers, persisted, failure, phases, loop>>

ReturnOk(j) == worker[j] = "returning" /\ Return(j, "ok")

\* An early Err (hash key, storage open, registry) or a panic: the guard drops
\* on the way out all the same.
Abort(j) == worker[j] \in {"collecting", "persisting"} /\ Return(j, "err")

-----------------------------------------------------------------------------
(* The user, the clock and the background loop *)

CancelRefresh ==
  /\ ~cancelRequested
  /\ cancelRequested' = TRUE
  /\ UNCHANGED <<running, lastSync, drivers, workers, phases, loop>>

\* BACKGROUND_REFRESH_COOLDOWN passes.
CooldownEnds ==
  /\ lastSync = "recent"
  /\ lastSync' = "old"
  /\ UNCHANGED <<flags, drivers, workers, phases, loop>>

\* should_skip_background_refresh: the loop goes on only past the cooldown.
LoopWakes ==
  /\ loop = "asleep"
  /\ lastSync # "recent"
  /\ loop' = "due"
  /\ UNCHANGED <<flags, lastSync, drivers, workers, phases>>

LoopRefresh(j) == loop = "due" /\ loop' = "asleep" /\ Claim(j, "start_refresh")

LoopTurnedAway ==
  /\ loop = "due"
  /\ running
  /\ loop' = "asleep"
  /\ UNCHANGED <<flags, lastSync, drivers, workers, phases>>

-----------------------------------------------------------------------------
(* The specification *)

AsyncStep(j) ==
  Launch(j) \/ Harvest(j) \/ TimeOut(j) \/ Report(j) \/ ClearCancel(j)

PostStep(j) == RecordSyncTime(j) \/ EvaluateAlerts(j)

DriverStep(j) == AsyncStep(j) \/ PostStep(j)

WorkerStep(j) ==
  \/ CollectAll(j) \/ PersistProvider(j) \/ CheckCancel(j)
  \/ ReturnOk(j) \/ Abort(j)

Next ==
  \/ \E j \in Jobs :
       \/ \E c \in Commands : UserRefresh(j, c)
       \/ DriverStep(j)
       \/ WorkerStep(j)
       \/ LoopRefresh(j)
  \/ CancelRefresh
  \/ CooldownEnds
  \/ LoopWakes
  \/ LoopTurnedAway

Spec == Init /\ [][Next]_vars

\* The async runtime keeps polling every driver, and its timer fires.
DriverFairness == \A j \in Jobs : WF_vars(AsyncStep(j))

\* Every blocking closure ends: no collector hangs.
WorkerFairness == \A j \in Jobs : WF_vars(WorkerStep(j))

\* Nobody but a worker keeps the two locks for ever: a post-cycle block gets
\* them, unless a cycle is in progress.
LocksFree    == \A j \in Jobs : worker[j] = "ended"
PostFairness == \A j \in Jobs : WF_vars(LocksFree /\ PostStep(j))

\* Only what needs no lock is fair: a collector may hang for ever, and so may
\* a post-cycle block.
LiveSpec == Spec /\ DriverFairness
-----------------------------------------------------------------------------
(* Properties *)

\* Job j owns the claim: between its compare-and-swap and its guard's drop.
Active(j) == driver[j] = "claimed" \/ worker[j] \in Collecting

\* "Never run two cycles at once": two jobs are never active together, even
\* when the driver of the first has already given up on its worker.
NoOverlap == \A i, j \in Jobs : Active(i) /\ Active(j) => i = j

\* The flag is set exactly while some job is active: a claim is never leaked
\* (all later refreshes refused) and never dropped while a worker still runs.
FlagMeansActive == running <=> \E j \in Jobs : Active(j)

\* The job machinery implements the one-slot lock of RefreshSlot.
Slot == INSTANCE RefreshSlot WITH holders <- {j \in Jobs : Active(j)}

\* Each claim takes the slot from nobody and each guard's drop empties it.
ImplementsSlot == Slot!Spec

\* Every start_refresh job announces itself once and gives one verdict at most:
\* the windows count on exactly one terminal event to stop their spinners.
OneVerdict ==
  \A j \in Jobs : \A p, q \in DOMAIN phases[j] :
    /\ phases[j][p] = "started" <=> p = 1
    /\ phases[j][p] \in Terminal /\ phases[j][q] \in Terminal => p = q

\* Nothing follows the verdict of a job whose worker was awaited.  After a
\* "failed" its worker may still announce providers, when it is the timer that
\* gave it, and nothing else.
VerdictIsLast ==
  \A j \in Jobs : \A p, q \in DOMAIN phases[j] :
    p < q /\ phases[j][p] \in Terminal =>
      phases[j][p] = "failed" /\ phases[j][q] = "progress"

\* A failed cycle never suppresses the next retry: last_sync_time is only
\* moved on behalf of a job whose closure returned Ok in time.
SyncOnlyAfterSuccess ==
  [][lastSync # "recent" /\ lastSync' = "recent" =>
       \E j \in Jobs : /\ driver[j] # "done" /\ driver'[j] # driver[j]
                       /\ result[j] = "ok"
                       /\ \A p \in DOMAIN phases[j] : phases[j][p] \notin Terminal]_vars

\* The driver is in its post-cycle block while some other job's cycle, which
\* may hang, has the locks it needs.
Blocked(j) == driver[j] \in PostCycle /\ ~LocksFree

\* A job always comes to its answer, its own collectors hanging or not, unless it
\* stays in its post-cycle block while the cycle of another job has the locks; it
\* counts on everybody else to give them back.
Answers ==
  PostFairness => \A j \in Jobs : driver[j] # "done" ~> driver[j] = "done" \/ Blocked(j)

\* Refreshing always becomes possible again, as long as collectors return.
SlotReleased == WorkerFairness => (running ~> ~running)
=============================================================================
