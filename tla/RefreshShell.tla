---------------------------- MODULE RefreshShell ----------------------------
(***************************************************************************)
(* The refresh job as the main window sees it (app/AppShell.tsx): the       *)
(* refresh-progress events travel in order to the webview, whose listener   *)
(* drives the `refreshing` state behind the spinner and the disabled        *)
(* button.  Events carry no job identity.  The floating widget and the      *)
(* System page run the same listener.                                       *)
(***************************************************************************)
EXTENDS RefreshJob

CONSTANT MaxWire    \* bound on the events in transit

ASSUME MaxWireAssumption == MaxWire \in Nat \ {0}

VARIABLES
  wire,         \* refresh-progress events not yet delivered
  refreshing,   \* AppShell's state of that name
  invoking,     \* handleGlobalRefresh awaits startRefresh()
  unseen        \* data written since the window last reloaded

ui == <<wire, refreshing, invoking, unseen>>
shellVars == <<vars, ui>>

ShellInit ==
  /\ Init
  /\ wire = <<>>
  /\ refreshing = FALSE
  /\ invoking = FALSE
  /\ unseen = FALSE

-----------------------------------------------------------------------------
(* Seeded faults, see the note in RefreshJob. *)

\* Only "completed" reloads the data.
DeliverReloadingOnCompleted ==
  /\ wire # <<>> /\ wire' = Tail(wire)
  /\ refreshing' = (Head(wire) \in {"started", "progress"})
  /\ unseen' = (unseen /\ Head(wire) # "completed")
  /\ UNCHANGED <<vars, invoking>>

-----------------------------------------------------------------------------
(* The backend, the click and the listener *)

\* What the backend's step put on the wire: the event appended to a history.
News ==
  {phases'[j][Len(phases'[j])] : j \in {k \in Jobs : Len(phases'[k]) > Len(phases[k])}}

Wired ==
  \/ News = {} /\ wire' = wire
  \/ Len(wire) < MaxWire /\ \E e \in News : wire' = Append(wire, e)

\* Any step of the backend, with the event it emits and the data it writes.
Backend ==
  /\ Next
  /\ Wired
  /\ unseen' = (unseen \/ \E j \in Jobs : persisted'[j] > persisted[j])
  /\ UNCHANGED <<refreshing, invoking>>

\* handleGlobalRefresh; the button is disabled while refreshing.
Click ==
  /\ ~refreshing
  /\ ~invoking
  /\ refreshing' = TRUE
  /\ invoking' = TRUE
  /\ UNCHANGED <<vars, wire, unseen>>

\* The command runs: it starts a job, or answers already_running, which leaves
\* the spinner to the events of the job in progress.
Invoke ==
  /\ invoking
  /\ \/ \E j \in Jobs : UserRefresh(j, "start_refresh")
     \/ running /\ UNCHANGED vars
  /\ invoking' = FALSE
  /\ UNCHANGED <<wire, refreshing, unseen>>

\* The listener; a terminal event also schedules a reload.
Deliver ==
  /\ wire # <<>>
  /\ wire' = Tail(wire)
  /\ IF Head(wire) \in {"started", "progress"}
     THEN refreshing' = TRUE /\ UNCHANGED unseen
     ELSE refreshing' = FALSE /\ unseen' = FALSE
  /\ UNCHANGED <<vars, invoking>>

ShellNext == Backend \/ Click \/ Invoke \/ Deliver

ShellSpec == ShellInit /\ [][ShellNext]_shellVars

-----------------------------------------------------------------------------
(* Properties *)

\* Nothing is going on and everything has been delivered.
AtRest ==
  /\ ~running /\ ~invoking /\ wire = <<>>
  /\ \A j \in Jobs : driver[j] = "done"

\* The spinner stops: once every cycle is over and reported, the button is
\* enabled again.
SpinnerOffAtRest == AtRest => ~refreshing

\* The window reloads after the last write it could show.
FreshAtRest == AtRest => ~unseen

\* When every job is over and every event delivered, the window shows no spinner
\* and nothing it has not seen.
WindowSettles ==
  /\ SpinnerOffAtRest
  /\ FreshAtRest
=============================================================================
