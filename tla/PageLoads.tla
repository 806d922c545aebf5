----------------------------- MODULE PageLoads -----------------------------
(***************************************************************************)
(* How a page of the main window loads (lib/use-page-load.ts): its first    *)
(* load goes through one lane that all pages share, a reload in the         *)
(* background through a lane of its own, one that the user asks for through *)
(* neither (latest-wins-scheduler.ts); and only the answer to the latest    *)
(* request is shown (use-latest-request-guard.ts).                          *)
(*                                                                          *)
(* JavaScript runs each of the actions to its end.  A read may take any     *)
(* time, and sees the tables somewhere between its start and its answer.    *)
(***************************************************************************)
EXTENDS Integers, FiniteSets

CONSTANTS
  Filters,      \* what a page's dependencies may be
  Default,      \* and are when it is opened
  MaxPages,     \* bound: navigations
  MaxRequests,  \* bound: requests of one page
  MaxVersion    \* bound: refresh cycles

ASSUME LoadsAssumption ==
  /\ Default \in Filters
  /\ {MaxPages, MaxRequests} \subseteq Nat \ {0} /\ MaxVersion \in Nat

VARIABLES
  version,    \* of the tables
  page,       \* the page that is mounted; pages are numbered as they are opened
  filter,     \* its dependencies
  loadsWith,  \* the dependencies loadRef was made with
  due,        \* the effect that loads has not run since the last render
  sequence,   \* sequenceRef
  data, loading, error,   \* what the page shows
  listening,  \* its listeners are registered
  debounce,   \* the debounce timer is set
  shared,     \* pageReadScheduler
  local,      \* local[p]: backgroundLoadSchedulerRef of page p
  reads,      \* native reads in flight
  missed,     \* a cycle ended before this page listened (history)
  outrun      \* a first load has displaced the latest request (history)

shown    == <<data, loading, error>>
loadVars == <<version, page, filter, loadsWith, due, sequence, shown, listening, debounce,
              shared, local, reads, missed, outrun>>

NoData    == [filter |-> "none", version |-> -1]
NoRequest == [page |-> 0, seq |-> 0, kind |-> "none"]
Requests  == [page : 1..MaxPages, seq : 1..MaxRequests, kind : {"first", "background", "user"}]
Unseen    == -1

\* A lane runs one task and keeps one more.
IdleLane == [active |-> NoRequest, pending |-> NoRequest]
Lanes == [active : Requests \cup {NoRequest}, pending : Requests \cup {NoRequest}]

LoadsTypeOK ==
  /\ version \in 0..MaxVersion /\ page \in 1..MaxPages /\ sequence \in 0..MaxRequests
  /\ {filter, loadsWith} \subseteq Filters
  /\ data = NoData \/ data \in [filter : Filters, version : 0..version]
  /\ {due, loading, error, listening, debounce, missed, outrun} \subseteq BOOLEAN
  /\ shared \in Lanes /\ local \in [1..MaxPages -> Lanes]
  /\ reads \subseteq [request : Requests, filter : Filters, saw : {Unseen} \cup 0..version]
  \* A task that waits, waits for another.
  /\ \A l \in {shared} \cup {local[p] : p \in 1..MaxPages} :
       l.active = NoRequest => l.pending = NoRequest

LoadsInit ==
  /\ version = 0
  /\ page = 1
  /\ filter = Default /\ loadsWith = Default
  /\ due = TRUE /\ sequence = 0
  /\ data = NoData /\ loading = TRUE /\ error = FALSE
  /\ listening = FALSE /\ debounce = FALSE
  /\ shared = IdleLane /\ local = [p \in 1..MaxPages |-> IdleLane]
  /\ reads = {}
  /\ missed = FALSE /\ outrun = FALSE

-----------------------------------------------------------------------------
(* latest-wins-scheduler.ts and use-latest-request-guard.ts *)

Busy(lane) == lane.active # NoRequest

\* Seeded faults: what is asked always waits; what waits is not displaced.
EnterWaiting(lane, r) == [lane EXCEPT !.pending = r]
EnterFirst(lane, r) ==
  IF ~Busy(lane) THEN [lane EXCEPT !.active = r]
  ELSE IF lane.pending = NoRequest THEN [lane EXCEPT !.pending = r] ELSE lane

\* run: at once, or in the place of what waits.
Enter(lane, r) ==
  IF Busy(lane) THEN [lane EXCEPT !.pending = r] ELSE [lane EXCEPT !.active = r]

\* Seeded fault: what waits is forgotten.
ForgetNext(lane) == IdleLane

\* The task has ended, and what waits is started.
Finished(lane) == [active |-> lane.pending, pending |-> NoRequest]

Started(r) == [request |-> r, filter |-> loadsWith, saw |-> Unseen]
Starts(R)  == {Started(r) : r \in R \ {NoRequest}}

\* Seeded fault: any answer to the page counts.
CurrentPage(r) == r.page = page
\* isCurrent
Current(r) == r.page = page /\ r.seq = sequence

-----------------------------------------------------------------------------
(* runLoad *)

\* beginRequest, and what is shown from then on.
Request(kind) ==
  /\ sequence < MaxRequests
  /\ sequence' = sequence + 1
  /\ error' = FALSE
  /\ loading' = (loading \/ kind # "background")
  /\ outrun' = FALSE
  /\ UNCHANGED <<version, page, filter, data, listening, missed>>

Asked(kind) == [page |-> page, seq |-> sequence + 1, kind |-> kind]

\* The effect of a render: loadRef is set, then the page is loaded, the first time
\* through the shared lane.
LoadEffect ==
  /\ due
  /\ due' = FALSE
  /\ loadsWith' = filter
  /\ LET first == sequence = 0 /\ local[page] = IdleLane
         r     == Asked(IF first THEN "first" ELSE "user")
         read  == [request |-> r, filter |-> filter, saw |-> Unseen]
     IN /\ Request("user")
        /\ IF first
           THEN /\ shared' = Enter(shared, r)
                /\ local' = IF Busy(shared) THEN local
                            ELSE [local EXCEPT ![page] = Enter(@, r)]
                /\ reads' = IF Busy(shared) THEN reads ELSE reads \cup {read}
           ELSE /\ reads' = reads \cup {read}
                /\ UNCHANGED <<shared, local>>
  /\ UNCHANGED debounce

\* reload, which a page's buttons call.
Reload ==
  /\ ~due
  /\ Request("user")
  /\ reads' = reads \cup Starts({Asked("user")})
  /\ UNCHANGED <<loadsWith, due, debounce, shared, local>>

\* The debounce timer: a reload in the background.  A first load that waits in
\* the page's own lane is displaced, which ends its turn in the shared lane.
Debounced ==
  /\ debounce
  /\ debounce' = FALSE
  /\ Request("background")
  /\ LET r    == Asked("background")
         lane == local[page] IN
     /\ local' = [local EXCEPT ![page] = Enter(lane, r)]
     /\ reads' = reads \cup (IF Busy(lane) THEN {} ELSE Starts({r}))
     /\ shared' = IF Busy(lane) /\ lane.pending # NoRequest /\ lane.pending = shared.active
                  THEN Finished(shared) ELSE shared
  /\ UNCHANGED <<loadsWith, due>>

-----------------------------------------------------------------------------
(* The native reads *)

See(r) ==
  /\ r.saw = Unseen
  /\ reads' = (reads \ {r}) \cup {[r EXCEPT !.saw = version]}
  /\ UNCHANGED <<version, page, filter, loadsWith, due, sequence, shown, listening, debounce,
                 shared, local, missed, outrun>>

\* The answer to the current request is shown; one that was displaced ends the
\* spinner, if it is the current one, and shows nothing.
Show(r, ok, displaced) ==
  /\ data' = IF ok /\ Current(r.request) THEN [filter |-> r.filter, version |-> r.saw] ELSE data
  /\ error' = (error \/ (~ok /\ Current(r.request)))
  /\ loading' = (loading /\ ~Current(r.request) /\ ~Current(displaced))

\* The read of r is answered, or fails: its lanes go on with what waits.  A first
\* load that starts now enters the lane of its page, late.
Answer(r, ok) ==
  /\ r.saw # Unseen
  /\ LET own   == r.request.kind # "user" /\ local[r.request.page].active = r.request
         first == r.request.kind = "first"
         next  == IF own THEN Finished(local[r.request.page]).active ELSE NoRequest
         late  == IF first THEN Finished(shared).active ELSE NoRequest
         freed == IF own THEN [local EXCEPT ![r.request.page] = Finished(@)] ELSE local
         displaced == IF late = NoRequest THEN NoRequest ELSE freed[late.page].pending
     IN /\ shared' = IF first THEN Finished(shared) ELSE shared
        /\ local' = IF late = NoRequest THEN freed
                    ELSE [freed EXCEPT ![late.page] = Enter(@, late)]
        /\ reads' = (reads \ {r})
                      \cup Starts({next, IF late # NoRequest /\ ~Busy(freed[late.page])
                                         THEN late ELSE NoRequest})
        /\ outrun' = (outrun \/ displaced # NoRequest)
        /\ Show(r, ok, displaced)
  /\ UNCHANGED <<version, page, filter, loadsWith, due, sequence, listening, debounce, missed>>

-----------------------------------------------------------------------------
(* The user, and the refresh cycle *)

\* Another page is opened.  Its requests are numbered anew.
Navigate ==
  /\ page < MaxPages
  /\ page' = page + 1
  /\ filter' = Default /\ loadsWith' = Default
  /\ due' = TRUE /\ sequence' = 0
  /\ data' = NoData /\ loading' = TRUE /\ error' = FALSE
  /\ listening' = FALSE /\ debounce' = FALSE /\ missed' = FALSE /\ outrun' = FALSE
  /\ UNCHANGED <<version, shared, local, reads>>

\* A render with other dependencies makes every request stale at once, and
\* leaves the loading to an effect.
Render(f) ==
  /\ ~due /\ f # filter /\ sequence < MaxRequests
  /\ filter' = f
  /\ due' = TRUE /\ sequence' = sequence + 1
  /\ UNCHANGED <<version, page, loadsWith, shown, listening, debounce, shared, local, reads,
                 missed, outrun>>

\* listen has answered.
Listen ==
  /\ ~listening /\ sequence > 0
  /\ listening' = TRUE
  /\ UNCHANGED <<version, page, filter, loadsWith, due, sequence, shown, debounce, shared, local,
                 reads, missed, outrun>>

\* A refresh cycle writes, and says that it has completed.
CycleEnds ==
  /\ version < MaxVersion
  /\ version' = version + 1
  /\ IF listening THEN debounce' = TRUE /\ UNCHANGED missed
     ELSE missed' = TRUE /\ UNCHANGED debounce
  /\ UNCHANGED <<page, filter, loadsWith, due, sequence, shown, listening, shared, local, reads,
                 outrun>>

LoadsNext ==
  \/ LoadEffect \/ Reload \/ Debounced
  \/ \E r \in reads : See(r) \/ (\E ok \in BOOLEAN : Answer(r, ok))
  \/ Navigate \/ (\E f \in Filters : Render(f))
  \/ Listen \/ CycleEnds

LoadsSpec == LoadsInit /\ [][LoadsNext]_loadVars

-----------------------------------------------------------------------------
(* Properties *)

\* The current request is being read, or waits in a lane for one that is.
UnderWay ==
  \/ \E r \in reads : Current(r.request)
  \/ Current(shared.pending) \/ Current(local[page].pending)

\* A spinner has a load behind it: in whatever order the lanes are filled and
\* displaced, the page never waits for something nobody reads.
SpinnerHasALoad == loading => due \/ UnderWay

\* A page that has come to rest without an error shows what was asked for: data
\* of its present dependencies; and not from before the last cycle it has
\* heard of.
RestShowsTheLatest ==
  ~due /\ ~UnderWay /\ ~error /\ ~outrun =>
    /\ data.filter = filter
    /\ listening /\ ~debounce /\ ~missed => data.version = version

\* Answers never go back in time, whatever order they come in.
NeverOlder ==
  [][page' = page /\ data'.filter = data.filter => data'.version >= data.version]_loadVars

\* A page that waits is waiting for something, and a page that rests is up to date.
LoadsSettle ==
  /\ SpinnerHasALoad
  /\ RestShowsTheLatest

-----------------------------------------------------------------------------
(* What the code says of itself and does not do: see the README.            *)

\* "Every new request supersedes the previous pending request. This is
\* intentionally latest-wins" (latest-wins-scheduler.ts): a request is not
\* displaced by an older one, so a page at rest is not blank.
LatestWins == ~due /\ ~UnderWay /\ ~error => data # NoData
=============================================================================
