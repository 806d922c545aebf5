# Verification of lnwdeck

TLA+ models of lnwdeck: the refresh job that every window, the tray and the
background loop share, its locks and its collection pool; how the adapters read
local records, running totals and quota; what is left in the database; what the
pages, the alerts, the settings and the installed pets make of it. TLC checks the
models on small instances; TLAPS proves the main theorems for every value of the
constants.

Run a check with `tlc -workers 2 -config X.cfg M` and a proof with `tlapm M.tla`.
`PROJECT.json` lists the runs, the theorems, the source lines of each definition,
the hazards of the code with the properties that cover them and, for every
property, plausible faults of the code that break it. Those faults are the
operators marked "Seeded fault" in each module; no action refers to them.

## The system

lnwdeck is a Tauri desktop application (Rust, React) that shows the usage and
the remaining quota of AI coding tools. Paths are relative to `src/`; `tauri`
stands for `apps/desktop/src-tauri/src`, `ui` for `apps/desktop/src`.

| Part | State | Operations | Interacts with |
|---|---|---|---|
| Refresh job (`tauri/commands/pipeline.rs`, `state.rs`) | `refresh_running`, `refresh_cancel_requested`, setting `last_sync_time` | `start_refresh`, `refresh_all`, `cancel_refresh`; a driver (async task with a 5-minute timer) and a blocking worker per job | events to the windows; runs a cycle; alerts after it |
| Background loop (`tauri/lib.rs`) | its sleep | cooldown check, then `start_refresh` | the refresh job |
| Locks of `AppState` | `storage: Mutex`, `registry: RwLock`, poisoning | `ensure_storage`, `ensure_registry` | every command |
| Cycle and pool (`crates/application/src/refresh.rs`) | shared counter, result slots | `collect_all`, `collect_one`, the persistence loop | adapters, database |
| Persistence (`refresh.rs`, `usage_repository.rs`, `quota_repository.rs`) | tables `usage_events`, `quota_reports`, `quota_windows`, `collector_runs` | `persist_usage`, `persist_quota`, `upsert_report`, `replace_provider_batch` | full cycles, single-provider refreshes and the settings commands, each on a connection of its own |
| Local record collectors (`crates/provider-runtime`, 15 adapters) | what the tools keep: logs, tasks, message tables | `collect_usage`, `detect`, `health_check` | the tool writes meanwhile; rows are ingested |
| Session counters (Codex, Gemini) | Codex's cache of parsed sessions | a scan that takes a file's size, then reads it | as above |
| Quota sources (17 adapters over `provider-http`) | credentials and refreshed tokens during a collection | `collect_quota`, `health_check` | services, commands, local records |
| Quota parsers (`crates/domain/src/quota.rs` and the adapters) | none | what a provider publishes becomes windows | quota sources |
| Quota and Providers pages (`quota.rs`, `providers.rs`) | none | read models of the rows of a provider | a refresh writes them meanwhile |
| Usage pages, budgets, prices (`dashboard.rs`, `usage_history.rs`, `costs.rs`, `budgets.rs`, `crates/pricing`) | none | several statements each, outside a transaction | as above |
| Alerts (`alerts.rs`, `alert_repository.rs`) | table `alerts` | evaluate, acknowledge, acknowledge all | reads the tables a cycle writes meanwhile |
| Settings and windows (`settings.rs`, `windows.rs`, `tray.rs`, `ui/pages/SettingsPage.tsx`) | table `app_settings`, Windows' startup entry, visibility and size of windows, the page's draft | show, hide and close a window, load and save the form | saves on threads, window commands on the main thread, restarts |
| Installed pets (`tauri/pets.rs`, `commands/pets.rs`) | a directory per pet, settings `widget_pet`, `pet_defaults_seeded`, `pet_defaults_seeded_ids` | seed, import, choose, remove | killed between any two steps |
| Main window (`ui/app/AppShell.tsx`) | `refreshing`, what it last loaded | event listener, button, reload | events of the job |
| Page loads (`ui/lib/use-page-load.ts`, `latest-wins-scheduler.ts`, `use-latest-request-guard.ts`) | a lane all pages share, a lane per page, request numbers, a debounce timer | load, reload, render, navigate | reads on threads, end of a cycle |
| Updater, migrations, privacy guard, hook manager, browser helper, platform calls, widget views | see "Not modelled" | | |

Hard in this code, and what the properties are for: a timed-out driver whose
worker goes on; flags stored by everyone and claimed by one; events without a
job identity; a lock taken for writing by readers; several connections whose
statements interleave, with checks outside transactions; process death between
two statements or two renames; adapters that fail, hang or panic; tools that
write what is being read; running totals that begin again; several sources asked
in turn, any of which may fail, with one kind of answer that must not be hidden
by the next; credentials that change while a collection runs; row-by-row
evaluation of tables that are being written; pages of several statements; forms
that are saved whole and overlap; loads that wait for, displace and outrun each
other; local days that are not UTC days. `PROJECT.json` lists each such hazard at
its line with the properties that cover it.

What makes each part correct:

* Job: one cycle at a time; the flag never leaks nor drops early; every command
  answers; one verdict per job; a failed cycle does not suppress the next.
* Locks: no cyclic and no self wait; collection without the storage mutex; the
  registry complete for whoever reads it; a panicking collector does no harm.
* Cycle: each adapter collected once, its data its own, its outcomes in its place.
* Persistence: usage of a cumulative source is one scan; a run that says it
  succeeded has counted what it collected; a report has its windows; newer and
  usable reports survive older and failed ones.
* Collectors: nothing counted twice, nothing of other agents, nothing passed
  over; totals become turns; detection agrees with collection.
* Quota: a service's "expired" or "limited" is not hidden by an estimate; nobody
  is asked without a credential, nor twice with a rejected token; windows add up
  and show the real share.
* Pages: their parts agree; the two quota pages agree; a failed run hides what it
  should hide and keeps what it should keep; budgets and costs are one sum.
* Alerts: open exactly while their condition holds; acknowledgements stand while
  it does and not beyond.
* Settings, windows, pets: what is on the screen is what a restart shows; the
  startup choice is the registered one; what is installed stays whole, what was
  removed stays removed.
* Window and page loads: the spinner stops, the data are fresh at rest and never
  go back in time.

## Modules

| Module | Models | Correspondence |
|---|---|---|
| `RefreshSlot` | the abstract promise: a lock with one holder | `Acquire` is a successful compare-and-swap, `Release` the guard's drop |
| `RefreshJob` | job, driver, worker, cancel, background loop | one action per step between two shared accesses: `Claim`, `Launch`, `CollectAll`, `PersistProvider`, `CheckCancel`, `ReturnOk`/`Abort`, `Harvest`, `TimeOut`, the post-cycle block `RecordSyncTime` and `EvaluateAlerts`, `Report`, `ClearCancel`; `Jobs` are slots that are reused, so executions are unbounded |
| `RefreshShell` | event channel, listener, button | `Backend` is any step of the job with the event it emits; `Deliver` is the listener |
| `AppLocks` | storage mutex and registry lock | a call is a row access, a view (storage guard, then registry), a collection (storage released first) or the setup block |
| `RefreshCycle` | one cycle: pool and persistence loop | `Claim` is `fetch_add` with the cursor test, `Store` the slot, `Join` the end of `thread::scope`, `Persist` an iteration |
| `ProviderStore` | the database rows of one provider | an actor is a connection; its place is the next statement; collection reads login and source at separate steps |
| `LocalScan` | 15 adapters over local records | `Facts` says how each reads, whose turns it takes and what detects it; `Write`, `GoOn`, `SwitchModel`, `Lock` are the tool, `Refresh` a collection with files that cannot be opened |
| `SessionCounters` | Codex and Gemini | `Stat` and `Read` are the two looks of Codex at a file, with the tool writing in between; `ScanGemini` reads tails |
| `QuotaSources` | 17 adapters as decision procedures | an operator per adapter (`CodexStep`, ...) gives what comes after an answer; `Answered` is any answer the source may give |
| `QuotaWindows` | the constructors of `QuotaWindow` and the parsers of the adapters | a gauge per parser, and how it finds its windows: under fields of their own (`Named`), as a list that is passed on (`Lists`), or by looking for each; Cursor's lanes and credits on demand and Qoder's shared quota are slots of an account; `RefreshWindows` publishes any subset of the numbers of an account, rounded or not |
| `QuotaCards` | the Quota and Providers pages | `Persist...` are the statements of a refresh in order, any of which may fail, the state of the provider first; the pages are operators on the rows between them |
| `UsageViews` | dashboard and history statement by statement; sessions, costs, budgets, analytics and overview as operators | `Statement` is the next query of the open page; `Ingest_` and `ReplaceBatch` the cycle; `Measured` is what a page adds up, `Rate` and `PriceKnown` the two look-ups of the calculator, `Rounded` the six decimals of an estimate, `NewestRows` the limit of Analytics |
| `Alerts` | alerts of one provider | three reads, one write per observation, `resolve_missing`; a cycle writes the tables between any two |
| `SettingsWindows` | stored settings, windows, the Settings page | commands of the main thread are two steps (window, then row); opening the page and its first answer are two steps (`OpenPage`, `ShowPage`); a save is `sent`, `saved`, `viewed` (which may fail), answered; `Restart` at any point |
| `PetStore` | installed pets | a file system call or a settings row per action; `GiveUp` and `Kill` at any of them |
| `PageLoads` | `usePageLoad` | each action is one turn of the event loop; a read sees the tables at one point between its start and its answer |
| `MCRefreshShell`, `MCProviderStore` | symmetry of an instance | |
| `MCAdapters` | `LocalScan`, `SessionCounters`, `QuotaSources`, `QuotaWindows` | a behaviour is one of one of them |
| `MCPages` | `UsageViews`, `QuotaCards`, `SettingsWindows`, `PetStore`, `Alerts`, `PageLoads` | likewise |
| `RefreshJobProofs` | theorems about `RefreshJob` and `RefreshShell` | |
| `AppLocksProofs`, `RefreshCycleProofs`, `ProviderStoreProofs` | theorems about the module of that name | |
| `AdaptersProofs` | theorems about `QuotaSources`, `SessionCounters`, `LocalScan`, `QuotaWindows` and `MCAdapters` | |
| `ReadersProofs` | theorems about `UsageViews`, `Alerts` and `QuotaCards` | |
| `SettingsPetsProofs` | theorems about `SettingsWindows` and `PetStore` | |
| `PagesProofs` | theorems about `PageLoads` and `MCPages` | |

How they fit together. `RefreshShell` composes the window with `RefreshJob`, and
`RefreshJob` implements `RefreshSlot`. `RefreshJob` abstracts a cycle to "collect,
then persist one provider after the other", which `RefreshCycle` details;
`RefreshCycle` abstracts the collection, which the four modules of `MCAdapters`
detail, and the writes of a provider, which `ProviderStore` details. What a
refresh leaves behind is read by `QuotaCards`, `UsageViews` and `Alerts`, each of
which lets the writes of a cycle fall between any two of its reads. `PageLoads`
takes those reads as a whole, with the version of the tables they saw.
`MCAdapters` and `MCPages` put components that share no state side by side: the
variable `part` chooses the one that moves, the others stay as they started, and
the components do not influence each other. They are checked in one run because
the question is one: what is counted and asked for, and what is made of it.

Data are abstracted to what the properties tell apart. A usage event is the
record it counts, its size when scanned and the account it is booked on
(`ProviderStore`), or its time, model and tokens, of which its id is made
(`LocalScan`). A file is as big as it has records. A report is its time, its
status and whose credential fetched it. A percentage is counted in halves, so
that rounding down shows. Wall-clock time is a counter of few ticks; the cooldown
is "never, recent, old". A setting has two values. A pet package is one model
value whose two files must come from the same one.

## Runs

| Run | Question | Instance |
|---|---|---|
| `job` | Is there one cycle at a time, with an exact flag, one verdict, an answer always? | 2 slots, 2 providers, both commands, timer, cancel, loop |
| `shell_rest` | Does the window come to rest idle and fresh? | 2 slots, 1 provider, 3 events in transit, no timer |
| `locks_calls` | Can calls deadlock, does a collection hold the mutex? | 3 calls of all kinds, writer-preferring lock |
| `store_refresh` | What can two refreshes and the settings command do to each other's rows? | 2 refreshers, the settings connection, one account and none, one record of size up to 2, 2 reports |
| `cycle_pool` | Does the pool collect each adapter once and answer in order? | 5 adapters, 3 threads, any subset of cursors unreadable, panics |
| `adapters` | Is what the adapters count, ask for and show right, while the tools go on? | see below |
| `pages` | Do the pages, alerts, settings, pets and page loads agree with what is stored? | see below |
| `locks_blocked` | counterexample to `UiReturns` | a view and a collection |
| `quota_delete` | counterexample to `DeletedShowsNothing` | one refresher, three reports |
| `cards_gemini` | counterexample to `OnlyTheRetiredIsHidden` | Gemini alone |
| `settings_closing` | counterexample to `ClosingIsRemembered` | 4 acts, 1 save in flight |
| `pages_blank` | counterexample to `LatestWins` | 2 pages, 3 requests, 3 cycles |

### What they check

* `job`: `NoOverlap`, `OneVerdict`, `SyncOnlyAfterSuccess`, `ImplementsSlot`,
  `VerdictIsLast` (with the timer: what may follow is named), `Answers` (every
  command answers, also when a collector hangs, unless it stays in its post-cycle
  block behind another job's hung cycle) and `SlotReleased`. `shell_rest`:
  `WindowSettles` (at rest the spinner is off and the data are those of the last
  cycle).
* `locks_calls`: `LockOrder`, `OnlySetupSelfWaits`, `ReadersSeeRegistry`,
  `CollectorPanicIsHarmless`, `CallsReturn`.
* `cycle_pool`: `CollectedOnce`, `SlotsAreFinal`, `OwnData`, `OutcomesInOrder`,
  `CycleEnds`.
* `store_refresh`: `WholeScans`, `RunTellsTruth`, `ReportsHaveTheirWindows`,
  `ClobbersOnlyInTheGap`.
* `adapters`, `ScanCountsRight`: every counted event has a record of its own, with
  at least its tokens, while no counted record is changed (`NeverOvercounts`: an
  injection of events into records), no turns of other agents, every readable
  record after a scan within the bounds, detection backed by something to count.
  `SessionsCountRight`: Codex's cache is the file although the tool writes between
  the two looks at it, no event has more tokens than the turn of its time took
  (`turns` is the history of them), Codex exact and Gemini complete after a scan
  that saw everything.
* `adapters`, `CollectionIsHonest`: over every sequence of answers of every
  source, `SignalNotMasked`, `RemoteOnlyWithLogin`, `NoRetryWithRejectedToken`,
  `HealthIsEarned`; with `OlderOnlyAfterFailure` (a stored reading is replaced by
  an older one only after a live source failed) and `CollectionEnds`.
  `WindowsAreTrue`: consistent, within the rounding of the real share where the
  number for it was published, one per period unless a list is passed on, Cursor's
  plan within its lanes, the tightest of several buckets.
* `pages`, `ViewsAgree`: the statements of a page add up to one total unless a
  cycle wrote meanwhile, and then later ones only show more; one provider's page
  is its card; a budget is what the Costs page lists for its period; budget states
  exact; a model is called priced exactly if it was charged at a rate of its own
  (`LabelIsEarned`); overview and Analytics differ by roundings and the limit only
  (`OverviewIsTheSumOfRows`), and dashboard, history, sessions and overview by the
  cached tokens and the estimates (`PagesCountTheSameRows`). `CardsTellTruth`: between any two
  statements of a refresh, `FreshIsWithinItsWindow`, `ClosedIdeKeepsTheReading`,
  `FailureHidesTheReading`, `PagesAgreeOnTheReading`, `EveryReportHasACard`,
  `SuccessIsShown`.
* `pages`, `SettingsAgree` (`ScreenIsRemembered`, `LonePageIsTruthful`) and
  `StartupIsRegistered`; `PetsAreKept` (`ListedIsWhole`, `OwnedIsListed`,
  `DefaultsStayRemoved`, `WidgetPetIsInstalled`); `AlertsStand` (`AckStands`,
  `EvaluationSettles`) and `ReappearedIsUnread`; `LoadsSettle`
  (`SpinnerHasALoad`, `RestShowsTheLatest`) and `NeverOlder`.

A property that groups several has a seeded fault for each of its parts.

### Bounds and why they are enough

* Two job slots give a timed-out job and its successor; two providers give a
  cancel between writes. `MaxWire` bounds the events in transit.
* Three calls give a reader, a waiting writer and a second reader.
* A record must grow for a stale scan, two reports must exist for one to clobber
  the other (`MaxSize`, `MaxClock`).
* `LocalScan`: 2 files and 3 records with limits of 2 (`MaxFiles`,
  `MaxFileBytes`, `MaxTotalBytes`) put a file, a table and a total within, at and
  beyond their limits. The number of files stays within its limit; that another
  choice of files is read at each refresh is what files that cannot be opened
  (`unread`) show. 2 tokens let a record go on; 2 instants let two records agree
  or differ in time. Ten of the fifteen adapters are run: `omp`, `codebuddy`,
  `workbuddy` and `github_copilot` have the `Facts` of `pi_agent`, `zcode_ai`
  those of `mimo_code`.
* `SessionCounters`: 2 files and 3 turns of 1 or 2 tokens give a session that is
  deleted beside one that goes on, a total that begins again below or above the
  last one, and a tail (`MaxSize` 2) that has moved.
* `QuotaSources`: no bound on the answers; a collection is a path through the
  sources of an adapter, at most 7 long. Two instants let a reading age.
* `QuotaWindows`: an allowance of 2 has whole percentages, one of 200 halves; 3
  is more than the allowance of 2; the subsets of numbers a slot may publish are
  all enumerated, and a list may repeat a period. Every parser is run.
* `UsageViews`: 2 rows of 4 kinds over 4 ticks, with days of 2 ticks, an offset
  of 1 and a clock change at 2: a local day that begins inside a UTC day, and one
  without a midnight. A `Unit` of 3 rounds estimates up and down; the kinds have
  an overridden rate, one of the family, the fallback, a recorded cost in a group
  with an unpriced row, cached tokens and the former id. Every limit of Analytics
  from one row on is tried in place of 500.
* `QuotaCards`: the six providers differ in channels, identities and key; 2
  instants let two readings age differently (`FreshFor` 1).
* `SettingsWindows`: 3 acts of the user between two starts (`MaxActs`) and 2
  saves in flight (`MaxCalls`): open the page, change something, do something
  elsewhere. `settings_closing` needs 4.
* `PetStore`: one pet of the old defaults, one of the new ones, two packages, so
  that a mixed directory can be told from a whole one.
* `Alerts`: a budget with two severities, one usage and one quota mode, in
  `pages`; the quota window behaves as the budget does. The theorems of
  `ReadersProofs` hold for every set of them.
* `PageLoads`: 2 pages share the lane of first loads, 3 requests of a page are
  one that is read, one that waits and one that displaces it, 2 cycles make data
  of three ages.

At a bound the environment stops producing; the program's own steps are never
cut off, except that a refresher at `MaxClock` collects no further report.
`store_refresh`, `adapters` and `pages` therefore do not check deadlock: with
every act spent, a component rests. `locks_calls` does not either, because the
setup block may really wait for itself for ever; `CallsReturn` says that nobody
else does.

### Fairness

* `RefreshJob!LiveSpec`: weak fairness of the driver's asynchronous steps
  (`AsyncStep`); the runtime polls tasks and fires its timer. The post-cycle block
  is not one of them: it waits on the blocking pool, without a timeout, for the
  storage mutex and the registry's write lock, which the cycle of another job may
  hold. `Answers` has its hypothesis in its own formula (`PostFairness`: the block
  goes on while no worker is in a cycle) and excepts a job that stays in the block
  beside another's cycle (`Blocked`). Workers are not assumed fair there: a
  collector may hang. `SlotReleased` assumes them fair in its own formula, since
  the code has no way to end a hung worker.
* `AppLocks!LiveSpec`: weak fairness of a call's own steps, as the threads are
  scheduled. The end of a collection is assumed in `CallsReturn` and not in
  `UiReturns`, which states the promise of `state.rs` as it is written. Fair
  choice between waiting readers and writers is not assumed.
* `RefreshCycle!LiveSpec`: weak fairness of every thread of the pool and of the
  cycle's own thread: adapters return.
* `QuotaFairness`: weak fairness of an answer and of the adapter's own last step.
  Every request of `provider-http` and every command has a timeout, and a
  timeout is an answer. The user and the clock are not fair.

## Where the code departs from its documentation

Each of the first five is a run.

1. `locks_blocked`: `ensure_registry` takes the write lock on every call, so a
   view waits for a running cycle, holding the storage mutex against all others.
   `state.rs` promises the opposite. A collector that hangs hangs the UI's data.
2. `quota_delete`: the report that is to blank the deleted credential's quota is
   filed without an account. A usable report without an account is not replaced
   (a failed report never replaces a usable one), a report of an identified
   workspace is not touched, and `latest_all` then shows the old one.
3. `cards_gemini`: the filter that hides readings of a retired Gemini source
   drops those of today's source too.
4. `settings_closing`: every control of the Settings page saves the whole form it
   loaded when it was opened, the visibility of pet and widget included.
5. `pages_blank`: a first load that had to wait enters its page's own lane when
   it starts, behind a newer background load that waits there, and displaces it.

The following are true of the models too. Where a definition states what a
comment or a document says, it stands under "What the code says of itself and
does not do" at the end of its module; no run checks it.

* A command may never answer. The comment at `pipeline.rs:249-251` says that the
  timeout "guarantees the command always answers even if a collector hangs", but
  it covers the closure alone: the block after it
  (`pipeline.rs:400-414`) waits for locks that the hung collector of an earlier,
  timed-out job may hold (`Blocked`).
* After a timeout the verdict "failed" goes out while the worker keeps emitting
  "progress"; `AppShell.tsx` turns the spinner on, and the button stays disabled
  until a refresh started elsewhere ends. `shell_rest` has no timer for this
  reason.
* The last store of a driver can erase the cancel request of the next job
  (`ClearCancel`); a cycle that was cancelled counts as the last full sync
  (`RecordSyncTime`); an older full scan may replace a newer one until the next
  refresh (`WholeScans` allows any past scan, on purpose).
* Usage rows are replaced per account fingerprint, but a full scan reads the
  machine's whole history whoever is logged in (`ProviderStore`, `CountedOnce`).
* `persist_usage` stores a cursor after a failed ingestion too. Nothing follows
  from it: OpenCode, the one adapter that answers a cursor, is always scanned in
  full.
* When seeding the default pets fails, the setup block records the failure
  through a helper that locks the storage mutex the block holds (`AppLocks`,
  `RecordSeedFailure`; `OnlySetupSelfWaits` shows that it is the only such
  place). In `PetStore` the start then hangs (`Hung`), and this is why a removed
  default cannot come back: the ids are never stored by a seeding that failed.
* An import that is killed between its two renames leaves the old pet in a
  hidden directory that nothing reads (`InstallIsAtomic`).
* `LocalScan`: session rows of Hermes get a new id whenever their totals grow, so
  each is counted again (`TotalsCountedOnce`); OpenCode, whose rows are totals
  too, replaces its batch. GLM turns in the logs of Claude and the table of
  OpenCode are counted under those providers and under Z.AI (each behaviour of
  `LocalScan` is about one adapter). Of a message table the oldest 400 rows are
  read, where the comment names a bound of `max_total_bytes / 64` rows alone
  (`opencode_fork.rs:45-60`; `Earlier`): beyond it the new turns are missing. A task file of Cline's
  kind that is not JSON as a whole hides all its records (`UiSamples`).
* `QuotaSources`: the local fall-backs of Codex, ZCode and Qoder are stored as
  collected now, so an old number reads as fresh (`FreshIsRecent`). OpenCode
  answers `NOT_CONFIGURED` when its last source fails, whatever the ones before it
  said. Nothing in the application calls `health_check`; `HealthIsEarned` is about
  what it would answer.
* `QuotaWindows`: OpenCode Go takes a published percentage of one for a fraction
  (`RealPercentage`); Kimi counts a limit with a percentage alone as unused; Grok
  and Devin read missing numbers as nothing or as everything used; the request
  limit of OpenRouter is always shown as unused; the session row of ZCode counts
  five, the hours of its period, as its total (`Misread`). Claude's weekly limits
  per model share one key, and are all kept (`claude/usage_api.rs:143-179`, the
  parser `claude limits`). When Cursor publishes no percentage of the plan, the
  mean of its lanes or the credits on demand, of the account or of the team, are
  shown as the plan's (`cursor/lib.rs:425-447`; `PlanIsGuessed`).
* `QuotaCards`: an adapter with a quota channel alone is labelled "Not supported"
  (`HealthIsTheLastResult`).
* `UsageViews`: a model without a price is estimated and never reported as
  unpriced (`UnpricedIsSaid`); a torn page of the history can show a share above
  100 % (`ShareIsWithin100`); rows under OpenCode's former id are missing from
  filters of other pages than the dashboard; the daily buckets of the history are
  UTC days, those of the dashboard local ones; a local day without a midnight
  refuses the query. The pages do not show one cost: Sessions adds recorded costs
  only, Costs and Budgets estimate everything anew and ignore recorded costs, the
  overview and Analytics take the recorded cost where there is one; the overview
  ignores `pricing_overrides`; Analytics ends after 500 rows. Each estimate is
  rounded to six decimals, so that one per group is not the sum of one per row, as
  `overview.rs:93-95` has it (`OverviewIsExact`). Dashboard and overview count the
  tokens of a cache, the other pages do not.
* `Alerts`: the "last run" is kept per mode, so a mode that is no longer used
  keeps its failed run and its alert (`OnlyLastRun`); `SOURCE_REQUIRES_IDE`
  raises an alert (`ExpectedStateIsSilent`).
* `SettingsWindows`: two saves in flight may run in the opposite order, and a
  slider's timer saves the draft of 250 ms ago over a control that was changed in
  between (`LonePageIsTruthful` speaks of pages that were left alone); a refused
  value stays on the page; when the view after a save fails, the form is stored
  and the widget keeps the size it had.

## Proofs

All proofs hold for every value of the constants under the `ASSUME`s of the
modules, which TLC evaluates in the runs. One theorem has a hypothesis on the
constants besides, named below; the run that checks its property satisfies it.
Every invariant and every action property that a passing run checks is stated by
a theorem, alone or as a part of the group the run checks. Each proof has the
same shape: a type invariant, a strengthening that the initial states satisfy and
every action keeps (a step per action, under it one per conjunct it can disturb),
and the property from it.

### The refresh

* `RefreshJobProofs`, the job. The inductive invariant is `IInv`: `TypeOK`,
  `NoOverlap`, `FlagMeansActive` and `Unfinished` (the worker of a job that is
  only claimed has ended with nothing persisted; one that is collecting or
  persisting has providers left). `NoOverlap` alone is not inductive: without
  "active implies `running`" a claim could succeed beside an active job. A second
  invariant, `VInv`, says which of a job's events are out at each place of its
  driver and worker. From them: `TypeCorrect`, `OneCycleAtATime`, `FlagIsExact`,
  `VerdictIsUnique`, the action property `SyncIsEarned`, and `JobImplementsSlot`,
  where each step maps to `Acquire`, `Release` or a stutter of `RefreshSlot`.
  `VerdictStands` is `VerdictIsLast` from `VInv`, timers or not: behind "failed"
  there may be announcements of the worker the driver gave up, behind any other
  verdict nothing.
* `RefreshJobProofs`, the window. `WindowComesToRest` rests on `SInv`: whatever is
  in the channel ends in a verdict, or a driver still owes one; and as long as the
  spinner is on or a completed cycle is unloaded, one of the two is so. Its
  hypothesis `Quietly` says that no timer fires and that the command is
  `start_refresh`, which `native.ts` and the background loop use; the instance of
  `shell_rest` satisfies it.
* `AppLocksProofs`. The invariant says which guards a call at each place holds.
  From it: `LocksAreOrdered`, `OnlySetupWaitsForItself`,
  `StorageIsFreeDuringCycles`, `RegistryIsComplete`, `CollectorPanicIsContained`.
* `RefreshCycleProofs`. The invariant says that a number in a thread's hands is
  below the shared counter and in no slot yet (`Claims`), that until a panic
  every readable number taken is in work or in its slot (`Covered`), that nobody
  collects after the join (`Joined`), and whose data a slot holds (`Own`).
  Without `Covered` the join would leave open whether a slot is empty because
  its cursor is. From it: `TypeCorrect`, `EachAdapterOnce`, `SlotsAreComplete`,
  `DataStaysWithItsAdapter`, `OutcomesComeInOrder`.
* `ProviderStoreProofs`. A batch in an actor's hands is a scan of a past content
  booked on that actor's account; an actor in front of the transaction was not
  refused by what it read. For runs, two facts of a step are added: no ingestion
  leaves an account of a cumulative source empty, and whoever is about to record
  a run has just ingested its batch. From them:
  `TypeCorrect`, `ScansAreWhole`, `WindowsComeWithReports`, `RunsTellTheTruth`,
  and `OnlyTheGapClobbers`, which says that the comment of `upsert_report` holds
  up to exactly one race.

### The adapters (`AdaptersProofs`)

* Quota sources. Each adapter's sources have a rank, and `InOrder` says that what
  was asked so far is no longer than the rank of the source being asked: this
  bounds a collection by seven answers whatever they are. `Logged` (a service was
  asked after a look that found a credential), `Accepted` (the token in hand has
  not been rejected, unless it is being refreshed; the tokens only go up) and
  `Unmasked` (the way to a local estimate leads over no signal, and over a
  failure) make `QuotaInv`. From it `QuotaTypes`, `EveryCollectionIsHonest` for
  every adapter and every sequence of answers, and `OlderReadingsNeedAFailure`.
* Running totals. Everything Codex holds of a file is a beginning of it
  (`SeenIsBeginning`): the file only grows between the two looks, a deleted name
  is never used again. `TotalsRise` ties each total to the one before it by the
  turn that was written, `SettledIsRead` says what an undisturbed scan has read.
  From these (`CounterInv`): `CounterTypes`, `CacheIsSound`, `GeminiIsComplete`.
  `CountInv` adds which turn each record stands for, in the file and in what was
  seen of it (`SeenAreTurns`), and that a row is what its turn adds
  (`RowsAreTurns`): the tail that Gemini reads may begin anywhere, and the first
  total of a tail is counted as a turn only where the file begins. From it:
  `NoTurnTwice`, `CodexCountsExactly` and the group `TotalsBecomeTurns`.
* Local records. `SourceIsWhole` says what a source can hold (nothing when it is
  not there, one file when it is a table, turns of others only in a shared store).
  The key lemma is `WholeSourceIsRead`: whatever the adapter, a source within its
  bounds is read to the last record that can be read.
  From `ScanInv`: `ScanTypes`, `OnlyOwnTurns`, `NothingIsPassedOver`,
  `DetectionHasSomethingToCount`. For `NothingIsCountedTwice`, `AsTheyAre`
  says that while no record that was read is changed each event is what some record
  says; what a record says is one event (`SampledHaveRecords`), which gives the
  injection. `OwnRecords` is the same for the source that replaces its rows.
  `ScansCountRight` is the group.
* Quota windows. Whichever amounts of an account were published, they give the
  share that was used (`AmountsAgree`). The gauges are treated one class at a
  time: those that do not guess show it (`FairGauges`), those that guess at a
  missing number keep at least to the invariants of a window (`GuessingGauges`),
  and Gemini shows the tightest of several buckets (`TightestReports`).
  `WindowsAreReported` puts them together for any published account, with lists
  that repeat a period; what Cursor shows for its plan, when its number is missing,
  lies between its lanes. From `WindowInv`: `WindowTypes`, `EveryWindowIsTrue`.
* `EachPartIsItsComponent` says that a behaviour of `MCAdapters` is one of each of
  the four components, so that the theorems above hold of the module the run
  checks; `AdaptersKeepTheirTypes` is the type invariant of the composition.

### The readers (`ReadersProofs`)

* Sums. The pages add up tokens with folds over sets of rows and over groups. A
  first section shows what such a sum is: the number of the tokens themselves, as
  the cardinality of a set of pairs. The induction is over the subsets of one
  fixed finite set, by the minimum of a well-founded relation, since the
  induction theorems of the library take an operator. `SumByGroup` (the sum over
  the groups of a partition is the sum over all), `SumOfSums` and the rest follow
  from facts about cardinalities.
* Usage pages. `ViewsInv`: while nothing is written between two statements, each
  part a page has shown is the tokens of what was chosen; as long as no rows are
  replaced it is never more, and no part is more than a later one. From it, for
  any set of rows, groups, days, prices and budgets: `ViewsTypes` and
  `ViewsStayAgreed`, the group with the card, the costs, the sessions, the budget
  states, the labels and the overview. An estimate is within half a unit of its
  exact amount, which is linear; the sums over rows and over groups are therefore
  within half a unit for each row and each group (`Slack`), for every unit and
  every choice of rates and overrides.
* Cards. `RowsInv` says what can be stored of quota by now (a named account has a
  reading of today's adapter or nothing), `RefreshInv` what the statement that is
  next will write, `LastInv` that the last success still stands as it was
  written. From `CardInv`: `CardTypes` and `CardsTellTheTruth`, between any two
  statements of a refresh.
* Alerts. With `Seen`, the keys whose conditions an evaluation has read by now,
  `AlertInv` says that a standing key is open, acknowledged and, if seen, active;
  and that while nothing was written the active keys are exactly the seen
  conditions, each still to be recorded or on record. From it:
  `AlertsStayTrue`, `ReappearingIsUnread`.

### Settings, pets and page loads (`SettingsPetsProofs`, `PagesProofs`)

* Installed pets. `PackageInv` (every directory, staging and backup holds files
  of one package or lacks some), `OwnedInv` (where an installed pet is during
  each step of an import), `DefaultsInv` (a removed default is known to whatever
  seeding may run next) and `WidgetInv` carry `PetsStayKept`. `DefaultsInv` is
  where the upgrade from the stored flag matters.
* Settings. `StartupStaysRegistered` is shown step by step and needs the types
  alone. `SettingsStayAgreed` rests on `ScreenInv` (the screen and the rows differ
  only in the window whose command is half done) and `PageInv` (on an open page
  that was left alone at most one save is in flight, the latest, whose answer is
  what is stored; without one the page shows what is stored); `LoadingInv` says
  the same of an answer on its way to a page that is being opened.
* Page loads. `Places` says that a request is in one place at a time: it waits in
  one lane or is read once; `Fresh` says that what is read for the latest request
  was seen no earlier than what the page shows. From them `DataNeverGoesBack`, and
  by places alone `SpinnersHaveLoads`. For `LoadsStaySettled`, `Ready` says
  that unless a load is due the latest request is for the filter on the screen,
  `UpToDate` that what is read for it saw the latest cycle unless the page missed
  that cycle's end or its debounce timer is set, and `Rested` is what is shown when
  neither is left.
* `EachPageIsItsComponent` and `PagesKeepTheirTypes` are for `MCPages` what the
  two theorems above are for `MCAdapters`.

### Only model-checked

The five liveness properties: `Answers`, `SlotReleased`, `CallsReturn`,
`CycleEnds`, `CollectionEnds`. They rest on fairness, and the prover handles
neither that nor `ENABLED`. What their arguments need of the states is proved in
part: `InOrder` bounds a quota collection, `Covered` and `Joined` say what the
pool still has to do. The five runs that end in a counterexample show that a
statement is false and have nothing to prove.

What remains to be proved along this line: that every step of a collection, a
cycle and a job other than the user's lowers a measure, as action properties; then
each liveness property needs its fairness assumption alone.

## Not modelled

* Updater: downloads and installs through a plugin and restarts the process; its
  effect on the rest is the crash that `ProviderStore`, `SettingsWindows` and
  `PetStore` have.
* Migrations: each is one transaction of a single connection, before any other is
  opened.
* Privacy guard and hashing: their results are alternatives of the actions that
  call them.
* Hook manager, rollups and forecasts: no part of the application calls them.
* Browser helper, Windows integration: a message codec and calls of the platform.
* Widget and pet views: drawing, animation and dragging; the listener they share
  with the main window is in `RefreshShell`.
* Installer, scripts, schemas: build and packaging.
* Of modelled parts: parsing of JSON, HTML and SQL text; ZCode's limits of a
  period it does not know and Kiro's usage panel as a source of windows; the alert
  conditions on the status of stored quota reports; retention (pruning has no
  caller); the entries of the price catalog and the editing of budgets;
  window positions, click-through, the pet's own settings and the validation of a
  form; names of projects and sessions; the checks of a pet package's bytes and
  its download.
