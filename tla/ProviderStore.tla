--------------------------- MODULE ProviderStore ---------------------------
(***************************************************************************)
(* What the refreshes of one provider leave in the database                 *)
(* (application/src/refresh.rs, usage_repository.rs, quota_repository.rs).  *)
(* A refresher is a full cycle or a single-provider refresh: each runs on a *)
(* connection of its own, so their statements interleave.  The settings     *)
(* command that stores or deletes the OpenCode Go credential writes a quota *)
(* report of its own.  The process may be killed between any two            *)
(* statements; the database stays.                                          *)
(*                                                                          *)
(* A report's data are abstracted to whose they are and when they were      *)
(* collected, a usage event to the source record it counts, the size of the *)
(* record when it was scanned and the account it is booked on.              *)
(***************************************************************************)
EXTENDS Naturals, FiniteSets

CONSTANTS
  Accounts,     \* provider accounts (workspaces) one can be logged in to
  Nobody,       \* no identity: the account fingerprint ''
  Records,      \* records of the local source
  Refreshers,   \* connections that refresh the provider
  Settings,     \* the connection of the settings commands
  MaxSize,      \* bound: how far a cumulative record grows
  MaxClock      \* bound: how many quota reports are made

ASSUME NobodyAssumption == Nobody \notin Accounts
ASSUME SettingsAssumption == Settings \notin Refreshers
ASSUME BoundsAssumption == MaxSize \in Nat \ {0} /\ MaxClock \in Nat

VARIABLES
  fullScan,   \* cumulative source: replace_provider_batch instead of ingest
  source,     \* source[rec]: size of a record, 0 while there is none
  past,       \* every content the source has had (history)
  login,      \* the identity the adapter reads now
  usage,      \* table usage_events
  reports,    \* table quota_reports: one row per account, or NoReport
  windows,    \* table quota_windows
  clock,      \* quota reports made so far; the time of the next one
  actor       \* actor[x]: where connection x is and what it carries

vars == <<fullScan, source, past, login, usage, reports, windows, clock, actor>>

Buckets  == Accounts \cup {Nobody}
Actors   == Refreshers \cup {Settings}
Contents == [Records -> 0..MaxSize]
Events   == [rec : Records, size : 1..MaxSize, bucket : Buckets]
Codes    == {"none", "ok", "failed"}
NoReport == [at |-> 0, status |-> "none", of |-> Nobody]
Reports  == [at : 0..MaxClock, status : {"none", "fresh", "failed"}, of : Buckets]
Windows  == [bucket : Buckets, at : 0..MaxClock, of : Buckets]
Places   == {"idle", "usage", "quota", "persist", "run", "check", "write", "config", "answer"}
Resting  == [pc |-> "idle", fp |-> Nobody, batch |-> {}, code |-> "none",
             report |-> NoReport, seen |-> NoReport]

TypeOK ==
  /\ fullScan \in BOOLEAN
  /\ source \in Contents /\ past \subseteq Contents /\ source \in past
  /\ login \in Buckets
  /\ usage \subseteq Events
  /\ reports \in [Buckets -> Reports]
  /\ windows \subseteq Windows
  /\ clock \in 0..MaxClock
  /\ actor \in [Actors -> [pc : Places, fp : Buckets, batch : SUBSET Events, code : Codes,
                           report : Reports, seen : Reports]]

Init ==
  /\ fullScan \in BOOLEAN
  /\ source = [rec \in Records |-> 0]
  /\ past = {source}
  /\ login \in Buckets
  /\ usage = {}
  /\ reports = [b \in Buckets |-> NoReport]
  /\ windows = {}
  /\ clock = 0
  /\ actor = [x \in Actors |-> Resting]

Database == <<usage, reports, windows>>
World    == <<fullScan, source, past, login, clock>>

\* The events of the adapter's scan of content s, booked on account b
\* (normalize_usage_batch also makes the event ids depend on b).
Scan(s, b) == {[rec |-> rec, size |-> s[rec], bucket |-> b] : rec \in {q \in Records : s[q] > 0}}

OfBucket(b) == {e \in usage : e.bucket = b}

Usable(report)  == report.status = "fresh"
IsError(report) == report.status = "failed"

At(x, place) == actor[x].pc = place
Go(x, place) == actor' = [actor EXCEPT ![x].pc = place]

\* After its last statement an actor forgets what it carried; the settings
\* command still has to answer.
Over(x) == IF x = Settings THEN [Resting EXCEPT !.pc = "answer"] ELSE Resting
Rest(x) == actor' = [actor EXCEPT ![x] = Over(x)]

(* Seeded faults, see the note in RefreshJob. *)

\* The scan is inserted next to the old one.
IngestedBeside(batch, b) == usage \cup batch

\* INSERT OR IGNORE, or delete the accounts of the batch and insert it.
Ingested(batch, b) ==
  CASE ~fullScan  -> usage \cup batch
    [] batch = {} -> usage
    [] OTHER      -> (usage \ OfBucket(b)) \cup batch

\* A failed report gives way to a usable one, an older one to a newer one.
Refuses(report, stored) ==
  \/ IsError(report) /\ Usable(stored)
  \/ report.at < stored.at

\* INSERT OR REPLACE of the report, and its windows.
Stored(report, b) == [reports EXCEPT ![b] = report]
StoredWindows(report, b) ==
  {w \in windows : ~(w.bucket = b /\ w.at = report.at)} \cup
  (IF Usable(report) THEN {[bucket |-> b, at |-> report.at, of |-> report.of]} ELSE {})

-----------------------------------------------------------------------------
(* Seeded faults, see the note in RefreshJob. *)

\* An ingestion error is not looked at.
IngestIgnoringErr(x) ==
  /\ At(x, "persist")
  /\ Go(x, "run")
  /\ \/ usage' = Ingested(actor[x].batch, actor[x].fp)
     \/ usage' = usage
  /\ UNCHANGED <<World, reports, windows>>

\* The windows of an older report of the account are dropped with it, and the
\* new ones come in a statement of their own that may not be reached.
WriteWithoutTx(x) ==
  /\ At(x, "write")
  /\ reports' = Stored(actor[x].report, actor[x].fp)
  /\ windows' \in {windows, StoredWindows(actor[x].report, actor[x].fp)}
  /\ Rest(x)
  /\ UNCHANGED <<World, usage>>

\* A usable report always gets through: its time is not compared with the
\* stored one's.
CheckIgnoringTime(x) ==
  /\ At(x, "check")
  /\ LET report == actor[x].report
         stored == reports[actor[x].fp]
     IN IF report = NoReport \/ (IsError(report) /\ Usable(stored))
        THEN Rest(x)
        ELSE actor' = [actor EXCEPT ![x].pc = "write", ![x].seen = stored]
  /\ UNCHANGED <<World, Database>>

-----------------------------------------------------------------------------
(* The source and the credential *)

\* A session goes on (cumulative sources) or a new record is appended.
Grow(rec) ==
  /\ source[rec] < IF fullScan THEN MaxSize ELSE 1
  /\ source' = [source EXCEPT ![rec] = @ + 1]
  /\ past' = past \cup {source'}
  /\ UNCHANGED <<fullScan, login, clock, Database, actor>>

\* The user logs in elsewhere: a provider's own CLI or IDE.
SwitchAccount(a) ==
  /\ a # login
  /\ login' = a
  /\ UNCHANGED <<fullScan, source, past, clock, Database, actor>>

\* set_opencode_go_config, or delete_opencode_go_config when a is Nobody: the
\* credential is changed first.
ChangeConfig(a) ==
  /\ At(Settings, "idle")
  /\ clock < MaxClock
  /\ Go(Settings, "config")
  /\ login' = a
  /\ UNCHANGED <<fullScan, source, past, clock, Database>>

\* Then clear_opencode_go_quota_report upserts a failed report without an account.
ClearReport ==
  /\ At(Settings, "config")
  /\ clock < MaxClock
  /\ clock' = clock + 1
  /\ actor' = [actor EXCEPT ![Settings].pc = "check", ![Settings].report =
       [at |-> clock + 1, status |-> "failed", of |-> Nobody]]
  /\ UNCHANGED <<fullScan, source, past, login, Database>>

\* get_settings_view, and the command has returned.
Answer ==
  /\ At(Settings, "answer")
  /\ Go(Settings, "idle")
  /\ UNCHANGED <<World, Database>>

-----------------------------------------------------------------------------
(* Collection: collect_one *)

\* The fingerprint is computed before anything is collected.
Identify(x) ==
  /\ x \in Refreshers
  /\ At(x, "idle")
  /\ actor' = [actor EXCEPT ![x] = [Resting EXCEPT !.pc = "usage", !.fp = login]]
  /\ UNCHANGED <<World, Database>>

\* detect and collect_usage_with_cursor; both channels may fail.
CollectUsage(x) ==
  /\ At(x, "usage")
  /\ \/ actor' = [actor EXCEPT ![x].pc = "quota", ![x].code = "ok",
                               ![x].batch = Scan(source, actor[x].fp)]
     \/ actor' = [actor EXCEPT ![x].pc = "quota", ![x].code = "failed"]
  /\ UNCHANGED <<World, Database>>

\* collect_quota_report reads the credential again.  A failure makes no report.
CollectQuota(x) ==
  /\ At(x, "quota")
  /\ \/ /\ clock < MaxClock
        /\ clock' = clock + 1
        /\ actor' = [actor EXCEPT ![x].pc = "persist", ![x].report =
                       [at |-> clock + 1, status |-> "fresh", of |-> login]]
     \/ /\ Go(x, "persist")
        /\ clock' = clock
  /\ UNCHANGED <<fullScan, source, past, login, Database>>

-----------------------------------------------------------------------------
(* Persistence: persist_usage, then persist_quota *)

\* upsert_provider_state fails: the usage is given up, without a run.
StateLost(x) ==
  /\ At(x, "persist")
  /\ actor' = [actor EXCEPT ![x].pc = "check", ![x].batch = {}, ![x].code = "none"]
  /\ UNCHANGED <<World, Database>>

\* It succeeds, and the batch is ingested in one transaction, which may fail;
\* or the privacy guard rejects the batch.
Ingest(x) ==
  /\ At(x, "persist")
  /\ \/ /\ usage' = Ingested(actor[x].batch, actor[x].fp)
        /\ Go(x, "run")
     \/ /\ usage' = usage
        /\ actor' = [actor EXCEPT ![x].pc = "run", ![x].batch = {}, ![x].code = "failed"]
  /\ UNCHANGED <<World, reports, windows>>

\* record_run puts the code into collector_runs (see Alerts); the usage is done.
RecordRun(x) ==
  /\ At(x, "run")
  /\ actor' = [actor EXCEPT ![x].pc = "check", ![x].batch = {}, ![x].code = "none"]
  /\ UNCHANGED <<World, Database>>

\* persist_quota without a report, or upsert_report up to its two early
\* returns, on what it read outside any transaction.
Check(x) ==
  /\ At(x, "check")
  /\ LET report == actor[x].report
         stored == reports[actor[x].fp]
     IN IF report = NoReport \/ Refuses(report, stored)
        THEN Rest(x)
        ELSE actor' = [actor EXCEPT ![x].pc = "write", ![x].seen = stored]
  /\ UNCHANGED <<World, Database>>

\* The transaction of upsert_report, which may fail: STORAGE_FAILURE.
Write(x) ==
  /\ At(x, "write")
  /\ \/ /\ reports' = Stored(actor[x].report, actor[x].fp)
        /\ windows' = StoredWindows(actor[x].report, actor[x].fp)
        /\ Rest(x)
     \/ /\ UNCHANGED <<reports, windows>>
        /\ actor' = [actor EXCEPT ![x] = Resting]
  /\ UNCHANGED <<World, usage>>

\* The process is killed: open transactions roll back, the tables stay.
Crash ==
  /\ actor' = [x \in Actors |-> Resting]
  /\ UNCHANGED <<fullScan, source, past, login, clock, Database>>

-----------------------------------------------------------------------------
Step(x) ==
  \/ Identify(x) \/ CollectUsage(x) \/ CollectQuota(x) \/ StateLost(x) \/ Ingest(x)
  \/ RecordRun(x) \/ Check(x) \/ Write(x)

Next ==
  \/ \E rec \in Records : Grow(rec)
  \/ \E a \in Buckets : SwitchAccount(a) \/ ChangeConfig(a)
  \/ ClearReport \/ Answer
  \/ \E x \in Actors : Step(x)
  \/ Crash

Spec == Init /\ [][Next]_vars

-----------------------------------------------------------------------------
(* Properties *)

\* The usage of an account of a cumulative source is one scan of it, whole:
\* not two scans side by side, not half of one.
WholeScans ==
  fullScan => \A b \in Buckets : OfBucket(b) = {} \/ \E s \in past : OfBucket(b) = Scan(s, b)

\* When a run is about to be recorded as a success, what it collected is
\* counted, by its own rows or by another scan that replaced them.
RunTellsTruth ==
  \A x \in Refreshers : At(x, "run") /\ actor[x].code = "ok" /\ actor[x].batch # {} =>
    IF fullScan THEN OfBucket(actor[x].fp) # {} ELSE actor[x].batch \subseteq usage

\* Every usable report has its windows, which were collected with it.
ReportsHaveTheirWindows ==
  \A b \in Buckets : Usable(reports[b]) =>
    {w \in windows : w.bucket = b /\ w.at = reports[b].at} =
      {[bucket |-> b, at |-> reports[b].at, of |-> reports[b].of]}

\* "Older reports never clobber newer ones [...] a failed report never clobbers
\* an existing usable snapshot", unless another connection commits in the gap
\* between the read and the transaction of upsert_report.
ClobbersOnlyInTheGap ==
  [][\A b \in Buckets :
       Refuses(reports'[b], reports[b]) =>
         \E x \in Actors : At(x, "write") /\ actor[x].fp = b /\ actor[x].seen # reports[b]]_reports

\* "Keeping older snapshots would double-count": a record is counted once.
CountedOnce ==
  \A e, f \in usage : e.rec = f.rec => e = f

\* What latest_all returns: the unidentified account hides behind others.
Visible(b) ==
  reports[b] # NoReport /\ (b # Nobody \/ \A a \in Accounts : reports[a] = NoReport)

\* delete_opencode_go_config "clears any previously stored quota windows so an
\* old estimate cannot remain visible": when the command answers, with no
\* refresh under way, none that was fetched with a credential is.
DeletedShowsNothing ==
  At(Settings, "answer") /\ login = Nobody /\ (\A x \in Refreshers : At(x, "idle")) =>
    \A b \in Buckets : Visible(b) /\ Usable(reports[b]) => reports[b].of = Nobody
=============================================================================
