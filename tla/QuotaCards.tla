----------------------------- MODULE QuotaCards -----------------------------
(***************************************************************************)
(* What the Quota page and the Providers page make of one provider's rows   *)
(* (application/src/quota.rs, providers.rs).  A refresh writes the tables   *)
(* they read one statement after the other and may be killed in between; a  *)
(* page is read between two of its statements.                              *)
(*                                                                          *)
(* A reading is a usable report, told apart by the time it was collected.   *)
(***************************************************************************)
EXTENDS Integers, FiniteSets, FiniteSetsExt

CONSTANTS
  Cards,      \* providers; a behaviour is about one of them
  LastTime,   \* bound: clock
  FreshFor    \* how long a reading is fresh

ASSUME CardsAssumption ==
  /\ Cards \subseteq {"opencode", "openrouter_api", "antigravity", "google_gemini",
                      "kilo_code", "removed"}
  /\ LastTime \in Nat /\ FreshFor \in Nat \ {0}

VARIABLES
  card,      \* the provider
  time,      \* the clock
  state,     \* its row of provider_states
  usageRun,  \* error code of its newest usage run
  quotaRun,  \* error code of its newest quota run
  reports,   \* reports[a]: its quota report for account a
  refresh,   \* the refresh that is being persisted
  last       \* account of the refresh that was persisted last, if it found quota,
             \* and no other has begun since (history)

cardVars == <<card, time, state, usageRun, quotaRun, reports, refresh, last>>

\* Account fingerprints; Unnamed is ''.
Unnamed == ""
Named   == {"a", "b"}
Owners  == Named \cup {Unnamed}

Identities == CASE card \in {"openrouter_api", "kilo_code", "removed"} -> {Unnamed}
                [] card = "antigravity" -> Named
                [] OTHER -> {Unnamed, "a"}

NoRun    == "none"
NoCode   == ""        \* the code of a success
NoState  == [detected |-> FALSE, exists |-> FALSE, code |-> NoRun]
NoReading == [source |-> "none", status |-> "none", at |-> 0, code |-> NoCode]
Reading(source, at) == [source |-> source, status |-> "fresh", at |-> at, code |-> NoCode]
Failed(source, code, at) == [source |-> source, status |-> "error", at |-> at, code |-> code]
Usable(r) == r.status \in {"fresh", "stale"}

\* AdapterDescriptor: the channels of an adapter, and whether it needs a key.
Registered    == card # "removed"
UsageChannel  == card \in {"opencode", "google_gemini", "kilo_code"}
QuotaChannel  == card # "kilo_code"
NeedsKey      == card \in {"opencode", "openrouter_api"}

\* What detect answers: the last one is a source that cannot be read.
Detections ==
  {[detected |-> FALSE, exists |-> FALSE, code |-> c] : c \in {NoCode, "NOT_CONFIGURED"}}
  \cup {[detected |-> TRUE, exists |-> TRUE, code |-> NoCode],
        [detected |-> FALSE, exists |-> TRUE, code |-> NoCode],
        [detected |-> FALSE, exists |-> TRUE, code |-> "INVALID_PROVIDER_DATA"]}

\* The row of a detection that fails, after which collect_one collects all the
\* same; no adapter's does today.
Undetected == [detected |-> FALSE, exists |-> FALSE, code |-> "INVALID_PROVIDER_DATA"]
States     == Detections \cup {Undetected, NoState}

QuotaFailures ==
  {"AUTH_EXPIRED", "SOURCE_UNAVAILABLE", "SOURCE_SCHEMA_MISMATCH"}
  \cup (IF card = "antigravity" THEN {"SOURCE_REQUIRES_IDE"} ELSE {})

\* is_expected_provider_absence
Absences == {"SOURCE_UNAVAILABLE", "NOT_INSTALLED", "NOT_CONFIGURED", "UNSUPPORTED",
             "NOT_SUPPORTED", "SOURCE_REQUIRES_IDE"}

UsageCodes == IF UsageChannel THEN {NoCode, "SOURCE_UNAVAILABLE"} ELSE {"NOT_SUPPORTED"}
QuotaCodes == IF QuotaChannel THEN QuotaFailures \cup {NoCode} ELSE {"NOT_SUPPORTED"}

Idle   == [pc |-> "idle", present |-> FALSE, at |-> 0, of |-> Unnamed, ok |-> FALSE]

-----------------------------------------------------------------------------
(* latest_all, and what the read model hides *)

\* The unidentified report hides behind identified ones.
Latest ==
  {a \in Owners : reports[a] # NoReading /\ (a # Unnamed \/ \A b \in Named : reports[b] = NoReading)}

\* sanitize_legacy_opencode_report
WithoutEstimate(r) ==
  IF card = "opencode" /\ r.source = "local_estimate"
  THEN Failed("provider_api", "NOT_CONFIGURED", time) ELSE r

\* Seeded fault: a report keeps the status it was stored with.
AsStored(r) == r

\* derive_read_time_status
Aged(r) ==
  IF r.status = "fresh" /\ time >= r.at + FreshFor THEN [r EXCEPT !.status = "stale"] ELSE r

\* sanitize_legacy_gemini_reports
Retired(r) == card = "google_gemini" /\ r.source = "provider_api"

\* The reports of a page, by account.
Shown ==
  LET a == {x \in Latest : ~Retired(WithoutEstimate(reports[x]))}
  IN [x \in a |-> Aged(WithoutEstimate(reports[x]))]

-----------------------------------------------------------------------------
(* The Quota page *)

SourceAbsent(r) ==
  /\ ~state.exists /\ ~state.detected
  /\ r = NoReading \/ r.code \in Absences \ {"SOURCE_REQUIRES_IDE"}

\* Seeded fault: the newest run counts, of whatever channel.
CodeOfAnyRun(r) ==
  IF quotaRun \notin {NoRun, NoCode} THEN quotaRun
  ELSE IF usageRun \notin {NoRun, NoCode} THEN usageRun
  ELSE IF state.code \notin {NoRun, NoCode} THEN state.code ELSE r.code

ErrorCode(r) ==
  IF quotaRun \notin {NoRun, NoCode} THEN quotaRun
  ELSE IF state.code \notin {NoRun, NoCode} THEN state.code ELSE r.code

\* connection_state_for
Connection(r) ==
  LET code == ErrorCode(r)
      there == state.detected \/ state.exists
  IN IF SourceAbsent(r) THEN "not_detected"
     ELSE IF ~QuotaChannel THEN "unsupported"
     ELSE CASE code = "NOT_CONFIGURED" -> "not_configured"
            [] code = "AUTH_EXPIRED" -> "auth_expired"
            [] code = "SOURCE_UNAVAILABLE" -> IF there THEN "transient_error" ELSE "not_detected"
            [] code = "SOURCE_REQUIRES_IDE" -> IF Usable(r) THEN "connected" ELSE "transient_error"
            [] code \in {NoCode, "NOT_SUPPORTED"} -> IF there \/ Usable(r) THEN "connected"
                                               ELSE IF NeedsKey THEN "not_configured"
                                               ELSE "not_detected"
            [] OTHER -> "transient_error"

CardOf(r, connection, index) ==
  IF connection = "connected" /\ r # NoReading
  THEN [connection |-> connection, index |-> index, status |-> r.status,
        bars |-> Usable(r), at |-> r.at]
  ELSE [connection |-> connection, index |-> index, status |-> "unavailable",
        bars |-> FALSE, at |-> 0]

\* Seeded fault: the cached reading is dropped when the IDE is closed.
ClosedDropped(r) == IF quotaRun = "SOURCE_REQUIRES_IDE" THEN Failed(r.source, quotaRun, r.at) ELSE r

\* "The moment the Antigravity IDE closes, the cached reading becomes old data".
IdeClosed(r) ==
  IF quotaRun = "SOURCE_REQUIRES_IDE" /\ Usable(r)
  THEN [r EXCEPT !.status = "stale", !.code = "SOURCE_REQUIRES_IDE"] ELSE r

\* Accounts are numbered, in the order of their fingerprints, if there are several.
Index(a, as) ==
  IF Cardinality(as) = 1 THEN 0 ELSE IF a = "b" /\ "a" \in as THEN 2 ELSE 1

\* Seeded fault: only the first account of a provider has a card.
FirstCard ==
  LET rs == Shown
      a  == IF "a" \in DOMAIN rs THEN "a" ELSE IF "b" \in DOMAIN rs THEN "b" ELSE Unnamed
      r  == IF DOMAIN rs = {} THEN NoReading ELSE IdeClosed(rs[a])
  IN {CardOf(r, Connection(r), 0)}

\* QueryQuotaDashboard::execute; a provider the registry does not know has
\* nothing but its reports.
QuotaPage ==
  LET rs == Shown
      known(a) == LET r == IdeClosed(rs[a]) IN CardOf(r, Connection(r), Index(a, DOMAIN rs))
      bare(a)  == [connection |-> IF Usable(rs[a]) THEN "connected" ELSE "transient_error",
                   index |-> Index(a, DOMAIN rs), status |-> rs[a].status,
                   bars |-> Usable(rs[a]), at |-> rs[a].at]
  IN IF ~Registered THEN {bare(a) : a \in DOMAIN rs}
     ELSE IF DOMAIN rs = {} THEN {CardOf(NoReading, Connection(NoReading), 0)}
     ELSE {known(a) : a \in DOMAIN rs}

-----------------------------------------------------------------------------
(* The Providers page: ScanProviders::execute *)

\* Seeded fault: the report of the first account.
FirstReport(rs) ==
  IF DOMAIN rs = {} THEN NoReading
  ELSE IF "a" \in DOMAIN rs THEN rs["a"] ELSE rs[CHOOSE a \in DOMAIN rs : TRUE]

\* max_by_key(collected_at)
Newest(rs) ==
  IF DOMAIN rs = {} THEN NoReading
  ELSE rs[CHOOSE a \in DOMAIN rs : \A b \in DOMAIN rs : rs[b].at <= rs[a].at]

\* Seeded fault: expected absences are no failures.
FailedRunLeniently == quotaRun \notin Absences \cup {NoRun, NoCode}
FailedRun == quotaRun \notin {NoRun, NoCode, "NOT_SUPPORTED"}

Summary ==
  LET r == Newest(Shown) IN
  IF quotaRun = "SOURCE_REQUIRES_IDE" /\ Usable(r) THEN r
  ELSE IF \/ FailedRun
          \/ ~state.detected /\ ~state.exists /\ quotaRun \in Absences
       THEN NoReading ELSE r

\* "Prefer the usage run [...]; fall back to any run", then to the quota run's code.
RawError ==
  LET first == IF usageRun # NoRun THEN usageRun ELSE quotaRun
  IN IF first \notin {NoRun, NoCode} THEN first
     ELSE IF quotaRun # NoRun THEN quotaRun ELSE NoCode

\* health_label
HealthLabel ==
  LET code == RawError IN
  IF ~UsageChannel /\ ~QuotaChannel THEN "Not supported"
  ELSE IF state.code = "NOT_CONFIGURED" THEN "Not configured"
  ELSE IF code = "NOT_SUPPORTED" THEN "Not supported"
  ELSE IF code # NoCode /\ code \notin Absences THEN "Error"
  ELSE IF state.detected THEN "Healthy"
  ELSE IF ~state.exists /\ (state.code \in Absences \cup {NoCode, NoRun} \/ code \in Absences)
       THEN "Not connected" ELSE "Source not found"

-----------------------------------------------------------------------------

CardTypeOK ==
  /\ card \in Cards /\ time \in 0..LastTime
  /\ state \in States
  /\ \A a \in Owners : reports[a].at <= time
  /\ refresh.pc \in {"idle", "state", "usage", "report", "quota"}
  /\ last \in Owners \cup {NoRun}

\* A database may hold what an earlier version of the program stored.
CardInit ==
  /\ card \in Cards
  /\ time = 0
  /\ state = NoState /\ usageRun = NoRun /\ quotaRun = NoRun
  /\ reports \in {[a \in Owners |-> IF a = Unnamed THEN r ELSE NoReading] :
       r \in {NoReading}
             \cup (IF card = "opencode" THEN {Reading("local_estimate", 0)} ELSE {})
             \cup (IF card = "google_gemini" THEN {Reading("antigravity_ls", 0)} ELSE {})
             \cup (IF card \in {"google_gemini", "removed"} THEN {Reading("provider_api", 0)} ELSE {})}
  /\ refresh = Idle /\ last = NoRun

-----------------------------------------------------------------------------
(* A refresh: collect_one, persist_usage and persist_quota.  What was collected *)
(* is chosen when it is written; nothing else depends on it before.         *)

\* Seeded fault: a reading has the time it is fresh until.
CollectAhead(a) ==
  /\ Registered /\ refresh.pc = "idle"
  /\ refresh' = [Idle EXCEPT !.pc = "state", !.at = time + FreshFor, !.of = a]
  /\ UNCHANGED <<card, time, state, usageRun, quotaRun, reports, last>>

Collect(a) ==
  /\ Registered /\ refresh.pc = "idle"
  /\ refresh' = [Idle EXCEPT !.pc = "state", !.at = time, !.of = a]
  /\ UNCHANGED <<card, time, state, usageRun, quotaRun, reports, last>>

\* If the state cannot be written persist_usage returns, without a run.
PersistState ==
  /\ refresh.pc = "state"
  /\ \E d \in Detections \cup {Undetected}, written \in BOOLEAN :
       /\ state' = IF written THEN d ELSE state
       /\ refresh' = [refresh EXCEPT !.pc = IF written THEN "usage" ELSE "report",
                                    !.present = d.detected \/ d.exists \/ d = Undetected]
  /\ last' = NoRun
  /\ UNCHANGED <<card, time, usageRun, quotaRun, reports>>

\* Nothing is collected from a source that is not there.  A run that cannot be
\* recorded is passed over.
PersistUsageRun ==
  /\ refresh.pc = "usage"
  /\ usageRun' \in {usageRun} \cup IF refresh.present THEN UsageCodes ELSE {"SOURCE_UNAVAILABLE"}
  /\ refresh' = [refresh EXCEPT !.pc = "report"]
  /\ UNCHANGED <<card, time, state, quotaRun, reports, last>>

\* upsert_report, if there is one, which may fail.  Gemini's report is that of
\* fetch_cloudcode.
PersistReport ==
  /\ refresh.pc = "report"
  /\ \/ /\ refresh.present /\ NoCode \in QuotaCodes
        /\ reports' = [reports EXCEPT ![refresh.of] =
                         Reading(IF card = "antigravity" THEN "antigravity_ls" ELSE "provider_api", refresh.at)]
        /\ refresh' = [refresh EXCEPT !.pc = "quota", !.ok = TRUE]
     \/ /\ reports' = reports
        /\ refresh' = [refresh EXCEPT !.pc = "quota"]
  /\ UNCHANGED <<card, time, state, usageRun, quotaRun, last>>

PersistQuotaRun ==
  /\ refresh.pc = "quota"
  /\ \/ /\ quotaRun' \in IF refresh.ok THEN {NoCode}
                         ELSE IF ~refresh.present THEN {"SOURCE_UNAVAILABLE"}
                         ELSE (QuotaCodes \ {NoCode})
                              \cup (IF QuotaChannel THEN {"STORAGE_FAILURE"} ELSE {})
        /\ last' = IF refresh.ok THEN refresh.of ELSE NoRun
     \/ UNCHANGED <<quotaRun, last>>
  /\ refresh' = Idle
  /\ UNCHANGED <<card, time, state, usageRun, reports>>

\* clear_opencode_go_quota_report; a usable report stays.
ClearReading ==
  /\ card = "opencode" /\ ~Usable(reports[Unnamed])
  /\ reports' = [reports EXCEPT ![Unnamed] = Failed("provider_api", "NOT_CONFIGURED", time)]
  /\ UNCHANGED <<card, time, state, usageRun, quotaRun, refresh, last>>

Killed ==
  /\ refresh.pc # "idle"
  /\ refresh' = Idle
  /\ UNCHANGED <<card, time, state, usageRun, quotaRun, reports, last>>

Passes ==
  /\ time < LastTime
  /\ time' = time + 1
  /\ UNCHANGED <<card, state, usageRun, quotaRun, reports, refresh, last>>

CardNext ==
  \/ \E a \in Identities : Collect(a)
  \/ PersistState \/ PersistUsageRun \/ PersistReport \/ PersistQuotaRun
  \/ ClearReading \/ Killed \/ Passes

CardSpec == CardInit /\ [][CardNext]_cardVars

-----------------------------------------------------------------------------
(* Properties *)

\* A card is fresh only for a reading that is within its freshness window.
FreshIsWithinItsWindow ==
  \A c \in QuotaPage : c.status = "fresh" => time < c.at + FreshFor

\* "Real percentages stay visible, never fresh" (quota.rs): with the IDE closed
\* both pages keep the reading there is, and neither calls it fresh.
ClosedIdeKeepsTheReading ==
  quotaRun = "SOURCE_REQUIRES_IDE" =>
    /\ \A a \in DOMAIN Shown : Usable(Shown[a]) =>
         \E c \in QuotaPage : c.bars /\ c.at = reports[a].at /\ c.status = "stale"
    /\ Usable(Newest(Shown)) => Summary # NoReading

\* "A stored percentage must not survive a failed quota run" (a test of
\* providers.rs): when the run has failed for any other reason, neither page
\* shows one, also if the refresh is half persisted.
FailureHidesTheReading ==
  Registered /\ quotaRun \notin {NoRun, NoCode, "NOT_SUPPORTED", "SOURCE_REQUIRES_IDE"} =>
    /\ \A c \in QuotaPage : ~c.bars
    /\ ~Usable(Summary)

\* The two pages agree, between any two statements of a refresh: the newest
\* reading the Quota page has bars for is in the Providers page's summary.
PagesAgreeOnTheReading ==
  Registered =>
    \A c \in QuotaPage : c.bars /\ (\A d \in QuotaPage : d.at <= c.at)
      => Summary.at = c.at /\ Usable(Summary)

\* Stored data stays visible: every report of a provider has a card of its own,
\* also of one a later version has removed, and every registered one has a card.
EveryReportHasACard ==
  LET n == Cardinality(DOMAIN Shown) IN
  Cardinality(QuotaPage) = IF Registered THEN Max({1, n}) ELSE n

\* After a refresh whose quota and quota run were stored, both pages show its
\* reading, unless the usage source cannot be read, the reading is not anyone's
\* while others are, or it is Gemini's.
SuccessIsShown ==
  last # NoRun /\ state.code = NoCode /\ last \in Latest /\ card # "google_gemini" =>
    /\ \E c \in QuotaPage : c.bars /\ c.at = reports[last].at
    /\ Usable(Summary) /\ Summary.at >= reports[last].at

\* Between any two statements of a refresh, and however one ends, both pages show
\* the readings that hold and no others.
CardsTellTruth ==
  /\ FreshIsWithinItsWindow
  /\ ClosedIdeKeepsTheReading
  /\ FailureHidesTheReading
  /\ PagesAgreeOnTheReading
  /\ EveryReportHasACard
  /\ SuccessIsShown

-----------------------------------------------------------------------------
(* What the code says of itself and does not do: see the README.            *)

\* "Hides legacy Gemini reports that were produced by the retired [...] fallback"
\* (quota.rs): a reading that the adapter of today has just stored is none.
OnlyTheRetiredIsHidden == last \in Latest => last \in DOMAIN Shown

\* Only "an adapter that declares no channel is 'Not supported'"; the labels of
\* the rest "reflect the last real detection and collection result" (providers.rs).
HealthIsTheLastResult ==
  Registered /\ (UsageChannel \/ QuotaChannel) => HealthLabel # "Not supported"
=============================================================================
