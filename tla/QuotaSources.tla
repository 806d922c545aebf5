---------------------------- MODULE QuotaSources ----------------------------
(***************************************************************************)
(* Where the adapters get a provider's quota from: which source they ask    *)
(* first, which one when that fails, when they refresh a token, and what     *)
(* they answer (collect_quota of every adapter, over provider-http).  The    *)
(* report that comes out is kept and read again later.                    *)
(*                                                                          *)
(* A collection is the sequence of the sources it has asked and what each    *)
(* answered; an adapter is the operator that says what comes after an       *)
(* answer.  What a window holds is in QuotaWindows.                         *)
(***************************************************************************)
EXTENDS Naturals, Sequences, FiniteSets, SequencesExt

CONSTANTS
  QuotaAdapters,   \* the adapters to collect with
  MaxNow,          \* bound: clock
  Freshness        \* DEFAULT_FRESHNESS

ASSUME QuotaBoundsAssumption == MaxNow \in Nat \ {0} /\ Freshness \in Nat
ASSUME QuotaAdaptersAssumption ==
  QuotaAdapters \subseteq
    {"openai_codex", "anthropic_claude", "github_copilot", "cursor", "grok", "kimi_code",
     "google_gemini", "antigravity", "kiro", "ark_plan", "devin", "openrouter", "command_code",
     "zcode_ai", "qoder", "opencode", "ollama_local"}

VARIABLES
  provider,     \* the adapter of this behaviour
  login,        \* what the credential store of the tool holds
  refreshable,  \* there is a refresh token and a client id with it
  snapshot,     \* time of the newest local quota record, 0 without one
  now,          \* clock
  purpose,      \* what the sources are asked for: "collect" or "health"
  asking,       \* the source that is being asked, "idle", or "done"
  told,         \* the sources asked so far, the answers, the tokens used
  token,        \* how often the token in hand has been refreshed
  result,       \* the outcome, when "done"
  kept          \* the report the database has: collection and data times

world     == <<login, refreshable, snapshot, now>>
running   == <<purpose, asking, told, token, result>>
quotaVars == <<provider, world, running, kept>>

-----------------------------------------------------------------------------
(* provider-http *)

\* code_for_status
CodeForStatus(status) ==
  CASE status \in {401, 403}           -> "AUTH_EXPIRED"
    [] status = 429                    -> "RATE_LIMITED"
    [] status \in {400, 404, 405, 422} -> "SOURCE_SCHEMA_MISMATCH"
    [] status \in 500..599             -> "PROVIDER_UNAVAILABLE"
    [] OTHER                           -> "PROVIDER_ERROR"

Statuses == {302, 401, 403, 404, 422, 429, 500, 503}

\* get_json, post_json, post_form, get_text: a status, a broken transport, a
\* timeout or a body that cannot be used; "EMPTY" is a body without the fields
\* the adapter looks for.
Transport == {"PROVIDER_TIMEOUT", "SOURCE_UNAVAILABLE", "PROVIDER_UNREADABLE_BODY",
              "SOURCE_SCHEMA_MISMATCH"}
HttpAnswers == {"OK", "EMPTY"} \cup {CodeForStatus(s) : s \in Statuses} \cup Transport

\* run_command of provider-runtime: it ends, fails to start, or is killed when
\* its time is over.
CommandAnswers == {"OK", "EMPTY", "SOURCE_UNAVAILABLE", "PROVIDER_TIMEOUT", "SOURCE_SCHEMA_MISMATCH"}

Signals == {"AUTH_EXPIRED", "RATE_LIMITED"}

\* QuotaStatus::from_error_code
StatusOf(code) ==
  CASE code = "AUTH_EXPIRED" -> "auth_expired"
    [] code = "RATE_LIMITED" -> "rate_limited"
    [] code \in {"SOURCE_UNAVAILABLE", "NOT_INSTALLED", "NOT_SUPPORTED", "NOT_CONFIGURED",
                 "SOURCE_REQUIRES_IDE"} -> "unavailable"
    [] OTHER -> "error"

-----------------------------------------------------------------------------
(* What an adapter does after an answer *)

Ask(source)   == [kind |-> "ask", source |-> source]
Live          == [kind |-> "live"]        \* the windows of the answer, now
Estimate      == [kind |-> "estimate"]    \* the windows of the local record
NothingThere  == [kind |-> "nothing"]     \* Ok(None)
Fail(code)    == [kind |-> "fail", code |-> code]
NoResult      == [kind |-> "none"]

\* The last source: windows, none, or its error.
Closing(answer, empty) ==
  CASE answer = "OK" -> Live [] answer = "EMPTY" -> empty [] OTHER -> Fail(answer)

\* A step that must succeed before the next source is asked; whether its body
\* says anything does not matter.
Through(answer, source) == IF answer \in {"OK", "EMPTY"} THEN Ask(source) ELSE Fail(answer)

\* A token refresh that answers no token is a SOURCE_SCHEMA_MISMATCH.
Refreshed(answer, source) ==
  CASE answer = "OK" -> Ask(source)
    [] answer = "EMPTY" -> Fail("SOURCE_SCHEMA_MISMATCH")
    [] OTHER -> Fail(answer)
RefreshBy(source) == IF refreshable THEN Ask(source) ELSE Fail("AUTH_EXPIRED")

HasToken(answer) == answer \in {"valid", "expired"}

\* Seeded fault: a rate limit is answered with the local snapshot.
CodexMasking(source, answer) ==
  CASE source = "credential" -> IF HasToken(answer) THEN Ask("api") ELSE Ask("snapshot")
    [] source = "api" -> IF answer \in {"OK", "AUTH_EXPIRED"} THEN Closing(answer, NothingThere)
                         ELSE Ask("snapshot")
    [] source = "snapshot" -> IF answer = "OK" THEN Estimate ELSE NothingThere

\* Seeded fault: the local snapshot is asked first.
CodexLogFirst(source, answer) ==
  CASE source = "credential" -> Ask("snapshot")
    [] source = "snapshot" -> IF answer = "OK" THEN Estimate ELSE Ask("api")
    [] source = "api" -> Closing(answer, NothingThere)

\* Codex: the usage API, then the newest local rate limits, whatever their age.
CodexStep(source, answer) ==
  CASE source = "credential" -> IF HasToken(answer) THEN Ask("api") ELSE Ask("snapshot")
    [] source = "api" -> IF answer \in {"OK"} \cup Signals THEN Closing(answer, NothingThere)
                         ELSE Ask("snapshot")
    [] source = "snapshot" -> IF answer = "OK" THEN Estimate ELSE NothingThere

\* Claude: nothing is asked without a token.
ClaudeStep(source, answer) ==
  IF source = "credential" THEN IF HasToken(answer) THEN Ask("api") ELSE NothingThere
  ELSE Closing(answer, Fail("QUOTA_NOT_PUBLISHED"))

\* Copilot: an account without entitlements has no quota.
CopilotStep(source, answer) ==
  IF source = "credential" THEN IF HasToken(answer) THEN Ask("api") ELSE NothingThere
  ELSE Closing(answer, NothingThere)

\* Cursor: the session cookie, of the token in the state store of the editor (which
\* may not open, or have no such table) and of the user's id, in a file or in the token.
CursorStep(source, answer) ==
  IF source = "api" THEN Closing(answer, Fail("SOURCE_SCHEMA_MISMATCH"))
  ELSE CASE answer = "absent" -> NothingThere
         [] answer \in {"none", "anonymous"} -> Fail("NOT_CONFIGURED")
         [] answer = "unreadable" -> Fail("SOURCE_UNAVAILABLE")
         [] answer = "malformed" -> Fail("SOURCE_SCHEMA_MISMATCH")
         [] OTHER -> Ask("api")

\* Seeded fault: a second token is not asked for before the second request.
GrokRepeating(source, answer) ==
  CASE source = "credential" -> IF HasToken(answer) THEN Ask("credits") ELSE Fail("NOT_CONFIGURED")
    [] source = "credits" -> IF answer = "AUTH_EXPIRED" THEN Ask("credits again")
                             ELSE Closing(answer, Fail("SOURCE_SCHEMA_MISMATCH"))
    [] OTHER -> Closing(answer, Fail("SOURCE_SCHEMA_MISMATCH"))

\* Grok: the billing of a Build login, by its new address and then its old one;
\* a rejected token is refreshed once.  Without such a login, the headers of
\* the API key's endpoint.
GrokStep(source, answer) ==
  LET last == Closing(answer, Fail("SOURCE_SCHEMA_MISMATCH")) IN
  CASE source = "credential" -> (CASE answer = "valid"   -> Ask("credits")
                                   [] answer = "expired" -> RefreshBy("token")
                                   [] answer = "key"     -> Ask("models")
                                   [] answer = "unreadable" -> Fail("CREDENTIAL_OS_ERROR")
                                   [] OTHER              -> Fail("NOT_CONFIGURED"))
    [] source = "token" -> Refreshed(answer, "credits")
    [] source = "credits" -> (CASE answer = "AUTH_EXPIRED"  -> RefreshBy("token again")
                                [] answer \in {"OK", "EMPTY"} -> last
                                [] OTHER                    -> Ask("legacy"))
    [] source = "legacy" -> IF answer = "AUTH_EXPIRED" THEN RefreshBy("token again") ELSE last
    [] source = "token again" -> Refreshed(answer, "credits again")
    [] source = "credits again" ->
         IF answer \in {"OK", "EMPTY", "AUTH_EXPIRED"} THEN last ELSE Ask("legacy again")
    [] source = "legacy again" -> last
    [] source = "models" -> Closing(answer, Fail("QUOTA_NOT_PUBLISHED"))

\* Seeded fault: the refresh is tried for as long as the token is rejected.
KimiForever(source, answer) ==
  CASE source = "credential" -> IF HasToken(answer) THEN Ask("api") ELSE Fail("NOT_CONFIGURED")
    [] source = "api" -> IF answer = "AUTH_EXPIRED" THEN RefreshBy("token again")
                         ELSE Closing(answer, Fail("SOURCE_SCHEMA_MISMATCH"))
    [] source = "token again" -> Refreshed(answer, "api")

\* Kimi: an expired token is refreshed before the request if it can be, a
\* rejected one once after it; usage without a window is no quota.
KimiStep(source, answer) ==
  LET last == Closing(answer, NothingThere) IN
  CASE source = "credential" ->
         (CASE answer = "absent"     -> NothingThere
            [] answer = "none"       -> Fail("NOT_CONFIGURED")
            [] answer = "tokenless"  -> Fail("AUTH_EXPIRED")
            [] answer = "denied"     -> Fail("PERMISSION_DENIED")
            [] answer = "unreadable" -> Fail("SOURCE_UNAVAILABLE")
            [] answer = "malformed"  -> Fail("SOURCE_SCHEMA_MISMATCH")
            [] OTHER -> IF answer = "expired" /\ refreshable THEN Ask("token") ELSE Ask("api"))
    [] source = "token" -> Refreshed(answer, "api")
    [] source = "api" -> IF answer = "AUTH_EXPIRED" THEN RefreshBy("token again") ELSE last
    [] source = "token again" -> Refreshed(answer, "api again")
    [] source = "api again" -> last

\* Gemini: an expired token is refreshed, a rejected one is not.
GeminiStep(source, answer) ==
  CASE source = "credential" -> (CASE answer = "absent"  -> NothingThere
                                   [] answer = "valid"   -> Ask("assist")
                                   [] answer = "expired" -> RefreshBy("token")
                                   [] OTHER              -> Fail("NOT_CONFIGURED"))
    [] source = "token" -> Refreshed(answer, "assist")
    [] source = "assist" -> Through(answer, "api")
    [] source = "api" -> Closing(answer, Fail("SOURCE_SCHEMA_MISMATCH"))

\* Antigravity: the language server of the running IDE, port by port; the last
\* error is the one that counts.
AntigravityStep(source, answer) ==
  CASE source = "credential" -> (CASE answer = "absent"     -> Fail("NOT_INSTALLED")
                                   [] answer = "none"       -> Fail("SOURCE_REQUIRES_IDE")
                                   [] answer = "unreadable" -> Fail("SOURCE_UNAVAILABLE")
                                   [] OTHER                 -> Ask("port"))
    [] source = "port" -> IF answer = "OK" THEN Live ELSE Ask("last port")
    [] source = "last port" ->
         LET first == told[2].answer IN
         Closing(answer, IF first = "EMPTY" THEN Fail("SOURCE_UNAVAILABLE") ELSE Fail(first))

\* Kiro: the CLI (without it there are the local records, "none", or directories
\* without any, "empty"), which must not be asked for its usage without a terminal.
KiroStep(source, answer) ==
  CASE source = "credential" -> IF answer = "valid" THEN Ask("version") ELSE NothingThere
    [] source = "version" -> Through(answer, "usage command")
    [] OTHER -> Closing(answer, Fail("SOURCE_SCHEMA_MISMATCH"))

\* Ark: two commands; the failure of the second only costs the plan's name.
ArkStep(source, answer) ==
  CASE source = "credential" -> IF answer = "absent" THEN NothingThere ELSE Ask("plan command")
    [] source = "plan command" -> IF answer = "OK" THEN Ask("tier command")
                                  ELSE Closing(answer, NothingThere)
    [] source = "tier command" -> Live

\* Devin: billing that has no quota has no windows.
DevinStep(source, answer) ==
  IF source = "api" THEN Closing(answer, NothingThere)
  ELSE CASE answer = "unreadable" -> Fail("SOURCE_UNAVAILABLE")
         [] HasToken(answer)      -> Ask("api")
         [] OTHER                 -> NothingThere

\* OpenRouter: "No request is made without" a stored key.
OpenRouterStep(source, answer) ==
  IF source = "api" THEN Closing(answer, Fail("SOURCE_SCHEMA_MISMATCH"))
  ELSE CASE answer = "unreadable" -> Fail("CREDENTIAL_ERROR")
         [] HasToken(answer)      -> Ask("api")
         [] OTHER                 -> Fail("NOT_CONFIGURED")

\* Command Code: who it is, the credits, the subscription.
CommandCodeStep(source, answer) ==
  CASE source = "credential" -> IF HasToken(answer) THEN Ask("whoami") ELSE Fail("NOT_CONFIGURED")
    [] source = "whoami"     -> Through(answer, "credits")
    [] source = "credits"    -> Through(answer, "subscriptions")
    [] source = "subscriptions" ->
         IF answer \in {"OK", "EMPTY"} THEN Closing(told[3].answer, Fail("SOURCE_SCHEMA_MISMATCH"))
         ELSE Fail(answer)

\* ZCode: the monitor API, then the balance of the local logs.
ZCodeStep(source, answer) ==
  CASE source = "credential" -> IF HasToken(answer) THEN Ask("api") ELSE Ask("snapshot")
    [] source = "api" -> IF answer \in {"OK"} \cup Signals THEN Closing(answer, NothingThere)
                         ELSE Ask("snapshot")
    [] source = "snapshot" -> IF answer = "OK" THEN Estimate ELSE NothingThere

\* Qoder: the renderer's log, then the API with a cookie of the environment.
QoderStep(source, answer) ==
  CASE source = "snapshot" -> IF answer = "OK" THEN Estimate ELSE Ask("credential")
    [] source = "credential" -> IF HasToken(answer) THEN Ask("api") ELSE NothingThere
    [] OTHER -> Closing(answer, Fail("SOURCE_SCHEMA_MISMATCH"))

\* Seeded fault: the dashboard is asked before anyone has configured it.
OpenCodeAnyway(source, answer) ==
  CASE source = "credential" -> IF HasToken(answer) THEN Ask("api") ELSE Ask("dashboard")
    [] OTHER -> Closing(answer, NothingThere)

\* OpenCode Go: the usage API with a key, then the dashboard with the cookie of
\* the configuration; only an expired key ends the search.
OpenCodeStep(source, answer) ==
  CASE source = "credential" -> IF HasToken(answer) THEN Ask("api") ELSE Ask("config")
    [] source = "api" -> IF answer \in {"OK", "AUTH_EXPIRED"} THEN Closing(answer, NothingThere)
                         ELSE Ask("config")
    [] source = "config" -> (CASE answer = "none"       -> Fail("NOT_CONFIGURED")
                               [] answer = "unreadable" -> Fail("AUTH_EXPIRED")
                               [] OTHER                 -> Ask("dashboard"))
    [] source = "dashboard" -> Closing(answer, NothingThere)

\* Ollama: whether its port answers.
OllamaStep(source, answer) == IF answer = "absent" THEN NothingThere ELSE Live

After(source, answer) ==
  CASE provider = "openai_codex"     -> CodexStep(source, answer)
    [] provider = "anthropic_claude" -> ClaudeStep(source, answer)
    [] provider = "github_copilot"   -> CopilotStep(source, answer)
    [] provider = "cursor"           -> CursorStep(source, answer)
    [] provider = "grok"             -> GrokStep(source, answer)
    [] provider = "kimi_code"        -> KimiStep(source, answer)
    [] provider = "google_gemini"    -> GeminiStep(source, answer)
    [] provider = "antigravity"      -> AntigravityStep(source, answer)
    [] provider = "kiro"             -> KiroStep(source, answer)
    [] provider = "ark_plan"         -> ArkStep(source, answer)
    [] provider = "devin"            -> DevinStep(source, answer)
    [] provider = "openrouter"       -> OpenRouterStep(source, answer)
    [] provider = "command_code"     -> CommandCodeStep(source, answer)
    [] provider = "zcode_ai"         -> ZCodeStep(source, answer)
    [] provider = "qoder"            -> QoderStep(source, answer)
    [] provider = "opencode"         -> OpenCodeStep(source, answer)
    [] provider = "ollama_local"     -> OllamaStep(source, answer)

FirstSource == IF provider = "qoder" THEN "snapshot" ELSE "credential"

LocalRecords == {"openai_codex", "zcode_ai", "qoder"}
Refreshers   == {"grok", "kimi_code", "google_gemini"}
Commands     == {"version", "usage command", "plan command", "tier command"}
Tokens       == {"token", "token again"}
Looks        == {"credential", "config", "snapshot"}

\* read_go_config: from the environment or the credential store, of which the
\* content may be no configuration.
GoConfig == {"none", "valid", "unreadable"}

\* What a source may answer now.
Answers(source) ==
  CASE source = "credential"    -> {login}
    [] source = "config"        -> GoConfig
    [] source = "snapshot"      -> IF snapshot = 0 THEN {"EMPTY"} ELSE {"OK", "EMPTY"}
    [] source = "version"       -> (CommandAnswers \ {"SOURCE_SCHEMA_MISMATCH"})
                                     \cup {"SOURCE_REQUIRES_TTY"}
    [] source = "usage command" -> CommandAnswers \cup {"AUTH_EXPIRED"}
    [] source \in {"plan command", "tier command"} -> CommandAnswers
    [] source \in {"port", "last port"} -> {"OK", "EMPTY", "AUTH_EXPIRED"} \cup Transport
    [] OTHER                    -> HttpAnswers

-----------------------------------------------------------------------------
(* The state of the credential and detection *)

Logins ==
  CASE provider = "grok" -> {"none", "key", "valid", "expired", "unreadable"}
    [] provider = "kiro" -> {"absent", "none", "empty", "valid"}
    [] provider \in {"ark_plan", "ollama_local"} -> {"absent", "valid"}
    [] provider \in {"openrouter", "devin"} -> {"none", "valid", "unreadable"}
    [] provider \in {"command_code"} -> {"none", "valid"}
    [] provider = "antigravity" -> {"absent", "none", "valid", "unreadable"}
    [] provider = "cursor" -> {"absent", "none", "anonymous", "valid", "unreadable", "malformed"}
    [] provider = "google_gemini" -> {"absent", "none", "valid", "expired", "unreadable"}
    [] provider = "kimi_code" ->
         {"absent", "none", "tokenless", "valid", "expired", "denied", "unreadable", "malformed"}
    [] OTHER -> {"none", "valid"}

\* source_exists of detect: of the adapters that work with a credential alone
\* the credential, of the others the tool's directory or program.  Codex,
\* Claude, Copilot, ZCode and OpenCode are taken to be installed.
CredentialIsSource == {"grok", "openrouter", "devin", "command_code"}
SourceExists ==
  CASE provider \in CredentialIsSource -> login \notin {"none", "unreadable"}
    [] provider = "qoder" -> snapshot > 0 \/ login = "valid"
    [] OTHER -> login # "absent"

-----------------------------------------------------------------------------

NoReport == [collected |-> 0, data |-> 0]

QuotaTypeOK ==
  /\ provider \in QuotaAdapters
  /\ login \in Logins /\ refreshable \in BOOLEAN
  /\ snapshot \in 0..now /\ now \in 1..MaxNow
  /\ purpose \in {"collect", "health"}
  /\ Len(told) <= 7 /\ token \in 0..2
  /\ result.kind \in {"none", "live", "estimate", "nothing", "fail"}
  /\ (asking = "done") <=> (result # NoResult)
  /\ asking = "idle" => told = <<>>
  /\ kept.data <= kept.collected /\ kept.collected <= now
  /\ asking = "idle" => purpose = "collect"

QuotaInit ==
  /\ provider \in QuotaAdapters
  /\ login \in Logins
  /\ refreshable \in IF provider \in Refreshers THEN BOOLEAN ELSE {FALSE}
  /\ snapshot = 0 /\ now = 1
  /\ purpose = "collect" /\ asking = "idle" /\ told = <<>> /\ token = 0 /\ result = NoResult
  /\ kept = NoReport

\* The user logs in or out, the token expires, the tool writes a record.
LoginChanges ==
  /\ login' \in Logins \ {login}
  /\ UNCHANGED <<provider, refreshable, snapshot, now, running, kept>>
SnapshotWritten ==
  /\ provider \in LocalRecords
  /\ snapshot # now /\ snapshot' = now
  /\ UNCHANGED <<provider, login, refreshable, now, running, kept>>
QuotaTick ==
  /\ now < MaxNow
  /\ now' = now + 1
  /\ UNCHANGED <<provider, login, refreshable, snapshot, running, kept>>

\* collect_one: a tool that is not there is not asked.
StartCollection ==
  /\ asking = "idle"
  /\ purpose' = "collect" /\ told' = <<>> /\ token' = 0
  /\ IF SourceExists THEN asking' = FirstSource /\ UNCHANGED result
     ELSE asking' = "done" /\ result' = Fail("SOURCE_UNAVAILABLE")
  /\ UNCHANGED <<provider, world, kept>>

\* The health checks that ask the same sources as the collection.
HealthBySources == {"cursor", "grok", "kiro", "ark_plan", "devin", "openrouter", "command_code",
                    "qoder", "antigravity", "ollama_local"}
StartHealthCheck ==
  /\ asking = "idle" /\ provider \in HealthBySources
  /\ purpose' = "health" /\ told' = <<>> /\ token' = 0
  /\ asking' = FirstSource
  /\ UNCHANGED <<provider, world, result, kept>>

\* A source answers, in time or with its timeout.
Answered ==
  /\ asking \notin {"idle", "done"}
  /\ \E answer \in Answers(asking) :
       LET next == After(asking, answer) IN
       /\ told' = Append(told, [source |-> asking, answer |-> answer, token |-> token])
       /\ token' = IF asking \in Tokens /\ answer = "OK" THEN token + 1 ELSE token
       /\ IF next.kind = "ask" THEN asking' = next.source /\ UNCHANGED result
          ELSE asking' = "done" /\ result' = next
  /\ UNCHANGED <<provider, world, purpose, kept>>

\* collect_quota_report and persist_quota: only a report with windows is
\* stored, as collected now.
Keep ==
  kept' = CASE result.kind = "live" -> [collected |-> now, data |-> now]
              [] result.kind = "estimate" -> [collected |-> now, data |-> snapshot]
              [] OTHER -> kept

\* effective_status of the application: a report is stale from stale_at on.
ShownFresh == kept # NoReport /\ now < kept.collected + Freshness

\* What a health check makes of a collection it runs: a report, no report, or an
\* error, that of a missing credential apart.
HealthWhen(missing, nothing, failed) ==
  CASE result.kind \in {"live", "estimate"} -> "healthy"
    [] result.kind = "nothing" -> nothing
    [] result.kind = "fail" /\ result.code \in {"NOT_CONFIGURED", "NOT_INSTALLED"} -> missing
    [] OTHER -> failed

HealthCareless == "healthy"    \* seeded fault: a tool that is there is healthy
\* Detection wants the token only, the request the user's id too.
CursorHealth      == IF told[1].answer \in {"absent", "none", "unreadable", "malformed"}
                     THEN "degraded" ELSE HealthWhen("unhealthy", "degraded", "unhealthy")
GrokHealth        == IF result = Fail("QUOTA_NOT_PUBLISHED") THEN "degraded"
                     ELSE HealthWhen("not_configured", "not_configured", "unhealthy")
KiroHealth        == IF told[1].answer = "none" THEN "healthy"    \* local records
                     ELSE HealthWhen("degraded", "degraded", "degraded")
ArkHealth         == HealthWhen("not_configured", "not_configured", "unhealthy")
DevinHealth       == IF HasToken(told[1].answer)
                     THEN HealthWhen("not_configured", "degraded", "unhealthy")
                     ELSE HealthWhen("not_configured", "not_configured", "unhealthy")
OpenRouterHealth  == HealthWhen("not_configured", "degraded", "unhealthy")
CommandCodeHealth == HealthWhen("not_configured", "degraded", "unhealthy")
QoderHealth       == HealthWhen("not_configured", IF SourceExists THEN "degraded" ELSE "not_configured",
                                "unhealthy")
AntigravityHealth == IF result = Fail("SOURCE_REQUIRES_IDE") THEN "degraded"
                     ELSE HealthWhen("degraded", "degraded", "unhealthy")
OllamaHealth      == HealthWhen("degraded", "degraded", "degraded")

HealthState ==
  CASE provider = "cursor"       -> CursorHealth
    [] provider = "grok"         -> GrokHealth
    [] provider = "kiro"         -> KiroHealth
    [] provider = "ark_plan"     -> ArkHealth
    [] provider = "devin"        -> DevinHealth
    [] provider = "openrouter"   -> OpenRouterHealth
    [] provider = "command_code" -> CommandCodeHealth
    [] provider = "qoder"        -> QoderHealth
    [] provider = "antigravity"  -> AntigravityHealth
    [] provider = "ollama_local" -> OllamaHealth

\* Seeded fault: a failure does not end the collection.
FinishIfAnswered ==
  /\ asking = "done" /\ purpose = "collect" /\ result.kind # "fail"
  /\ Keep
  /\ asking' = "idle" /\ told' = <<>> /\ token' = 0 /\ result' = NoResult
  /\ UNCHANGED <<provider, world, purpose>>

FinishCollection ==
  /\ asking = "done" /\ purpose = "collect"
  /\ Keep
  /\ asking' = "idle" /\ told' = <<>> /\ token' = 0 /\ result' = NoResult
  /\ UNCHANGED <<provider, world, purpose>>

\* HealthState is what the caller gets; nothing is stored.
FinishHealthCheck ==
  /\ asking = "done" /\ purpose = "health"
  /\ purpose' = "collect"
  /\ asking' = "idle" /\ told' = <<>> /\ token' = 0 /\ result' = NoResult
  /\ UNCHANGED <<provider, world, kept>>

QuotaNext ==
  \/ LoginChanges \/ SnapshotWritten \/ QuotaTick
  \/ StartCollection \/ StartHealthCheck \/ Answered
  \/ FinishCollection \/ FinishHealthCheck

\* Every request and every command has a timeout, so every source answers; the
\* adapter runs on.
QuotaFairness == WF_quotaVars(Answered) /\ WF_quotaVars(FinishCollection) /\ WF_quotaVars(FinishHealthCheck)

QuotaSpec == QuotaInit /\ [][QuotaNext]_quotaVars /\ QuotaFairness

-----------------------------------------------------------------------------
(* Properties *)

Services == {t.source : t \in ToSet(told)} \ (Looks \cup Commands \cup Tokens)
AnswerTo(source) == {t.answer : t \in {u \in ToSet(told) : u.source = source}}

\* "An expired credential or a rate limit is reported so the UI does not mask a
\* real signal behind a local estimate" (zcode, codex): whatever is asked in
\* which order, an estimate is never the result when a service has said that
\* the login is expired or limited.
SignalNotMasked ==
  result.kind = "estimate" => \A s \in Services : AnswerTo(s) \cap Signals = {}

\* Nobody on the network is asked for a user who has given no credential, also
\* on the second and third way to a quota; a token is refreshed only if there
\* is one.
RemoteOnlyWithLogin ==
  provider \notin {"antigravity", "ollama_local"} =>
    \A i \in 1..Len(told) :
      told[i].source \notin Looks \cup Commands =>
        \E j \in 1..(i - 1) :
          told[j].source \in {"credential", "config"} /\ told[j].answer \in {"valid", "expired", "key"}

\* After a service has rejected a token, that token is not used again in the
\* same collection: what follows is a refresh or a credential of another kind.
\* (The ports of Antigravity belong to one local server.)
NoRetryWithRejectedToken ==
  \A i, j \in 1..Len(told) :
    i < j /\ told[i].answer = "AUTH_EXPIRED" /\ told[j].source \in Services \ {"last port"}
      => told[j].token # told[i].token

\* A stored reading is never lost to a collection that failed: "cached readings
\* never vanish"; and it is replaced by an older one only if a live source
\* failed or could not be asked (Qoder always prefers its log).
LiveFailed ==
  \E t \in ToSet(told) :
    \/ t.source = "credential" /\ t.answer \notin {"valid", "expired"}
    \/ t.source \notin Looks /\ t.answer # "OK"
OlderOnlyAfterFailure ==
  [][/\ kept # NoReport => kept' # NoReport
     /\ kept'.data < kept.data => LiveFailed \/ provider = "qoder"]_kept

\* A health check that asks the sources says "healthy" exactly when a
\* collection with the same answers would have stored a report (Kiro also for
\* local records without its CLI).
HealthIsEarned ==
  asking = "done" /\ purpose = "health" =>
    ((HealthState = "healthy") <=>
       \/ result.kind \in {"live", "estimate"}
       \/ provider = "kiro" /\ told[1].answer = "none")

\* Every collection and every health check comes to an end.
CollectionEnds == (asking # "idle") ~> (asking = "idle")

\* Whatever every source answers, the result and the health tell the truth about
\* it, and nobody is asked who should not be.
CollectionIsHonest ==
  /\ SignalNotMasked
  /\ RemoteOnlyWithLogin
  /\ NoRetryWithRejectedToken
  /\ HealthIsEarned

-----------------------------------------------------------------------------
(* What the code says of itself and does not do: see the README.            *)

\* "A stored reading older than its freshness window reads as stale everywhere"
\* (docs/releases/v12.0.1.md): a report is shown as fresh only while its data
\* is.
FreshIsRecent == ShownFresh => now - kept.data < Freshness
=============================================================================
