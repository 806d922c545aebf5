---------------------------- MODULE QuotaWindows ----------------------------
(***************************************************************************)
(* How the adapters turn what a provider publishes into quota windows: the  *)
(* parsers of the adapters over the constructors of domain/src/quota.rs.    *)
(*                                                                          *)
(* An account has an allowance per period and uses it up; the provider      *)
(* publishes a list of slots, each with some of the numbers (used, limit,   *)
(* remaining, percent) and percentages that may be rounded down; a refresh  *)
(* parses them.  A percentage is counted in halves: 200 is all of it.       *)
(***************************************************************************)
EXTENDS Integers, Sequences, FiniteSets, FiniteSetsExt, Functions

CONSTANTS
  Parsers,       \* the parsers to use
  Allowances,    \* limits an account may have; they divide 200
  MaxUse         \* bound: use within a period

Absent == -1
All    == 200

ASSUME AllowancesAssumption == \A l \in Allowances : l \in 1..All /\ All % l = 0
ASSUME MaxUseAssumption == MaxUse \in Nat

\* A parser makes one sort of window; some adapters have several.  These find each
\* window under a field of its own,
Named ==
  {"codex credits", "copilot", "cursor", "openrouter", "openrouter rate", "kimi", "command code",
   "devin", "qoder", "grok", "grok on demand", "grok headers"}
\* these pass on a list as it is: the limits of Claude, the buckets of Antigravity,
\* the balances of ZCode and its rows, when none of them has a name,
Lists == {"claude limits", "antigravity", "zcode balance", "zcode rows"}
\* and the others look for each window among what is listed.
KnownParsers ==
  Named \cup Lists \cup {"codex", "claude", "ark", "gemini", "zcode", "opencode", "ollama"}
ASSUME ParsersAssumption == Parsers \subseteq KnownParsers

Numbers == {"used", "limit", "remaining", "percent"}

\* The periods the parsers know by name; what is of another period is left out.
\* For Cursor they are the lanes of the plan, for Qoder the quotas of the account,
\* and the plan is both together.
Kinds   == {"session", "weekly"}
Keys    == Kinds \cup {"plan", "unlimited"}

VARIABLES
  parser,      \* the adapter's parser
  allowance,   \* limit of each period
  use,         \* use[k]: what was used in the period of kind k
  published,   \* the slots the provider published last (history)
  shown        \* the windows of the last refresh

windowVars == <<parser, allowance, use, published, shown>>

-----------------------------------------------------------------------------
(* The constructors of QuotaWindow *)

Clamp(p)    == IF p > All THEN All ELSE IF p < 0 THEN 0 ELSE p

Window(key, used, limit, remaining, percent, left, unlimited) ==
  [key |-> key, used |-> used, limit |-> limit, remaining |-> remaining,
   percent |-> percent, left |-> left, unlimited |-> unlimited]

WithLimit(key, used, limit) ==
  LET percent == Clamp((used * All) \div limit) IN
  Window(key, used, limit, IF used > limit THEN 0 ELSE limit - used, percent, All - percent, FALSE)
FromPercentUnclamped(key, percent) ==    \* seeded fault
  Window(key, 0, Absent, Absent, percent, All - percent, FALSE)
FromPercent(key, percent) ==
  Window(key, 0, Absent, Absent, Clamp(percent), All - Clamp(percent), FALSE)
UsageOnly(key, used) == Window(key, used, Absent, Absent, Absent, Absent, FALSE)
Unlimited == Window("unlimited", 0, Absent, Absent, Absent, Absent, TRUE)
None == Window("none", 0, Absent, Absent, Absent, Absent, FALSE)

\* check_invariants
Consistent(w) ==
  \/ w.limit = Absent /\ w.remaining = Absent /\ w.percent = Absent /\ w.left = Absent
  \/ /\ w.percent # Absent /\ w.left # Absent /\ ~w.unlimited
     /\ w.percent \in 0..All /\ w.percent + w.left = All
     /\ \/ w.limit = Absent /\ w.remaining = Absent
        \/ /\ w.limit > 0
           /\ w.remaining = IF w.used > w.limit THEN 0 ELSE w.limit - w.used

-----------------------------------------------------------------------------
(* One window per slot; p holds the numbers of a slot *)

Has(p, fields) == \A f \in fields : p[f] # Absent
Share(used, limit) == (used * All) \div limit

\* window_from of Codex, rate_limit_windows of its logs, published of Claude:
\* a percentage or nothing.
PercentGauge(p) == IF Has(p, {"percent"}) THEN FromPercent(p.kind, p.percent) ELSE None

\* credit_window: a percentage of zero gives way to the amounts.
CodexCredits(p) ==
  IF Has(p, {"used", "limit"}) /\ p.limit > 0
       /\ (p.percent = Absent \/ (p.percent = 0 /\ p.used > 0))
  THEN FromPercent(p.kind, Share(p.used, p.limit))
  ELSE PercentGauge(p)

\* snapshot_window of Copilot: percent_remaining, else the entitlement; a
\* snapshot in which nothing is above zero is no entitlement.
CopilotGauge(p) ==
  IF p.limit <= 0 /\ p.remaining <= 0 /\ (Has(p, {"percent"}) => All - p.percent <= 0) THEN None
  ELSE IF Has(p, {"percent"}) THEN FromPercent(p.kind, p.percent)
  ELSE IF Has(p, {"remaining"}) /\ p.limit > 0
       THEN FromPercent(p.kind, Share(p.limit - p.remaining, p.limit))
       ELSE None

\* windows_from_payload of OpenRouter: an account without a limit, or with the
\* limit zero, has its use only.
OpenRouterGauge(p) ==
  IF ~Has(p, {"used"}) THEN None
  ELSE IF Has(p, {"limit"}) /\ p.limit > 0 THEN WithLimit(p.kind, p.used, p.limit)
  ELSE UsageOnly(p.kind, p.used)

\* Its limit of requests per interval, of which nothing is said to be used.
OpenRouterRate(p) == IF Has(p, {"limit"}) THEN WithLimit(p.kind, 0, p.limit) ELSE None

\* window_from_detail of Kimi; a limit that comes with a percentage alone
\* counts as unused.
KimiGauge(p) ==
  IF Has(p, {"limit"})
  THEN IF Has(p, {"used"}) THEN WithLimit(p.kind, p.used, p.limit)
       ELSE IF Has(p, {"remaining"}) THEN WithLimit(p.kind, p.limit - p.remaining, p.limit)
       ELSE IF p.percent \in 0..All THEN WithLimit(p.kind, 0, p.limit) ELSE None
  ELSE IF Has(p, {"used", "remaining"}) /\ p.used + p.remaining > 0
       THEN WithLimit(p.kind, p.used, p.used + p.remaining)
       ELSE IF p.percent \in 0..All THEN FromPercent(p.kind, p.percent) ELSE None

\* quota_window of Command Code, the on-demand credits of Grok.
CommandCodeGauge(p) ==
  IF Has(p, {"used", "limit"}) /\ p.limit > 0 THEN FromPercent(p.kind, Share(p.used, p.limit))
  ELSE None

\* quota_window of Devin: "proto3 omits scalar zeroes", so a slot without a
\* percentage (it has a reset time) is used up.
DevinGauge(p) == FromPercent(p.kind, IF Has(p, {"percent"}) THEN p.percent ELSE All)

\* used_percent of Ark.
ArkGauge(p) == IF Has(p, {"percent"}) THEN FromPercent(p.kind, p.percent) ELSE CommandCodeGauge(p)

\* A fraction that remains, within 0 and 1 (Gemini, Antigravity).
FractionGauge(p) == IF p.percent \in 0..All THEN FromPercent(p.kind, p.percent) ELSE None

\* The number of a row of ZCode: of the session, by which the row is found, it is
\* the five hours; of the others the total.
SessionHours == 5
RowTotal(p) == IF parser = "zcode" /\ p.kind = "session" THEN SessionHours ELSE p.limit

\* Seeded fault: what remains is taken for what was used.
ZCodeReversed(p) ==
  IF Has(p, {"limit", "remaining"}) THEN FromPercent(p.kind, Share(p.remaining, p.limit)) ELSE None

\* window_from_limit of ZCode: the percentage "is authoritative".
ZCodeGauge(p) ==
  LET total == RowTotal(p) IN
  IF Has(p, {"percent"}) THEN FromPercent(p.kind, p.percent)
  ELSE IF total # Absent /\ Has(p, {"used"}) THEN FromPercent(p.kind, Share(p.used, total))
  ELSE IF total # Absent /\ Has(p, {"remaining"}) /\ p.remaining <= total
       THEN FromPercent(p.kind, Share(total - p.remaining, total))
       ELSE None

\* balance_windows_from_log of ZCode.
BalanceGauge(p) == IF Has(p, {"used", "limit"}) THEN WithLimit(p.kind, p.used, p.limit) ELSE None

\* quota_numbers and quota_from_usage_response of Qoder: the amounts, if there
\* are any, come before the percentage; more than the limit is the limit.
QoderGauge(p) ==
  IF Has(p, {"used", "limit"})
  THEN WithLimit(p.kind, IF p.used > p.limit THEN p.limit ELSE p.used, p.limit)
  ELSE None

\* grok_build_windows: the percentage (its own or the sum of the products'), the
\* amounts, or for a period that reports none of them, nothing used.
GrokGauge(p) ==
  FromPercent(p.kind, IF Has(p, {"percent"}) THEN p.percent
                      ELSE IF Has(p, {"used", "limit"}) THEN Share(p.used, p.limit) ELSE 0)

\* window_from_headers of Grok: without the remaining requests there are none.
GrokHeaders(p) ==
  IF Has(p, {"limit"})
  THEN LET left == IF p.remaining = Absent THEN 0 ELSE IF p.remaining > p.limit THEN p.limit
                   ELSE p.remaining
       IN WithLimit(p.kind, p.limit - left, p.limit)
  ELSE None

\* normalize_dashboard_percent: a number between zero and one is taken for a
\* fraction.
NormalizedPercent(percent) == IF percent \in 1..1 THEN percent * 100 ELSE percent

\* api_window of OpenCode Go: what is above a hundred then is no percentage.
OpenCodeGauge(p) ==
  IF NormalizedPercent(p.percent) \in 0..All
  THEN FromPercent(p.kind, NormalizedPercent(p.percent))
  ELSE None

-----------------------------------------------------------------------------
(* The windows of a report *)

\* A report is a function: what the slots that make a window say, by their place
\* in the list.
KeepFirst(ws) ==
  Restrict(ws, {i \in DOMAIN ws : \A j \in DOMAIN ws : j < i => ws[j].key # ws[i].key})

\* The gauge of each parser.
Gauge(p) ==
  CASE parser \in {"codex", "claude", "claude limits"} -> PercentGauge(p)
    [] parser = "codex credits"         -> CodexCredits(p)
    [] parser = "copilot"               -> CopilotGauge(p)
    [] parser = "openrouter"            -> OpenRouterGauge(p)
    [] parser = "openrouter rate"       -> OpenRouterRate(p)
    [] parser = "kimi"                  -> KimiGauge(p)
    [] parser \in {"command code", "grok on demand"} -> CommandCodeGauge(p)
    [] parser = "devin"                 -> DevinGauge(p)
    [] parser = "ark"                   -> ArkGauge(p)
    [] parser \in {"gemini", "antigravity"} -> FractionGauge(p)
    [] parser \in {"zcode", "zcode rows"} -> ZCodeGauge(p)
    [] parser = "zcode balance"         -> BalanceGauge(p)
    [] parser = "grok"                  -> GrokGauge(p)
    [] parser = "grok headers"          -> GrokHeaders(p)
    [] parser = "opencode"              -> OpenCodeGauge(p)

PublishedAll(slots) == [i \in DOMAIN slots |-> Gauge(slots[i])]    \* seeded fault
Published(slots) == [i \in {j \in DOMAIN slots : Gauge(slots[j]) # None} |-> Gauge(slots[i])]

\* Seeded fault: of several buckets of a model the first one counts.
FirstBucket(slots) == KeepFirst(Published(slots))

\* model_window of Gemini: of the buckets of a model the one with least left.
TightestBucket(slots) ==
  LET ws == Published(slots)
      same(i) == {j \in DOMAIN ws : ws[j].key = ws[i].key}
  IN KeepFirst([i \in DOMAIN ws |->
       [ws[i] EXCEPT !.percent = Max({ws[j].percent : j \in same(i)}),
                     !.left = Min({ws[j].left : j \in same(i)})]])

\* Seeded fault: what two slots say about one period is shown twice.
CodexWindowsTwice(slots) == Published(slots)

\* windows_from_payload of Codex and windows_from_usage of Ark: "two slots can
\* report the same duration; keep the first".  Claude's list says again what its
\* field of the Opus model says, OpenCode's page what its data says.
CodexWindows(slots) == KeepFirst(Published(slots))

\* find_limit of ZCode: the first row of a name, though it may say nothing.
FirstRows(slots) ==
  Restrict(slots, {i \in DOMAIN slots :
    \A j \in DOMAIN slots : j < i => slots[j].kind # slots[i].kind})

Windows(slots) ==
  CASE parser = "ollama"  -> <<Unlimited>>
    [] parser = "gemini"  -> TightestBucket(slots)
    [] parser = "zcode"   -> Published(FirstRows(slots))
    [] parser \in Lists   -> Published(slots)
    [] OTHER              -> CodexWindows(slots)

(* Cursor: slots 1 and 2 are the lanes, 3 the plan, 4 the account's credits on  *)
(* demand and 5 the team's.                                                     *)

Lanes == {1, 2}
LanesOf(slots) == {l \in Lanes : Has(slots[l], {"percent"})}

\* Seeded fault: the lanes are added up.
CursorSum(slots) ==
  IF LanesOf(slots) = Lanes THEN Clamp(slots[1].percent) + Clamp(slots[2].percent) ELSE Absent

\* The plan's percentage is its own, that of the lanes, or what the first amounts say.
CursorPlan(slots) ==
  LET lanes   == LanesOf(slots)
      amounts == {i \in 3..5 : Has(slots[i], {"used", "limit"}) /\ slots[i].limit > 0}
  IN IF Has(slots[3], {"percent"}) THEN slots[3].percent
     ELSE IF lanes = Lanes THEN (Clamp(slots[1].percent) + Clamp(slots[2].percent)) \div 2
     ELSE IF lanes # {} THEN Clamp(slots[CHOOSE l \in lanes : TRUE].percent)
     ELSE IF amounts # {} THEN Share(slots[Min(amounts)].used, slots[Min(amounts)].limit)
     ELSE Absent

\* windows_from_summary: without a percentage of the plan there are none.
CursorWindows(slots) ==
  IF CursorPlan(slots) = Absent THEN <<>>
  ELSE [i \in LanesOf(slots) \cup {3} |->
          FromPercent(slots[i].kind, IF i = 3 THEN CursorPlan(slots) ELSE slots[i].percent)]

(* Qoder: the account's quota, and the one it shares.                           *)

Pool(slots) ==
  IF DOMAIN slots = {1} THEN slots[1]
  ELSE [slots[1] EXCEPT !.kind = "plan", !.used = @ + slots[2].used, !.limit = @ + slots[2].limit]

\* quota_from_usage_response: a quota without its amounts is no answer.
QoderWindows(slots) ==
  IF \A i \in DOMAIN slots : Has(slots[i], {"used", "limit"}) THEN <<QoderGauge(Pool(slots))>>
  ELSE <<>>

-----------------------------------------------------------------------------

WindowTypeOK ==
  /\ parser \in Parsers
  /\ allowance \in Allowances
  /\ use \in [Kinds -> 0..MaxUse]
  /\ \A i \in DOMAIN shown : shown[i].key \in Keys

WindowInit ==
  /\ parser \in Parsers
  /\ allowance \in Allowances
  /\ use = [k \in Kinds |-> 0]
  /\ published = <<>>
  /\ shown = <<>>

UseMore(k) ==
  /\ use[k] < MaxUse
  /\ use' = [use EXCEPT ![k] = @ + 1]
  /\ published' = <<>> /\ shown' = <<>>
  /\ UNCHANGED <<parser, allowance>>

NewPeriod(k) ==
  /\ use' = [use EXCEPT ![k] = 0]
  /\ published' = <<>> /\ shown' = <<>>
  /\ UNCHANGED <<parser, allowance>>

\* The plan is both of its lanes, with the allowances of both.
UseOf(k)       == IF k = "plan" THEN use["session"] + use["weekly"] ELSE use[k]
AllowanceOf(k) == IF k = "plan" THEN 2 * allowance ELSE allowance

\* What a provider may say of a period: some of the numbers; a percentage in
\* whole or half points, above a hundred when more was used than allowed.
Slot(k, fields, whole) ==
  LET used    == UseOf(k)
      limit   == AllowanceOf(k)
      percent == Share(used, limit)
  IN
  [kind |-> k,
   used      |-> IF "used" \in fields THEN used ELSE Absent,
   limit     |-> IF "limit" \in fields THEN limit ELSE Absent,
   remaining |-> IF "remaining" \notin fields THEN Absent
                 ELSE IF used > limit THEN 0 ELSE limit - used,
   percent   |-> IF "percent" \notin fields THEN Absent
                 ELSE IF whole THEN percent - (percent % 2) ELSE percent]

\* Credits on demand have an allowance of their own.
OnDemand(used) ==
  [kind |-> "on demand", used |-> used, limit |-> IF used = Absent THEN Absent ELSE All,
   remaining |-> Absent, percent |-> Absent]

\* What the provider publishes and the parser makes of it.  Bound: one report
\* between two changes of the account.
Publish(slots, windows) ==
  /\ published = <<>>
  /\ published' = slots /\ shown' = windows
  /\ UNCHANGED <<parser, allowance, use>>

\* A field is there once; the one period that Claude has a field for and lists as
\* well is the week of the Opus model.
RefreshWindows ==
  /\ parser \notin {"cursor", "qoder"}
  /\ \E first, second \in Kinds, fields \in SUBSET Numbers, whole \in BOOLEAN :
       LET slots == <<Slot(first, fields, whole), Slot(second, fields \cup {"percent"}, FALSE)>> IN
       /\ parser \in Named => first # second
       /\ parser = "claude" /\ first = second => first = "weekly"
       /\ Publish(slots, Windows(slots))

RefreshCursor ==
  /\ parser = "cursor"
  /\ \E auto, api \in SUBSET {"percent"}, plan \in SUBSET {"used", "limit", "percent"},
        own, team \in {Absent, 1} :
       LET slots == <<Slot("session", auto, FALSE), Slot("weekly", api, FALSE),
                      Slot("plan", plan, FALSE), OnDemand(own), OnDemand(team)>>
       IN Publish(slots, CursorWindows(slots))

RefreshQoder ==
  /\ parser = "qoder"
  /\ \E fields \in SUBSET Numbers, shared \in BOOLEAN :
       LET base  == Slot("session", fields, FALSE)
           slots == IF shared THEN <<base, Slot("weekly", fields, FALSE)>> ELSE <<base>>
       IN Publish(slots, QoderWindows(slots))

WindowNext ==
  \/ \E k \in Kinds : UseMore(k) \/ NewPeriod(k)
  \/ RefreshWindows \/ RefreshCursor \/ RefreshQoder

WindowSpec == WindowInit /\ [][WindowNext]_windowVars

-----------------------------------------------------------------------------
(* Properties *)

\* check_invariants, for everything any parser builds from whatever a provider
\* publishes: a percentage within its bounds that adds up, an amount that adds
\* up, or none at all.
WindowsAreConsistent == \A i \in DOMAIN shown : Consistent(shown[i])

\* A slot without the number that its parser needs, which takes another for it: a
\* limit with a percentage alone (Kimi), missing numbers that count as nothing used
\* or as all used (Grok, Devin, the requests of OpenRouter), a percentage below one
\* (OpenCode), the five hours for a total (ZCode).
Misread(p) ==
  \/ parser = "kimi" /\ Has(p, {"limit"}) /\ ~Has(p, {"used"}) /\ ~Has(p, {"remaining"})
  \/ parser = "grok" /\ ~Has(p, {"percent"}) /\ ~Has(p, {"used", "limit"})
  \/ parser = "grok headers" /\ ~Has(p, {"remaining"})
  \/ parser = "devin" /\ ~Has(p, {"percent"})
  \/ parser = "openrouter rate"
  \/ parser = "opencode" /\ p.percent = 1
  \/ parser = "zcode" /\ p.kind = "session" /\ ~Has(p, {"percent"})

\* Of Cursor's plan there is no number: its lanes or the credits on demand are
\* shown for it.
PlanIsGuessed ==
  /\ parser = "cursor"
  /\ ~Has(published[3], {"percent"})
  /\ LanesOf(published) # {} \/ ~Has(published[3], {"used", "limit"})

Guessed(i) == Misread(published[i]) \/ (i = 3 /\ PlanIsGuessed)

\* A bar never shows another use than the real one, less the rounding of the
\* provider, whichever of the numbers were published.
TrueShare(k) == Clamp(Share(UseOf(k), AllowanceOf(k)))
BarsAreTrue ==
  \A i \in DOMAIN shown :
    ~Guessed(i) /\ shown[i].percent # Absent =>
      shown[i].percent \in (TrueShare(shown[i].key) - 1)..TrueShare(shown[i].key)

\* A plan that Cursor does not give a percentage of is within its lanes.
PlanIsWithinLanes ==
  parser = "cursor" /\ 3 \in DOMAIN shown /\ ~Has(published[3], {"percent"})
    /\ LanesOf(published) # {} =>
    /\ \E l \in LanesOf(published) : shown[l].percent <= shown[3].percent
    /\ \E l \in LanesOf(published) : shown[3].percent <= shown[l].percent

\* One period has one window, although the provider lists it twice; only the lists
\* that are passed on as they are repeat a key.
OneWindowPerPeriod ==
  parser \notin Lists =>
    \A i, j \in DOMAIN shown : i # j => shown[i].key # shown[j].key

\* Gemini lists a model more than once: no bucket has more used than is shown.
TightestIsShown ==
  parser = "gemini" =>
    \A j \in DOMAIN published : LET s == published[j] IN
      s.percent \in 0..All => \E i \in DOMAIN shown : shown[i].key = s.kind /\ shown[i].percent >= s.percent

\* The windows of every parser are consistent, true and, unless they are a list
\* that is passed on, each there once.
WindowsAreTrue ==
  /\ WindowsAreConsistent
  /\ BarsAreTrue
  /\ PlanIsWithinLanes
  /\ OneWindowPerPeriod
  /\ TightestIsShown

-----------------------------------------------------------------------------
(* What the code says of itself and does not do: see the README.            *)

\* "The returned windows therefore carry the real percentage" (opencode,
\* windows_from_dashboard_html).
RealPercentage ==
  \A i \in DOMAIN shown :
    shown[i].percent # Absent => shown[i].percent \in (TrueShare(shown[i].key) - 1)..TrueShare(shown[i].key)
=============================================================================
