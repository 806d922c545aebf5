----------------------------- MODULE UsageViews -----------------------------
(***************************************************************************)
(* The pages that read usage_events: the dashboard (application/src/        *)
(* dashboard.rs), the history, sessions, costs, budgets, analytics and      *)
(* overview, over the price calculator (pricing/src/calculator.rs).         *)
(*                                                                          *)
(* A page runs several statements, one after the other and outside any      *)
(* transaction, while a refresh cycle writes the table on a connection of   *)
(* its own.  A time is a tick of the UTC clock; a local day has DayTicks    *)
(* of them, unless the local clock goes forward within it.                  *)
(***************************************************************************)
EXTENDS Integers, Sequences, FiniteSets, FiniteSetsExt

CONSTANTS
  Rows,         \* what the rows of usage_events may hold, but for their time
  MaxRows,      \* bound: rows of the table
  MaxTick,      \* bound: clock
  DayTicks,     \* ticks of a day
  Offset,       \* of the local time
  ClockChange,  \* tick at which the local clock goes forward by one
  WeekDays,     \* days of DashboardRange::Week and of a weekly budget
  Unit,         \* the smallest amount of money that is shown, in what rates come in
  Overrides     \* the setting pricing_overrides: a rate by provider and model

Providers == {"codex", "opencode", "opencode_cli"}
Models    == {"gpt", "glm dated", "new"}
RateOf    == [input : Nat, output : Nat]

ASSUME RowsAssumption ==
  Rows \subseteq [provider : Providers, model : Models, input : Nat, output : Nat,
                  cached : Nat, cost : Nat, session : STRING, project : STRING]
ASSUME ClockAssumption ==
  /\ {MaxRows, MaxTick, Offset, ClockChange} \subseteq Nat
  /\ {DayTicks, WeekDays, Unit} \subseteq Nat \ {0}
ASSUME PricesAssumption == \A pair \in DOMAIN Overrides : Overrides[pair] \in RateOf

VARIABLES
  events,    \* table usage_events: [row, at]
  clock,     \* the time
  query,     \* the page that is being read
  got,       \* what its statements have answered so far
  steady,    \* the table was not written since the page was opened (history)
  shrunk     \* nor has it lost rows (history)

viewVars == <<events, clock, query, got, steady, shrunk>>

Everyone == ""    \* the empty provider filter
NoQuery  == [page |-> "none"]
Event    == [row : Rows, at : 0..MaxTick]

\* Seeded fault: the tokens of the cache are left out.
MeasuredUncached(row, what) ==
  CASE what \in {"all tokens", "tokens"} -> row.input + row.output
    [] what = "input"    -> row.input
    [] what = "output"   -> row.output
    [] what = "cached"   -> row.cached
    [] what = "recorded" -> row.cost

\* What a statement adds up.  The dashboard and the overview count the tokens
\* read from and written to a cache, the other pages do not; a price has a rate
\* for what goes in and another for what comes out.
Measured(row, what) ==
  CASE what = "all tokens" -> row.input + row.output + row.cached
    [] what = "tokens"     -> row.input + row.output
    [] what = "input"      -> row.input
    [] what = "output"     -> row.output
    [] what = "cached"     -> row.cached
    [] what = "recorded"   -> row.cost
SumOf(es, what) == MapThenSumSet(LAMBDA e : Measured(e.row, what), es)
Total(part) == MapThenSumSet(LAMBDA k : part[k], DOMAIN part)

-----------------------------------------------------------------------------
(* Calendar *)

Local(t)     == t + Offset + (IF t >= ClockChange THEN 1 ELSE 0)
LocalDay(t)  == Local(t) \div DayTicks
UtcDay(t)    == t \div DayTicks
Ticks        == (-2 * DayTicks)..(MaxTick + 2 * DayTicks)

\* local_midnight: a day has one, or the query is refused.
Midnights(day)   == {t \in Ticks : Local(t) = day * DayTicks}
HasMidnight(day) == Cardinality(Midnights(day)) = 1
Midnight(day)    == CHOOSE t \in Midnights(day) : TRUE

-----------------------------------------------------------------------------
(* The dashboard: execute_inner *)

\* "Keep those historical rows in the same dashboard card and provider filter".
Card(provider) == IF provider = "opencode_cli" THEN "opencode" ELSE provider

MatchesExactly(provider, filter) == filter \in {Everyone, provider}    \* seeded fault
Matches(provider, filter) ==
  \/ filter \in {Everyone, provider}
  \/ filter = "opencode" /\ provider = "opencode_cli"

\* provider_filter_matches_sql and time_filter_sql.
Selected(q) ==
  {e \in events : e.at >= q.from /\ e.at < q.until /\ Matches(e.row.provider, q.filter)}

\* SELECT column, SUM(what) ... GROUP BY column
GroupKey(e, column) ==
  CASE column = "total"     -> "all"
    [] column = "card"      -> Card(e.row.provider)
    [] column = "session"   -> e.row.session
    [] column = "project"   -> <<e.row.project, e.row.session>>
    [] column = "model"     -> <<e.row.model, e.row.provider>>
    [] column = "local day" -> LocalDay(e.at)
    [] column = "UTC day"   -> UtcDay(e.at)
Grouped(es, column, what) ==
  [k \in {GroupKey(e, column) : e \in es} |->
     SumOf({e \in es : GroupKey(e, column) = k}, what)]

\* Seeded fault: the buckets are days of UTC.
UtcTrend(q) == LET days == Grouped(Selected(q), "UTC day", "all tokens") IN
  [d \in (IF q.bounded THEN q.first..q.last ELSE DOMAIN days) |->
     IF d \in DOMAIN days THEN days[d] ELSE 0]

\* date(timestamp, 'localtime') and fill_calendar_buckets: every day from the
\* first to the last, and no other.
Trend(q) ==
  LET days  == Grouped(Selected(q), "local day", "all tokens")
      span  == IF q.bounded THEN q.first..q.last
               ELSE IF days = <<>> THEN {} ELSE Min(DOMAIN days)..Max(DOMAIN days)
  IN [d \in span |-> IF d \in DOMAIN days THEN days[d] ELSE 0]

DashboardPart(q, i) ==
  CASE i = 1 -> Grouped(Selected(q), "total", "all tokens")
    [] i = 2 -> Grouped(Selected(q), "card", "all tokens")
    [] i = 3 -> Trend(q)
    [] i = 4 -> Grouped(Selected(q), "session", "all tokens")

-----------------------------------------------------------------------------
(* The pages of a rolling window *)

\* HistoryWindow::since, for a window of so many days; 0 is the whole history.
Since(t, days) == IF days = 0 THEN -2 * DayTicks ELSE t - days * DayTicks

\* timestamp >= ?1 AND (?2 = '' OR provider_id = ?2)
Within(since, filter) ==
  {e \in events : e.at >= since /\ filter \in {Everyone, e.row.provider}}

\* QueryUsageHistory::execute
HistoryPart(q, i) ==
  LET es == Within(q.from, q.filter) IN
  CASE i = 1 -> Grouped(es, "total", "tokens")
    [] i = 2 -> Grouped(es, "model", "tokens")
    [] i = 3 -> Grouped(es, "UTC day", "tokens")

\* QuerySessions::execute: sessions within projects, with their tokens and the
\* costs on record.
SessionsPage(since, filter, what) ==
  LET bySession == Grouped(Within(since, filter), "project", what)
      projects  == {k[1] : k \in DOMAIN bySession}
  IN [p \in projects |-> Total([k \in {j \in DOMAIN bySession : j[1] = p} |-> bySession[k]])]

-----------------------------------------------------------------------------
(* Prices *)

\* normalize_provider_id, normalize_model (prefixes and dates) and infer_provider.
Canonical(provider) == IF provider = "codex" THEN "openai" ELSE "opencode"
Normalized(model)   == IF model = "glm dated" THEN "glm" ELSE model
Family(model)       == IF model = "glm" THEN "zai" ELSE "openai"

\* The catalog, and the rate for what it does not have.
Catalog ==
  [pair \in {<<"openai", "gpt">>, <<"zai", "glm">>} |->
     IF pair[2] = "gpt" THEN [input |-> 1, output |-> 2] ELSE [input |-> 2, output |-> 5]]
FallbackRate == [input |-> 4, output |-> 7]
NoOverrides  == <<>>

\* resolve_pricing: the events of opencode are priced by the family of the model
\* that it routes to.
Rate(overrides, provider, model) ==
  LET exact  == <<provider, model>>
      named  == <<provider, Normalized(model)>>
      routed == <<Family(Normalized(model)), Normalized(model)>>
  IN IF exact \in DOMAIN overrides THEN overrides[exact]
     ELSE IF exact \in DOMAIN Catalog THEN Catalog[exact]
     ELSE IF named \in DOMAIN Catalog THEN Catalog[named]
     ELSE IF provider = "opencode" /\ routed \in DOMAIN Catalog THEN Catalog[routed]
     ELSE FallbackRate

\* Seeded fault: the family is left out.
PriceKnownDirectly(overrides, provider, model) ==
  \/ <<provider, model>> \in DOMAIN overrides \cup DOMAIN Catalog
  \/ <<provider, Normalized(model)>> \in DOMAIN Catalog

\* provider_price_known, which "mirrors resolve_pricing for status labeling".
PriceKnown(overrides, provider, model) ==
  \/ <<provider, model>> \in DOMAIN overrides \cup DOMAIN Catalog
  \/ <<provider, Normalized(model)>> \in DOMAIN Catalog
  \/ /\ provider = "opencode"
     /\ <<Family(Normalized(model)), Normalized(model)>> \in DOMAIN Catalog

\* format_decimal: to the nearest amount that is shown.
Rounded(x) == Unit * ((x + Unit \div 2) \div Unit)

\* calculate_cost_with_provider, which always has an answer.
Exact(overrides, provider, model, input, output) ==
  LET rate == Rate(overrides, Canonical(provider), model)
  IN input * rate.input + output * rate.output
Estimate(overrides, provider, model, input, output) ==
  [cost   |-> Rounded(Exact(overrides, provider, model, input, output)),
   status |-> IF PriceKnown(overrides, Canonical(provider), model) THEN "priced" ELSE "estimated"]

\* One estimate per provider and model.
ByModel(es) ==
  LET input == Grouped(es, "model", "input")  output == Grouped(es, "model", "output")
  IN [k \in DOMAIN input |-> [input |-> input[k], output |-> output[k]]]
GroupEstimate(overrides, groups, k) ==
  Estimate(overrides, k[2], k[1], groups[k].input, groups[k].output)
CostOf(overrides, groups, K) ==
  MapThenSumSet(LAMBDA k : GroupEstimate(overrides, groups, k).cost, K)

\* QueryCosts::execute_with_provider: recorded costs are not read.
Costs(since, filter) ==
  LET es     == Within(since, filter)
      groups == ByModel(es)
      known  == {k \in DOMAIN groups : GroupEstimate(Overrides, groups, k).status = "priced"}
  IN [tokens |-> Grouped(es, "model", "tokens"), priced |-> known,
      pricedTotal |-> CostOf(Overrides, groups, known),
      estimated |-> CostOf(Overrides, groups, DOMAIN groups \ known), unpricedTokens |-> 0]

\* Seeded faults: the tokens of a group are estimated when any of its rows has
\* no cost; a day of the period is forgotten.
OverviewByGroup ==
  LET open == {e \in events : e.row.cost = 0}
      all  == ByModel({e \in events : \E o \in open : o.row.model = e.row.model
                                        /\ o.row.provider = e.row.provider})
  IN SumOf(events, "recorded") + CostOf(NoOverrides, all, DOMAIN all)
ShortBudget(filter, days) ==
  LET page == Costs(Since(clock, days - 1), filter)
  IN [tokens |-> Total(page.tokens), cost |-> page.pricedTotal + page.estimated]

\* QueryOverview::execute: the recorded costs, and one estimate per group for
\* the rows without; the overrides are not read.
Unpriced == {e \in events : e.row.cost = 0}
OverviewCost ==
  LET groups == ByModel(Unpriced)
  IN SumOf(events, "recorded") + CostOf(NoOverrides, groups, DOMAIN groups)

\* recorded_or_calculated_cost of a row of the Analytics page, and that page:
\* ORDER BY timestamp DESC, with a LIMIT.
RowCost(e) ==
  IF e.row.cost > 0 THEN e.row.cost
  ELSE Estimate(Overrides, e.row.provider, e.row.model, e.row.input, e.row.output).cost
NewestRows(limit) ==
  {es \in SUBSET events : /\ Cardinality(es) = Min({limit, Cardinality(events)})
                          /\ \A e \in es, f \in events \ es : f.at <= e.at}

\* evaluate of budgets.rs: what the period has used.
Budget(filter, days) ==
  LET es     == Within(Since(clock, days), filter)
      groups == ByModel(es)
  IN [tokens |-> Total(Grouped(es, "model", "tokens")),
      cost   |-> CostOf(Overrides, groups, DOMAIN groups)]

Unset == 0    \* a limit that is not set, or that does not parse
Percent(used, limit) == IF limit = Unset THEN {} ELSE {(100 * used) \div limit}

\* Seeded fault: the milder of the two limits decides.
MilderState(used, costLimit, tokenLimit, warn) ==
  LET percents == Percent(used.cost, costLimit) \cup Percent(used.tokens, tokenLimit)
  IN IF percents = {} THEN "unknown"
     ELSE IF \A p \in percents : p < 100 /\ p >= warn THEN "warning"
     ELSE IF \A p \in percents : p >= 100 THEN "exceeded" ELSE "under"

\* The state of a budget is that of the limit that is closer.
BudgetState(used, costLimit, tokenLimit, warn) ==
  LET percents == Percent(used.cost, costLimit) \cup Percent(used.tokens, tokenLimit)
  IN IF percents = {} THEN "unknown"
     ELSE IF Max(percents) >= 100 THEN "exceeded"
     ELSE IF Max(percents) >= warn THEN "warning" ELSE "under"

-----------------------------------------------------------------------------

Parts(q) == CASE q.page = "dashboard" -> 4 [] q.page = "history" -> 3 [] OTHER -> 0

ViewsTypeOK ==
  /\ events \subseteq Event /\ Cardinality(events) <= MaxRows
  /\ \A e \in events : e.at <= clock
  /\ clock \in 0..MaxTick
  /\ Len(got) <= Parts(query)
  /\ \A i \in DOMAIN got : \A k \in DOMAIN got[i] : got[i][k] \in Nat
  /\ {steady, shrunk} \subseteq BOOLEAN

ViewsInit ==
  /\ events = {}
  /\ clock = 0
  /\ query = NoQuery /\ got = <<>>
  /\ steady = TRUE /\ shrunk = FALSE

-----------------------------------------------------------------------------
(* The refresh cycle *)

\* Bound: it writes once under a page.
OneWrite == query = NoQuery \/ steady

\* Seeded fault: a row is stamped with the end of its day.
IngestAhead(row, at) ==
  /\ Cardinality(events) < MaxRows /\ at <= clock /\ OneWrite
  /\ events' = events \cup {[row |-> row, at |-> at + 1]}
  /\ steady' = (query = NoQuery)
  /\ UNCHANGED <<clock, query, got, shrunk>>

\* ingest_batch_with_counts: what is found now may have happened before.
Ingest_(row, at) ==
  /\ Cardinality(events) < MaxRows /\ at <= clock /\ OneWrite
  /\ events' = events \cup {[row |-> row, at |-> at]}
  /\ steady' = (query = NoQuery)
  /\ UNCHANGED <<clock, query, got, shrunk>>

\* replace_provider_batch of OpenCode.
ReplaceBatch(row, at) ==
  /\ row.provider = "opencode" /\ at <= clock /\ OneWrite
  /\ \E e \in events : e.row.provider = "opencode"
  /\ events' = {e \in events : e.row.provider # "opencode"} \cup {[row |-> row, at |-> at]}
  /\ steady' = (query = NoQuery) /\ shrunk' = (query # NoQuery)
  /\ UNCHANGED <<clock, query, got>>

ViewsTick ==
  /\ clock < MaxTick
  /\ clock' = clock + 1
  /\ UNCHANGED <<events, query, got, steady, shrunk>>

-----------------------------------------------------------------------------
(* Reading a page *)

Opened ==
  /\ query = NoQuery
  /\ UNCHANGED <<events, clock, got, steady, shrunk>>

\* bounds_for: Day, Week and the custom ranges until today, or Total.
OpenDashboard(filter) ==
  /\ LET today == LocalDay(clock) IN
     \/ \E first \in {0, today, today - (WeekDays - 1)} :
          /\ HasMidnight(first) /\ HasMidnight(today + 1)
          /\ query' = [page |-> "dashboard", filter |-> filter, bounded |-> TRUE,
                       first |-> first, last |-> today,
                       from |-> Midnight(first), until |-> Midnight(today + 1)]
     \/ query' = [page |-> "dashboard", filter |-> filter, bounded |-> FALSE,
                  from |-> -2 * DayTicks, until |-> MaxTick + 2 * DayTicks]
  /\ Opened

OpenHistory(filter, days) ==
  /\ query' = [page |-> "history", filter |-> filter, from |-> Since(clock, days)]
  /\ Opened

\* Seeded fault: every statement asks for the time anew.
PartNow(q) ==
  IF q.page = "history" THEN HistoryPart([q EXCEPT !.from = Since(clock, 1)], Len(got) + 1)
  ELSE DashboardPart(q, Len(got) + 1)

\* One statement.
Part(q) ==
  IF q.page = "history" THEN HistoryPart(q, Len(got) + 1) ELSE DashboardPart(q, Len(got) + 1)
Statement ==
  /\ Len(got) < Parts(query)
  /\ got' = Append(got, Part(query))
  /\ UNCHANGED <<events, clock, query, steady, shrunk>>

Close ==
  /\ query # NoQuery /\ Len(got) = Parts(query)
  /\ query' = NoQuery /\ got' = <<>>
  /\ steady' = TRUE /\ shrunk' = FALSE
  /\ UNCHANGED <<events, clock>>

ViewsNext ==
  \/ \E row \in Rows, at \in 0..MaxTick : Ingest_(row, at) \/ ReplaceBatch(row, at)
  \/ ViewsTick
  \/ \E filter \in {Everyone, "opencode"} :
       OpenDashboard(filter) \/ (\E days \in {0, 1} : OpenHistory(filter, days))
  \/ Statement \/ Close

ViewsSpec == ViewsInit /\ [][ViewsNext]_viewVars

-----------------------------------------------------------------------------
(* Properties *)

\* "The query keeps the summary, provider breakdown, trend, heatmap and session
\* table on one consistent time/provider filter" (dashboard.rs): if no cycle
\* wrote meanwhile, all parts of a page add up to the same tokens, also where
\* the local day is another than that of UTC and where the clocks go forward.
PartsAgree == steady => \A i, j \in DOMAIN got : Total(got[i]) = Total(got[j])

\* A page that a cycle has written under is torn, but only in one way: unless
\* rows were replaced, no later part shows less than an earlier one, although
\* the clock has gone on.
TornOnlyUpwards ==
  ~shrunk => \A i, j \in DOMAIN got : i <= j => Total(got[i]) <= Total(got[j])

\* The dashboard of one provider shows what its card in the dashboard of all
\* shows, rows under a former id included, and no card has the former id.
CardIsFilter == query = NoQuery /\ events # {} =>
  \A card \in {"codex", "opencode"} :
    LET one(f) == [filter |-> f, from |-> Since(clock, WeekDays), until |-> clock + 1]
        all    == Grouped(Selected(one(Everyone)), "card", "all tokens")
    IN /\ "opencode_cli" \notin DOMAIN all
       /\ SumOf(Selected(one(card)), "all tokens") = IF card \in DOMAIN all THEN all[card] ELSE 0

\* What a budget has used is what the Costs page lists for the period, priced
\* and estimated, each at the same roundings, and its tokens are those which the
\* Sessions page attributes.
BudgetIsTheCostOfItsPeriod == query = NoQuery /\ events # {} =>
  \A filter \in {Everyone} \cup Providers, days \in {1, WeekDays} :
    LET page == Costs(Since(clock, days), filter)
        used == Budget(filter, days)
    IN /\ used.cost = page.pricedTotal + page.estimated
       /\ used.tokens = Total(page.tokens)
       /\ used.tokens = Total(SessionsPage(Since(clock, days), filter, "tokens"))

\* "Never charged at another model's rate" (costs.rs): what is called priced is
\* charged at a rate of that model, and what is called estimated at the rate
\* that belongs to none.
LabelIsEarned == query = NoQuery /\ events # {} =>
  LET page == Costs(Since(clock, 0), Everyone) IN
  \A k \in DOMAIN page.tokens :
    LET rate == Rate(Overrides, Canonical(k[2]), k[1]) IN
    IF k \in page.priced
    THEN \/ \E pair \in DOMAIN Overrides : pair[2] = k[1] /\ rate = Overrides[pair]
         \/ \E pair \in DOMAIN Catalog : pair[2] \in {k[1], Normalized(k[1])} /\ rate = Catalog[pair]
    ELSE rate = FallbackRate

\* Either limit is reached by what is used of it, not before and not after, and
\* whatever the other one says; there is no state without a limit.
BudgetStateIsExact == query = NoQuery /\ events # {} =>
  LET used == Budget(Everyone, 1) IN
  \A costLimit \in {Unset, 3, 6}, tokenLimit \in {Unset, 2, 4}, warn \in {25, 100} :
    LET state == BudgetState(used, costLimit, tokenLimit, warn)
    IN /\ state = "exceeded" <=> \/ costLimit # Unset /\ used.cost >= costLimit
                                 \/ tokenLimit # Unset /\ used.tokens >= tokenLimit
       /\ state = "unknown" <=> costLimit = Unset /\ tokenLimit = Unset

\* The overview and the rows of the Analytics page have one cost, up to the
\* rounding of their estimates: half a unit for each row and each group.  Beyond
\* the LIMIT, whatever it is, the page may only fall short; and the overview does
\* not know the rates that the settings override.
Overridden == {e \in Unpriced : <<Canonical(e.row.provider), e.row.model>> \in DOMAIN Overrides}
Slack == (Unit \div 2) * (Cardinality(Unpriced) + Cardinality(DOMAIN ByModel(Unpriced)))
OverviewIsTheSumOfRows == query = NoQuery /\ events # {} /\ Overridden = {} =>
  \A limit \in 1..MaxRows : \A page \in NewestRows(limit) :
    LET shown == MapThenSumSet(RowCost, page)
    IN /\ shown <= OverviewCost + Slack
       /\ Cardinality(events) <= limit => OverviewCost <= shown + Slack

\* Over the whole table the pages count the same rows: the overview has the
\* tokens of the dashboard, which the history has but for the cached ones, and
\* the costs of the Sessions page are that part of its own that is on record.
WholeTable == [filter |-> Everyone, from |-> -2 * DayTicks, until |-> MaxTick + 2 * DayTicks]
PagesCountTheSameRows == query = NoQuery /\ events # {} =>
  LET dashboard == Grouped(Selected(WholeTable), "card", "all tokens")
      history   == Grouped(Within(Since(clock, 0), Everyone), "model", "tokens")
      sessions  == SessionsPage(Since(clock, 0), Everyone, "recorded")
      groups    == ByModel(Unpriced)
  IN /\ SumOf(events, "all tokens") = Total(dashboard)
     /\ Total(dashboard) = Total(history) + SumOf(events, "cached")
     /\ OverviewCost = Total(sessions) + CostOf(NoOverrides, groups, DOMAIN groups)

\* The parts of a page agree unless a cycle wrote under it, and then they are
\* torn in one way only; the pages and the budgets count the same rows, price
\* them alike and label the prices right.
ViewsAgree ==
  /\ PartsAgree
  /\ TornOnlyUpwards
  /\ CardIsFilter
  /\ BudgetIsTheCostOfItsPeriod
  /\ BudgetStateIsExact
  /\ LabelIsEarned
  /\ OverviewIsTheSumOfRows
  /\ PagesCountTheSameRows

-----------------------------------------------------------------------------
(* What the code says of itself and does not do: see the README.            *)

\* "Share of the window's total tokens, 0..=100" (usage_history.rs): no model
\* has a larger share than all of the total.
ShareIsWithin100 ==
  query.page = "history" /\ Len(got) >= 2 =>
    \A k \in DOMAIN got[2] : Total(got[1]) > 0 => got[2][k] <= Total(got[1])

\* "A model without a catalog entry is reported as unpriced with its token
\* totals" (costs.rs).
UnpricedIsSaid ==
  LET page == Costs(Since(clock, 0), Everyone) IN
  \A k \in DOMAIN page.tokens \ page.priced : page.unpricedTokens >= page.tokens[k]

\* "Pricing is linear in tokens, so this equals the old per-event estimates"
\* (overview.rs): not once each estimate is rounded.
OverviewIsExact ==
  query = NoQuery /\ Overridden = {} => OverviewCost = MapThenSumSet(RowCost, events)
=============================================================================
