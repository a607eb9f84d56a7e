------------------------------ MODULE Dashboards ------------------------------
(***************************************************************************)
(* The dashboards of a project: charts, totals, drill-downs and rankings    *)
(* that services/event_service.py, request_event_service.py and             *)
(* mcp_usage_service.py compute from the rows of ClickHouse, each with      *)
(* queries of its own (db/dao/event_dao.py, request_event_dao.py) over rows *)
(* that keep arriving, late and in any order, while configurations are      *)
(* served, keys move between groups and keys and groups are deleted.        *)
(*                                                                          *)
(* Time is counted in units of a small calendar.  Every row costs one unit: *)
(* one that is left out or counted twice shows where it is the only row.    *)
(* One project; the filters on tags and routes are left out.                *)
(***************************************************************************)
EXTENDS Integers, Sequences, FiniteSets, FiniteSetsExt, Functions

CONSTANTS
  Routes, Keys, Groups,  \* keys and groups are numbers: their uuids, as text, in order
  Arrivals,     \* the rows that may reach the table
  Removable,    \* bound: the keys and groups that may be deleted
  NameOf,       \* the names of keys and groups, unique for an owner only
  Served,      \* the configurations served: [routes -> SUBSET Features]
  Times, Now,   \* the instants of events, and the time of the queries
  Offsets,      \* the offsets of the viewers' time zones
  Lengths,      \* the units in an hour, a day and a week
  MonthStarts,  \* the first instants of the months
  Spans,        \* the longest periods shown in hours, days and weeks
  MaxRows,      \* bound: rows
  MaxBuckets    \* as many buckets as a chart can have

Unset == -1

\* What is counted on the cards of a project and of its routes.
Metrics == {"fallback", "routing", "rate limit", "token limit", "duration limit"}

\* What a route may have: kinds of models, a cache, and what is counted.
Features == {"chat", "embeddings", "transcription", "decision", "exact", "semantic"} \cup Metrics

Kind(type, model, cache, cached, judge) ==
  [type |-> type, model |-> model, cache |-> cache, cached |-> cached, judge |-> judge]

\* The rows an answer of a model leaves: a call, its input and its output.
ModelKinds ==
  {Kind("call", "", "", FALSE, FALSE), Kind("in", "chat", "", FALSE, FALSE),
   Kind("in", "chat", "read", TRUE, FALSE), Kind("out", "chat", "", FALSE, FALSE),
   Kind("in", "embeddings", "", FALSE, FALSE), Kind("in", "embeddings", "semantic", FALSE, FALSE),
   Kind("in", "decision", "", FALSE, FALSE)}

\* A judge's rows do not tell a cached token by a cache type.
JudgeKinds ==
  {Kind("in", "chat", "", cached, TRUE) : cached \in BOOLEAN} \cup {Kind("out", "chat", "", FALSE, TRUE)}

\* A transcription is billed by the second, or for audio, text and output.
TranscriptionKinds ==
  {Kind("in", "transcription", c, FALSE, FALSE) : c \in {"", "duration", "audio"}}
    \cup {Kind("out", "transcription", "", FALSE, FALSE)}

\* What an answer from a cache saved.
CacheKinds ==
  {Kind(t, "", c, FALSE, FALSE) : t \in {"saved in", "saved out"}, c \in {"exact", "semantic"}}

\* A call to an MCP server, and how a request ended: an MCP error is an error
\* although its status is 200.
McpKinds == {Kind("mcp", "", "", FALSE, FALSE)}
OutcomeKinds == {Kind(t, "", "", FALSE, FALSE) : t \in {"succeeded", "failed"}}

AllKinds ==
  ModelKinds \cup JudgeKinds \cup TranscriptionKinds \cup CacheKinds \cup McpKinds
    \cup OutcomeKinds \cup {Kind(t, "", "", FALSE, FALSE) : t \in Metrics}

Row == [kind : AllKinds, route : Routes, key : Keys, group : Groups, at : Times]

\* What the tables guarantee of every row, and the bounds of the model.
WellFormed ==
  /\ Arrivals \subseteq Row
  /\ Keys \cup Groups \subseteq Nat
  /\ Times \subseteq 0 .. Now
  /\ {Now, MaxRows} \subseteq Nat
  /\ Offsets \subseteq Int
  /\ Lengths \in [{"hours", "days", "weeks"} -> Nat \ {0}]
  /\ Spans \in [{"hours", "days", "weeks"} -> Nat]
  /\ MonthStarts \subseteq Nat /\ 0 \in MonthStarts
  /\ \A m, n \in MonthStarts : m < n => m + Lengths.days <= n
  /\ \E m, n \in MonthStarts : Now < m /\ m < n

ASSUME DashboardsAssumption == WellFormed

VARIABLES
  rows,      \* the rows of ClickHouse
  served,    \* the configuration the project serves
  deleted,   \* the keys and groups that were deleted
  pages,     \* the entries of the key ranking a client has read, a page each
  fresh      \* no row arrived since the client read the first page

usageVars == <<rows, served, deleted, pages, fresh>>

UsageTypeOK ==
  /\ rows \subseteq Row
  /\ served \in Served
  /\ deleted \subseteq Keys \cup Groups
  /\ pages \in Seq(Keys \X Groups) /\ fresh \in BOOLEAN

-----------------------------------------------------------------------------
(* What the queries select and sum.                                         *)

Sum(S) == Cardinality(S)

\* The rows from f to t, both included; Unset stands for a bound not given.
Selected(f, t) == {r \in rows : (f = Unset \/ f <= r.at) /\ (t = Unset \/ r.at <= t)}

Spent(S) == {r \in S : r.kind.type \in {"in", "out"}}

Input(S, m) == {r \in S : r.kind.type = "in" /\ r.kind.model = m}

\* Mutant: the cached input of judges is not among the columns.
ChatCostNoJudgesCached(S) ==
  LET In(c, j) == Sum({r \in Input(S, "chat") : r.kind.cached = c /\ r.kind.judge = j})
  IN  In(FALSE, FALSE) + In(FALSE, TRUE) + In(TRUE, FALSE)
        + Sum({r \in S : r.kind.type = "out" /\ r.kind.model = "chat"})
ChatCost(S) ==
  LET In(c, j) == Sum({r \in Input(S, "chat") : r.kind.cached = c /\ r.kind.judge = j})
      direct == {r \in S : r.kind.type = "out" /\ r.kind.model = "chat" /\ ~r.kind.judge}
      judges == {r \in S : r.kind.type = "out" /\ r.kind.judge}
  IN  In(FALSE, FALSE) + In(FALSE, TRUE) + In(TRUE, FALSE) + In(TRUE, TRUE)
        + Sum(direct) + Sum(judges)

TranscriptionCost(S) ==
  LET In(c) == Sum({r \in Input(S, "transcription") : r.kind.cache = c})
  IN  In("duration") + In("audio") + In("")
        + Sum({r \in S : r.kind.type = "out" /\ r.kind.model = "transcription"})

\* The breakdown of a cost by the kinds of models.
Breakdown(S) ==
  [chat |-> ChatCost(S), transcription |-> TranscriptionCost(S),
   embeddings |-> Sum(Input(S, "embeddings")), decision |-> Sum(Input(S, "decision"))]

\* The grand total: the parts of the breakdown whose models the configuration has.
GrandTotal(S, features) ==
  LET parts == Breakdown(S)
  IN  MapThenSumSet(LAMBDA m : parts[m], features \cap DOMAIN parts)

Saved(S, c) ==
  Sum({r \in S : r.kind.type \in {"saved in", "saved out"} /\ r.kind.cache = c})

NetSaved(S) ==
  Saved(S, "semantic") - Sum({r \in S : r.kind.type = "in" /\ r.kind.cache = "semantic"})

Caching(features) == features \cap {"exact", "semantic"} # {}

-----------------------------------------------------------------------------
(* The pages of costs: of all routes one by one, and of the project.        *)

OfRoute(S, rt) == {r \in S : r.route = rt}

UsageTotal(S) ==
  MapThenSumSet(LAMBDA rt : GrandTotal(OfRoute(S, rt), served[rt]), DOMAIN served)

UsageSaved(S) ==
  MapThenSumSet(LAMBDA rt : Saved(OfRoute(S, rt), "exact") + NetSaved(OfRoute(S, rt)),
                {rt \in DOMAIN served : Caching(served[rt])})

ProjectFeatures == UNION Range(served)

SummaryTotal(S) == GrandTotal(S, ProjectFeatures)

SummarySaved(S) ==
  IF ~Caching(ProjectFeatures) THEN 0
  ELSE Saved(S, "exact") + (IF "semantic" \in ProjectFeatures THEN NetSaved(S) ELSE 0)

-----------------------------------------------------------------------------
(* The cards: what happened to the requests, of the project and of a route. *)

Happened(S, m) == {r \in S : r.kind.type = m}

\* A card counts what its routes, or its route, are configured to do.
Card(S, features, m) == IF m \in features THEN Cardinality(Happened(S, m)) ELSE Unset

ProjectCard(S, m) == Card(S, ProjectFeatures, m)
RouteCard(S, rt, m) == Card(OfRoute(S, rt), served[rt], m)
RouteCards(S, m) == [rt \in DOMAIN served |-> RouteCard(S, rt, m)]

\* The tokens of the cards: processed, and saved by a cache.
TokenTypes == {"in", "out", "saved in", "saved out"}
Tokens(S) == [t \in TokenTypes |-> Sum(Happened(S, t))]
RouteTokens(S, rt) == Tokens(OfRoute(S, rt))

\* The requests: served or not, what they failed of, and when the last one was.
RequestOutcomes(S) == {r \in S : r.kind.type \in {"succeeded", "failed"}}
RequestStats(S) ==
  [succeeded |-> Cardinality(Happened(S, "succeeded")),
   failed |-> Cardinality(Happened(S, "failed")),
   total |-> Cardinality(RequestOutcomes(S)),
   last |-> IF RequestOutcomes(S) = {} THEN Unset ELSE Max({r.at : r \in RequestOutcomes(S)})]
RouteStats(S, rt) == RequestStats(OfRoute(S, rt))

\* The latest n rows the table may return, of those that happened.
Latest(S, m, n) ==
  {T \in SUBSET Happened(S, m) :
     /\ Cardinality(T) = Min({n, Cardinality(Happened(S, m))})
     /\ \A r \in T, x \in Happened(S, m) \ T : r.at >= x.at}

\* The events listed for a route: of what it is configured to do.
Listed(S, rt, m, n) ==
  IF m \in served[rt] THEN Latest(OfRoute(S, rt), m, n) ELSE {{}}

LastEvents(S, m) == UNION Latest(S, m, 1)

-----------------------------------------------------------------------------
(* Buckets: the database truncates the time of a row, the service walks     *)
(* from the first bucket of the period to its end.                          *)

Truncate(x, g) ==
  IF g = "months" THEN Max({m \in MonthStarts : m <= x}) ELSE x - (x % Lengths[g])

Bucket(x, g, o) == Truncate(x + o, g) - o

Advance(b, g, o) ==
  IF g = "months" THEN Min({m \in MonthStarts : m > b + o}) - o ELSE b + Lengths[g]

Granularity(f, t) ==
  LET span == (IF t = Unset THEN Now ELSE t) - f
  IN  CASE f = Unset -> "weeks"
        [] f # Unset /\ span <= Spans.hours -> "hours"
        [] f # Unset /\ span > Spans.hours /\ span <= Spans.days -> "days"
        [] f # Unset /\ span > Spans.days /\ span <= Spans.weeks -> "weeks"
        [] OTHER -> "months"

\* A period a viewer asks for: its bounds, the offset of its start (none when
\* it has no start), and the granularity it is charted in.
Periods ==
  {p \in [from : Times \cup {Unset}, to : Times \cup {Unset}, offset : Offsets \cup {0}] :
     /\ p.from = Unset => p.offset = 0
     /\ p.to = Unset \/ p.from <= p.to}

Step(p) == Granularity(p.from, p.to)
In(p) == Selected(p.from, p.to)
At(p, r) == Bucket(r.at, Step(p), p.offset)

\* Mutant: the first bucket is cut in the time zone of the server.
AxisUnshifted(p, S) ==
  LET first == IF p.from = Unset THEN Min({At(p, r) : r \in S}) ELSE p.from
      last == IF p.to = Unset THEN Now ELSE p.to
      Walk(n, seen) ==
        LET next == Advance(Max(seen), Step(p), p.offset)
        IN  IF next <= last THEN seen \cup {next} ELSE seen
  IN  FoldSet(Walk, {Bucket(first, Step(p), 0)}, 1 .. MaxBuckets)
\* The buckets of a chart, from the one of the period's start, or of the first
\* row when the period has none, while they start within the period.
Axis(p, S) ==
  LET first == IF p.from = Unset THEN Min({At(p, r) : r \in S}) ELSE p.from
      last == IF p.to = Unset THEN Now ELSE p.to
      Walk(n, seen) ==
        LET next == Advance(Max(seen), Step(p), p.offset)
        IN  IF next <= last THEN seen \cup {next} ELSE seen
  IN  FoldSet(Walk, {Bucket(first, Step(p), p.offset)}, 1 .. MaxBuckets)

-----------------------------------------------------------------------------
(* The charts.  Each selects rows and sums them per series and bucket.      *)

Charts == {"costs of keys", "costs of groups", "costs of a route", "invocations", "tokens",
           "outcomes", "requests of a route", "errors of a route", "mcp keys", "mcp groups"}

\* The most expensive of the configured routes.
MostExpensive(S) ==
  CHOOSE rt \in DOMAIN served : \A other \in DOMAIN served :
    Sum(Spent(OfRoute(S, rt))) >= Sum(Spent(OfRoute(S, other)))

MostRequested(S) ==
  CHOOSE rt \in DOMAIN served : \A other \in DOMAIN served :
    RouteStats(S, rt).total >= RouteStats(S, other).total

\* The route with the highest share of failures, if any failed.
MostFailing(S) ==
  CHOOSE rt \in DOMAIN served : \A other \in DOMAIN served :
    LET mine == RouteStats(S, rt) its == RouteStats(S, other)
    IN  its.failed > 0 => mine.total > 0 /\ mine.failed * its.total >= its.failed * mine.total

CostsOfRoute(S) == Spent(OfRoute(S, MostExpensive(S)))
ModelInvocations(S) == {r \in S : r.kind.type = "call"}
TokensProcessed(S) == Spent(S)
RequestsOfRoute(S) == RequestOutcomes(OfRoute(S, MostRequested(S)))
ErrorsOfRoute(S) == Happened(OfRoute(S, MostFailing(S)), "failed")
McpInvocations(S) == {r \in S : r.kind.type = "mcp"}

Charted(c, S) ==
  CASE c \in {"costs of keys", "costs of groups"} -> Spent(S)
    [] c = "costs of a route" -> CostsOfRoute(S)
    [] c = "invocations" -> ModelInvocations(S)
    [] c = "tokens" -> TokensProcessed(S)
    [] c = "outcomes" -> RequestOutcomes(S)
    [] c = "requests of a route" -> RequestsOfRoute(S)
    [] c = "errors of a route" -> ErrorsOfRoute(S)
    [] OTHER -> McpInvocations(S)

\* A deleted key or group is named after the first digits of its uuid.
Title(e) == IF e \in deleted THEN <<"deleted", e>> ELSE <<"named", NameOf[e]>>

\* What a chart groups its rows by.
TokenSeries(r) == IF r.kind.type = "in" THEN "INPUT" ELSE "OUTPUT"
OutcomeSeries(r) == IF r.kind.type = "succeeded" THEN "success" ELSE "error"
Entity(c, r) == IF c \in {"costs of keys", "mcp keys"} THEN r.key ELSE r.group
Series(c, r) ==
  CASE c \in {"costs of keys", "mcp keys", "costs of groups", "mcp groups"} -> Entity(c, r)
    [] c = "tokens" -> TokenSeries(r)
    [] c = "outcomes" -> OutcomeSeries(r)
    [] OTHER -> "all"

\* Series appear in the order of their first bucket, then of their value.
AppearsBefore(p, c, S, e1, e2) ==
  LET first(e) == Min({At(p, r) : r \in {x \in S : Series(c, x) = e}})
  IN  first(e1) < first(e2) \/ (first(e1) = first(e2) /\ e1 < e2)

\* The costs of keys and of groups are shown under their titles: of two with
\* the same title, the one that appears later overwrites the other's buckets.
Overwritten(p, c, S, r) ==
  /\ c \in {"costs of keys", "costs of groups"}
  /\ \E x \in S : /\ Series(c, x) # Series(c, r) /\ Title(Series(c, x)) = Title(Series(c, r))
                  /\ At(p, x) = At(p, r)
                  /\ AppearsBefore(p, c, S, Series(c, r), Series(c, x))

\* The rows the series of a chart show; the total beside them is that of all
\* the rows charted.
Shown(p, c, S) ==
  IF S = {} THEN {}
  ELSE LET axis == Axis(p, S)
       IN  {r \in S : At(p, r) \in axis /\ ~Overwritten(p, c, S, r)}

Bar(p, c, S, e, b) == {r \in S : Series(c, r) = e /\ At(p, r) = b}

\* Mutant: a week is taken for a day.
BucketEndDay(b, g) == b + (IF g = "weeks" THEN Lengths.days ELSE Lengths[g])
\* The drill-down of a bar asks for the rows from its bucket's start to one
\* step later, both included; a month later is the same day of the next month.
BucketEnd(b, g) ==
  LET start == Max({m \in MonthStarts : m <= b})
      next == Min({m \in MonthStarts : m > b})
      after == Min({m \in MonthStarts : m > next})
      day == Min({(b - start) \div Lengths.days, (after - next) \div Lengths.days - 1})
  IN  IF g # "months" THEN b + Lengths[g]
      ELSE next + (day * Lengths.days) + ((b - start) % Lengths.days)

DrillDown(c, e, b, g) ==
  {r \in Spent(rows) : Series(c, r) = e /\ b <= r.at /\ r.at <= BucketEnd(b, g)}

-----------------------------------------------------------------------------
(* The keys that call the MCP servers, ranked by calls, then by the last    *)
(* call, then by uuid.  A key that changed its group has an entry for each. *)

McpCalls(e) == {r \in McpInvocations(rows) : <<r.key, r.group>> = e}
Entries == {<<r.key, r.group>> : r \in McpInvocations(rows)}
LastCall(e) == Max({r.at : r \in McpCalls(e)})

\* Mutant: the ranking is ordered by the number of calls alone.
RanksBeforeByCount(e1, e2) == Cardinality(McpCalls(e1)) > Cardinality(McpCalls(e2))
RanksBefore(e1, e2) ==
  LET n1 == Cardinality(McpCalls(e1)) n2 == Cardinality(McpCalls(e2))
  IN  \/ n1 > n2
      \/ n1 = n2 /\ LastCall(e1) > LastCall(e2)
      \/ n1 = n2 /\ LastCall(e1) = LastCall(e2) /\ e1[1] < e2[1]

\* The entries a query may return at place n: those that tie come in any order.
Place(n) ==
  {e \in Entries :
     /\ Cardinality({x \in Entries : RanksBefore(x, e)}) < n
     /\ Cardinality({x \in Entries : RanksBefore(e, x)}) <= Cardinality(Entries) - n}

-----------------------------------------------------------------------------
UsageInit ==
  /\ rows = {} /\ served \in Served /\ deleted = {}
  /\ pages = <<>> /\ fresh = TRUE

\* A row reaches the table: of a request some configuration served any time
\* ago, made with a key that may since have moved to another group or be gone.
Record(a) ==
  /\ a \notin rows /\ Cardinality(rows) < MaxRows
  /\ rows' = rows \cup {a}
  /\ fresh' = FALSE
  /\ UNCHANGED <<served, deleted, pages>>

Configure(c) ==
  /\ served' = c
  /\ UNCHANGED <<rows, deleted, pages, fresh>>

Delete(e) ==
  /\ deleted' = deleted \cup {e}
  /\ UNCHANGED <<rows, served, pages, fresh>>

\* A client reads the first page of the key ranking, or the next; one entry each.
FirstPage ==
  /\ \E e \in Place(1) : pages' = <<e>>
  /\ fresh' = TRUE
  /\ UNCHANGED <<rows, served, deleted>>

NextPage ==
  /\ pages # <<>>
  /\ \E e \in Place(Len(pages) + 1) : pages' = Append(pages, e)
  /\ UNCHANGED <<rows, served, deleted, fresh>>

UsageNext ==
  \/ \E a \in Arrivals : Record(a)
  \/ \E c \in Served : Configure(c)
  \/ \E e \in Removable : Delete(e)
  \/ FirstPage
  \/ NextPage

UsageSpec == UsageInit /\ [][UsageNext]_usageVars

-----------------------------------------------------------------------------
(* Properties.                                                              *)

\* The cards of the project and of its routes tell of the same events: one the
\* project's card counts is counted by the card of its route, unless the route
\* is gone or no longer does such things; and the last event of a card is the
\* first of the latest ones listed (get_total_counter, get_counter_per_route,
\* get_latest_n_per_event_type).
CardsAgree ==
  \A S \in {In(p) : p \in Periods}, m \in Metrics \cap ProjectFeatures :
    LET counting == {rt \in DOMAIN served : m \in served[rt]}
    IN  /\ ProjectCard(S, m) = MapThenSumSet(LAMBDA rt : RouteCards(S, m)[rt], counting)
                                 + Cardinality({r \in Happened(S, m) : r.route \notin counting})
        /\ \A rt \in counting, n \in 1 .. 2 : \A T \in Listed(S, rt, m, n) :
             T # {} => {r.at : r \in LastEvents(OfRoute(S, rt), m)} = {Max({r.at : r \in T})}

\* The pages of costs add up, whichever configuration is served when they are
\* read: what a page leaves out of the money the charts show is what was spent
\* on kinds of models its routes do not have (a route that is gone, the
\* embeddings of a semantic cache on a route without embedding models), and no
\* row is counted twice; while every cache event is of the caching its route
\* still has, the savings of the routes are those of the project
\* (CostDataDTO.from_dao, get_all_routes_costs, get_summary_costs).
CostsAgree ==
  \A S \in {In(p) : p \in Periods} :
    LET left(r) == r.route \notin DOMAIN served \/ r.kind.model \notin served[r.route]
        lost == {r \in Spent(S) : left(r)}
        cached == {r \in S : r.kind.cache \in {"exact", "semantic"}}
    IN  /\ UsageTotal(S) + Sum(lost) = Sum(Spent(S))
        /\ SummaryTotal(S) = UsageTotal(S) + Sum({r \in lost : r.kind.model \in ProjectFeatures})
        /\ (\A r \in cached : r.route \in DOMAIN served /\ r.kind.cache \in served[r.route])
             => UsageSaved(S) = SummarySaved(S)

\* The tokens and requests of the project are those of its routes and of routes
\* that are gone, and a page that names the most requested or the most failing
\* route names one whenever the configured routes have requests, or failures
\* (get_tokens_by_model, get_request_stats_global, get_most_route_with_error).
RequestsAgree ==
  \A S \in {In(p) : p \in Periods} :
    LET known == {r \in S : r.route \in DOMAIN served}
        Adds(whole, OfOne(_), rest) == whole = MapThenSumSet(OfOne, DOMAIN served) + rest
    IN  /\ \A t \in TokenTypes :
             Adds(Tokens(S)[t], LAMBDA rt : RouteTokens(S, rt)[t], Tokens(S \ known)[t])
        /\ \A f \in {"succeeded", "failed", "total"} :
             Adds(RequestStats(S)[f], LAMBDA rt : RouteStats(S, rt)[f], RequestStats(S \ known)[f])
        /\ RequestsOfRoute(S) = {} <=> RequestOutcomes(known) = {}
        /\ ErrorsOfRoute(S) = {} <=> Happened(known, "failed") = {}

\* What one page of the dashboards says agrees with what the others say.
TotalsAgree == CardsAgree /\ CostsAgree /\ RequestsAgree

\* Every chart shows what its total says: each bucket the database makes is one
\* the service walks over, in every time zone, granularity and period, and no
\* row falls out of the picture, but for the costs of one of two keys or groups
\* with the same title and a bucket in common (get_costs_chart_data,
\* generate_chart_timestamps).
ChartsAddUp ==
  \A p \in Periods, c \in Charts :
    LET S == Charted(c, In(p)) IN
    \A r \in S \ Shown(p, c, S) :
      /\ c \in {"costs of keys", "costs of groups"}
      /\ \E x \in Shown(p, c, S) : /\ Title(Series(c, x)) = Title(Series(c, r))
                                  /\ Series(c, x) # Series(c, r) /\ At(p, x) = At(p, r)

\* The drill-down of a bar that lies within the period of its chart shows the
\* rows of the bar, and those at the very start of the next bar too; only the
\* months of a time zone other than that of the server may differ, where a
\* month after the start of a bar is not the end of it (get_cost_breakdown,
\* get_bucket_end_timestamp).
DrillDownsAgree ==
  \A p \in Periods, c \in {"costs of keys", "costs of groups"} :
    LET S == Charted(c, In(p)) IN
    S # {} /\ (Step(p) = "months" => p.offset = 0) =>
      \A r \in S :
        LET e == Series(c, r) b == At(p, r) end == Advance(b, Step(p), p.offset)
        IN  (p.from = Unset \/ p.from <= b) /\ end <= (IF p.to = Unset THEN Now ELSE p.to) + 1
              => DrillDown(c, e, b, Step(p)) =
                   Bar(p, c, S, e, b) \cup {x \in Spent(rows) : Series(c, x) = e /\ x.at = end}

\* A client that reads the pages of the key ranking one by one, while no row
\* arrives, sees no entry twice and in the end has seen them all, unless a key
\* that moved ties with itself (get_mcp_key_usage_paginated's total order).
PagesOnce ==
  LET tied == \E e1, e2 \in Entries :
        /\ e1 # e2 /\ e1[1] = e2[1] /\ LastCall(e1) = LastCall(e2)
        /\ Cardinality(McpCalls(e1)) = Cardinality(McpCalls(e2))
  IN  fresh /\ ~tied =>
        /\ \A i, j \in DOMAIN pages : i # j => pages[i] # pages[j]
        /\ Len(pages) = Cardinality(Entries) => Range(pages) = Entries
=============================================================================
