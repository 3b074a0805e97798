-------------------------------- MODULE Charts --------------------------------
(***************************************************************************)
(* What the leaderboard shows of a run (web/leaderboard.py): its result,   *)
(* its rank, its series by day, its sums by week and month, the coverage   *)
(* of its runtime health, and the merge of charts built apart.             *)
(*                                                                         *)
(* The data of a run is a record:                                          *)
(*   points   the metrics of its ticks, from tick 0: [assets, profit, gmv, *)
(*            shelf, orders], cumulative but for the shelf; a run recorded *)
(*            by an older version (old) has no profit                      *)
(*   orders, ops   sequences of [t, product, bad] and [t, kind, product]   *)
(*   trace    by step, a sequence of [owner, kind, tool, n]: a call, a     *)
(*            result ("ok" or "failed", n its execution), or a "turn" or   *)
(*            one that "gave_up" (n the failed attempts of its model)      *)
(*   told     the failures of calls the server noted: [t, early], early if *)
(*            the step was not open                                        *)
(*   marker   tick from which it notes them, or Never                      *)
(*   declared "none", or what the agent says of its model's failures:      *)
(*            "reported" or "not_applicable"                               *)
(*   days     days of the first month gone before the run starts, or Never *)
(* A ratio is a pair; a value that may be missing is a set of at most one. *)
(***************************************************************************)
EXTENDS Integers, SequencesExt, FiniteSetsExt

CONSTANTS
  Products, Tools,
  ListingTools,      \* the tools that act on listings
  SourcingTools,     \* SOURCING_TOOL_CALL_SPECS
  DayTicks, WeekDays, MonthDays,
  Period,            \* agent.activation_period
  Horizon,           \* run.horizon_steps
  Capital,           \* initial cash and deposit
  ShelfCapacity,     \* platform_rules.max_active_listings
  MaxPoints          \* points of a sampled series

ASSUME ChartsAssumption ==
  /\ {DayTicks, WeekDays, MonthDays, Period, Horizon, ShelfCapacity} \subseteq Nat \ {0}
  /\ MaxPoints \in Nat \ {0, 1} /\ Capital \in Int
  /\ "end_of_step" \in Tools /\ ListingTools \cap SourcingTools = {}
  /\ ListingTools \cup SourcingTools \subseteq Tools \ {"end_of_step"}

Never == -1
Me == "agent_0"
Grains == {"weeks", "months"}
Turns == {"turn", "gave_up"}
Total(f) == MapThenSumSet(LAMBDA x : f[x], DOMAIN f)
Count(S) == Cardinality(S)

-----------------------------------------------------------------------------
(* Buckets of time.                                                        *)

Day(u) == u \div DayTicks
Week(u) == Day(u) \div WeekDays + 1
Gone(d) == IF d.days = Never THEN 0 ELSE d.days
Month(d, u) == (Day(u) + Gone(d)) \div MonthDays + 1
MonthBounds(d, m) ==
  [from |-> Max({0, (m - 1) * MonthDays - Gone(d)}) * DayTicks, to |-> (m * MonthDays - Gone(d)) * DayTicks]

Bucket(d, g, u) == IF g = "weeks" THEN Week(u) ELSE Month(d, u)
Bounds(d, g, b) ==
  IF g = "weeks" THEN [from |-> (b - 1) * WeekDays * DayTicks, to |-> b * WeekDays * DayTicks]
  ELSE MonthBounds(d, b)

-----------------------------------------------------------------------------
(* Series by day.                                                          *)

Ticks(d) == 0 .. Len(d.points) - 1
Series(d, key) ==
  IF key = "profit" /\ d.old THEN <<>>
  ELSE [u \in Ticks(d) |-> d.points[u + 1][key]]

\* The first point and the last of every day.
DayLasts(s) ==
  LET kept == {u \in DOMAIN s : u = Min(DOMAIN s) \/ \A v \in DOMAIN s : Day(v) = Day(u) => v <= u}
  IN [u \in kept |-> s[u]]

Line(d, key) == DayLasts(Series(d, key))

\* The mean of a day, with the number of its ticks as its weight.
DailyAverages(d) ==
  LET s == {u \in Ticks(d) : u < Horizon}
  IN [day \in {Day(u) : u \in s} |->
        [sum   |-> MapThenSumSet(LAMBDA u : d.points[u + 1].shelf, {v \in s : Day(v) = day}),
         ticks |-> Count({v \in s : Day(v) = day})]]

CumOrders(d, ends) == [u \in ends |-> Count({k \in DOMAIN d.orders : d.orders[k].t <= u})]
CumAnomalies(d, ends) == [u \in ends |-> Count({k \in DOMAIN d.orders : d.orders[k].bad /\ d.orders[k].t <= u})]

\* Older runs: what the assets have gained.
ProfitLine(d) ==
  LET profit == Line(d, "profit")  assets == Line(d, "assets")
  IN IF DOMAIN profit # {} THEN profit ELSE [u \in DOMAIN assets |-> assets[u] - Capital]

\* A bounded series keeps the first point, the last, and those where the
\* scaled position moves on.
Sampled(S) ==
  LET n == Count(S)
      at(u) == Count({v \in S : v < u})
      scaled(k) == (k * (MaxPoints - 1)) \div (n - 1)
  IN {u \in S : \/ n <= MaxPoints
                \/ at(u) \in {0, n - 1}
                \/ scaled(at(u)) # scaled(at(u) - 1)}

\* The mean over the shelf, where there is something on it.
Averages(d) ==
  LET seen == Sampled({u \in Ticks(d) : d.points[u + 1].shelf > 0})
  IN [u \in seen |-> d.points[u + 1].shelf]

-----------------------------------------------------------------------------
(* The agent's trace.                                                      *)

Mine(d, s) == {k \in DOMAIN d.trace[s] : d.trace[s][k].owner = Me}
Calls(d, s) == {k \in Mine(d, s) : d.trace[s][k].kind = "call"}

\* Mutant of Repeated: a result is counted in every file that holds it.
RepeatedNever(d, s, k) == FALSE

\* A result that an earlier message or file already holds.
Repeated(d, s, k) ==
  \E u \in DOMAIN d.trace : \E j \in Mine(d, u) :
    /\ u < s \/ (u = s /\ j < k)
    /\ d.trace[u][j].kind \in {"ok", "failed"} /\ d.trace[u][j].n = d.trace[s][k].n

StepCounts(d) ==
  LET with(s, P(_)) == {k \in Mine(d, s) : P(d.trace[s][k])}
  IN [s \in {u \in DOMAIN d.trace : \E k \in Mine(d, u) : d.trace[u][k].kind \in {"call"} \cup Turns} |->
       [counts   |-> [x \in Tools \ {"end_of_step"} |-> Count({k \in Calls(d, s) : d.trace[s][k].tool = x})],
        total    |-> Count(Calls(d, s)),
        failures |-> Count({k \in with(s, LAMBDA m : m.kind = "failed" /\ m.tool # "end_of_step") :
                              ~Repeated(d, s, k)}),
        provider |-> MapThenSumSet(LAMBDA k : d.trace[s][k].n, with(s, LAMBDA m : m.kind \in Turns)),
        retries  |-> Count(with(s, LAMBDA m : m.kind = "gave_up")),
        reported |-> with(s, LAMBDA m : m.kind \in Turns) # {}]]

Effective(c) == Total(c.counts) > 0
\* Below, c are the counts of a run's steps.
SumCounts(c) ==
  [x \in Tools \ {"end_of_step"} |-> MapThenSumSet(LAMBDA s : c[s].counts[x], DOMAIN c)]
DailyCounts(c) ==
  [day \in {Day(s) : s \in DOMAIN c} |->
     [x \in Tools \ {"end_of_step"} |->
        MapThenSumSet(LAMBDA s : c[s].counts[x], {u \in DOMAIN c : Day(u) = day})]]

\* The hooks that were due, by bucket; a traced one counts in any case.
Windows(d, c, g) ==
  LET in(u) == IF g = "days" THEN Day(u) ELSE Bucket(d, g, u)
      done == Min({Horizon, Max({d.t} \cup {s + 1 : s \in DOMAIN c})})
      due == {u \in 0 .. done - 1 : u % Period = 0}
  IN [b \in {in(u) : u \in due \cup DOMAIN c} |->
        Max({Count({u \in due : in(u) = b}), Count({u \in DOMAIN c : in(u) = b})})]

Activity(d, c) ==
  LET windows == Total(Windows(d, c, "weeks"))
  IN [rate  |-> IF windows = 0 THEN {} ELSE {<<Min({windows, Count({s \in DOMAIN c : Effective(c[s])})}), windows>>},
      calls |-> {MapThenSumSet(LAMBDA s : c[s].total, DOMAIN c)}]

DailyActivity(d, c) ==
  LET windows == Windows(d, c, "days")
      on(day) == {s \in DOMAIN c : Day(s) = day}
  IN [day \in DOMAIN windows |->
       [windows   |-> windows[day],
        effective |-> Min({windows[day], Count({s \in on(day) : Effective(c[s])})}),
        calls     |-> MapThenSumSet(LAMBDA s : c[s].total, on(day))]]

ToolMetrics(d, c, g, windows) ==
  LET on(b) == {s \in DOMAIN c : Bucket(d, g, s) = b}
      calls(b, X) == MapThenSumSet(LAMBDA s : MapThenSumSet(LAMBDA x : c[s].counts[x], X), on(b))
  IN [effective_window_rate |-> [b \in DOMAIN windows |-> <<Count({s \in on(b) : Effective(c[s])}), windows[b]>>],
      total_tool_calls      |-> [b \in DOMAIN windows |-> MapThenSumSet(LAMBDA s : c[s].total, on(b))],
      listing_action_calls  |-> [b \in DOMAIN windows |-> calls(b, ListingTools)],
      sourcing_calls        |-> [b \in DOMAIN windows |-> calls(b, SourcingTools)]]

-----------------------------------------------------------------------------
(* Runtime health and how much of it is known.                             *)

Level == [unavailable |-> 0, partial |-> 1, complete |-> 2]
Weaker(a, b) == IF Level[a] <= Level[b] THEN a ELSE b
Stronger(a, b) == IF Level[a] >= Level[b] THEN a ELSE b

CoverageFrom(bounds, start) ==
  CASE start = Never         -> "unavailable"
    [] start <= bounds.from  -> "complete"
    [] start < bounds.to     -> "partial"
    [] OTHER                 -> "unavailable"

TraceCoverage(expected, traced) ==
  CASE expected > 0 /\ traced >= expected -> "complete"
    [] traced > 0                         -> "partial"
    [] OTHER                              -> "unavailable"

Health(d, c, g, windows) ==
  LET bucket(u) == Bucket(d, g, u)
      on(b) == {s \in DOMAIN c : bucket(s) = b}
      told(b) == Count({k \in DOMAIN d.told : bucket(d.told[k].t) = b})
      reporting == {s \in DOMAIN c : c[s].reported}
      failures(b) == MapThenSumSet(LAMBDA s : c[s].failures, on(b))
      retries(b) == MapThenSumSet(LAMBDA s : c[s].retries, on(b))
      attempts(b) == MapThenSumSet(LAMBDA s : c[s].provider, on(b)) + told(b)
      ended(b) == Count({s \in on(b) : c[s].retries > 0}
                        \cup {d.told[k].t : k \in {j \in DOMAIN d.told : d.told[j].early /\ bucket(d.told[j].t) = b}})
                  + Max({0, windows[b] - Count(on(b))})
      \* how much is known, from the trace, the server's notes and the agent
      noted(b) == CoverageFrom(Bounds(d, g, b), d.marker)
      traced(b) == TraceCoverage(windows[b], Count(on(b)))
      since(b) == CoverageFrom(Bounds(d, g, b), IF reporting = {} THEN Never ELSE Min(reporting))
      claimed(b) == CASE d.declared = "none"           -> "unavailable"
                      [] d.marker = Never              -> "partial"
                      [] d.declared = "not_applicable" -> noted(b)
                      [] OTHER                         -> Weaker(noted(b), traced(b))
      model(b) == Stronger(claimed(b), Weaker(since(b), traced(b)))
      server(b) == CASE d.marker = Never /\ d.told = <<>>          -> "unavailable"  \* no file
                     [] d.marker = Never                           -> "partial"
                     [] noted(b) = "unavailable" /\ told(b) > 0    -> "partial"
                     [] OTHER                                      -> noted(b)
      both(b) == IF server(b) = model(b) THEN server(b) ELSE "partial"
      due(b) == IF windows[b] > 0 THEN "partial" ELSE "unavailable"
      level(known(_)) == [b \in DOMAIN windows |-> known(b)]
      shown(value(_), known(_)) == [b \in {x \in DOMAIN windows : known(x) # "unavailable"} |-> value(b)]
  IN [values   |-> [tool_call_failures     |-> shown(failures, traced),
                    retry_exhausted        |-> shown(retries, model),
                    api_failed_attempts    |-> shown(attempts, both),
                    abnormal_ended_windows |-> shown(ended, due)],
      coverage |-> [tool_call_failures     |-> level(traced),
                    retry_exhausted        |-> level(model),
                    api_failed_attempts    |-> level(both),
                    abnormal_ended_windows |-> level(due)]]

-----------------------------------------------------------------------------
(* Sums by week and month.                                                 *)

\* The last value of a bucket less the last of the bucket before it.
Deltas(d, g, s, initial) ==
  LET in(b) == {u \in DOMAIN s : Bucket(d, g, u) = b}
      known == {Bucket(d, g, u) : u \in DOMAIN s}
      last(b) == s[Max(in(b))]
      before(b) == {x \in known : x < b}
  IN [b \in known |-> last(b) - (IF before(b) = {} THEN initial ELSE last(Max(before(b))))]

ProfitDeltas(d, g) ==
  LET profit == Deltas(d, g, Series(d, "profit"), 0)
  IN IF DOMAIN profit # {} THEN profit ELSE Deltas(d, g, Series(d, "assets"), Capital)

\* What entered and left the shelf; of a product that is listed without an
\* event, its row in the table of listings.
ShelfSource(d) ==
  LET told == {d.ops[k].product : k \in {j \in DOMAIN d.ops : d.ops[j].kind = "list"}}
  IN SetToSortSeq({[t |-> d.listed[p], kind |-> "list", product |-> p] : p \in DOMAIN d.listed \ told},
                  LAMBDA a, b : a.t < b.t \/ (a.t = b.t /\ a.product <= b.product)) \o d.ops

ShelfMetrics(d, source, g, shown) ==
  LET bucket(k) == Bucket(d, g, source[k].t)
      about(p, b) == {k \in DOMAIN source : source[k].product = p /\ bucket(k) <= b}
      first(p) == Min({bucket(k) : k \in {j \in DOMAIN source : source[j].product = p /\ source[j].kind = "list"}})
      \* the last event by tick, then by position
      last(p, b) == CHOOSE k \in about(p, b) : \A j \in about(p, b) :
                      source[j].t < source[k].t \/ (source[j].t = source[k].t /\ j <= k)
      shelf(b) == Count({p \in Products : about(p, b) # {} /\ source[last(p, b)].kind = "list"})
      sold(b) == Count({d.orders[k].product : k \in {j \in DOMAIN d.orders : Bucket(d, g, d.orders[j].t) = b}})
      ever == {p \in Products : \E k \in DOMAIN source : source[k].product = p /\ source[k].kind = "list"}
  IN [shelf_product_count            |-> [b \in shown |-> shelf(b)],
      shelf_utilization_rate         |-> [b \in shown |-> <<shelf(b), ShelfCapacity>>],
      sell_through_active_shelf_rate |-> [b \in {x \in shown : shelf(x) > 0} |-> <<sold(b), shelf(b)>>],
      weekly_new_unique_products     |-> [b \in shown |-> Count({p \in ever : first(p) = b})]]

\* What is shown of the periods of a run, and how much of it is known.
Periods(d, c, g) ==
  LET windows == Windows(d, c, g)
      health == Health(d, c, g, windows)
  IN [values   |-> ToolMetrics(d, c, g, windows) @@ ShelfMetrics(d, ShelfSource(d), g, DOMAIN windows) @@ health.values
                   @@ [weekly_gmv |-> Deltas(d, g, Series(d, "gmv"), 0), weekly_profit |-> ProfitDeltas(d, g)],
      coverage |-> health.coverage]
=============================================================================
