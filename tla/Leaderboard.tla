----------------------------- MODULE Leaderboard ------------------------------
(***************************************************************************)
(* The leaderboard of the dashboard while runs start, step, end, crash and *)
(* are deleted (web/routes_dashboard.py, web/leaderboard.py): requests     *)
(* assemble a payload from the results and charts of ended runs kept in    *)
(* memory and in a file, and from those of live runs built anew.           *)
(***************************************************************************)
EXTENDS Charts

CONSTANTS
  Runs,        \* numbers; the newest run has the largest
  Readers,     \* requests that may run at once
  Limits       \* bounds of a behaviour: sets of [runs (that start), ticks, moves (of money), orders, ops,
               \* words (of agents), asks, ends, deletes, crashes, bills, faults, reads]

ASSUME LeaderboardAssumption ==
  /\ Runs \subseteq Nat
  /\ Limits \subseteq [{"runs", "ticks", "moves", "orders", "ops", "words", "asks", "ends", "deletes",
                        "crashes", "bills", "faults", "reads"} -> Nat]

VARIABLES
  row,       \* tables runs: [status, t, ended]; ended is finished_at, or Never
  data,      \* the data of a run, see Charts
  open,      \* runs with a transition whose tick has not been counted yet
  worker,    \* runs with a thread
  bill,      \* cost.json: number of entries
  terminal,  \* terminal_cache: [loaded, ends, results, charts]
  file,      \* its copy on disk
  board,     \* leaderboard_cache: [structure, progress, payload, fresh]
  locked,    \* leaderboard_lock
  ask,       \* per reader: where its request is and what it holds
  noted,     \* per run: what a reader of its trace noted first, or Nothing
  counted,   \* the cache of counted traces: run -> [sign, counts]
  late,      \* runs with data newer than their end
  used,      \* how much of each bound is used
  limit

vars == <<row, data, open, worker, bill, terminal, file, board, locked, ask, noted, counted, late, used, limit>>
run == <<row, data, open, worker, bill, late>>
cached == <<terminal, file>>
pages == <<board, locked, ask>>
traces == <<noted, counted>>

Nothing == <<>>
Use(what) == /\ used[what] < limit[what]
             /\ used' = [used EXCEPT ![what] = @ + 1]

Ended == {"stopped", "finished"}
Exists(r) == row[r].status # "deleted"

\* The rows a request lists: those of the runs that exist.
Rows == [r \in {x \in Runs : Exists(x)} |-> row[r]]

-----------------------------------------------------------------------------
(* Results and ranks.                                                      *)

Profit(d) == LET last == d.points[Len(d.points)] IN IF d.old THEN last.assets - Capital ELSE last.profit

\* None of a run that has no metrics, has not started, or only claims to be
\* live; rates and calls are filled in with the charts.
Result(r) ==
  LET d == data[r]  last == d.points[Len(d.points)]
      on == {k \in 1 .. Len(d.points) : k <= Horizon}
  IN IF \/ d.points = <<>>
        \/ row[r].status \notin Ended \cup {"running"}
        \/ row[r].status = "running" /\ r \notin worker
     THEN {}
     ELSE {[assets |-> last.assets, profit |-> Profit(d), gmv |-> last.gmv,
            orders |-> Len(d.orders), anomalies |-> Count({k \in DOMAIN d.orders : d.orders[k].bad}),
            listings |-> <<MapThenSumSet(LAMBDA k : d.points[k].shelf, on), Count(on)>>,
            steps |-> Len(d.points), t |-> row[r].t, status |-> row[r].status, turns |-> bill[r],
            activity |-> Nothing]}

\* A deleted run is skipped.
Results(rs) == [r \in {x \in rs : Exists(x) /\ Result(x) # {}} |-> CHOOSE v \in Result(r) : TRUE]

Ahead(results, a, b) ==
  LET x == results[a]  y == results[b]
  IN \/ x.assets > y.assets
     \/ x.assets = y.assets /\ x.profit > y.profit
     \/ x.assets = y.assets /\ x.profit = y.profit /\ a > b
\* Best first; of equals, the newest.
Ranks(results) == [r \in DOMAIN results |-> 1 + Count({x \in DOMAIN results : Ahead(results, x, r)})]

-----------------------------------------------------------------------------
(* Charts of several runs.                                                 *)

NoCharts == [rows |-> <<>>, weeks |-> Nothing, months |-> Nothing]

\* The date all runs share, if they do.
CommonStart(rs) ==
  LET days == {data[r].days : r \in rs} IN IF Count(days) = 1 /\ Never \notin days THEN days ELSE {}

\* The lines of one run, and what its trace says.
RunSeries(d, c) ==
  LET ends == DOMAIN Line(d, "assets")
  IN [net_assets |-> Line(d, "assets"), cum_net_profit |-> ProfitLine(d), cum_gmv |-> Line(d, "gmv"),
      cum_orders |-> CumOrders(d, ends), cum_order_anomalies |-> CumAnomalies(d, ends),
      active_listings |-> DailyAverages(d), averages |-> Averages(d),
      counts |-> SumCounts(c), by_step |-> DailyCounts(c), activity_by_day |-> DailyActivity(d, c)]

\* What is known of the periods in which the run was active.
Overall(levels) ==
  CASE levels # {} /\ levels \subseteq {"complete"} -> "complete"
    [] levels \ {"unavailable"} # {}               -> "partial"
    [] OTHER                                        -> "unavailable"

PeriodRow(period, indices) ==
  LET m == period.values  h == period.coverage
      active == DOMAIN m.total_tool_calls
  IN [values   |-> [key \in DOMAIN m |-> [k \in DOMAIN indices |->
                      IF indices[k] \in DOMAIN m[key] THEN {m[key][indices[k]]} ELSE {}]],
      coverage |-> [key \in DOMAIN h |-> [k \in DOMAIN indices |->
                      IF indices[k] \in DOMAIN h[key] THEN h[key][indices[k]] ELSE "unavailable"]],
      active   |-> [k \in DOMAIN indices |-> indices[k] \in active],
      overall  |-> [key \in DOMAIN h |-> Overall({h[key][b] : b \in active})]]

Sorted(S) == SetToSortSeq(S, LAMBDA a, b : a < b)

PeriodChart(periods, start) ==
  LET indices == Sorted(UNION {UNION {DOMAIN periods[r].values[key] : key \in DOMAIN periods[r].values} : r \in DOMAIN periods})
  IN [indices |-> indices, start |-> start, rows |-> [r \in DOMAIN periods |-> PeriodRow(periods[r], indices)]]

\* build_charts: a run that cannot be read keeps its place without a series.
Build(results, readable) ==
  LET rs == DOMAIN results \cap readable
      counts == [r \in rs |-> StepCounts(data[r])]
      start == IF rs = DOMAIN results THEN CommonStart(rs) ELSE {}
      chart(g) == PeriodChart([r \in rs |-> Periods(data[r], counts[r], g)], start)
  IN [rows   |-> [r \in DOMAIN results |->
                    [rank |-> Ranks(results)[r], series |-> IF r \in rs THEN {RunSeries(data[r], counts[r])} ELSE {}]],
      weeks  |-> chart("weeks"),
      months |-> chart("months")]

\* Its effect on the results.
WithActivity(results, readable) ==
  [r \in DOMAIN results |->
     IF r \in readable THEN [results[r] EXCEPT !.activity = Activity(data[r], StepCounts(data[r]))] ELSE results[r]]

\* Values move from the indices of their payload to those of the merged one.
Remap(values, from, to, default) ==
  [k \in DOMAIN to |-> IF \E j \in DOMAIN from : from[j] = to[k]
                       THEN values[CHOOSE j \in DOMAIN from : from[j] = to[k]] ELSE default]

\* Mutant of Moved: the axis of the merged payload is laid over the values.
MovedNot(r, from, to) == r

Moved(r, from, to) ==
  [r EXCEPT !.values   = [key \in DOMAIN r.values |-> Remap(r.values[key], from, to, {})],
            !.coverage = [key \in DOMAIN r.coverage |-> Remap(r.coverage[key], from, to, "unavailable")],
            !.active   = Remap(r.active, from, to, FALSE)]

\* Of several payloads with rows of a run the last one counts.
LastWith(payloads, r) == payloads[Max({k \in DOMAIN payloads : r \in DOMAIN payloads[k].rows})]

MergePeriod(payloads, g, allowed) ==
  LET of(p) == IF g = "weeks" THEN p.weeks ELSE p.months
      indices == Sorted(UNION {Range(of(payloads[k]).indices) : k \in DOMAIN payloads})
      starts == {of(payloads[k]).start : k \in DOMAIN payloads}
      last(r) == of(payloads[Max({k \in DOMAIN payloads : r \in DOMAIN of(payloads[k]).rows})])
  IN [indices |-> indices,
      start   |-> IF Count(starts) = 1 THEN CHOOSE s \in starts : TRUE ELSE {},
      rows    |-> [r \in allowed \cap UNION {DOMAIN of(payloads[k]).rows : k \in DOMAIN payloads} |->
                     Moved(last(r).rows[r], last(r).indices, indices)]]

\* merge_chart_payloads: the rows of the listed runs, ranked anew.
Merge(all, results) ==
  LET payloads == SelectSeq(all, LAMBDA p : p # NoCharts)
      allowed == DOMAIN results
  IN IF payloads = <<>> THEN NoCharts ELSE
     [rows   |-> [r \in allowed \cap UNION {DOMAIN payloads[k].rows : k \in DOMAIN payloads} |->
                    [LastWith(payloads, r).rows[r] EXCEPT !.rank = Ranks(results)[r]]],
      weeks  |-> MergePeriod(payloads, "weeks", allowed),
      months |-> MergePeriod(payloads, "months", allowed)]

-----------------------------------------------------------------------------
(* Runs.                                                                   *)

Unused == [what \in {"moves", "orders", "ops", "words", "asks", "ends", "deletes", "crashes",
                     "bills", "faults", "reads"} |-> 0]
NewRun(days, old) ==
  [points |-> <<>>, t |-> 0, orders |-> <<>>, ops |-> <<>>, listed |-> <<>>, trace |-> <<>>, told |-> <<>>,
   marker |-> Never, declared |-> "none", days |-> days, old |-> old]
NoTerminal == [loaded |-> FALSE, ends |-> <<>>, results |-> <<>>, charts |-> NoCharts]
NoBoard == [structure |-> <<>>, progress |-> <<>>, payload |-> {}, fresh |-> FALSE]
Idle == [at |-> "idle"]

Init ==
  /\ row = [r \in Runs |-> [status |-> "pending", t |-> 0, ended |-> Never]]
  /\ limit \in Limits
  /\ \E S \in SUBSET Runs, days \in {Never, 1} :
       /\ limit.asks > 0 => S = {}
       /\ data = [r \in Runs |-> IF r \in S THEN NewRun(days, TRUE) ELSE NewRun(1, FALSE)]
  /\ open = {} /\ worker = {} /\ bill = [r \in Runs |-> 0] /\ late = {}
  /\ terminal = NoTerminal /\ file = NoTerminal
  /\ board = NoBoard /\ locked = Nothing /\ ask = [q \in Readers |-> Idle]
  /\ noted = [r \in Runs |-> Nothing] /\ counted = [r \in Runs |-> Nothing]
  /\ used = Unused

\* mark_run_running.
Start(r) ==
  /\ row[r].status \in {"pending", "stopped"} /\ r \notin worker /\ row[r].t < limit.ticks /\ r <= limit.runs
  /\ row' = [row EXCEPT ![r].status = "running", ![r].ended = Never]
  /\ worker' = worker \cup {r} /\ late' = late \ {r}
  /\ UNCHANGED <<data, open, bill, used, cached, pages, traces>>

Newer(r) == IF row[r].status = "running" THEN late ELSE late \cup {r}
Shelf(d) == Cardinality({p \in Products : \E k \in DOMAIN d.ops :
              /\ d.ops[k].product = p /\ d.ops[k].kind = "list"
              /\ \A j \in k + 1 .. Len(d.ops) : d.ops[j].product # p})

\* The transition of a tick with its metrics.
Transition(r) ==
  /\ r \in worker \ open /\ row[r].t < limit.ticks
  /\ \E gain \in {-1, 0, 2}, new \in {<<>>} \cup {<<[t |-> row[r].t, product |-> p, bad |-> b]>> : p \in Products, b \in BOOLEAN} :
       LET d == data[r]
           last == IF d.points = <<>> THEN [assets |-> Capital, profit |-> 0, gmv |-> 0, shelf |-> 0] ELSE Last(d.points)
       IN /\ IF gain # 0 THEN Use("moves") /\ new = <<>>
             ELSE IF new # <<>> THEN Use("orders") ELSE UNCHANGED used
          /\ data' = [data EXCEPT ![r].orders = @ \o new,
                                  ![r].points = Append(@, [assets |-> last.assets + gain, profit |-> last.profit + gain,
                                                           gmv |-> last.gmv + Max({0, gain}), shelf |-> Shelf(d)])]
  /\ open' = open \cup {r} /\ late' = Newer(r)
  /\ UNCHANGED <<row, worker, bill, cached, pages, traces>>

\* The agent acts on its shelf during the hook.
Operate(r, p, kind) ==
  /\ r \in worker \cap open /\ row[r].t % Period = 0
  /\ Use("ops")
  /\ kind = "list" <=> Shelf([data[r] EXCEPT !.ops = SelectSeq(@, LAMBDA e : e.product = p)]) = 0
  /\ data' = [data EXCEPT ![r].ops = Append(@, [t |-> row[r].t, kind |-> kind, product |-> p])]
  /\ late' = Newer(r)
  /\ UNCHANGED <<row, open, worker, bill, cached, pages, traces>>

\* The agent registers with a server that notes failures from then on.
Register(r, declared) ==
  /\ r \in worker /\ data[r].marker = Never /\ ~data[r].old
  /\ Use("words")
  /\ data' = [data EXCEPT ![r].marker = row[r].t, ![r].declared = declared]
  /\ late' = Newer(r)
  /\ UNCHANGED <<row, open, worker, bill, cached, pages, traces>>

Message(owner, kind, tool, n) == [owner |-> owner, kind |-> kind, tool |-> tool, n |-> n]
\* A turn of the agent with a call and its result; one that ends in the middle;
\* one that shows an old result again; a message of another agent.
Speeches(n, sent) ==
  {<<Message(Me, "turn", "", 0), Message(Me, "call", x, 0), Message(Me, k, x, n)>> : x \in Tools, k \in {"ok", "failed"}}
  \cup {<<Message(Me, "gave_up", "", 2)>>,
        <<Message("agent_1", "call", "end_of_step", 0)>>}
  \cup {<<Message(Me, "turn", "", 1), m>> : m \in {x \in sent : x.kind \in {"ok", "failed"}}}

Say(r, speech) ==
  /\ r \in worker \cap open /\ row[r].t % Period = 0
  /\ Use("words")
  /\ LET t == row[r].t  old == IF t \in DOMAIN data[r].trace THEN data[r].trace[t] ELSE <<>>
     IN data' = [data EXCEPT ![r].trace = (t :> old \o speech) @@ @]
  /\ late' = Newer(r)
  /\ UNCHANGED <<row, open, worker, bill, cached, pages, traces>>

\* A call the server refused; early, before the step is open.
Refuse(r, early) ==
  /\ r \in worker /\ (early => r \notin open)
  /\ Use("words")
  /\ data' = [data EXCEPT ![r].told = Append(@, [t |-> row[r].t, early |-> early])]
  /\ late' = Newer(r)
  /\ UNCHANGED <<row, open, worker, bill, cached, pages, traces>>

\* The tick is counted; a thread that has been told to stop leaves.
Clock(r) ==
  /\ r \in worker \cap open
  /\ row' = [row EXCEPT ![r].t = @ + 1] /\ data' = [data EXCEPT ![r].t = @ + 1]
  /\ open' = open \ {r} /\ late' = late \ {r}
  /\ worker' = IF row[r].status = "running" THEN worker ELSE worker \ {r}
  /\ UNCHANGED <<bill, used, cached, pages, traces>>

\* mark_run_terminal keeps an earlier end.
End(r, status) ==
  /\ row' = [row EXCEPT ![r].status = status,
                        ![r].ended = IF @ = Never THEN used.ends + used.crashes ELSE @]
  /\ UNCHANGED <<data, open, bill, late, cached, pages, traces>>

\* The thread may outlive the stop by a step.
Stop(r) ==
  /\ row[r].status = "running" /\ r \in worker
  /\ Use("ends")
  /\ worker' \in {worker, worker \ {r}}
  /\ End(r, "stopped")
Leave(r) ==
  /\ r \in worker \ open /\ row[r].status = "stopped"
  /\ worker' = worker \ {r}
  /\ UNCHANGED <<row, data, open, bill, late, used, cached, pages, traces>>
Finish(r) ==
  /\ row[r].status = "running" /\ r \in worker \ open /\ row[r].t = Horizon
  /\ worker' = worker \ {r} /\ UNCHANGED used
  /\ End(r, "finished")

Delete(r) ==
  /\ Exists(r) /\ r \notin worker
  /\ Use("deletes")
  /\ row' = [row EXCEPT ![r].status = "deleted"]
  /\ UNCHANGED <<data, open, worker, bill, late, cached, pages, traces>>

\* A bill of the model may arrive long after the run has ended.
Bill(r) ==
  /\ Exists(r) /\ row[r].status # "pending"
  /\ Use("bills")
  /\ bill' = [bill EXCEPT ![r] = @ + 1]
  /\ UNCHANGED <<row, data, open, worker, late, cached, pages, traces>>

\* stop_orphaned_run when the server comes back.
Crash ==
  /\ Use("crashes")
  /\ row' = [r \in Runs |-> IF row[r].status = "running"
                            THEN [row[r] EXCEPT !.status = "stopped", !.ended = used.ends + used.crashes] ELSE row[r]]
  /\ worker' = {}
  /\ terminal' = NoTerminal /\ board' = NoBoard /\ locked' = Nothing /\ ask' = [q \in Readers |-> Idle]
  /\ noted' = [r \in Runs |-> Nothing] /\ counted' = [r \in Runs |-> Nothing]
  /\ UNCHANGED <<data, open, bill, late, file>>

-----------------------------------------------------------------------------
(* The cache of ended runs.                                                *)

Cacheable(x) == x.status \in Ended /\ x.ended # Never
TerminalRows(rows) == [r \in {x \in DOMAIN rows : Cacheable(rows[x])} |-> rows[r]]
OtherRows(rows) == {r \in DOMAIN rows : ~Cacheable(rows[r])}

\* Mutant of Fingerprint: the clock is left out.
FingerprintNoClock(x) == <<x.status, x.ended>>
Fingerprint(x) == <<x.status, x.t, x.ended>>

\* What the first request of a process reads from the file.
LoadTerminal == IF terminal.loaded THEN terminal ELSE file

\* Entries whose fingerprint is the same are kept with their charts, the
\* others are computed from the tables; which charts are missing is left to
\* the caller.
PrepareTerminal(rows) ==
  LET base == LoadTerminal
      ends == [r \in DOMAIN rows |-> Fingerprint(rows[r])]
      unchanged == {r \in DOMAIN rows \cap DOMAIN base.ends \cap DOMAIN base.results : base.ends[r] = ends[r]}
      results == Restrict(base.results, unchanged) @@ Results(DOMAIN rows \ unchanged)
      drawn == unchanged \cap DOMAIN base.charts.rows
      charts == CASE drawn = DOMAIN results -> base.charts
                  [] drawn = {}             -> NoCharts
                  [] OTHER                  -> Merge(<<base.charts>>, Restrict(results, drawn))
  IN [cache   |-> [loaded |-> TRUE, ends |-> ends, results |-> results, charts |-> charts],
      missing |-> DOMAIN results \ drawn]

Keep(cache) ==
  /\ terminal' = cache
  /\ file' = IF cache # LoadTerminal THEN cache ELSE file

-----------------------------------------------------------------------------
(* Requests.                                                               *)

Structure(rows) == [r \in DOMAIN rows |-> rows[r].status]
Progress(rows) == [r \in DOMAIN rows |-> rows[r].t]
Go(q, x) == ask' = [ask EXCEPT ![q] = x]
Answered(rows, how, payload) == [at |-> "answered", rows |-> rows, how |-> how, payload |-> payload]
Payload(results, charts) == [results |-> results, ranks |-> Ranks(results), charts |-> charts]

\* The page's first request: results and ranks, no charts.
Summary(q) ==
  /\ ask[q].at \in {"idle", "answered"} /\ Use("asks")
  /\ Keep(PrepareTerminal(TerminalRows(Rows)).cache)
  /\ Go(q, [at |-> "idle"])
  /\ UNCHANGED <<run, board, locked, traces>>

\* It may find the rows it has listed changed.
SummaryLater(q) ==
  /\ ask[q].at = "listed"
  /\ Keep(PrepareTerminal(TerminalRows(ask[q].rows)).cache)
  /\ Go(q, [at |-> "idle"])
  /\ UNCHANGED <<run, used, board, locked, traces>>

List(q) ==
  /\ ask[q].at \in {"idle", "answered"} /\ Use("asks")
  /\ Go(q, [at |-> "listed", rows |-> Rows])
  /\ UNCHANGED <<run, cached, board, locked, traces>>

\* A payload of the same runs, states and ticks is given again, and for a
\* while one of the same runs and states.
Same(rows) ==
  /\ board.structure = Structure(rows) /\ board.progress = Progress(rows)
  /\ ~\E r \in DOMAIN rows : rows[r].status \in Ended /\ rows[r].ended = Never
\* Mutant of Throttled: any payload is given again for a while.
ThrottledAny(rows) == board.fresh
Throttled(rows) == board.structure = Structure(rows) /\ board.fresh
How(rows) == CASE board.payload = {} -> "none"
               [] Same(rows)         -> "same"
               [] Throttled(rows)    -> "throttled"
               [] OTHER              -> "none"

Storing == \E q \in Readers : ask[q].at = "stored"

\* Without the lock; it may meet new keys with the old payload.
Fast(q) ==
  /\ ask[q].at = "listed"
  /\ LET rows == ask[q].rows
     IN Go(q, IF How(rows) = "none" THEN [at |-> "waiting", rows |-> rows]
              ELSE Answered(rows, IF Storing THEN "storing" ELSE How(rows), board.payload))
  /\ UNCHANGED <<run, cached, board, locked, used, traces>>

Lock(q) ==
  /\ ask[q].at = "waiting" /\ locked = Nothing
  /\ LET rows == ask[q].rows
     IN IF How(rows) = "none"
        THEN locked' = <<q>> /\ Go(q, [at |-> "locked", rows |-> rows])
        ELSE locked' = locked /\ Go(q, Answered(rows, How(rows), board.payload))
  /\ UNCHANGED <<run, cached, board, used, traces>>

\* The results and charts of ended runs that can be used again.
Prepare(q) ==
  /\ ask[q].at = "locked"
  /\ LET rows == ask[q].rows
         ready == PrepareTerminal(TerminalRows(rows))
     IN /\ Keep(ready.cache)
        /\ Go(q, [at |-> IF ready.missing = {} THEN "ended" ELSE "prepared", rows |-> rows,
                  results |-> ready.cache.results, charts |-> ready.cache.charts, missing |-> ready.missing])
  /\ UNCHANGED <<run, board, locked, used, traces>>

\* A run that is gone or whose database cannot be read has no series.
Readable(faulty) == {r \in Runs : Exists(r)} \ faulty
Faulty(faulty) == IF faulty = {} THEN UNCHANGED used ELSE Use("faults") /\ Cardinality(faulty) = 1

\* The charts that are missing, without the lock of the cache; results that
\* are in the cache as well are filled in there.
BuildTerminal(q, faulty) ==
  /\ ask[q].at = "prepared" /\ Faulty(faulty) /\ faulty \subseteq ask[q].missing
  /\ LET a == ask[q]
         filled(results) == [r \in DOMAIN results |->
                               IF r \in a.missing /\ results[r] = a.results[r]
                               THEN WithActivity(results, Readable(faulty))[r] ELSE results[r]]
         new == Build(Restrict(a.results, a.missing), Readable(faulty))
     IN /\ Go(q, [a EXCEPT !.at = "built", !.results = filled(a.results),
                           !.charts = Merge(<<a.charts, new>>, a.results)])
        /\ terminal' = [terminal EXCEPT !.results =
                          LET both == DOMAIN terminal.results \cap DOMAIN a.results
                          IN filled(Restrict(terminal.results, both)) @@ terminal.results]
  /\ UNCHANGED <<run, file, board, locked, traces>>

\* Stored unless the set of ended runs has changed since.
StoreTerminal(q) ==
  /\ ask[q].at = "built"
  /\ LET a == ask[q]
         mine == [r \in DOMAIN TerminalRows(a.rows) |-> Fingerprint(a.rows[r])]
     IN IF terminal.ends = mine
        THEN terminal' = [terminal EXCEPT !.charts = a.charts] /\ file' = terminal'
        ELSE UNCHANGED cached
  /\ Go(q, [ask[q] EXCEPT !.at = "ended"])
  /\ UNCHANGED <<run, board, locked, used, traces>>

\* Live runs are read anew and everything is ranked together.
BuildLive(q, faulty) ==
  /\ ask[q].at = "ended" /\ Faulty(faulty) /\ faulty \subseteq OtherRows(ask[q].rows)
  /\ LET a == ask[q]
         live == Results(OtherRows(a.rows))
         charts == IF DOMAIN live = {} THEN NoCharts ELSE Build(live, Readable(faulty))
         results == a.results @@ WithActivity(live, Readable(faulty))
     IN Go(q, [at |-> "complete", rows |-> a.rows,
               payload |-> Payload(results, Merge(<<a.charts, charts>>, results))])
  /\ UNCHANGED <<run, cached, board, locked, traces>>

StoreKeys(q) ==
  /\ ask[q].at = "complete"
  /\ board' = [board EXCEPT !.structure = Structure(ask[q].rows), !.progress = Progress(ask[q].rows)]
  /\ Go(q, [ask[q] EXCEPT !.at = "stored"])
  /\ UNCHANGED <<run, cached, locked, used, traces>>
StorePayload(q) ==
  /\ ask[q].at = "stored"
  /\ board' = [board EXCEPT !.payload = {ask[q].payload}, !.fresh = TRUE]
  /\ locked' = Nothing
  /\ Go(q, Answered(ask[q].rows, "built", {ask[q].payload}))
  /\ UNCHANGED <<run, cached, used, traces>>

\* The shortest interval between two builds has passed.
Age ==
  /\ board.fresh
  /\ board' = [board EXCEPT !.fresh = FALSE]
  /\ UNCHANGED <<run, cached, locked, ask, used, traces>>

-----------------------------------------------------------------------------
(* The cache of counted traces.                                            *)

\* The number of files, and the last file.
Signature(d) ==
  LET steps == DOMAIN d.trace IN <<Cardinality(steps), IF steps = {} THEN <<>> ELSE d.trace[Max(steps)]>>

Snapshot(d) == [sign |-> Signature(d), counts |-> StepCounts(d)]

\* Mutant of Entry: the files are signed after they have been read.
EntryLate(then, now) == [sign |-> now.sign, counts |-> then.counts]
Entry(then, now) == [sign |-> then.sign, counts |-> now.counts]

\* The files are signed, and read unless their counts are known.
SignTrace(r) ==
  /\ noted[r] = Nothing /\ DOMAIN data[r].trace # {}
  /\ \/ counted[r] = Nothing
     \/ counted[r] # Nothing /\ counted[r].sign # Signature(data[r])
  /\ Use("reads")
  /\ noted' = [noted EXCEPT ![r] = Snapshot(data[r])]
  /\ UNCHANGED <<run, cached, pages, counted>>
ReadTrace(r) ==
  /\ noted[r] # Nothing
  /\ counted' = [counted EXCEPT ![r] = Entry(noted[r], Snapshot(data[r]))]
  /\ noted' = [noted EXCEPT ![r] = Nothing]
  /\ UNCHANGED <<run, cached, pages, used>>

\* Runs may rest, but no request.
Rest ==
  /\ \A q \in Readers : ask[q].at \in {"idle", "answered"}
  /\ \A r \in Runs : noted[r] = Nothing
  /\ UNCHANGED vars

Next ==
  \/ \E r \in Runs :
       \/ Start(r) \/ Transition(r) \/ Clock(r) \/ Stop(r) \/ Leave(r) \/ Finish(r) \/ Delete(r) \/ Bill(r)
       \/ \E p \in Products, kind \in {"list", "delist"} : Operate(r, p, kind)
       \/ \E speech \in Speeches(used.words + 1, UNION {Range(data[r].trace[s]) : s \in DOMAIN data[r].trace}) : Say(r, speech)
       \/ \E early \in BOOLEAN : Refuse(r, early)
       \/ \E declared \in {"reported", "not_applicable"} : Register(r, declared)
       \/ SignTrace(r) \/ ReadTrace(r)
  \/ \E q \in Readers :
       \/ Summary(q) \/ List(q) \/ SummaryLater(q) \/ Fast(q) \/ Lock(q) \/ Prepare(q) \/ StoreTerminal(q)
       \/ \E faulty \in {{}} \cup {{r} : r \in Runs} : BuildTerminal(q, faulty) \/ BuildLive(q, faulty)
       \/ StoreKeys(q) \/ StorePayload(q)
  \/ Age
  \/ Crash
  \/ Rest

Spec == Init /\ [][Next /\ UNCHANGED limit]_vars

-----------------------------------------------------------------------------
\* Sums and merges do not depend on requests.
Silent == \A q \in Readers : ask[q] = Idle

\* An entry of the cache that would be used for a run as it stands shows the
\* data of this end of the run, whatever it did before: only data written after
\* the end, in the step the stop came into, and later bills may be missing, and
\* charts that could not be read (routes_dashboard.py:320-347, 395-496).
CachedIsOfThisEnd ==
  LET c == LoadTerminal
      plain(x) == [x EXCEPT !.turns = 0, !.activity = Nothing]
  IN \A r \in DOMAIN c.ends :
       (Cacheable(row[r]) /\ c.ends[r] = Fingerprint(row[r]) /\ r \notin late) =>
         /\ {plain(c.results[x]) : x \in DOMAIN c.results \cap {r}} = {plain(x) : x \in Result(r)}
         /\ r \in DOMAIN c.charts.rows => c.charts.rows[r].series \subseteq {RunSeries(data[r], StepCounts(data[r]))}

\* A reply has no run the request has not listed, ranks each of its runs once,
\* the charts by the same ranks, and unless it is throttled no ended run is
\* behind its listing or missing; not so in the moment a payload is being
\* replaced (routes_dashboard.py:2651-2711, leaderboard.py:2906-2937).
ReplyNotStale ==
  \A q \in Readers : (ask[q].at = "answered" /\ ask[q].how # "storing") =>
    \A p \in ask[q].payload :
      LET rows == ask[q].rows  shown == DOMAIN p.results
      IN /\ shown \subseteq DOMAIN rows
         /\ {p.ranks[r] : r \in shown} = 1 .. Cardinality(shown)
         /\ \A r \in DOMAIN p.charts.rows : p.charts.rows[r].rank = p.ranks[r]
         /\ ask[q].how # "throttled" => \A r \in DOMAIN TerminalRows(rows) :
               /\ r \in shown => p.results[r].t >= rows[r].t
               /\ (rows[r].t > 0 /\ Exists(r)) => r \in shown

\* Charts built for two groups of runs and merged are the charts of all of
\* them: ranks, axes, values, coverage and dates (leaderboard.py:2453-3060).
MergeIsRebuild ==
  (open = {} /\ Silent) => LET results == Results(Runs)
      part(S) == Build(Restrict(results, S), Runs)
  IN \A S \in SUBSET DOMAIN results \ {{}, DOMAIN results} :
       Merge(<<part(S), part(DOMAIN results \ S)>>, results) = part(DOMAIN results)

\* A period said to be known completely has no tick before the notes began and
\* every hook due in it traced.
CompleteIsComplete(d, c, g, coverage) ==
  LET known == coverage.api_failed_attempts
  IN \A b \in DOMAIN known : known[b] = "complete" => \A u \in 0 .. d.t - 1 : Bucket(d, g, u) = b =>
       /\ u >= d.marker
       /\ u % Period = 0 => \/ u \in DOMAIN c
                             \/ d.declared = "not_applicable"

\* Weeks, months and days of a run add up to its totals: money, calls, products
\* listed for the first time and failures, each execution once however often
\* its result is sent (leaderboard.py:914-2358).
ChartsAddUp ==
  \A r \in Runs : (Silent /\ data[r].points # <<>>) =>
    LET d == data[r]
        c == StepCounts(d)
        messages == UNION {{d.trace[s][k] : k \in Mine(d, s)} : s \in DOMAIN d.trace}
        calls == CHOOSE n \in Activity(d, c).calls : TRUE
        line == CumOrders(d, DOMAIN Line(d, "assets"))
    IN /\ \A g \in Grains :
            LET period == Periods(d, c, g)
                m == period.values
            IN /\ Total(m.weekly_gmv) = Last(d.points).gmv
               /\ Total(m.weekly_profit) = Profit(d)
               /\ Total(m.total_tool_calls) = calls
               /\ Total(m.listing_action_calls) + Total(m.sourcing_calls)
                    = MapThenSumSet(LAMBDA x : SumCounts(c)[x], ListingTools \cup SourcingTools)
               /\ Total(m.tool_call_failures) =
                    Cardinality({x.n : x \in {y \in messages : y.kind = "failed" /\ y.tool # "end_of_step"}})
               /\ r \notin open => Total(m.weekly_new_unique_products) = Cardinality({d.ops[k].product : k \in DOMAIN d.ops})
               /\ CompleteIsComplete(d, c, g, period.coverage)
       /\ LET daily == DailyActivity(d, c) IN MapThenSumSet(LAMBDA u : daily[u].calls, DOMAIN daily) = calls
       /\ line[Max(DOMAIN line)] = Len(d.orders)

\* Counts kept for the files as they are now are the counts of these files
\* (leaderboard.py:1480-1514, 1602-1611).
TraceFresh ==
  \A r \in Runs : counted[r] # Nothing =>
    (counted[r].sign = Signature(data[r]) => counted[r].counts = StepCounts(data[r]))

=============================================================================
