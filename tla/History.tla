------------------------------- MODULE History --------------------------------
(***************************************************************************)
(* The dashboard's views of a run's past: the files a step leaves behind   *)
(* (storage/snapshot.py, the end of Simulator.step and its repetition      *)
(* after a crash), the frames rebuilt from them (storage/replay.py), and   *)
(* the queries of storage/db.py and web/routes_dashboard.py that show the  *)
(* run as of a tick.                                                       *)
(*                                                                         *)
(* Of a product's mutable state the stock is modelled as it is kept: a     *)
(* quantity and the tick it is of, which grows by itself while the         *)
(* supplier sells the product; price and shipping hours are the tick of    *)
(* their last change.  A sum of money over orders is the set of their      *)
(* numbers.                                                                *)
(***************************************************************************)
EXTENDS Integers, SequencesExt, FiniteSetsExt

CONSTANTS
  Products,
  Stock,            \* product -> [initial, hourly, most]: quantity at first,
                    \* hourly_increment, max_quantity
  Readers,          \* requests of the dashboard that may run at once
  DayTicks,
  WeekDays,         \* days of the coarser grain
  CheckpointEvery,  \* run.checkpoint_interval_steps
  Horizon,          \* run.horizon_steps
  MaxFrames,        \* frames kept by the cache
  Limits            \* bounds of a behaviour: sets of [ticks, orders, rows (statuses of
                    \* orders), changes (by the supplier), ops (of the agent), asks (for
                    \* frames), crashes]; each behaviour obeys one of them

ASSUME HistoryAssumption ==
  /\ Stock \in [Products -> [{"initial", "hourly", "most"} -> Nat]]
  /\ {DayTicks, WeekDays, CheckpointEvery, MaxFrames} \subseteq Nat \ {0}
  /\ Horizon \in Nat
  /\ Limits \subseteq [{"ticks", "orders", "rows", "changes", "ops", "asks", "crashes"} -> Nat]

VARIABLES
  t, phase,    \* env.t; "quiet", "hook", "closing", "written", "stored"
  catalog,     \* table products: product -> [price (tick of its last change), on (sold by
               \* the supplier), quantity, stamp (quantity_updated_t)]
  orders,      \* tables orders and order_status: number -> [product, log]
  listed,      \* table store_listings: the products on the shelf
  events,      \* table events: what the supplier and the agent did
  dirty,       \* products the step has changed, in memory
  delta,       \* files env_snapshot: tick -> [products, agents]
  checkpoint,  \* files env_checkpoint: tick -> products
  frames,      \* the cached frames, least recently used first
  asked,       \* reader -> the frame it rebuilds: [at, prior], then [at, base]
  asks, crashes,
  past,        \* per finished tick: catalog, orders, listed, events at its end
  limit

vars == <<t, phase, catalog, orders, listed, events, dirty, delta, checkpoint, frames,
          asked, asks, crashes, past, limit>>
tables == <<catalog, orders, listed, events>>
files == <<delta, checkpoint>>
cache == <<frames, asked, asks>>

Never == -1
Nothing == [at |-> Never]
Anomalies == {"late", "stockout", "settled_bad_review"}
Operations == {"list", "delist", "price"}
SupplierAnomalies == {"price_change", "supplier_delist"}
SupplierChanges == SupplierAnomalies \cup {"price_recover", "supplier_relist"}
Rank == [ordered |-> 10, late |-> 20, shipped |-> 30, stockout |-> 50,
         settled_normal |-> 60, settled_bad_review |-> 60]
Statuses == DOMAIN Rank
Ends == {"settled_normal", "settled_bad_review"}

Current(o) == Last(o.log).status
Placed(o) == o.log[1].t
\* A column such as late_t or settled_t: when the order took one of the statuses.
Column(o, S) == LET rows == {o.log[k] : k \in {j \in DOMAIN o.log : o.log[j].status \in S}}
                IN IF rows = {} THEN Never ELSE Max({row.t : row \in rows})
Within(c, u) == IF c <= u THEN c ELSE Never

-----------------------------------------------------------------------------
(* Stock.                                                                  *)

\* effective_quantity, in Python and in SQL.
Effective(p, c, u) ==
  IF c.on THEN Min({Stock[p].most, c.quantity + Max({0, u - c.stamp}) * Stock[p].hourly}) ELSE c.quantity

NewProduct(p) == [price |-> 0, on |-> TRUE, quantity |-> Stock[p].initial, stamp |-> 0]

InStock(p) == catalog[p].on /\ Effective(p, catalog[p], t) > 0
\* consume_quantity.
Consumed(p, c) == [c EXCEPT !.quantity = Effective(p, c, t) - 1, !.stamp = t]

\* What the supplier may do to a product, and what that changes: out of sale the
\* stock rests, and its growth starts anew with the sale.  A price may recover
\* out of sale too.
MayChange(c, kind) ==
  CASE kind = "supplier_relist" -> ~c.on
    [] kind = "price_recover"   -> c.price \in 1 .. t - 1
    [] OTHER -> c.on
Changed(p, c, kind) ==
  CASE kind \in {"price_change", "price_recover"} -> [c EXCEPT !.price = t]
    [] kind = "supplier_delist" -> [c EXCEPT !.on = FALSE, !.quantity = Effective(p, c, t), !.stamp = t]
    [] kind = "supplier_relist" -> [c EXCEPT !.on = TRUE, !.stamp = t]

-----------------------------------------------------------------------------
(* Queries by status, profits and the timeline of orders.                  *)

StatusCounts(os) == [s \in Statuses |-> Cardinality({i \in DOMAIN os : Current(os[i]) = s})]

Upto(log, u) == SelectSeq(log, LAMBDA row : row.t <= u)
KnownAt(os, u) == {i \in DOMAIN os : Placed(os[i]) <= u}

\* Mutant of StatusAt: of two rows of one tick the weaker one is taken.
StatusAtWeak(o, u) ==
  LET rows == {o.log[k] : k \in {j \in DOMAIN o.log : o.log[j].t <= u}}
  IN (CHOOSE row \in rows : \A r \in rows :
        r.t < row.t \/ (r.t = row.t /\ Rank[row.status] <= Rank[r.status])).status

\* The status of an order as of a tick: the last row by tick, then by rank.
StatusAt(o, u) ==
  LET rows == {o.log[k] : k \in {j \in DOMAIN o.log : o.log[j].t <= u}}
  IN (CHOOSE row \in rows : \A r \in rows :
        r.t < row.t \/ (r.t = row.t /\ Rank[r.status] <= Rank[row.status])).status

StatusCountsAsOf(os, u) ==
  [s \in Statuses |-> Cardinality({i \in KnownAt(os, u) : StatusAt(os[i], u) = s})]

\* Orders that have entered a status by a tick, each counted once.
StatusCum(os, u) ==
  [s \in Statuses |-> Cardinality({i \in DOMAIN os : \E k \in DOMAIN os[i].log :
                         os[i].log[k].status = s /\ os[i].log[k].t <= u})]

\* The series of these counts changes where an order enters the status.
StatusSeries(os, u) ==
  LET enters(s) == {Column(os[i], {s}) : i \in DOMAIN os} \cap 0 .. u
  IN [s \in Statuses |-> [e \in enters(s) |-> Cardinality({i \in DOMAIN os : Column(os[i], {s}) \in 0 .. e})]]

Profits(os) ==
  [p \in Products |->
     [gross |-> {i \in DOMAIN os : os[i].product = p /\ Current(os[i]) # "stockout"},
      net   |-> {i \in DOMAIN os : os[i].product = p /\ Column(os[i], Ends \cup {"stockout"}) # Never}]]
ProfitsAsOf(os, u) ==
  [p \in Products |->
     [gross |-> {i \in KnownAt(os, u) : os[i].product = p /\ Current(os[i]) # "stockout"},
      net   |-> {i \in DOMAIN os : os[i].product = p /\ Column(os[i], Ends \cup {"stockout"}) \in 0 .. u}]]

Timeline(os) ==
  [i \in DOMAIN os |->
     [status |-> Current(os[i]), late |-> Column(os[i], {"late"}), shipped |-> Column(os[i], {"shipped"}),
      settled |-> Column(os[i], Ends), log |-> os[i].log]]
TimelineAsOf(os, u) ==
  [i \in KnownAt(os, u) |->
     [status  |-> StatusAt(os[i], u),
      late    |-> Within(Column(os[i], {"late"}), u),
      shipped |-> Within(Column(os[i], {"shipped"}), u),
      settled |-> Within(Column(os[i], Ends), u),
      log     |-> Upto(os[i].log, u)]]

-----------------------------------------------------------------------------
(* Queries by bucket of days.                                              *)

Day(u) == u \div DayTicks + 1

\* Mutant of Buckets: only whole buckets are drawn.
BucketsWhole(from, to, width) ==
  {[first |-> d, last |-> d + width - 1] :
     d \in {e \in Day(from) .. Day(to) - width + 1 : (e - Day(from)) % width = 0}}

\* Buckets are counted from the first day of the range; the last may be short.
Buckets(from, to, width) ==
  {[first |-> d, last |-> Min({Day(to), d + width - 1})] :
     d \in {e \in Day(from) .. Day(to) : (e - Day(from)) % width = 0}}

\* Where a row falls: the start of its bucket is computed, then looked up.
Falls(u, b, from, width) == b.first = ((Day(u) - Day(from)) \div width) * width + Day(from)

Here(u, b, from, to, width) == u \in from .. to /\ Falls(u, b, from, width)

\* Orders placed in the bucket, and those of them the supplier could deliver.
OrderBar(os, p, b, from, to, width) ==
  LET mine == {i \in DOMAIN os : os[i].product = p /\ Here(Placed(os[i]), b, from, to, width)}
  IN [orders |-> mine, gross |-> {i \in mine : Current(os[i]) # "stockout"}]

\* Events of the supplier, while the product is on the shelf or has orders.
SupplierBar(os, evs, shelf, p, b, from, to, width) ==
  {e \in Range(evs) : /\ e.kind \in SupplierAnomalies /\ e.product = p /\ Here(e.t, b, from, to, width)
                      /\ p \in shelf \cup {os[i].product : i \in {j \in DOMAIN os : Placed(os[j]) \in from .. to}}}

\* Orders with an event of one of the kinds, each counted once in a bucket.
UnusualBar(os, kinds, p, b, from, to, width) ==
  {i \in DOMAIN os : /\ os[i].product = p /\ Placed(os[i]) <= to
                     /\ \E k \in DOMAIN os[i].log : /\ os[i].log[k].status \in kinds
                                                    /\ Here(os[i].log[k].t, b, from, to, width)}

Bars(os, evs, shelf, from, to, width) ==
  [p \in Products |-> [b \in Buckets(from, to, width) |->
     OrderBar(os, p, b, from, to, width) @@
     [unusual  |-> UnusualBar(os, Anomalies, p, b, from, to, width),
      supplier |-> Cardinality(SupplierBar(os, evs, shelf, p, b, from, to, width))
                   + Cardinality(UnusualBar(os, {"stockout"}, p, b, from, to, width))]]]

OpsBars(evs, from, to, width) ==
  [o \in Operations |-> [b \in Buckets(from, to, width) |->
     Cardinality({k \in DOMAIN evs : evs[k].kind = o /\ Here(evs[k].t, b, from, to, width)})]]

\* The page of one product draws a bar a day, from the first day.
Lifecycle(os, p, to) ==
  [d \in 1 .. Day(to) |-> {i \in KnownAt(os, to) : os[i].product = p /\ Day(Placed(os[i])) = d}]

-----------------------------------------------------------------------------
(* The pages: live from the tables, or as of a tick.                       *)

OrdersSection(os, u) ==
  [counts |-> StatusCounts(os), cum |-> StatusCum(os, u), series |-> StatusSeries(os, u),
   timeline |-> Timeline(os)]
OrdersSectionAsOf(os, u) ==
  [counts |-> StatusCountsAsOf(os, u), cum |-> StatusCum(os, u), series |-> StatusSeries(os, u),
   timeline |-> TimelineAsOf(os, u)]

\* A product as a query gives it: with the stock it has at a tick.
Row(p, c, u) == [price |-> c.price, on |-> c.on, quantity |-> Effective(p, c, u)]

\* A row with the fields a frame has of its product, the quantity included.
Overlaid(row, frame, p) ==
  IF p \in DOMAIN frame.products
  THEN [key \in DOMAIN row |-> frame.products[p][key]] ELSE row

\* The supplier's page as of a tick: the products of today, their stock counted
\* to that tick, under the frame.
SupplierSection(frame, u) == [p \in Products |-> Overlaid(Row(p, catalog[p], u), frame, p)]

\* A listing is shown with the state of its product.
MerchantListings(shelf, cat, u) == [p \in shelf |-> Row(p, cat[p], u)]
\* As of a tick, with the quantity in the table where the frame has none.
MerchantListingsAsOf(frame) ==
  [p \in frame.agents |-> Overlaid([Row(p, catalog[p], t) EXCEPT !.quantity = catalog[p].quantity], frame, p)]

\* The merchant's page draws all bars of a grain from the first day.
MerchantSection(os, evs, shelf, cat, u, width) ==
  [listings |-> MerchantListings(shelf, cat, u), profits |-> Profits(os),
   ops |-> OpsBars(evs, 0, u, width), bars |-> Bars(os, evs, shelf, 0, u, width)]
MerchantSectionAsOf(os, evs, frame, u, width) ==
  [listings |-> MerchantListingsAsOf(frame), profits |-> ProfitsAsOf(os, u),
   ops |-> OpsBars(evs, 0, u, width), bars |-> Bars(os, evs, frame.agents, 0, u, width)]

-----------------------------------------------------------------------------
(* The run.                                                                *)

Init ==
  /\ t = 0 /\ phase = "quiet"
  /\ catalog = [p \in Products |-> NewProduct(p)]
  /\ orders = <<>> /\ listed = {} /\ events = <<>>
  /\ dirty = {}
  /\ delta = <<>> /\ checkpoint = <<>>
  /\ frames = <<>> /\ asked = [r \in Readers |-> Nothing]
  /\ asks = 0 /\ crashes = 0
  /\ past = <<>>
  /\ limit \in Limits

Done(kinds) == Cardinality({k \in DOMAIN events : events[k].kind \in kinds})

\* What the order manager may do to an order in one tick.
Moved(o) ==
  LET with(S) == [o EXCEPT !.log = @ \o [k \in 1 .. Len(S) |-> [t |-> t, status |-> S[k]]]]
  IN {o} \cup
     CASE Current(o) = "ordered" -> {with(<<"late">>), with(<<"shipped">>), with(<<"late", "shipped">>)}
       [] Current(o) = "late"    -> {with(<<"shipped">>)}
       [] Current(o) = "shipped" -> {with(<<s>>) : s \in Ends}
       [] OTHER -> {}

\* An order of a tick is bought at once or fails.
NewOrder(p) ==
  [product |-> p, log |-> <<[t |-> t, status |-> IF InStock(p) THEN "ordered" ELSE "stockout"]>>]

\* The environment part of a step, committed as a whole: customers order listed
\* products, the supplier changes products, orders move on.
Transition ==
  /\ phase = "quiet" /\ t <= limit.ticks
  /\ \E changed \in UNION {[S -> SupplierChanges] : S \in SUBSET Products},
        new \in {<<>>} \cup {<<NewOrder(p)>> : p \in listed},
        moved \in {f \in [DOMAIN orders -> UNION {Moved(orders[i]) : i \in DOMAIN orders}] :
                     \A i \in DOMAIN orders : f[i] \in Moved(orders[i])} :
       /\ Done(SupplierChanges) + Cardinality(DOMAIN changed) <= limit.changes
       /\ Len(orders) + Len(new) <= limit.orders
       /\ MapThenSumSet(LAMBDA i : Len(moved[i].log), DOMAIN orders) + Len(new) <= limit.rows
       /\ \A p \in DOMAIN changed : MayChange(catalog[p], changed[p])
       /\ LET bought == {o.product : o \in {n \in Range(new) : Current(n) = "ordered"}}
              sold == [p \in Products |-> IF p \in bought THEN Consumed(p, catalog[p]) ELSE catalog[p]]
          IN /\ dirty' = DOMAIN changed \cup bought
             /\ catalog' = [p \in Products |->
                              IF p \in DOMAIN changed THEN Changed(p, sold[p], changed[p]) ELSE sold[p]]
       /\ events' = events \o SetToSeq({[t |-> t, kind |-> changed[p], product |-> p] : p \in DOMAIN changed})
       /\ orders' = moved \o new
  /\ phase' = "hook"
  /\ UNCHANGED <<t, listed, files, cache, crashes, past>>

\* The agent lists, withdraws or reprices a product during the hook.
Operate(kind, p) ==
  /\ phase = "hook"
  /\ Done(Operations) < limit.ops
  /\ kind = "list" <=> p \notin listed
  /\ listed' = CASE kind = "list" -> listed \cup {p} [] kind = "delist" -> listed \ {p} [] OTHER -> listed
  /\ events' = Append(events, [t |-> t, kind |-> kind, product |-> p])
  /\ UNCHANGED <<t, phase, catalog, orders, dirty, files, cache, crashes, past>>

CloseHook ==
  /\ phase = "hook"
  /\ phase' = "closing"
  /\ UNCHANGED <<t, tables, dirty, files, cache, crashes, past>>

AgentsBlob == listed
\* product_mutable_state: the stock of the present tick, and the tick the stock
\* in the table is of.
MutableState(p) == [catalog[p] EXCEPT !.quantity = Effective(p, catalog[p], t)]
\* The delta file holds the products of the dirty set and the whole shelf.
DeltaFile == [products |-> [p \in dirty |-> MutableState(p)], agents |-> AgentsBlob]
\* A checkpoint holds all products and no agents.
CheckpointFile == [p \in Products |-> MutableState(p)]

With(file, u, content) == [v \in DOMAIN file \cup {u} |-> IF v = u THEN content ELSE file[v]]

WriteDelta ==
  /\ phase = "closing"
  /\ delta' = With(delta, t, DeltaFile)
  /\ phase' = "written"
  /\ UNCHANGED <<t, tables, dirty, checkpoint, cache, crashes, past>>

WriteCheckpoint ==
  /\ phase = "written"
  /\ checkpoint' = IF t % CheckpointEvery = 0 \/ t + 1 = Horizon
                   THEN With(checkpoint, t, CheckpointFile) ELSE checkpoint
  /\ phase' = "stored"
  /\ UNCHANGED <<t, tables, dirty, delta, cache, crashes, past>>

\* The clock moves with the commit of what follows the hook.
Clock ==
  /\ phase = "stored"
  /\ past' = Append(past, [catalog |-> catalog, orders |-> orders, listed |-> listed, events |-> events])
  /\ t' = t + 1 /\ phase' = "quiet"
  /\ UNCHANGED <<tables, dirty, files, cache, crashes>>

\* Mutant of Recovered: the products of the supplier's events alone.
RecoveredEvents == {e.product : e \in {f \in Range(events) : f.t = t /\ f.kind \notin Operations}}

\* A repeated step collects what changed at t from the orders and events.
Recovered ==
  {orders[i].product : i \in {j \in DOMAIN orders : Placed(orders[j]) = t}}
  \cup {e.product : e \in {f \in Range(events) : f.t = t /\ f.kind \notin Operations}}

\* The process ends and comes back: the cache is empty, and a step whose
\* transition is committed continues at its hook or after it.
Crash ==
  /\ crashes < limit.crashes /\ crashes' = crashes + 1
  /\ frames' = <<>> /\ asked' = [r \in Readers |-> Nothing]
  /\ dirty' = IF phase = "quiet" THEN {} ELSE Recovered
  /\ phase' = IF phase \in {"quiet", "hook"} THEN phase ELSE "closing"
  /\ UNCHANGED <<t, tables, files, asks, past>>

-----------------------------------------------------------------------------
(* Frames.                                                                 *)

Cached(u) == SelectInSeq(frames, LAMBDA f : f.at = u)
Touch(k) == Append(RemoveAt(frames, k), frames[k])

Prior(u) == Max({Never} \cup {f.at : f \in {g \in Range(frames) : g.at <= u}})

\* frame(): a cached frame is returned, otherwise the latest earlier one is
\* noted.
Ask(r, u) ==
  /\ asks < limit.asks /\ asks' = asks + 1
  /\ asked[r] = Nothing /\ u \in DOMAIN delta
  /\ IF Cached(u) # 0
     THEN frames' = Touch(Cached(u)) /\ UNCHANGED asked
     ELSE asked' = [asked EXCEPT ![r] = [at |-> u, prior |-> Prior(u)]] /\ UNCHANGED frames
  /\ UNCHANGED <<t, phase, tables, dirty, files, crashes, past>>

\* The latest checkpoint, whose agents are missing, or nothing at all; the
\* deltas after it are to be applied.
LatestCheckpoint(u) ==
  LET before == {v \in DOMAIN checkpoint : v <= u}
  IN IF before = {} THEN [products |-> <<>>, agents |-> {}, from |-> 0]
     ELSE [products |-> checkpoint[Max(before)], agents |-> {}, from |-> Max(before) + 1]

\* Where the rebuilding starts: the noted frame if it is still there.
Base(want) ==
  IF want.prior # Never /\ Cached(want.prior) # 0
  THEN LET f == frames[Cached(want.prior)] IN [products |-> f.products, agents |-> f.agents, from |-> f.at + 1]
  ELSE LatestCheckpoint(want.at)

\* It is copied, and may be evicted from then on.
Fetch(r) ==
  /\ "prior" \in DOMAIN asked[r]
  /\ asked' = [asked EXCEPT ![r] = [at |-> @.at, base |-> Base(@)]]
  /\ UNCHANGED <<t, phase, tables, dirty, files, frames, asks, crashes, past>>

DeltaSteps(from, to) == {v \in DOMAIN delta : v \in from .. to}

\* The later of the deltas that mention a product wins.
Applied(products, steps) ==
  LET says(p) == {v \in steps : p \in DOMAIN delta[v].products}
  IN [p \in DOMAIN products \cup UNION {DOMAIN delta[v].products : v \in steps} |->
        IF says(p) = {} THEN products[p] ELSE delta[Max(says(p))].products[p]]

Rebuilt(base, u) ==
  LET steps == DeltaSteps(base.from, u)
  IN [at |-> u, products |-> Applied(base.products, steps),
      agents |-> IF steps = {} THEN base.agents ELSE delta[Max(steps)].agents]

\* The rest of frame(): the files are read without the lock, then the frame is
\* stored unless another reader has stored it, and the oldest one leaves.
Answer(r) ==
  /\ "base" \in DOMAIN asked[r]
  /\ LET u == asked[r].at
         with == Append(frames, Rebuilt(asked[r].base, u))
     IN frames' = IF Cached(u) # 0 THEN Touch(Cached(u))
                  ELSE SubSeq(with, Max({1, Len(with) - MaxFrames + 1}), Len(with))
  /\ asked' = [asked EXCEPT ![r] = Nothing]
  /\ UNCHANGED <<t, phase, tables, dirty, files, asks, crashes, past>>

\* A run ends at its last tick; the dashboard may stay silent.
Stop ==
  /\ t > limit.ticks /\ phase = "quiet"
  /\ UNCHANGED vars

Next ==
  \/ Transition
  \/ \E p \in Products, kind \in Operations : Operate(kind, p)
  \/ CloseHook \/ WriteDelta \/ WriteCheckpoint \/ Clock
  \/ Crash
  \/ \E r \in Readers : Fetch(r) \/ Answer(r) \/ \E u \in DOMAIN delta : Ask(r, u)
  \/ Stop

Spec == Init /\ [][Next /\ UNCHANGED limit]_vars

-----------------------------------------------------------------------------
Finished(u) == u + 1 \in DOMAIN past

\* A frame rebuilt from any base, by readers side by side, after evictions and
\* after a crash in the middle of a step has each product as it was, but for the
\* stock that has grown since: what it shows lies between the stock at the
\* product's last change and the stock there was, and so does what the supplier's
\* page shows that lays it over the products of today; a product the frame does
\* not have had not changed
\* (replay.py:44-106, simulator.py:562-570, routes_dashboard.py:953-965).
FrameFaithful ==
  \A f \in Range(frames) : Finished(f.at) =>
    LET then == past[f.at + 1].catalog
        page == SupplierSection(f, f.at)
    IN /\ \A p \in DOMAIN f.products :
            /\ page[p].price = then[p].price /\ page[p].on = then[p].on
            /\ f.products[p].stamp = then[p].stamp
            /\ page[p].quantity \in Effective(p, then[p], Max({then[p].price, then[p].stamp}))
                                    .. Effective(p, then[p], f.at)
       /\ \A p \in Products \ DOMAIN f.products : then[p] = NewProduct(p)

\* Does not hold: a page as of a tick shows the stock there was.  Stock grows
\* without a product becoming dirty, and the frame's quantity is laid over the
\* one the query has counted to the tick (routes_dashboard.py:941-963, 1983).
StockAsOf ==
  \A f \in Range(frames) : Finished(f.at) => \A p \in DOMAIN f.products :
    SupplierSection(f, f.at)[p].quantity = Effective(p, past[f.at + 1].catalog[p], f.at)

\* Does not hold: the comment "Another thread may have beaten us to it; either result is
\* equivalent" (replay.py:90-91), of the products that a stored frame has and
\* that of a reader about to store it.  One that took its base before the
\* checkpoint of the tick was written has older stock (replay.py:58).
EitherIsEquivalent ==
  \A r \in Readers : ("base" \in DOMAIN asked[r] /\ Cached(asked[r].at) # 0) =>
    LET mine == Rebuilt(asked[r].base, asked[r].at).products
        theirs == frames[Cached(asked[r].at)].products
    IN \A p \in DOMAIN mine \cap DOMAIN theirs : mine[p] = theirs[p]

WithoutStock(section) ==
  [section EXCEPT !.listings = [p \in DOMAIN @ |-> [price |-> @[p].price, on |-> @[p].on]]]

\* Whatever happens later, the pages as of a finished tick show what they
\* showed live at its end, given the agents its delta file holds; left out are
\* the stock of the listings and their promised shipping hours, which rows as of
\* a tick lack, the net profit of the bars, and penalties before the end of an
\* order (db.py:2684-2889, routes_dashboard.py:1003-1038, 1821-1937, 2138-2176).
AsOfShowsThePast ==
  phase = "quiet" => \A k \in DOMAIN past :
    LET u == k - 1  then == past[k]
        frame == [Rebuilt(LatestCheckpoint(u), u) EXCEPT !.agents = delta[u].agents]
    IN /\ OrdersSectionAsOf(orders, u) = OrdersSection(then.orders, u)
       /\ \A width \in {1, WeekDays} :
            WithoutStock(MerchantSectionAsOf(orders, events, frame, u, width))
              = WithoutStock(MerchantSection(then.orders, then.events, then.listed, then.catalog, u, width))
       /\ \A p \in Products : Lifecycle(orders, p, u) = Lifecycle(then.orders, p, u)

\* Cut a range into bars of any grain from any tick: every order and every
\* operation is in exactly one of them, and days add up to the whole
\* (db.py:1455-1478, 1559-1567, 1845-1870).
BucketsAddUp ==
  phase = "closing" => \A from \in 0 .. t, width \in {1, WeekDays} :
    LET bars == Bars(orders, events, listed, from, t, width)
        ops  == OpsBars(events, from, t, width)
        all  == Buckets(from, t, width)
    IN /\ \A p \in Products : \A i \in DOMAIN orders :
            (orders[i].product = p /\ Placed(orders[i]) \in from .. t) <=>
            Cardinality({b \in all : i \in bars[p][b].orders}) = 1
       /\ \A o \in Operations :
            MapThenSumSet(LAMBDA b : ops[o][b], all) = Cardinality({k \in DOMAIN events : events[k].kind = o /\ events[k].t \in from .. t})
       /\ (from = 0 /\ width = 1) => \A p \in Products, b \in all :
            bars[p][b].orders = Lifecycle(orders, p, t)[b.first]

\* The comment "plus the latest full agents blob at or before t", replay.py:24.
FrameAgents ==
  \A f \in Range(frames) : Finished(f.at) => f.agents = past[f.at + 1].listed
=============================================================================
