# MerchantBench: specifications of the simulator and what stands around it

MerchantBench runs one simulated shop economy per *run*. A worker thread steps
the simulator tick by tick (a tick is one hour); between two ticks it may open a
*hook* in which LLM agents act over HTTP. Everything a benchmark result rests on
is in a sqlite database per run, with a few JSON files beside it. This directory
holds TLA+ specifications of the parts in which a result could go wrong without
a test noticing: the books of the shops, the supplier pool, the boundary between
the simulator and its agents, the control of the worker threads and their
connections, what an agent is shown, ratings, the views of the past, the
leaderboard, and an evaluation from batch to history.

Contents: [inventory](#inventory), [modules](#modules), [runs](#runs),
[bounds](#bounds), [fairness](#fairness), [proofs](#proofs),
[disagreements](#disagreements-with-the-text), [not modelled](#not-modelled),
[plan](#plan).

## Inventory

| Part | State | Operations | Hard because |
|---|---|---|---|
| Order lifecycle and cash (`core/order_manager.py`, `core/simulator.py`) | `orders`; per shop balance, deposit, in_transit, receivable, fines; `is_alive` | auto-purchase with two kinds of violation, transitions per tick, penalties, fees, refunds, death | many paths move the same two amounts; a due query selects the orders the loop sees; a shop can die in the middle of a tick |
| Supplier pool (`core/supplier_scheduler.py`, `core/inventory.py`) | products, table of due events | price change, delisting, timeout and their recoveries; lazily computed stock | three channels disturb each other; the caller deletes, cancels and inserts in its own order |
| Step boundary (`Environment.step`, `/observation`, `/act`, `storage/agent_log.py`) | `current_t`, `pending_hook_t`, `pending_hook_closed`; hook sets; idempotency cache; step trace; cost | step, resume of a committed step, act, replay of an act, recording, finalization | requests run on other threads; a crash may come between any two of the commits and files; agents repeat calls |
| Run control (`web/run_worker.py`, control routes) | `runs.status`; worker state, pause and stop flags, thread; registry | start, pause, resume, stop, release, restart of the service | the thread and the routes write the same state without a common lock |
| Connections and deletion (`web/runner.py`) | connections, leases, runs being deleted | lease, release, close, create, delete, synchronous step, event stream | waits under the lifecycle lock, connections opened outside it |
| Observation windows (`tools/observation.py`) and listing tools (`tools/tools.py`) | cursor, windows and packets in memory and in a file; listings with activation and sales | compose, serve, recover; list, delist, reprice, report, review, paged queries | polls, repetitions and restarts share one cursor; listings come back |
| Ratings (`core/rating.py`, `core/listing_rating.py`, `core/public_reviews.py`) | decayed evidence per product and shop, published day, series | daily publication, finish, rebuild on restart | incremental against rebuilt evidence |
| Snapshots and replay (`storage/snapshot.py`, `storage/replay.py`, `storage/db.py`) | deltas, checkpoints, frame cache; status log | rebuild of a frame, statuses and sums as of a tick, bars | files lag the database after a crash; several statuses in one tick |
| Dashboard and leaderboard (`web/routes_dashboard.py`, `web/leaderboard.py`) | results and charts of ended runs in memory and on disk, payload with its keys, summary of traces | list, load, build, merge, store | runs start, end, crash and vanish while a request assembles |
| Cost ledger and history (`storage/agent_log.py`, `scripts/rebuild_run_history.py`) | `cost.json`, `run_history.jsonl` and its index | replace a step's entry, fold in late usage, upsert, rebuild | a total kept by differences; several processes rewrite one file |
| Baselines (`agent/baselines/*`) | conversation, compaction, runtime health; shelf | observe, ask the model, act, compact, give up; list, delist, reprice | answers get lost or come too late; the conversation is cut and compacted |
| Batch (`scripts/run_batch.py`) | queue, active runs, results, failures | create, poll, sum up | the service fails or restarts between requests |
| Demand, authorization, catalog diagnostics, builders, `eval/`, pages | files, no shared state | | numerics or offline |

How they interact: the worker thread of a run calls `Environment.step`, which under
`env.lock` commits one transition (demand and purchases, supplier pool, order
manager, ratings, metrics), then opens the hook without that lock, waits for the agents,
closes the hook, writes the trace and commits the clock. Requests of agents
reach the same Environment through `/observation` and `/act`; tools take
`env.lock`, the recording of turns takes `turn_lock`. The control routes start and
stop workers under a lifecycle lock per run that the threads take only to
release themselves. Every thread works on a connection it leases from the
registry. A restart rehydrates the Environment from the database and the
files. The dashboard reads the same databases and files while they are written.
A batch is another process and knows the service by its HTTP answers only.

What makes the parts correct:

- *orders and cash*: money in flight is backed by orders, every fine has one reason,
  the books equal the profit the leaderboard sums, orders are where their due
  times put them, no dead shop trades, every order ends and so does the run;
- *supplier pool*: each disturbance has exactly one recovery booked, no channel
  falls silent, stock is what hourly growth would have given;
- *boundary*: one transition per tick, agents act in the tick they observed, a
  repeated call runs once, the hook waits for all and no longer than it must,
  trace and cost agree;
- *control*: one live loop per run, a pause holds, a stop ends the thread;
- *connections*: nobody loses a connection under a lease, no path of an error
  keeps one for ever, deletion ends;
- *shop*: each change is told in exactly one window, reviews judge the listing they are about;
- *ratings*: a run that was interrupted rates like one that was not;
- *past*: a frame or a page as of a tick shows that tick;
- *leaderboard*: no cached entry outlives its run's end, merged charts are the charts;
- *evaluation*: the ledger adds up, no failure of a model is hidden, a
  conversation stays well formed, no run of a batch and no row of the history is lost.

The hazards this list comes from are in `PROJECT.json`, each at its line with the
properties aimed at it.

## Modules

| Module | Models | Uses |
|---|---|---|
| `OrderBook` | orders, cash, death, drain and phases of a run | |
| `OrderBookProofs` | theorems about `OrderBook` | |
| `SupplierPool` | supplier events and lazy stock | implements `EagerStock` |
| `SupplierPoolProofs` | theorems about `SupplierPool` | |
| `EagerStock` | abstract: stock that grows at every tick | |
| `StepBoundary` | step, hook, agents' calls, files, crashes | implements `TickCycle` |
| `StepBoundaryProofs` | theorems about `StepBoundary` | |
| `TickCycle` | abstract: each tick is transformed once, then acted in, then over | |
| `RunWorker` | start, pause, resume, stop, loop threads, registry of workers | |
| `RunWorkerProofs` | theorems about `RunWorker` | |
| `RunRegistry` | connections, leases, creation, release and deletion | |
| `RunRegistryProofs` | theorems about `RunRegistry` | |
| `Storefront` | observations and listing tools of one agent | |
| `StorefrontProofs` | theorems about `Storefront` | |
| `ShopRating` | evidence of shop and listings, reviews, series | |
| `ShopRatingProofs` | theorems about `ShopRating` | |
| `History` | deltas, checkpoints, frames, as-of views, bars | |
| `Leaderboard` | requests, caches and the life of runs | `Charts` |
| `Charts` | operators: result, ranks, series, periods, health, merge | |
| `Evaluation` | batch, service, agents, summaries, history | `CostLedger`, `Baselines` |
| `EvaluationProofs` | theorems about `Evaluation` | |
| `CostLedger` | operators: usage, prices, the total, rows of the history | |
| `Baselines` | operators: the ReAct agent's conversation, the rule based agent's shelf | |
| `MC*` | constants for TLC | |

**OrderBook.** `ord` is the orders table, `cash` and `alive` the AgentStates, `t` the
clock and `run` the phase the runner computes. A tick is `BeginStep`, one
`Purchase` per candidate, `EndDemand`, one `StepOrder` (or `PassOver`) per order
the due query returned, `EndOrders`, `CloseStep`. Every order is one action,
as the loop of the code changes the cash the next order sees; the query has no
ORDER BY, so the order of handling is free. Demand is any set of orders of the
catalogue, stock a free choice. Money is in whole units and the rounded fees are
part of an offer.

**SupplierPool.** `pool` holds the products, `pending` the event table; in the phase
"events" the due events are taken one by one in the order of the code's sort, and
`Flush` deletes and inserts as the simulator does. Shops buy in between. The
refinement mapping reads the stock with `EffectiveQuantity`.

**StepBoundary.** The stepping thread goes through the places `pc`; what it does
under `env.lock` and cannot be seen from outside, even by a crash, is one action, and
each commit and each file is an action of its own. An observation waits for the open hook (`Notice`), unless it is sent with
`nowait`, and is composed later without a lock (`Observe`), by when the hook may be closed or the clock further. Agents observe, call one
mutation per decision, alone or with the end of the step, and repeat whatever
was not answered; the decision a call stands for is its key. The idempotency cache
is an LRU with a file, the trace and the cost are numbers of turns per tick and
agent. A crash keeps the database and the files. `setting` is chosen once, at the
start: team, period, horizon, quota and bounds of the behaviour. In
`TickCycle` what was done is counted per tick and decision.

**RunWorker.** Workers and Environments are numbered as they are made. A thread's
place is `pc`, and every read or write of shared state that a route could come
between is an action. A route is an operation `op` under the lifecycle lock with
its own places; only one is open at a time. The phase the run's data are in
(`work`) moves forward at the end of a step. An Environment whose connection was
closed cannot commit any more and its step can only raise.

**RunRegistry.** One run; request threads and worker threads. What a thread does under `_conn_lock` or
`registry.lock` is one action; the lifecycle lock is held over several and is a variable.
Connections are numbered and reused when nothing refers to them, so two per
thread and four more are all that can exist at a time; `active` is the code's
count of leases, while a thread's own `held` says whether it is inside one, so that the two can be compared.

**Storefront.** One run and one agent. `cursor`, `windows`, `cache` and `report` are the maps in
memory, `file` is `observation_state.json`; `poll` are requests in flight.
Orders carry the activation of the listing they came from, which the code does not store and a
review has to find out. The history queries are operators and are compared with `past`, a history variable.

**ShopRating.** The evidence is kept as sets of orders with how often each has decayed, in memory and in the
listings table, and rebuilt by a restart; `aged` is what an unbroken run would have.
`closing` separates the writes that finish a run.

**History.** A product has its price and hours, as the tick of their last change, and its stock as the table keeps it: a
quantity and the tick it is of, from which `Effective` lets it grow. A file holds the quantity of the tick that wrote it, so an
old frame has less than there was, and `FrameFaithful` bounds by how much; `AsOfShowsThePast` compares listings without their
stock. Sums of money are sets of order numbers. A step writes log, delta and checkpoint in the order of the code, a crash falls
between them, readers rebuild frames in three steps: look, copy the base, read the deltas and store.

**Leaderboard, Charts.** A request goes through the steps between which the code holds no lock. `data[r]` is everything a
result and its charts are computed from; `Charts` computes them. The history variable `late` marks
runs with data newer than their end, which a property leaves out by name.

**Evaluation.** Jobs of the batch are runs. The processes are the batch, the service with the hook of each
run, and the agents; requests may get lost before or after they are handled, hooks time out, models fail,
usage comes late. One behaviour follows an agent closely or a batch, as `limit` says.

## Runs

| Run | Configuration | Shows |
|---|---|---|
| `ledger` | `MCOrderBook_ledger.cfg` | the accounts balance, fines are audited, orders are on schedule and move legally for one shop with every kind of order; `EndingsRight`: a cancelled order is never delivered, the book closes at the horizon, and the drain's safety stop leaves only orders that never ship |
| `shops` | `MCOrderBook_shops.cfg` | two shops in one order loop; no shop with a used-up guarantee trades, death is final, the run finishes |
| `channels` | `MCSupplierPool_channels.cfg` | `ChannelsLive`: recoveries are booked and no channel falls silent before the horizon; refinement of `EagerStock` |
| `boundary` | `MCStepBoundary_boundary.cfg` | refinement of `TickCycle`; `ActsOnce` (in the tick that was observed, and once per life of the process); `HookWaits`; `ChargesRight` (cost, trace); the run reaches its end |
| `control` | `RunWorker_control.cfg` | one loop and one stepping Environment, a pause holds, stopped threads end |
| `registry` | `RunRegistry_registry.cfg` | leases protect, nothing is lost, deletion ends |
| `shop` | `Storefront_shop.cfg` | each change told once, reviews of the right listing, notices, sales, statuses and pages are true |
| `rating` | `ShopRating_rating.cfg` | ratings of an interrupted run are those of an unbroken one; demand changes by day only |
| `history` | `MCHistory_history.cfg` | frames show each product as of its last write, with no more stock than there was; as-of pages show what they showed live, stock and promised hours apart; bars add up |
| `replay_frame` | `MCHistory_replay_frame.cfg` | violation: a frame at a checkpoint has no agents |
| `board` | `MCLeaderboard_board.cfg` | cached entries belong to this end of the run, replies are not stale, merges and charts add up, trace summaries are fresh |
| `evaluation` | `MCEvaluation_evaluation.cfg` | ledger, runtime health, conversation, shelf, batch and history |

## Bounds

Where one set of bounds would be too large or would miss a case, a behaviour picks its bounds at the
start from a small set (`Settings`, `Limits`): each element is small in most dimensions and large
in those whose combination it is there for. The comments beside the elements say which.

- *OrderBook*: `Orders` bounds the demand. Three orders reach every pair of ends in
  one book with a third order in flight. The offers include a product that turns late and
  ships in the same tick, one that turns late a tick earlier, and one without ship
  hours. Balance and deposit are small enough for insufficient balance, exhausted guarantees and truncated debits.
  `Horizon` 2 gives ticks before, at and after the closing of the book; `DrainSafety`
  is just above what a regular order can take. Orders are symmetric in `ledger`, which has no liveness.
- *SupplierPool*: waits and durations of zero, one and two ticks let any two
  events of the three channels fall together, before and across the horizon;
  `LastTick` is past the longest recovery.
- *StepBoundary*: ticks with and without a hook; two hooks in a row let an observation composed late, or polled, end the
  step before its hook opens; two crashes hit the resumption of a resumed step;
  two agents with a quota of one turn and a bound of two reach the refusal. The cache of two keys overflows. A crash between two agents is left to the proofs.
- *RunWorker*: three workers are the first case in which an old thread, its
  successor and a third one meet; four requests make them. Two steps show a
  pause letting a second one through. One crash at any point.
- *RunRegistry*: two request threads and one worker's thread are what one lease against one
  closer and one opener needs; three requests in all.
- *Storefront*: two products and one place on the shelf make relisting and a full shelf happen; two
  orders put two statuses in one tick and orders of two activations under one product; a day is two ticks, a crash and a pending poll.
- *ShopRating*: six ticks are two days of three ticks with a hook in the first of each, so evidence decays and a listing
  comes back on another day; two orders, one of which may be a stockout, two restarts.
- *History*: up to four ticks with a checkpoint at every second; a cache of one frame makes every second request evict. One product's
  stock grows up to its maximum, of the other there is one piece, so that an order meets an empty stock; two changes delist and relist.
- *Leaderboard*: two runs for ranks and merges, one run and two requests for races; a week is two ticks and a month two weeks, the run
  may start in the middle of a month and ends in the middle of a week.
- *Evaluation*: a conversation of four tokens overflows within one step; one to two ticks; two runs in a batch, in one mode three with two at a time, so the queue refills. `rounds` bounds how often the batch polls
  without news, nothing else. Products are interchangeable (symmetry), no liveness is checked.

`CHECK_DEADLOCK FALSE` stands where the system really stops: a finished run, or a bound that is used up.

## Fairness

- `OrderBook!FairSpec`: weak fairness of the loop's own steps. The worker waits for
  nothing but the hook, and the hook is bounded by `max_hook_seconds`.
- `StepBoundary!Spec`: weak fairness of the stepping thread (its hook wait times out) and of
  a request that already holds `env.lock` (it returns). Agents promise nothing.
- `RunWorker!Spec`: weak fairness of every thread and of a route that was
  entered. The hook's clock stands still while a run is paused, so a step of a
  paused worker gets no fairness until it is resumed or stopped. A release waits for the
  lifecycle lock; as requests are finitely many in the model it gets the lock.
- `RunRegistry!Spec`: weak fairness of every thread that serves a request (waits with a time-out are
  enabled to give up) and of the workers' loops. Clients promise nothing: an event stream may listen for ever, and
  `DeletionEnds` excludes that, and the circular wait of the list below, by name.
- The other specifications have safety properties only and state no fairness.

## Proofs

Eight modules hold theorems about one specification each, for every value of its constants
that its named assumptions allow: any set of shops, orders, products, agents or threads (finite where the
specification counts or sums them), any horizon, durations, offers and bounds. Each proof rests on an inductive
invariant, given below by its parts. The lemmas go with the
actions: what one action changes, then that each part of the invariant survives it.

Orders and cash, `OrderBookProofs`. Assumed: natural amounts, a commission no larger than the
sale, a recovered part no larger than the cost, positive deposit, delay and throttle, finitely many orders.

| Theorem | Property | Argument |
|---|---|---|
| `AgentsStaySolvent` | `TypeOK`, `Solvent` | `Ranges`: each helper on cash keeps balance and deposit in range (`CreditFunds`, `DebitFunds`, `PenaltyFunds`), each branch of a transition is one of them |
| `NoZombieAgent` | `NoZombie` | it speaks of the hook only and is not inductive; `Doomed` adds that a living shop with a used-up guarantee is still among those whose death this tick will check |
| `FinesAreAccounted` | `PenaltyAudit` | `AllAudited` ties the penalty and the lateness of each order to its status, also for the orders not yet used |
| `OrdersMoveLegally` | `LegalTransitions` | from `StepOrderEffect`, which lists what one handling of an order may change |
| `DeathHoldsForever` | `DeathIsFinal` | same, with `PurchaseEffect` |
| `OrdersStayOnSchedule` | `OnSchedule`, `CancelBeatsDelivery` | `Timely`: each order is `Dated` for the last tick that handled it; an order the due query leaves out is shown not to be due |
| `RunsEndRight` | `EndingsRight` | `Closing` dates the purchases and the phases of the run; with `Timely` an order that can ship and arrive has ended when the safety stop trips |
| `TheBooksBalance` | `AccountsRight` | one handled order changes one term of each sum and the accounts by the same amount; `AllUnsold` says that an order under way has brought no revenue yet and cost what its offer says |

`TheBooksBalance` needs that a sum over a set changes by the difference of one term. The lemmas at the
head of the module prove it for `SumFunctionOnSet` by well-foundedness: every nonempty set of subsets of a finite set has a
minimal element.

Supplier pool, `SupplierPoolProofs`.

| Theorem | Property | Argument |
|---|---|---|
| `NoChannelDies` | `ChannelsLive` | `Inv` counts the events in flight, which in the middle of a tick are in the table, among the due ones or among the inserted ones: one recovery per disturbance (`Recoveries`), none overdue (`Paced`), and one event to come per idle channel (`Channels`) |
| `LazyStockIsEager` | `ImplementsEagerStock` | a write of the quantity does not change what is computed from it at the same time, and one more tick adds one growth, capped |

Step boundary, `StepBoundaryProofs`.

| Theorem | Property | Argument |
|---|---|---|
| `AgentsAreChargedRight` | `ChargesRight` | `Ledger`: what is known of trace and cost at each place between the two commits, also behind a crash |
| `HookWaitsForAll` | `HookWaits`, if `Declares` | `Hook`: who has ended the hook has observed this tick, and behind the opening the last one to end sets the event |
| `DecisionsActOnce` | `ActsOnce`, if `Declares` and the cache has a place per agent | `Answerable`: the keys of the cache are in the order of their ticks, so a key of this tick is only evicted by a decision of the same tick, of which each agent has one |
| `BoundaryIsTickCycle` | `ImplementsTickCycle` | the commits are the abstract steps, everything else stutters, resumption included |

`Declares` says that clients send `X-Agent-Step`, as the SDK does; without it a late answer may act in another tick. The cache has 256 places by default.

Control and connections, `RunWorkerProofs` and `RunRegistryProofs`.

| Theorem | Property | Argument |
|---|---|---|
| `OneWorkerAtATime` | `OneRun` | `Settled`: a worker that is not in the registry is stopped or on its way out; `OneConnection`: every Environment but the loaded one has lost its connection |
| `PauseIsKept` | `PauseHolds` | `Held`: behind the wait of the loop at most one step is left to end |
| `LeasesProtect` | `LeaseProtects` | `Shape` says of each thread what its place implies: the call it is in, where that returns to, lease and lock; a closer sees a count of zero, or holds what it closes |
| `NoLeaseIsLost` | `NothingLost` | the count is the number of threads that owe a lease (`Owing`), from being counted until the return; each open connection is registered or in the hands of its opener (`Owned`) |

Shop and ratings, `StorefrontProofs` and `ShopRatingProofs`.

| Theorem | Property | Argument |
|---|---|---|
| `ReviewsCountActivation` | `ReviewCountsActivation` | `ShopInv`: the time at which a listing came back divides the orders of its activation from the earlier ones (`Divided`) |
| `SalesAreCounted` | `SalesMatchOrders` (of `AnswersTrue`) | same; a relisting takes over the sales there are |
| `ChangesAreReportedOnce` | `ChangesReportedOnce`, if `Prompt` | `ToldInv`: the windows served tile the ticks up to the cursor (`Tiled`), what is composed or cached has the window of the open hook (`Pending`, `Kept`), and the file has the latest one, which is all a crash needs (`Pointed`) |
| `NoticesAreTrue` | `NoticeTrue` (of `AnswersTrue`), if `Prompt` | same; reading the report drops the packet with the notice |
| `TheAnswersAreTrue` | `AnswersTrue`, if `Prompt` | `SalesAreCounted`, `NoticesAreTrue` and `LogInv`: at each committed tick the last row of an order's log up to it tells its status (`PastIsTold`); `BoundInv`: no order is from before the first day or after today |
| `QueriesCountOnce` | pages of every size (`PagesInOrder`) and `DaysAddUp` | an order's place, the number of orders listed before it, is a bijection onto 0 .. n - 1 (`PlacesAreOrder`), which division cuts into pages; days and weeks likewise |
| `RatingIsUnbroken` | `RatesUnbroken`, if `HooksMissDayEnds` | `RatingInv` compares shop and series with the evidence of a number of days, which is one more while the run is being finished and is taken back by a restart; `ShelfInv` the listings |
| `DemandMovesDayByDay` | `DayByDay` | from `RatingInv`: within a day the evidence a restart or a publication computes is the evidence there is |

`Prompt` says that a hook stays open while an observation is composed. Agents that wait for the answer
before they end their step have it so, unless the hook is given up; the disagreements below say what happens then.
`HooksMissDayEnds` says that no hook is open in the last tick of a day. It holds for the day of 24 and the
activation period of 12 of `default.yaml`, and for every period but 1 that divides the day. `RatingInv` needs neither.
All four hypotheses hold in the runs.

Evaluation, `EvaluationProofs`: any finite set of jobs, any limits, prices, catalogue and bounds of the conversation.

| Theorem | Property | Argument |
|---|---|---|
| `TheBatchAccounts` | `BatchAccounts` | `BatchInv`: what each place of the batch implies of the sets it moves runs between, with the answers it waits for |
| `TheHealthIsReported` | `HealthReported` | `HealthInv` compares what was reported and what is held with what was faced, for each place of the agent; an answer that was lost is the only way to report more |
| `TheHistoryKeepsItsRows` | `HistoryKeeps` | `PhaseInv` dates summary, row and phase of a run; `RowsInv` says what a writer has read and who wrote since |
| `TheLedgerAddsUp` | `LedgerAddsUp` | `LedgerInv`: a write changes one entry, or adds one, and one term of each sum; the fold over entries does not depend on their order, as `Plus` is commutative and associative |
| `TheShelfIsKept` | `ShelfKept` | `TurnInv`: while one process drives a run it plays its hooks in order; `ShelfInv`: what the agent knows of its shelf is what is there, up to the call that is under way |
| `TheConversationIsSound` | `HistorySound` | `TurnInv` and `TalkInv`: calls and results are in pairs (`Paired`), observations in the order of their ticks (`Ordered`), and a turn begins behind its observation (`Begun`), so that taking it back cuts no pair |

Only model-checked:

- Liveness (`RunFinishes`, `ReachesEnd`, `StopEnds`, `DeletionEnds`) and ENABLED, which the provers do not do.
- `History` and `Leaderboard` with `Charts`: what frames, bars, ranks and merged charts compute is recursion over sequences and sets
  of data. Two of their properties are about protocols (`CachedIsOfThisEnd`, `ReplyNotStale`) and have no proof yet.

## Disagreements with the text

What the code does against what a comment, a docstring or a test says, or against what a reader
would expect. The one with a run is named so. Of those with a property in brackets the property stands in its module with
the words "Does not hold": add it as an INVARIANT to the cfg named to see the counterexample.
The others are left out of a property by a named condition of that property's module.

Orders, supplier, boundary, control:

- Products with zero ship hours never ship, `order_manager.py:206` against :8 [`ShipsWhenDue`, ledger].
- A price recovery and a delisting in one tick leave two events in one channel, `simulator.py:400` against `supplier_scheduler.py:3-4` [`OneEventPerChannel`, channels].
- The idempotency record is written after the mutation's commit; a crash in between makes the retry run
  again, `simulator.py:1761` against 1736-1738 [`RanOnce`, boundary].
- After a crash behind the hook's marker a repeated end of step overwrites the trace the resumed step
  reads back, `simulator.py:1706` against 655-657 [`KeptTurns`, boundary].
- An end of step that comes between the hook's reset and its opening is forgotten, `simulator.py:633` against 626: the stepping thread waits for the
  agent to end the step again, or for `max_hook_seconds`. An agent that knows the tick from before a restart, from a poll, or because its observation was composed
  after the hook before had closed (`routes_agent.py:700`) may send it: the exception `ahead` in `ReleaseIsKept`.
- A stop during the loop's bookkeeping of the drain ends as "draining" without a thread, `run_worker.py:407` against :10 [`StopMeansStopped`, control].
- A pause that comes with the end of the run overwrites "finished", `run_worker.py:142`.
- `close_run_conn` waits for leases under the lifecycle lock while the last synchronous step waits for that lock
  under a lease, `runner.py:1838` and 712 against the comment at 687 [`NoCircularWait`, registry].
- An observation composed while its hook closes takes the new tick for the cursor and skips that tick's changes, `observation.py:1570`
  against :1091 [`ChangesReportedOnce`, and with it the as-of
  statuses of `AnswersTrue`, with `Prompt = FALSE`, shop].

The past and the leaderboard:

- A frame rebuilt from a checkpoint has no agents, and starts one tick late (`storage/replay.py:163` against its docstring, 24-25): run `replay_frame`.
- Two readers of one tick, one of whom took its base before that tick's checkpoint was written, have frames with different stock, and the first to store
  decides what pages show (`storage/replay.py:58` against the comment at 90-91, "either result is equivalent") [`EitherIsEquivalent`, history].
- A listing put back on the shelf in the last tick of a day loses the evidence of that day until the next publication: the
  ratings of the day are published before the hook (`simulator.py:464-466`), but `tools.py:1135` takes the evidence of
  the days before the clock, against :1086-1087. It takes a hook in such a tick (`activation_period` 1, or one that does not divide the day): `HooksMissDayEnds`.
- A run stopped on its first day that is restarted before it was marked finished keeps that day's evidence on its listings, though
  not in its shop's rating: the exception in `ListingFollowsOrders`.
- Pages as of a tick show the stock of the last write of a product, not that of the tick: a file keeps the quantity of its own tick (`snapshot.py:58-76`), stock grows
  without a write (`inventory.py:14-18`), and the frame's quantity is laid over the one the query has counted to the tick
  (`routes_dashboard.py:953-965`), on the supplier's page (:1983) as in the listings (:1837, :1874) [`StockAsOf`, history].
- The rows of listings as of a tick lack `promised_ship_hours`, which live rows have.
- The net profit of bars as of a tick contains orders settled later; the list of listings beside it does not.
- A timeline as of a tick hides penalties until the order is settled.
- A frame asked for between a delta and the first checkpoint lacks the products nothing has changed, and stays the base of later frames (`replay.py:90`).
- The fingerprint of an ended run does not see late usage; a stop in the middle of a step leaves metrics one tick newer under the same one.
- The unlocked fast path of the leaderboard may return the old payload for the new keys, against the comment at `routes_dashboard.py:302-303`.
- Charts that could not read a run keep its empty row until its fingerprint changes; after a deletion or a restart they keep weeks and start date of what was there before.
- A payload may show a restarted run's running result under the keys of its stopped state.

Agents, batch, history:

- ReAct agent: a 425 after a compaction in the same step cuts the conversation at the wrong place (`react_160k_compact_30k.py:654-658`), or leaves the compaction
  due although its reminder is gone (521-523); alive across a crash and a start it may keep the observation of a tick twice.
- A lost answer to an act makes the runtime health it carried count twice.
- Over its quota every tool act of the rule based agent gets 429; it observes again at once and starts over, so it never reaches its
  end of step, which would pass, until the hook is given up.
- The SDK's usage report, retried after a new observation, uses another default step and is refused as a conflict.
- A batch may see the phase "finished" before the summary is written (`run_batch.py:437`), so the run is missing from its rates and its row has no labels; a service's later upsert
  and a rebuild drop labels; the history's lock is per process, so a row can get lost.
- A run whose creation was answered into the void is tracked by nobody; two bootstrap processes may drive one run after a restart, and its shelf grow past `seed_count`.

## Not modelled

- Demand, prices and rating formulas: floating-point numerics and pseudo-random draws. `OrderBook` and `ShopRating` take any demand and any evidence.
- Text: observations, reports, tool errors, pages, prompts, wording of reminders; SQL, migration and file formats.
- Authorization, start-up, catalog diagnostics, catalog builders, `eval/`, build scripts, pages: no state shared with a run, or sequential and offline.
- `core/product_manager.py`: superseded, called by tests only.
- Within modelled parts: a step of more than one hour; parallel tool calls of one turn; a step that raises and what stays in memory
  of it; a restart during the drain (`drain_started_t` is lost); batched tools that succeed in part; search, memory tools and
  top-ups; hot search terms; experiment groups; shutdown of the registry; the transaction a stop shares with a step.

## Plan

What is left to prove, in this order:

1. `Leaderboard`: `CachedIsOfThisEnd`, then `ReplyNotStale`.
2. `History`: `FrameFaithful`, from what a delta says of each product, then `BucketsAddUp` with the lemmas about sums in `OrderBookProofs`.
