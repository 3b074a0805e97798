------------------------------ MODULE Storefront ------------------------------
(***************************************************************************)
(* What one agent does to its shop and what it is told of it: the listing  *)
(* tools of tools/tools.py, the observations of tools/observation.py with  *)
(* their cursor, windows and cache, the daily report, and the queries over *)
(* orders that tools and dashboard answer from the tables.                 *)
(*                                                                         *)
(* A tick is one Transition, which the simulator commits as a whole, then  *)
(* the hook if the tick has one, then the clock.  Which orders arrive and  *)
(* move is left open here, and so is what the suppliers have in stock;     *)
(* OrderBook and SupplierPool say that.  A batched tool commits each item  *)
(* by itself, so a batch, whole, cut off by a crash or repeated, is a      *)
(* succession of items.                                                    *)
(***************************************************************************)
EXTENDS Integers, Sequences, SequencesExt, FiniteSets

CONSTANTS
  Products,
  Prices,
  MaxActive,     \* platform_rules.max_active_listings
  Period,        \* agent.activation_period
  TicksPerDay,
  ReportDays,    \* days with a daily report file
  Polls,         \* requests for an observation that may be open at a time
  Prompt,        \* a hook stays open while an observation is composed
  LastTick,      \* bound on the clock
  OrderBound,    \* bound on the orders
  ActBound,      \* bound on the calls of the agent
  CrashBound     \* bound on the crashes

ASSUME StorefrontAssumption ==
  /\ {MaxActive, Period, TicksPerDay} \subseteq Nat \ {0}
  /\ {LastTick, OrderBound, ActBound, CrashBound} \subseteq Nat
  /\ ReportDays \subseteq Nat /\ Prompt \in BOOLEAN
  /\ IsFiniteSet(Products)

VARIABLES
  t,          \* env.t
  phase,      \* before the transition, in the hook, after it
  orders,     \* table orders, with the activation of the listing they came from
  log,        \* table order_status: rows <<order, tick, status>>
  shelf,      \* table store_listings
  activation, \* product -> how often it was put on the shelf
  cursor,     \* last_observation_step_by_agent
  windows,    \* observation_window_by_agent_step
  cache,      \* observation_cache_by_agent_step
  report,     \* daily_report_read_date_by_agent
  file,       \* observation_state.json
  poll,       \* open requests for an observation
  served,     \* the observations served
  past,       \* tick -> the status of the orders at its commit
  acts, crashes

shop == <<orders, log, shelf, activation, past>>
told == <<cursor, windows, cache, report, file>>
vars == <<t, phase, shop, told, poll, served, acts, crashes>>

Ticks == 0 .. LastTick + 1

\* A call of the agent to which the hook is open.
Act == phase = "hook" /\ acts < ActBound /\ acts' = acts + 1

Never == -1
Unlisted == [price |-> 0, listed |-> Never, sales |-> 0]
NoWindow == [from |-> Never, to |-> Never]
NoPacket == [window |-> NoWindow, done |-> Never, notice |-> FALSE]
AtRest == [at |-> Never, window |-> NoWindow, done |-> Never, notice |-> FALSE]
Woken == [AtRest EXCEPT !.at = LastTick + 2]

Init ==
  /\ t = 0 /\ phase = "quiet"
  /\ orders = <<>> /\ log = {} /\ past = <<>>
  /\ shelf = [p \in Products |-> Unlisted]
  /\ activation = [p \in Products |-> 0]
  /\ cursor = Never /\ report = Never
  /\ windows = [u \in Ticks |-> NoWindow]
  /\ cache = [u \in Ticks |-> NoPacket]
  /\ file = [cursor |-> Never, at |-> Never, window |-> NoWindow, report |-> Never]
  /\ poll = [x \in Polls |-> AtRest]
  /\ served = {}
  /\ acts = 0 /\ crashes = 0

-----------------------------------------------------------------------------
(* The shop.                                                               *)

Listed == {p \in Products : shelf[p] # Unlisted}
Failures == {"stockout", "insufficient_balance"}
Open == {"ordered", "late", "shipped", "delivered"}
Numbers == 1 .. Len(orders)
Procured(p) == {i \in Numbers : orders[i].product = p /\ orders[i].status \notin Failures}

\* What becomes of a customer's order, and what an order may go through in one
\* tick.
Outcomes == Failures \cup {"ordered"}

Paths(s) ==
  CASE s = "ordered"   -> {<<>>, <<"late">>, <<"shipped">>, <<"late", "shipped">>}
    [] s = "late"      -> {<<>>, <<"shipped">>}
    [] s = "shipped"   -> {<<>>, <<"delivered">>, <<"cancelled">>}
    [] s = "delivered" -> {<<>>, <<"settled_normal">>}
    [] OTHER           -> {<<>>}

\* Mutant of Booked: the new sales total of a listing is not written before
\* the listings are loaded again.
BookedLost(outcome) == shelf

\* A procured order counts on its listing at once.
Booked(outcome) ==
  [p \in Products |->
     IF p \in DOMAIN outcome /\ outcome[p] \notin Failures
     THEN [shelf[p] EXCEPT !.sales = @ + 1] ELSE shelf[p]]

\* The transition of a tick, in one transaction: new orders for what is on the
\* shelf, the supplier events, the order manager; then the hook, if any.
Transition ==
  /\ phase = "quiet"
  /\ \E sold \in SUBSET Listed :
     \E outcome \in [sold -> Outcomes],
        path \in [Numbers -> UNION {Paths(orders[i].status) : i \in Numbers}] :
       LET fresh == SetToSeq(sold)
           Row(i) == Len(orders) + i
           moved == [i \in Numbers |->
                       IF path[i] = <<>> THEN orders[i]
                       ELSE [orders[i] EXCEPT !.status = Last(path[i])]]
           arrived == [i \in DOMAIN fresh |->
                         [product |-> fresh[i], t |-> t, status |-> outcome[fresh[i]],
                          activation |-> activation[fresh[i]]]]
       IN /\ Len(orders) + Cardinality(sold) <= OrderBound
          /\ \A i \in Numbers : path[i] \in Paths(orders[i].status)
          /\ orders' = moved \o arrived
          /\ log' = log \cup (UNION {{<<i, t, s>> : s \in ToSet(path[i])} : i \in Numbers})
                        \cup {<<Row(i), t, outcome[fresh[i]]>> : i \in DOMAIN fresh}
          /\ shelf' = Booked(outcome)
          /\ past' = Append(past, [i \in 1 .. Len(orders') |-> orders'[i].status])
  /\ phase' = IF t % Period = 0 THEN "hook" ELSE "closed"
  /\ UNCHANGED <<t, activation, told, poll, served, acts, crashes>>


\* Mutant of Relisted: a product that comes back starts without its sales.
RelistedFresh(p, price) == [price |-> price, listed |-> t, sales |-> 0]

\* Mutant of Listing: listing a listed product starts a new activation.
ListingAnew(p, price) == [price |-> price, listed |-> t,
  sales |-> IF p \in Listed THEN shelf[p].sales ELSE Cardinality(Procured(p))]

Relisted(p, price) ==
  [price |-> price, listed |-> t, sales |-> Cardinality(Procured(p))]

Listing(p, price) ==
  IF p \in Listed THEN [shelf[p] EXCEPT !.price = price] ELSE Relisted(p, price)

\* Mutant of Room: one listing too many.
RoomForOneMore == Cardinality(Listed) <= MaxActive

Room == Cardinality(Listed) < MaxActive

ListProduct(p, price) ==
  /\ Act
  /\ p \in Listed \/ Room
  /\ shelf' = [shelf EXCEPT ![p] = Listing(p, price)]
  /\ activation' = IF p \in Listed THEN activation ELSE [activation EXCEPT ![p] = @ + 1]
  /\ UNCHANGED <<t, phase, orders, log, past, told, poll, served, crashes>>

DelistProduct(p) ==
  /\ Act /\ p \in Listed
  /\ shelf' = [shelf EXCEPT ![p] = Unlisted]
  /\ UNCHANGED <<t, phase, orders, log, activation, past, told, poll, served, crashes>>

AdjustPrice(p, price) ==
  /\ Act /\ p \in Listed
  /\ shelf' = [shelf EXCEPT ![p].price = price]
  /\ UNCHANGED <<t, phase, orders, log, activation, past, told, poll, served, crashes>>

-----------------------------------------------------------------------------
(* Observations.                                                           *)

Day(u) == u \div TicksPerDay
Committed == Len(past) - 1

\* Mutant of ChangeWindow: the last observed step is told again.
ChangeWindowAgain == [from |-> IF cursor = Never THEN 0 ELSE cursor, to |-> t]

ChangeWindow == [from |-> cursor + 1, to |-> t]

\* Mutant of CurrentWindow: the window of a hook is computed from the cursor
\* although an observation has moved it.
CurrentWindowBlind == ChangeWindow

CurrentWindow == IF windows[t] # NoWindow THEN windows[t] ELSE ChangeWindow

NoticeAvailable == Day(t) \in ReportDays /\ report # Day(t)

\* The file keeps of the windows the latest one.
Latest(w) ==
  LET seen == {u \in Ticks : w[u] # NoWindow}
  IN IF seen = {} THEN Never ELSE CHOOSE u \in seen : \A v \in seen : v <= u

Saved(c, w, r) ==
  [cursor |-> c, at |-> Latest(w), report |-> r,
   window |-> IF Latest(w) = Never THEN NoWindow ELSE w[Latest(w)]]

\* An observation with what it is about: the tick of its key, its window, what
\* was committed when it was composed, and whether its notice is right.
Told(at, packet) ==
  [at |-> at, window |-> packet.window, done |-> packet.done,
   right |-> packet.notice = NoticeAvailable]

\* A request waits for the hook.
Observe(x) ==
  /\ Act /\ poll[x] = AtRest
  /\ poll' = [poll EXCEPT ![x] = Woken]
  /\ UNCHANGED <<t, phase, shop, told, served, crashes>>

\* It is answered from the cache, or composed without a lock.
Look(x) ==
  /\ poll[x] = Woken
  /\ IF cache[t] # NoPacket
     THEN /\ served' = served \cup {Told(t, cache[t])}
          /\ poll' = [poll EXCEPT ![x] = AtRest]
     ELSE /\ poll' = [poll EXCEPT ![x] = [at |-> t, window |-> CurrentWindow,
                                          done |-> Committed, notice |-> NoticeAvailable]]
          /\ UNCHANGED served
  /\ UNCHANGED <<t, phase, shop, told, acts, crashes>>

\* Under turn_lock it is cached and the cursor and the window are saved.
Serve(x) ==
  LET packet == [window |-> poll[x].window, done |-> poll[x].done, notice |-> poll[x].notice]
  IN /\ poll[x] \notin {AtRest, Woken}
     /\ cache' = [cache EXCEPT ![poll[x].at] = packet]
     /\ windows' = [windows EXCEPT ![poll[x].at] = poll[x].window]
     /\ cursor' = t
     /\ file' = Saved(t, windows', report)
     /\ served' = served \cup {Told(poll[x].at, packet)}
     /\ poll' = [poll EXCEPT ![x] = AtRest]
     /\ UNCHANGED <<t, phase, shop, report, acts, crashes>>

Composing == \E x \in Polls : poll[x] # AtRest

\* Mutant of ReadReport: the cached observation keeps its notice.
ReadReportCached ==
  /\ Act /\ Day(t) \in ReportDays
  /\ Prompt => ~Composing
  /\ report' = Day(t)
  /\ file' = Saved(cursor, windows, report')
  /\ UNCHANGED <<t, phase, shop, cursor, windows, cache, poll, served, crashes>>

\* get_daily_report: the cached observation is dropped with its notice.
ReadReport ==
  /\ Act /\ Day(t) \in ReportDays
  /\ Prompt => ~Composing
  /\ report' = Day(t)
  /\ cache' = [cache EXCEPT ![t] = NoPacket]
  /\ file' = Saved(cursor, windows, report')
  /\ UNCHANGED <<t, phase, shop, cursor, windows, poll, served, crashes>>

CloseHook ==
  /\ phase = "hook"
  /\ Prompt => ~Composing
  /\ phase' = "closed"
  /\ UNCHANGED <<t, shop, told, poll, served, acts, crashes>>

Clock ==
  /\ phase = "closed" /\ t < LastTick
  /\ t' = t + 1 /\ phase' = "quiet"
  /\ UNCHANGED <<shop, told, poll, served, acts, crashes>>

\* The tables and the file are left; a hook that was open is opened again.
Crash ==
  /\ crashes < CrashBound
  /\ crashes' = crashes + 1
  /\ cursor' = file.cursor /\ report' = file.report
  /\ windows' = [u \in Ticks |-> IF u = file.at THEN file.window ELSE NoWindow]
  /\ cache' = [u \in Ticks |-> NoPacket]
  /\ poll' = [x \in Polls |-> AtRest]
  /\ UNCHANGED <<t, phase, shop, file, served, acts>>

Next ==
  \/ Transition
  \/ \E p \in Products, price \in Prices : ListProduct(p, price) \/ AdjustPrice(p, price)
  \/ \E p \in Products : DelistProduct(p)
  \/ \E x \in Polls : Observe(x) \/ Look(x) \/ Serve(x)
  \/ ReadReport \/ CloseHook \/ Clock \/ Crash

Spec == Init /\ [][Next]_vars

-----------------------------------------------------------------------------
(* What the queries answer.                                                *)

Rank(s) == CASE s = "ordered" -> 10 [] s = "late" -> 20 [] s = "shipped" -> 30
             [] s = "delivered" -> 40 [] s = "settled_normal" -> 60 [] OTHER -> 50

\* Mutant of AsOf: of the rows of one tick the first is taken.
AsOfFirst(i, u) ==
  LET rows == {r \in log : r[1] = i /\ r[2] <= u}
  IN (CHOOSE r \in rows : \A q \in rows :
        q[2] < r[2] \/ (q[2] = r[2] /\ Rank(r[3]) <= Rank(q[3])))[3]

\* The status of an order at an earlier tick, read from the log.
AsOf(i, u) ==
  LET rows == {r \in log : r[1] = i /\ r[2] <= u}
  IN (CHOOSE r \in rows : \A q \in rows :
        q[2] < r[2] \/ (q[2] = r[2] /\ Rank(q[3]) <= Rank(r[3])))[3]

\* The log of an order, and the order in which the queries read its rows.
StatusLog(i) == {r \in log : r[1] = i}
Before(q, r) == q[2] < r[2] \/ (q[2] = r[2] /\ Rank(q[3]) < Rank(r[3]))

\* query_order_updates: the orders that moved in a window, each with the status
\* it had before its first move there.
Updated(w) == {i \in Numbers : \E r \in log : r[1] = i /\ r[2] \in w.from .. w.to}

Previous(i, w) ==
  LET first == CHOOSE r \in StatusLog(i) :
                 /\ r[2] \in w.from .. w.to
                 /\ \A q \in StatusLog(i) : Before(q, r) => q[2] < w.from
      earlier == {q \in StatusLog(i) : Before(q, first)}
  IN IF earlier = {} THEN "none"
     ELSE (CHOOSE q \in earlier : \A r \in earlier : r = q \/ Before(r, q))[3]

\* Mutant of Reviewed: an order of the tick of the listing counts.
ReviewedFrom(p) == {i \in Procured(p) : orders[i].t >= shelf[p].listed}

\* The sales a review of the listings counts for a listing.
Reviewed(p) == {i \in Procured(p) : orders[i].t > shelf[p].listed}

\* Mutant of DayRange: the last tick of a day is left to the next.
DayRangeShort(from, to) == (from - 1) * TicksPerDay .. to * TicksPerDay - 2

DayRange(from, to) == (from - 1) * TicksPerDay .. to * TicksPerDay - 1

OrdersOf(from, to) == {i \in Numbers : orders[i].t \in DayRange(from, to)}

\* The weeks a span of days is reported by.
Weeks(from, to) ==
  {<<d, IF d + 6 < to THEN d + 6 ELSE to>> : d \in {e \in from .. to : (e - from) % 7 = 0}}

\* query_my_orders lists the latest order first, and of a tick the last.
Later(i, j) == orders[i].t > orders[j].t \/ (orders[i].t = orders[j].t /\ i > j)

\* How many orders of a list come before one of it.
Place(i, found) == Cardinality({j \in found : Later(j, i)})

\* A page is fetched with one order more, which tells whether there is a next one.
Page(found, number, size) ==
  LET from == (number - 1) * size
      Fetched(n) == {i \in found : Place(i, found) \in from .. from + n - 1}
  IN [rows |-> [k \in 1 .. Cardinality(Fetched(size)) |->
                  CHOOSE i \in found : Place(i, found) = from + k - 1],
      next |-> Cardinality(Fetched(size + 1)) > size]

-----------------------------------------------------------------------------
(* Properties.                                                             *)

\* Type invariant: what the tables, the observation state and its file hold.
TypeOK ==
  /\ t \in Ticks /\ phase \in {"quiet", "hook", "closed"}
  /\ \A i \in Numbers : orders[i].product \in Products /\ orders[i].t \in 0 .. t
  /\ \A r \in log : r[1] \in Numbers /\ r[2] \in 0 .. t
  /\ \A p \in Listed : shelf[p].price \in Prices /\ shelf[p].listed \in 0 .. t
  /\ Cardinality(Listed) <= MaxActive
  /\ {cursor, file.cursor, file.at} \subseteq Never .. t
  /\ {report, file.report} \subseteq ReportDays \cup {Never}

Answers(u) == {a.window : a \in {b \in served : u \in b.window.from .. b.window.to /\ u <= b.done}}

\* The agent is told of what happened at each tick it has observed past in
\* exactly one window, and all observations of a hook, repeated, read from the
\* cache or served again after a restart, have the same window.
ChangesReportedOnce ==
  /\ \A a, b \in served : a.at = b.at => a.window = b.window
  /\ \A u \in 0 .. cursor : u <= Committed => Cardinality(Answers(u)) = 1

\* An observation offers the daily report exactly when the agent has not read
\* it, also from the cache and after a restart.
NoticeTrue == \A a \in served : a.right

\* The sales of a listing are its procured orders, those of its earlier times
\* on the shelf included.
SalesMatchOrders == \A p \in Listed : shelf[p].sales = Cardinality(Procured(p))

\* A review of the listings counts for a listing the orders it brought since it
\* was put on the shelf, and none of an earlier time there.
ReviewCountsActivation ==
  \A p \in Listed : Reviewed(p) = {i \in Procured(p) : orders[i].activation = activation[p]}

\* The status of an order as of an earlier tick is the one it had then, however
\* many steps it took at that tick, and the updates an observation's window
\* gives start from the statuses the observation before it ended with.
AsOfFaithful ==
  /\ \A u \in 0 .. Committed : \A i \in DOMAIN past[u + 1] : AsOf(i, u) = past[u + 1][i]
  /\ \A a \in served : \A i \in Updated(a.window) :
       Previous(i, a.window) =
         IF a.window.from > 0 /\ i \in DOMAIN past[a.window.from]
         THEN past[a.window.from][i] ELSE "none"

\* The days up to today, and the weeks they are grouped in, count each order
\* once.
DaysAddUp ==
  LET today == Day(t) + 1
  IN \A i \in Numbers :
       /\ Cardinality({d \in 1 .. today : i \in OrdersOf(d, d)}) = 1
       /\ Cardinality({w \in Weeks(1, today) : i \in OrdersOf(w[1], w[2])}) = 1

\* The pages of a query, read one after the other, list each order once and the
\* latest first; each says whether there is a next one.
PagesInOrder(size) ==
  LET Row(j) == Page(Numbers, (j - 1) \div size + 1, size).rows[((j - 1) % size) + 1]
  IN /\ \A j, h \in Numbers : j < h => Later(Row(j), Row(h))
     /\ \A i \in Numbers : \E j \in Numbers : Row(j) = i
     /\ \A k \in 1 .. Len(orders) :
          /\ Len(Page(Numbers, k, size).rows) <= size
          /\ Page(Numbers, k, size).next <=> k * size < Len(orders)

QueriesAddUp == DaysAddUp /\ \A size \in 1 .. 2 : PagesInOrder(size)

\* What an agent is told is what was: the notice of a report, sales, statuses, and
\* the pages and days of every query.
AnswersTrue == TypeOK /\ NoticeTrue /\ SalesMatchOrders /\ AsOfFaithful /\ QueriesAddUp
=============================================================================
