------------------------------ MODULE ShopRating ------------------------------
(***************************************************************************)
(* The ratings of a shop, of its listings and its public reviews:          *)
(* core/rating.py, core/listing_rating.py, core/public_reviews.py, the     *)
(* rating methods of core/simulator.py, and their restoration by           *)
(* runner.py after a restart.                                              *)
(*                                                                         *)
(* A rating is a sum over orders of score * weight * decay^age, so it is   *)
(* kept here as the set of pairs <<order, age>>: two sums are equal for    *)
(* all scores, weights and decays when the sets are.  The model beta adds  *)
(* up events tick by tick and listings order by order; the models of       *)
(* order outcomes compute everything anew at the end of each day.          *)
(***************************************************************************)
EXTENDS Integers, Sequences, FiniteSets

CONSTANTS
  Products,
  Models,        \* the rating models tried
  Outcomes,      \* statuses an order may end in
  Public,        \* the numbers of the orders whose buyer leaves a review
  DayTicks,
  Period,        \* agent.activation_period
  LastTick,      \* bound on the clock
  OrderBound,    \* bound on the orders
  RestartBound,  \* bound on the restarts
  ShelfBound     \* bound on the calls of the agent

Beta == "beta_event_v1"
Volume == "order_outcome_v3"
Reviewed == "order_outcome_v4"

ASSUME ShopRatingAssumption ==
  /\ {DayTicks, Period} \subseteq Nat \ {0}
  /\ {LastTick, OrderBound, RestartBound, ShelfBound} \subseteq Nat
  /\ Models \subseteq {Beta, "order_outcome_v2", Volume, Reviewed}
  /\ Outcomes \subseteq {"settled_normal", "settled_refund", "settled_only_refund",
                         "settled_bad_review", "stockout", "insufficient_balance", "cancelled"}

VARIABLES
  t,          \* env.t
  phase,      \* "quiet", "hook", "closed" after the transition; "closing" while
              \* the run is being finished, "finished"
  model,      \* shop_rating.model
  orders,     \* table orders: [product, late, settled, outcome]
  shelf,      \* table store_listings: product -> the evidence of its listing
  shop,       \* memory: the evidence of the shop; of beta <<order, kind, age>>
  reviews,    \* memory: the public reviews
  published,  \* memory: shop_rating_published_t
  point,      \* table metrics_log: the last point of the ratings' series
  aged,       \* the evidence an unbroken run would have, day by day
  restarts, calls

vars == <<t, phase, model, orders, shelf, shop, reviews, published, point, aged, restarts, calls>>

Never == -1
Off == {<<Never, Never>>}
Listed == {p \in Products : shelf[p] # Off}
Numbers == 1 .. Len(orders)

-----------------------------------------------------------------------------
(* Evidence.                                                               *)

\* An order counts once it has ended in one of these.
Rated(o) ==
  o.outcome \in {"settled_normal", "settled_refund", "settled_only_refund",
                 "settled_bad_review", "stockout"}

\* Mutant of Before: the orders of the day the cutoff begins count already.
BeforeIncluded(os, cutoff) ==
  {i \in DOMAIN os : os[i].settled # Never /\ os[i].settled <= cutoff}

\* The orders that ended before a cutoff.
Before(os, cutoff) ==
  {i \in DOMAIN os : os[i].settled # Never /\ os[i].settled < cutoff}

\* rebuild_evidence: the orders of completed days, each with its age in days.
Evidence(os, cutoff) ==
  LET days == cutoff \div DayTicks
  IN {<<i, days - 1 - os[i].settled \div DayTicks>> :
        i \in {j \in Before(os, days * DayTicks) : Rated(os[j])}}

\* Mutant of Of: a listing gets the evidence of the shop.
OfAll(os, p, evidence) == evidence

Of(os, p, evidence) == {e \in evidence : os[e[1]].product = p}

\* rebuild_public_review_evidence: a review is left or not, the same each time.
PublicReviews(os, cutoff) ==
  {i \in Before(os, cutoff) :
     Rated(os[i]) /\ (os[i].outcome = "settled_bad_review" \/ i \in Public)}

\* Listings of the model beta count every rated order that has ended.
Counted(os, p) == {<<i, 0>> : i \in {j \in DOMAIN os :
                     os[j].product = p /\ os[j].settled # Never /\ Rated(os[j])}}

\* The events of a tick beta counts: late orders and ends.
Events(os, u) ==
  {<<i, "late">> : i \in {j \in DOMAIN os : os[j].late = u}} \cup
  {<<i, "end">> : i \in {j \in DOMAIN os : os[j].settled = u /\ Rated(os[j])}}

\* rebuild_counters: from the events table, as of the tick to be run next.
Rebuilt(os, next) ==
  UNION {{<<e[1], e[2], next - 1 - u>> : e \in Events(os, u)} : u \in 0 .. next - 1}

Older(evidence) == {<<e[1], e[2] + 1>> : e \in evidence}

\* What an unbroken run has at the end of a day.
NextDay(os, from, to) ==
  Older(aged) \cup {<<i, 0>> : i \in {j \in DOMAIN os :
                       os[j].settled \in from .. to /\ Rated(os[j])}}

\* What the demand for a shop is computed from.
DemandBasis(sh, rv) ==
  CASE model = Reviewed -> <<rv>>
    [] model = Volume   -> <<sh, Cardinality({e[1] : e \in sh})>>
    [] OTHER            -> <<sh>>

\* Mutant of Written: the series is not written when a day's ratings are.
WrittenAtStart(published_) == t = 0 \/ model = Beta

\* Beta writes a point every tick, the others with each day's ratings.
Written(published_) == t = 0 \/ model = Beta \/ published_

-----------------------------------------------------------------------------
Init ==
  /\ t = 0 /\ phase = "quiet" /\ model \in Models
  /\ orders = <<>>
  /\ shelf = [p \in Products |-> Off]
  /\ shop = {} /\ reviews = {} /\ published = 0 /\ aged = {}
  /\ point = [basis |-> DemandBasis({}, {}), final |-> FALSE]
  /\ restarts = 0 /\ calls = 0

\* _publish_daily_ratings: shop, reviews and listings through a cutoff.
Publish(os, cutoff) ==
  /\ shop' = Evidence(os, cutoff)
  /\ reviews' = IF model = Reviewed THEN PublicReviews(os, cutoff) ELSE reviews
  /\ published' = cutoff
  /\ shelf' = [p \in Products |-> IF p \in Listed THEN Of(os, p, Evidence(os, cutoff)) ELSE Off]

\* _update_ratings and _update_listing_ratings: decay, then this tick's events.
Update(os) ==
  /\ shop' = {<<e[1], e[2], e[3] + 1>> : e \in shop} \cup {<<e[1], e[2], 0>> : e \in Events(os, t)}
  /\ shelf' = [p \in Products |->
       IF p \in Listed
       THEN shelf[p] \cup {<<i, 0>> : i \in {j \in DOMAIN os :
              os[j].product = p /\ os[j].settled = t /\ Rated(os[j])}}
       ELSE Off]
  /\ UNCHANGED <<reviews, published>>

\* What an order may come to in a tick.
Moves(o) ==
  {o} \cup (IF o.settled # Never THEN {} ELSE
    {[o EXCEPT !.settled = t, !.outcome = s] : s \in Outcomes} \cup
    (IF o.late = Never THEN {[o EXCEPT !.late = t]} ELSE {}))

New(p) == [product |-> p, late |-> Never, settled |-> Never, outcome |-> "open"]

\* Mutant of DayEnds: the day ends with the step of its first tick.
DayEndsEarly == t % DayTicks = 0

DayEnds == (t + 1) % DayTicks = 0

\* The transition of a tick, in one transaction.
Transition ==
  /\ phase = "quiet" /\ ~point.final
  /\ \E moved \in {os \in [Numbers -> UNION {Moves(orders[i]) : i \in Numbers}] :
                     \A i \in Numbers : os[i] \in Moves(orders[i])},
        new \in {<<>>} \cup {<<o>> : o \in UNION {{New(p)} \cup
                  {m \in Moves(New(p)) : m.outcome \in {"stockout", "insufficient_balance"}} :
                  p \in Listed}} :
       LET os == moved \o new
       IN /\ Len(os) <= OrderBound
          /\ orders' = os
          /\ aged' = IF (t + 1) % DayTicks = 0 THEN NextDay(os, t + 1 - DayTicks, t) ELSE aged
          /\ CASE model = Beta -> Update(os)
               [] model # Beta /\ DayEnds -> Publish(os, t + 1)
               [] OTHER -> UNCHANGED <<shop, reviews, published, shelf>>
          /\ point' = IF Written(DayEnds)
                      THEN [basis |-> DemandBasis(shop', reviews'), final |-> FALSE] ELSE point
  /\ phase' = IF t % Period = 0 THEN "hook" ELSE "closed"
  /\ UNCHANGED <<t, model, restarts, calls>>

LastCutoff(u) == (u \div DayTicks) * DayTicks

\* A product that comes on the shelf, again or for the first time.
ListProduct(p) ==
  /\ phase = "hook" /\ calls < ShelfBound /\ p \notin Listed
  /\ shelf' = [shelf EXCEPT ![p] =
       IF model = Beta THEN Counted(orders, p)
       ELSE Of(orders, p, Evidence(orders, LastCutoff(t)))]
  /\ calls' = calls + 1
  /\ UNCHANGED <<t, phase, model, orders, shop, reviews, published, point, aged, restarts>>

DelistProduct(p) ==
  /\ phase = "hook" /\ calls < ShelfBound /\ p \in Listed
  /\ shelf' = [shelf EXCEPT ![p] = Off]
  /\ calls' = calls + 1
  /\ UNCHANGED <<t, phase, model, orders, shop, reviews, published, point, aged, restarts>>

CloseHook ==
  /\ phase = "hook" /\ phase' = "closed"
  /\ UNCHANGED <<t, model, orders, shelf, shop, reviews, published, point, aged, restarts, calls>>

Clock ==
  /\ phase = "closed" /\ t < LastTick
  /\ t' = t + 1 /\ phase' = "quiet"
  /\ UNCHANGED <<model, orders, shelf, shop, reviews, published, point, aged, restarts, calls>>

Ceiling(u) == ((u + DayTicks - 1) \div DayTicks) * DayTicks

\* publish_terminal_ratings: the last day ends with the run.
PublishTerminal ==
  /\ phase = "quiet" /\ phase' = "closing"
  /\ IF model # Beta /\ t > 0 /\ published < Ceiling(t)
     THEN /\ Publish(orders, Ceiling(t))
          /\ point' = [basis |-> DemandBasis(shop', reviews'), final |-> TRUE]
     ELSE UNCHANGED <<shop, reviews, published, shelf, point>>
  /\ aged' = IF t % DayTicks = 0 THEN aged ELSE NextDay(orders, LastCutoff(t), t - 1)
  /\ UNCHANGED <<t, model, orders, restarts, calls>>

MarkFinished ==
  /\ phase = "closing" /\ phase' = "finished"
  /\ UNCHANGED <<t, model, orders, shelf, shop, reviews, published, point, aged, restarts, calls>>

\* Mutant of Restored: a transition that is committed, but whose hook is still
\* open, is not counted.
RestoredAt == t

\* The tick the ratings are restored for: the next one to be run.
Restored == IF phase \in {"hook", "closed"} THEN t + 1 ELSE t

\* restore_rating_state, from the tables.  A run that was not marked finished
\* ends its last day again.
Restart ==
  /\ restarts < RestartBound /\ restarts' = restarts + 1
  /\ LET cutoff == IF phase = "finished" THEN Ceiling(Restored) ELSE LastCutoff(Restored)
     IN IF model = Beta
        THEN /\ shop' = Rebuilt(orders, Restored)
             /\ UNCHANGED <<reviews, published, shelf>>
        ELSE IF cutoff > 0
        THEN Publish(orders, cutoff)
        ELSE shop' = {} /\ reviews' = {} /\ published' = 0 /\ UNCHANGED shelf
  /\ phase' = IF phase = "closing" THEN "quiet" ELSE phase
  /\ aged' = IF phase = "closing" /\ t % DayTicks # 0
             THEN {<<e[1], e[2] - 1>> : e \in {f \in aged : f[2] > 0}} ELSE aged
  /\ UNCHANGED <<t, model, orders, point, calls>>

Next ==
  \/ Transition \/ CloseHook \/ Clock
  \/ \E p \in Products : ListProduct(p) \/ DelistProduct(p)
  \/ PublishTerminal \/ MarkFinished \/ Restart

Spec == Init /\ [][Next]_vars

-----------------------------------------------------------------------------
(* Properties.                                                             *)

\* Type invariant: evidence is about rated orders that have ended, each once.
TypeOK ==
  /\ model \in Models /\ published \in 0 .. LastTick + DayTicks
  /\ \A p \in Listed : \A e \in shelf[p] : orders[e[1]].product = p /\ e[2] \in Nat
  /\ \A p \in Listed : \A e, f \in shelf[p] : e[1] = f[1] => e = f
  /\ \A i \in reviews : Rated(orders[i])

\* The tick after the last committed one.
NextRun(u) == IF phase \in {"hook", "closed"} THEN u + 1 ELSE u

\* However often the process restarts, between any two steps, the shop has the
\* evidence of a run that was never interrupted: under beta each event decayed
\* once per tick since, else each rated order of the ended days once per day.
ShopFollowsOrders ==
  shop = IF model = Beta
         THEN {e \in Numbers \X {"late", "end"} \X (0 .. t) :
                 LET u == NextRun(t) - 1 - e[3] IN u \in Nat /\ <<e[1], e[2]>> \in Events(orders, u)}
         ELSE aged

\* A listing has the evidence of all orders of its product, those that ended
\* while it was off the shelf included.  Only a run that stopped on its first day
\* while it was being finished keeps that day on its listings, until it finishes
\* again.
ListingFollowsOrders ==
  \A p \in Listed :
    \/ shelf[p] = IF model = Beta THEN Counted(orders, p) ELSE Of(orders, p, aged)
    \/ /\ model # Beta /\ point.final /\ phase = "quiet" /\ t < DayTicks
       /\ shelf[p] = Of(orders, p, Evidence(orders, Ceiling(t)))

\* The last point of the rating series is what the demand is computed from, also
\* after restarts; only a run that stopped while it was being finished is ahead
\* of itself, until it finishes again.
SeriesShowsRating ==
  point.basis = DemandBasis(shop, reviews) \/ (point.final /\ phase = "quiet")

\* However a run is interrupted, it rates as if it had not been.
RatesUnbroken == TypeOK /\ ShopFollowsOrders /\ ListingFollowsOrders /\ SeriesShowsRating

\* What the demand is computed from changes only when a day or the run ends;
\* neither a restart nor the agent changes it in between.
DayByDay ==
  [][model # Beta /\ DemandBasis(shop', reviews') # DemandBasis(shop, reviews) =>
       \/ phase = "quiet" /\ phase' # "quiet" /\ (t + 1) % DayTicks = 0
       \/ phase = "quiet" /\ phase' = "closing"
       \/ phase = "closing"]_vars
=============================================================================
