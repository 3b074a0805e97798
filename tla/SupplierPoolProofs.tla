-------------------------- MODULE SupplierPoolProofs --------------------------
(* What holds of SupplierPool for every catalogue, every set of waits and  *)
(* durations, every horizon and every inventory.                           *)
EXTENDS SupplierPool, TLAPS

------------------------------------------------------------------------------
(* The inductive invariant                                                 *)

\* The time at which a product says that a recovery is due.
Until(r, k) == CASE k = "supplier_relist" -> r.delist_t
                 [] k = "price_recover"   -> r.price_t
                 [] OTHER                 -> r.timeout_t

\* The flags of a product and the times of its recoveries agree.
Sane(r) ==
  /\ r.listed <=> r.delist_t = None
  /\ r.active <=> r.timeout_t # None
  /\ r.ship = "prolonged" <=> r.active
  /\ r.price = "adjusted" => r.price_t # None

\* The recovery k of p is in flight for the time until, and for no other.
OnlyAt(p, k, until) ==
  /\ \A e \in InFlight : e.product = p /\ e.type = k => e.due = until
  /\ until # None => \E e \in InFlight : e.product = p /\ e.type = k

Recoveries == \A p \in Products :
  Sane(pool[p]) /\ \A k \in Recovery : OnlyAt(p, k, Until(pool[p], k))

\* Between two ticks nothing is due earlier; of a tick's batch everything is due
\* now, and everything else later.
Paced ==
  /\ phase = "trade" => /\ batch = {} /\ follow = {} /\ cancel = {}
                        /\ \A e \in pending : e.due >= t
  /\ phase = "events" => /\ \A e \in batch : e.due = t
                         /\ \A e \in pending \cup follow : e.due > t

\* Disturbances begin before the horizon, and end a duration later.
InHorizon == \A e \in InFlight : e.type \in Stochastic => e.due < Horizon
Ends(until) == until # None => \E d \in Durations : until < Horizon + d
AllEnd == \A p \in Products, k \in Recovery : Ends(Until(pool[p], k))

\* A product whose events are cancelled was delisted in this tick.
Delisted == \A p \in cancel : ~pool[p].listed /\ pool[p].delist_t > t

\* The waits of the channel all end before the horizon.
Reschedules(type, now) ==
  Waits[type] # {} /\ \A w \in Waits[type] : now + w < Horizon

Upcoming == IF phase = "trade" THEN t ELSE t + 1

\* An idle channel has its next event in flight.
Channels == \A p \in Products, type \in Stochastic :
  Idle(pool[p], type) /\ Reschedules(type, Upcoming) =>
    \E e \in InFlight : e.product = p /\ e.type = type

\* The stock is within its capacity, and was counted at a tick of the past.
Counted(r) == r.qty \in 0 .. MaxStock /\ r.qty_t <= t
StockKept == \A p \in Products : Counted(pool[p])

Inv == /\ TypeOK /\ Recoveries /\ Paced /\ InHorizon /\ AllEnd /\ Delisted
       /\ Channels /\ StockKept

------------------------------------------------------------------------------
(* Operators                                                               *)

\* Booked says what OnlyAt says.
LEMMA BookedMeansOnlyAt ==
  ASSUME InFlight \subseteq Event, NEW p, NEW k, NEW until
  PROVE  Booked(p, k, until) <=> OnlyAt(p, k, until)
<1>1. \A n : n \in DueTimes(p, k) <=>
        \E e \in InFlight : e.product = p /\ e.type = k /\ e.due = n
  BY DEF DueTimes
<1>2. \A e \in InFlight : e.due # None
  BY DEF Event, None
<1>3. CASE until = None
  BY <1>1, <1>2, <1>3 DEF Booked, OnlyAt
<1>4. CASE until # None
  <2>1. Booked(p, k, until) <=> \A n : n \in DueTimes(p, k) <=> n = until
    BY <1>4 DEF Booked
  <2>2. QED
    BY <1>1, <1>4, <2>1 DEF OnlyAt
<1>5. QED
  BY <1>3, <1>4

\* What scheduling a stochastic event gives: events of the channel that are due
\* before the horizon, and one if every wait ends before it.
LEMMA ScheduledFacts ==
  ASSUME NEW p \in Products, NEW type \in Stochastic, NEW n \in Nat,
         NEW new \in Scheduled(p, type, n)
  PROVE  /\ new \subseteq Event
         /\ \A e \in new : /\ e.product = p /\ e.type = type
                           /\ e.due >= n /\ e.due < Horizon
         /\ Reschedules(type, n) => \E e \in new : e.type = type
<1>1. CASE Waits[type] = {}
  BY <1>1 DEF Scheduled, Reschedules
<1>2. CASE Waits[type] # {}
  <2>1. PICK w \in Waits[type] : new = Within(Ev(p, type, n + w))
    BY <1>2 DEF Scheduled
  <2>2. w \in Nat
    BY <2>1, WaitsAssumption
  <2>3. LET e == Ev(p, type, n + w)
        IN e \in Event /\ e.product = p /\ e.type = type /\ e.due = n + w
    BY <2>2 DEF Ev, Event, EventTypes
  <2>4. new \subseteq {Ev(p, type, n + w)}
        /\ (n + w < Horizon <=> Ev(p, type, n + w) \in new)
        /\ (Ev(p, type, n + w) \in new => n + w < Horizon)
    BY <2>1, <2>3 DEF Within
  <2>5. QED
    BY <2>2, <2>3, <2>4 DEF Reschedules
<1>3. QED
  BY <1>1, <1>2

\* The stock in effect is within the capacity.
LEMMA EffectiveFacts ==
  ASSUME NEW r \in ProductState, NEW n \in Nat, r.qty <= MaxStock, r.qty_t <= n
  PROVE  /\ EffectiveQuantity(r, n) \in 0 .. MaxStock
         /\ MaterializeQuantity(r, n) \in ProductState
         /\ MaterializeQuantity(r, n).qty = EffectiveQuantity(r, n)
         /\ MaterializeQuantity(r, n).qty_t = n
<1>1. r.qty \in Nat /\ r.qty_t \in Nat /\ r.listed \in BOOLEAN
  BY DEF ProductState
<1>2. (IF n > r.qty_t THEN n - r.qty_t ELSE 0) * Increment \in Nat
  BY <1>1, StockAssumption
<1>3. EffectiveQuantity(r, n) \in 0 .. MaxStock
  BY <1>1, <1>2, StockAssumption DEF EffectiveQuantity, Smaller
<1>4. ASSUME NEW q \in Nat
      PROVE  /\ [r EXCEPT !.qty = q, !.qty_t = n] \in ProductState
             /\ [r EXCEPT !.qty = q, !.qty_t = n].qty = q
             /\ [r EXCEPT !.qty = q, !.qty_t = n].qty_t = n
  BY DEF ProductState
<1>5. EffectiveQuantity(r, n) \in Nat
  BY <1>3, StockAssumption
<1>6. QED
  BY <1>3, <1>4, <1>5 DEF MaterializeQuantity

------------------------------------------------------------------------------
(* The events of a tick                                                    *)

\* What applying the event e to its product may do to the recovery k: leave it
\* alone, end it, or book one that was not running.
Moves(e, old, r, new, k) ==
  \/ /\ e.type # k /\ Until(r, k) = Until(old, k) /\ \A f \in new : f.type # k
  \/ /\ e.type = k /\ Until(r, k) = None /\ \A f \in new : f.type # k
  \/ /\ e.type # k /\ Until(old, k) = None /\ Until(r, k) # None
     /\ Ends(Until(r, k))
     /\ \A f \in new : f.type = k => f.due = Until(r, k)
     /\ \E f \in new : f.type = k

\* What the handler of e may do: the product becomes r, the events new follow.
Handles(e, r, new) ==
  LET old == pool[e.product] IN
  /\ r \in ProductState /\ Sane(r) /\ Counted(r)
  /\ new \subseteq Event
  /\ \A f \in new : /\ f.product = e.product /\ f.due > t
                    /\ f.type \in Stochastic => f.due < Horizon
  /\ \A k \in Recovery : Moves(e, old, r, new, k)
  /\ \A type \in Stochastic :
       Idle(r, type) /\ Reschedules(type, t + 1) =>
         \/ \E f \in new : f.type = type
         \/ Idle(old, type) /\ e.type # type
  /\ cancel' \subseteq cancel \cup {e.product}
  /\ e.product \in cancel' => ~r.listed /\ r.delist_t > t

\* A handler of an event keeps the invariant.
LEMMA HandledInv ==
  ASSUME Inv, phase = "events", NEW e \in batch, NEW r, NEW new,
         Handles(e, r, new), Applied(e, r, new)
  PROVE  Inv'
<1> DEFINE p == e.product
<1>1. e \in Event /\ p \in Products /\ t \in Nat
  BY DEF Inv, TypeOK, Event
<1>2. /\ batch' = batch \ {e} /\ follow' = follow \cup new
      /\ pool' = [pool EXCEPT ![p] = r] /\ UNCHANGED <<t, phase, pending>>
  BY DEF Applied
<1>3. pool'[p] = r /\ \A q \in Products : q # p => pool'[q] = pool[q]
  BY <1>1, <1>2 DEF Inv, TypeOK
<1>4. e \notin pending /\ e \notin follow
  BY <1>1 DEF Inv, Paced
<1>5. InFlight' = (InFlight \ {e}) \cup new
  BY <1>2, <1>4 DEF InFlight
<1>6. /\ r \in ProductState /\ Sane(r) /\ Counted(r) /\ new \subseteq Event
      /\ \A f \in new : f.product = p /\ f.due > t
                        /\ (f.type \in Stochastic => f.due < Horizon)
      /\ \A k \in Recovery : Moves(e, pool[p], r, new, k)
      /\ cancel' \subseteq cancel \cup {p}
      /\ p \in cancel' => ~r.listed /\ r.delist_t > t
  BY DEF Handles
<1>7. \A type \in Stochastic :
        Idle(r, type) /\ Reschedules(type, t + 1) =>
          \/ \E f \in new : f.type = type
          \/ Idle(pool[p], type) /\ e.type # type
  BY DEF Handles
<1> HIDE DEF p
<1>8. TypeOK'
  BY <1>1, <1>2, <1>6 DEF Inv, TypeOK
<1>9. Recoveries'
  <2>1. ASSUME NEW q \in Products
        PROVE  Sane(pool'[q])
    BY <1>3, <1>6 DEF Inv, Recoveries
  <2>2. ASSUME NEW q \in Products, NEW k \in Recovery, q # p
        PROVE  /\ \A f \in InFlight' : f.product = q /\ f.type = k =>
                                         f.due = Until(pool'[q], k)
               /\ Until(pool'[q], k) # None =>
                    \E f \in InFlight' : f.product = q /\ f.type = k
    <3>1. OnlyAt(q, k, Until(pool[q], k)) /\ pool'[q] = pool[q]
      BY <1>3, <2>2 DEF Inv, Recoveries
    <3>2. QED
      BY <1>5, <1>6, <2>2, <3>1 DEF OnlyAt, p
  <2>3. ASSUME NEW k \in Recovery
        PROVE  /\ \A f \in InFlight' : f.product = p /\ f.type = k =>
                                         f.due = Until(r, k)
               /\ Until(r, k) # None =>
                    \E f \in InFlight' : f.product = p /\ f.type = k
    <3>1. OnlyAt(p, k, Until(pool[p], k)) /\ Moves(e, pool[p], r, new, k)
      BY <1>1, <1>6 DEF Inv, Recoveries
    <3>2. \A f \in InFlight : f \in Event
      BY DEF Inv, TypeOK, InFlight
    <3>3. CASE /\ e.type # k /\ Until(r, k) = Until(pool[p], k)
               /\ \A f \in new : f.type # k
      BY <1>5, <3>1, <3>3 DEF OnlyAt
    <3>4. CASE e.type = k /\ Until(r, k) = None /\ \A f \in new : f.type # k
      <4>1. ASSUME NEW f \in InFlight', f.product = p, f.type = k PROVE FALSE
        <5>1. f \in InFlight /\ f # e
          BY <1>5, <3>4, <4>1
        <5>2. f.due = e.due /\ e \in InFlight
          BY <3>1, <3>4, <4>1, <5>1 DEF OnlyAt, InFlight, p
        <5>3. f = e
          BY <1>1, <3>2, <3>4, <4>1, <5>1, <5>2 DEF Event, p
        <5>4. QED
          BY <5>1, <5>3
      <4>2. QED
        BY <3>4, <4>1
    <3>5. CASE /\ e.type # k /\ Until(pool[p], k) = None
               /\ \A f \in new : f.type = k => f.due = Until(r, k)
               /\ \E f \in new : f.type = k
      <4>1. \A f \in InFlight : ~(f.product = p /\ f.type = k)
        BY <3>1, <3>2, <3>5 DEF OnlyAt, Event, None
      <4>2. QED
        BY <1>5, <1>6, <3>5, <4>1
    <3>6. QED
      BY <3>1, <3>3, <3>4, <3>5 DEF Moves
  <2>4. QED
    BY <1>3, <2>1, <2>2, <2>3 DEF Recoveries, OnlyAt
<1>10. Paced'
  BY <1>2, <1>6 DEF Inv, Paced
<1>11. InHorizon'
  BY <1>5, <1>6 DEF Inv, InHorizon
<1>12. AllEnd'
  <2>1. \A k \in Recovery : Ends(Until(r, k))
    BY <1>1, <1>6 DEF Inv, AllEnd, Moves, Ends
  <2>2. QED
    BY <1>3, <2>1 DEF Inv, AllEnd, Ends
<1>13. Delisted'
  BY <1>1, <1>2, <1>3, <1>6 DEF Inv, Delisted, TypeOK
<1>14. Channels'
  <2>1. Upcoming' = t + 1 /\ Upcoming = t + 1
    BY <1>2 DEF Upcoming
  <2>2. ASSUME NEW q \in Products, NEW type \in Stochastic,
               Idle(pool'[q], type), Reschedules(type, t + 1)
        PROVE  \E f \in InFlight' : f.product = q /\ f.type = type
    <3>1. ASSUME Idle(pool[q], type), q # p \/ e.type # type
          PROVE  \E f \in InFlight' : f.product = q /\ f.type = type
      <4>1. PICK f \in InFlight : f.product = q /\ f.type = type
        BY <2>1, <2>2, <3>1 DEF Inv, Channels
      <4>2. f # e
        BY <3>1, <4>1 DEF p
      <4>3. QED
        BY <1>5, <4>1, <4>2
    <3>2. CASE q # p
      BY <1>3, <2>2, <3>1, <3>2
    <3>3. CASE q = p
      BY <1>3, <1>5, <1>6, <1>7, <2>2, <3>1, <3>3
    <3>4. QED
      BY <3>2, <3>3
  <2>3. QED
    BY <2>1, <2>2 DEF Channels, Reschedules, Idle
<1>15. StockKept'
  BY <1>2, <1>3, <1>6 DEF Inv, StockKept, Counted
<1>16. QED
  BY <1>8, <1>9, <1>10, <1>11, <1>12, <1>13, <1>14, <1>15 DEF Inv

\* What a handler knows of its event and of the product.
LEMMA ReachedFacts ==
  ASSUME Inv, NEW e \in batch, Reached(e, e.type)
  PROVE  /\ phase = "events" /\ e \in Event /\ e.due = t /\ t \in Nat
         /\ e.product \in Products /\ pool[e.product] \in ProductState
         /\ Sane(pool[e.product]) /\ Counted(pool[e.product])
         /\ e.product \in cancel => ~pool[e.product].listed
                                    /\ pool[e.product].delist_t > t
         /\ e.type \in Recovery => Until(pool[e.product], e.type) = t
<1>1. phase = "events" /\ e.due = t
  BY DEF Reached, Inv, Paced
<1>2. e \in Event /\ e.product \in Products /\ t \in Nat
  BY DEF Inv, TypeOK, Event
<1>3. pool[e.product] \in ProductState /\ Counted(pool[e.product])
      /\ Sane(pool[e.product])
  BY <1>2 DEF Inv, TypeOK, StockKept, Recoveries
<1>4. ASSUME e.type \in Recovery PROVE Until(pool[e.product], e.type) = t
  <2>1. OnlyAt(e.product, e.type, Until(pool[e.product], e.type))
    BY <1>2, <1>4 DEF Inv, Recoveries
  <2>2. QED
    BY <1>1, <2>1 DEF OnlyAt, InFlight
<1>5. e.product \in cancel => ~pool[e.product].listed
                              /\ pool[e.product].delist_t > t
  BY DEF Inv, Delisted
<1>6. QED
  BY <1>1, <1>2, <1>3, <1>4, <1>5

\* A price change books the recovery of the price.
LEMMA PriceChangeInv ==
  ASSUME Inv, NEW e \in batch, PriceChange(e)
  PROVE  Inv'
<1>1. PICK old : old = pool[e.product]
  OBVIOUS
<1>2. PICK d \in Durations, price \in {"base", "adjusted"} :
        Applied(e, [old EXCEPT !.price = price, !.price_t = t + d],
                {Ev(e.product, "price_recover", t + d)})
  BY <1>1 DEF PriceChange
<1>3. PICK r : r = [old EXCEPT !.price = price, !.price_t = t + d]
  OBVIOUS
<1>4. PICK f : f = Ev(e.product, "price_recover", t + d)
  OBVIOUS
<1>5. e.type = "price_change" /\ Reached(e, e.type)
  BY DEF PriceChange, Reached
<1>6. /\ phase = "events" /\ e.due = t /\ t \in Nat /\ e.product \in Products
      /\ old \in ProductState /\ Sane(old) /\ Counted(old)
      /\ e.product \in cancel => ~old.listed /\ old.delist_t > t
  BY <1>1, <1>5, ReachedFacts
<1>7. /\ d \in Nat \ {0} /\ t + d \in Nat /\ t + d > t
      /\ old.listed /\ old.price_t = None /\ cancel' = cancel
  BY <1>1, <1>6, DurationsAssumption DEF PriceChange, CanAdjust
<1>8. /\ r \in ProductState /\ r.price_t = t + d /\ r.listed = old.listed
      /\ r.delist_t = old.delist_t /\ r.active = old.active
      /\ r.timeout_t = old.timeout_t /\ r.ship = old.ship /\ r.qty = old.qty
      /\ r.qty_t = old.qty_t
  BY <1>3, <1>6, <1>7 DEF ProductState
<1>9. f \in Event /\ f.product = e.product /\ f.type = "price_recover"
      /\ f.due = t + d
  BY <1>4, <1>6, <1>7 DEF Ev, Event, EventTypes, Recovery
<1>10. t < Horizon
  BY <1>5, <1>6 DEF Inv, InHorizon, InFlight, Stochastic
<1>11. Sane(r) /\ Counted(r)
  BY <1>6, <1>7, <1>8 DEF Sane, Counted, None
<1>12. Ends(t + d)
  BY <1>6, <1>7, <1>10, TicksAssumption DEF Ends
<1>13. \A k \in Recovery : Moves(e, old, r, {f}, k)
  BY <1>5, <1>6, <1>7, <1>8, <1>9, <1>12 DEF Moves, Until, Recovery, None
<1>14. \A type \in Stochastic :
         Idle(r, type) => Idle(old, type) /\ e.type # type
  BY <1>5, <1>6, <1>7, <1>8 DEF Idle, Stochastic, None
<1>15. Handles(e, r, {f})
  BY <1>1, <1>6, <1>7, <1>8, <1>9, <1>11, <1>13, <1>14 DEF Handles, Stochastic
<1>16. QED
  BY <1>2, <1>3, <1>4, <1>6, <1>15, HandledInv

\* The end of a price change, and the next one if the product is listed.
LEMMA PriceRecoverInv ==
  ASSUME Inv, NEW e \in batch, PriceRecover(e)
  PROVE  Inv'
<1>1. PICK old : old = pool[e.product]
  OBVIOUS
<1>2. PICK next \in Scheduled(e.product, "price_change", t + 1) :
        Applied(e, [old EXCEPT !.price = "base", !.price_t = None],
                IF old.listed THEN next ELSE {})
  BY <1>1 DEF PriceRecover
<1>3. PICK r : r = [old EXCEPT !.price = "base", !.price_t = None]
  OBVIOUS
<1>4. PICK new : new = IF old.listed THEN next ELSE {}
  OBVIOUS
<1>5. e.type = "price_recover" /\ Reached(e, e.type)
  BY DEF PriceRecover, Reached
<1>6. /\ phase = "events" /\ e.due = t /\ t \in Nat /\ e.product \in Products
      /\ old \in ProductState /\ Sane(old) /\ Counted(old)
      /\ e.product \in cancel => ~old.listed /\ old.delist_t > t
  BY <1>1, <1>5, ReachedFacts
<1>7. cancel' = cancel
  BY DEF PriceRecover
<1>8. /\ r \in ProductState /\ r.price_t = None /\ r.price = "base"
      /\ r.listed = old.listed /\ r.delist_t = old.delist_t
      /\ r.active = old.active /\ r.timeout_t = old.timeout_t
      /\ r.ship = old.ship /\ r.qty = old.qty /\ r.qty_t = old.qty_t
  BY <1>3, <1>6 DEF ProductState
<1>9. /\ new \subseteq Event
      /\ \A f \in new : /\ f.product = e.product /\ f.type = "price_change"
                        /\ f.due > t /\ f.due < Horizon
      /\ old.listed /\ Reschedules("price_change", t + 1) =>
           \E f \in new : f.type = "price_change"
  <2>1. "price_change" \in Stochastic /\ t + 1 \in Nat
    BY <1>6 DEF Stochastic
  <2>2. \A f \in next : f \in Event /\ f.due >= t + 1
    BY <1>2, <1>6, <2>1, ScheduledFacts
  <2>3. \A f \in next : f.due \in Nat
    BY <2>2 DEF Event
  <2>4. QED
    BY <1>2, <1>4, <1>6, <2>1, <2>2, <2>3, ScheduledFacts
<1>10. Sane(r) /\ Counted(r)
  BY <1>6, <1>8 DEF Sane, Counted
<1>11. \A k \in Recovery : Moves(e, old, r, new, k)
  BY <1>5, <1>8, <1>9 DEF Moves, Until, Recovery
<1>12. \A type \in Stochastic :
         Idle(r, type) /\ Reschedules(type, t + 1) =>
           \/ \E f \in new : f.type = type
           \/ Idle(old, type) /\ e.type # type
  BY <1>5, <1>8, <1>9 DEF Idle, Stochastic
<1>13. Handles(e, r, new)
  BY <1>1, <1>6, <1>7, <1>8, <1>9, <1>10, <1>11, <1>12 DEF Handles
<1>14. QED
  BY <1>2, <1>3, <1>4, <1>6, <1>13, HandledInv

\* A delisting counts the stock, books the relisting and cancels what is pending.
LEMMA SupplierDelistInv ==
  ASSUME Inv, NEW e \in batch, SupplierDelist(e)
  PROVE  Inv'
<1>1. PICK old : old = pool[e.product]
  OBVIOUS
<1>2. PICK d \in Durations :
        Applied(e, [MaterializeQuantity(old, t) EXCEPT !.listed = FALSE,
                                                       !.delist_t = t + d],
                {Ev(e.product, "supplier_relist", t + d)})
  BY <1>1 DEF SupplierDelist
<1>3. PICK m : m = MaterializeQuantity(old, t)
  OBVIOUS
<1>4. PICK r : r = [m EXCEPT !.listed = FALSE, !.delist_t = t + d]
  OBVIOUS
<1>5. PICK f : f = Ev(e.product, "supplier_relist", t + d)
  OBVIOUS
<1>6. e.type = "supplier_delist" /\ Reached(e, e.type)
  BY DEF SupplierDelist, Reached
<1>7. /\ phase = "events" /\ e.due = t /\ t \in Nat /\ e.product \in Products
      /\ old \in ProductState /\ Sane(old) /\ Counted(old)
  BY <1>1, <1>6, ReachedFacts
<1>8. /\ d \in Nat \ {0} /\ t + d \in Nat /\ t + d > t
      /\ old.listed /\ cancel' = cancel \cup {e.product}
  BY <1>1, <1>7, DurationsAssumption DEF SupplierDelist
<1>9. m \in ProductState /\ m.qty \in 0 .. MaxStock /\ m.qty_t = t
  BY <1>3, <1>7, EffectiveFacts, StockAssumption DEF Counted
<1>10. /\ m.price = old.price /\ m.price_t = old.price_t /\ m.active = old.active
       /\ m.timeout_t = old.timeout_t /\ m.ship = old.ship
  BY <1>3, <1>7 DEF MaterializeQuantity, ProductState
<1>11. /\ r \in ProductState /\ r.delist_t = t + d /\ r.listed = FALSE
       /\ r.price = m.price /\ r.price_t = m.price_t /\ r.active = m.active
       /\ r.timeout_t = m.timeout_t /\ r.ship = m.ship /\ r.qty = m.qty
       /\ r.qty_t = m.qty_t
  BY <1>4, <1>8, <1>9 DEF ProductState
<1>12. f \in Event /\ f.product = e.product /\ f.type = "supplier_relist"
       /\ f.due = t + d
  BY <1>5, <1>7, <1>8 DEF Ev, Event, EventTypes, Recovery
<1>13. t < Horizon
  BY <1>6, <1>7 DEF Inv, InHorizon, InFlight, Stochastic
<1>14. Sane(r) /\ Counted(r)
  BY <1>7, <1>8, <1>9, <1>10, <1>11 DEF Sane, Counted, None
<1>15. Ends(t + d)
  BY <1>7, <1>8, <1>13, TicksAssumption DEF Ends
<1>16. \A k \in Recovery : Moves(e, old, r, {f}, k)
  BY <1>6, <1>7, <1>8, <1>10, <1>11, <1>12, <1>15
     DEF Moves, Until, Recovery, None, Sane
<1>17. \A type \in Stochastic : ~Idle(r, type)
  BY <1>11 DEF Idle
<1>18. Handles(e, r, {f})
  BY <1>1, <1>7, <1>8, <1>11, <1>12, <1>14, <1>16, <1>17
     DEF Handles, Stochastic
<1>19. QED
  BY <1>2, <1>3, <1>4, <1>5, <1>7, <1>18, HandledInv

\* A relisting schedules the next delisting, and the channels that are idle.
LEMMA SupplierRelistInv ==
  ASSUME Inv, NEW e \in batch, SupplierRelist(e)
  PROVE  Inv'
<1>1. PICK old : old = pool[e.product]
  OBVIOUS
<1>2. PICK price \in Scheduled(e.product, "price_change", t + 1),
           delist \in Scheduled(e.product, "supplier_delist", t + 1),
           timeout \in Scheduled(e.product, "supplier_timeout", t + 1) :
        Applied(e, [old EXCEPT !.listed = TRUE, !.delist_t = None, !.qty_t = t],
                delist \cup Unless(old.price_t # None, price)
                       \cup Unless(old.active, timeout))
  BY <1>1 DEF SupplierRelist
<1>3. PICK r : r = [old EXCEPT !.listed = TRUE, !.delist_t = None, !.qty_t = t]
  OBVIOUS
<1>4. PICK new : new = delist \cup Unless(old.price_t # None, price)
                              \cup Unless(old.active, timeout)
  OBVIOUS
<1>5. e.type = "supplier_relist" /\ Reached(e, e.type)
  BY DEF SupplierRelist, Reached
<1>6. /\ phase = "events" /\ e.due = t /\ t \in Nat /\ e.product \in Products
      /\ old \in ProductState /\ Sane(old) /\ Counted(old)
      /\ e.product \in cancel => ~old.listed /\ old.delist_t > t
      /\ old.delist_t = t
  BY <1>1, <1>5, ReachedFacts DEF Until, Recovery
<1>7. cancel' = cancel /\ e.product \notin cancel
  BY <1>6 DEF SupplierRelist
<1>8. /\ r \in ProductState /\ r.price_t = old.price_t /\ r.price = old.price
      /\ r.listed = TRUE /\ r.delist_t = None
      /\ r.active = old.active /\ r.timeout_t = old.timeout_t
      /\ r.ship = old.ship /\ r.qty = old.qty /\ r.qty_t = t
  BY <1>3, <1>6 DEF ProductState
<1>9. /\ delist \subseteq Event /\ price \subseteq Event /\ timeout \subseteq Event
      /\ \A f \in delist \cup price \cup timeout :
           /\ f.product = e.product /\ f.type \in Stochastic
           /\ f.due > t /\ f.due < Horizon
      /\ Reschedules("price_change", t + 1) =>
           \E f \in price : f.type = "price_change"
      /\ Reschedules("supplier_delist", t + 1) =>
           \E f \in delist : f.type = "supplier_delist"
      /\ Reschedules("supplier_timeout", t + 1) =>
           \E f \in timeout : f.type = "supplier_timeout"
  <2>1. /\ {"price_change", "supplier_delist", "supplier_timeout"} = Stochastic
        /\ t + 1 \in Nat
    BY <1>6 DEF Stochastic
  <2>2. \A f \in delist \cup price \cup timeout :
          /\ f \in Event /\ f.due >= t + 1 /\ f.due < Horizon
          /\ f.product = e.product /\ f.type \in Stochastic
    BY <1>2, <1>6, <2>1, ScheduledFacts
  <2>3. \A f \in delist \cup price \cup timeout : f.due > t
    BY <1>6, <2>2 DEF Event
  <2>4. /\ Reschedules("price_change", t + 1) =>
             \E f \in price : f.type = "price_change"
        /\ Reschedules("supplier_delist", t + 1) =>
             \E f \in delist : f.type = "supplier_delist"
        /\ Reschedules("supplier_timeout", t + 1) =>
             \E f \in timeout : f.type = "supplier_timeout"
    BY <1>2, <1>6, <2>1, ScheduledFacts
  <2>5. QED
    BY <2>2, <2>3, <2>4
<1>10. new \subseteq delist \cup price \cup timeout /\ delist \subseteq new
       /\ (old.price_t = None => price \subseteq new)
       /\ (~old.active => timeout \subseteq new)
  BY <1>4 DEF Unless
<1>11. Sane(r) /\ Counted(r)
  BY <1>6, <1>8 DEF Sane, Counted
<1>12. \A k \in Recovery : Moves(e, old, r, new, k)
  <2>1. \A f \in new, k \in Recovery : f.type # k
    BY <1>9, <1>10 DEF Stochastic, Recovery
  <2>2. QED
    BY <1>5, <1>8, <2>1 DEF Moves, Until, Recovery
<1>13. \A type \in Stochastic :
         Idle(r, type) /\ Reschedules(type, t + 1) => \E f \in new : f.type = type
  BY <1>8, <1>9, <1>10 DEF Idle, Stochastic
<1>14. new \subseteq Event /\ \A f \in new : f.product = e.product /\ f.due > t
                                           /\ f.due < Horizon
  BY <1>9, <1>10
<1>15. Handles(e, r, new)
  BY <1>1, <1>7, <1>8, <1>11, <1>12, <1>13, <1>14 DEF Handles
<1>16. QED
  BY <1>2, <1>3, <1>4, <1>6, <1>15, HandledInv

\* A timeout books its end.
LEMMA SupplierTimeoutInv ==
  ASSUME Inv, NEW e \in batch, SupplierTimeout(e)
  PROVE  Inv'
<1>1. PICK old : old = pool[e.product]
  OBVIOUS
<1>2. PICK d \in Durations :
        Applied(e, [old EXCEPT !.active = TRUE, !.timeout_t = t + d,
                               !.ship = "prolonged"],
                {Ev(e.product, "supplier_timeout_end", t + d)})
  BY <1>1 DEF SupplierTimeout
<1>3. PICK r : r = [old EXCEPT !.active = TRUE, !.timeout_t = t + d,
                               !.ship = "prolonged"]
  OBVIOUS
<1>4. PICK f : f = Ev(e.product, "supplier_timeout_end", t + d)
  OBVIOUS
<1>5. e.type = "supplier_timeout" /\ Reached(e, e.type)
  BY DEF SupplierTimeout, Reached
<1>6. /\ phase = "events" /\ e.due = t /\ t \in Nat /\ e.product \in Products
      /\ old \in ProductState /\ Sane(old) /\ Counted(old)
      /\ e.product \in cancel => ~old.listed /\ old.delist_t > t
  BY <1>1, <1>5, ReachedFacts
<1>7. /\ d \in Nat \ {0} /\ t + d \in Nat /\ t + d > t
      /\ old.listed /\ ~old.active /\ cancel' = cancel
  BY <1>1, <1>6, DurationsAssumption DEF SupplierTimeout
<1>8. /\ r \in ProductState /\ r.price_t = old.price_t /\ r.price = old.price
      /\ r.listed = old.listed /\ r.delist_t = old.delist_t /\ r.active = TRUE
      /\ r.timeout_t = t + d /\ r.ship = "prolonged" /\ r.qty = old.qty
      /\ r.qty_t = old.qty_t
  BY <1>3, <1>6, <1>7 DEF ProductState
<1>9. f \in Event /\ f.product = e.product /\ f.type = "supplier_timeout_end"
      /\ f.due = t + d
  BY <1>4, <1>6, <1>7 DEF Ev, Event, EventTypes, Recovery
<1>10. t < Horizon
  BY <1>5, <1>6 DEF Inv, InHorizon, InFlight, Stochastic
<1>11. Sane(r) /\ Counted(r)
  BY <1>6, <1>7, <1>8 DEF Sane, Counted, None
<1>12. Ends(t + d)
  BY <1>6, <1>7, <1>10, TicksAssumption DEF Ends
<1>13. \A k \in Recovery : Moves(e, old, r, {f}, k)
  BY <1>5, <1>6, <1>7, <1>8, <1>9, <1>12
     DEF Moves, Until, Recovery, None, Sane
<1>14. \A type \in Stochastic :
         Idle(r, type) => Idle(old, type) /\ e.type # type
  BY <1>5, <1>6, <1>7, <1>8 DEF Idle, Stochastic
<1>15. Handles(e, r, {f})
  BY <1>1, <1>6, <1>7, <1>8, <1>9, <1>11, <1>13, <1>14 DEF Handles, Stochastic
<1>16. QED
  BY <1>2, <1>3, <1>4, <1>6, <1>15, HandledInv

\* The end of a timeout, and the next one if the product is listed.
LEMMA SupplierTimeoutEndInv ==
  ASSUME Inv, NEW e \in batch, SupplierTimeoutEnd(e)
  PROVE  Inv'
<1>1. PICK old : old = pool[e.product]
  OBVIOUS
<1>2. PICK next \in Scheduled(e.product, "supplier_timeout", t + 1) :
        Applied(e, [old EXCEPT !.active = FALSE, !.timeout_t = None, !.ship = "base"],
                IF old.listed THEN next ELSE {})
  BY <1>1 DEF SupplierTimeoutEnd
<1>3. PICK r : r = [old EXCEPT !.active = FALSE, !.timeout_t = None, !.ship = "base"]
  OBVIOUS
<1>4. PICK new : new = IF old.listed THEN next ELSE {}
  OBVIOUS
<1>5. e.type = "supplier_timeout_end" /\ Reached(e, e.type)
  BY DEF SupplierTimeoutEnd, Reached
<1>6. /\ phase = "events" /\ e.due = t /\ t \in Nat /\ e.product \in Products
      /\ old \in ProductState /\ Sane(old) /\ Counted(old)
      /\ e.product \in cancel => ~old.listed /\ old.delist_t > t
  BY <1>1, <1>5, ReachedFacts
<1>7. cancel' = cancel
  BY DEF SupplierTimeoutEnd
<1>8. /\ r \in ProductState /\ r.price_t = old.price_t /\ r.price = old.price
      /\ r.listed = old.listed /\ r.delist_t = old.delist_t
      /\ r.active = FALSE /\ r.timeout_t = None
      /\ r.ship = "base" /\ r.qty = old.qty /\ r.qty_t = old.qty_t
  BY <1>3, <1>6 DEF ProductState
<1>9. /\ new \subseteq Event
      /\ \A f \in new : /\ f.product = e.product /\ f.type = "supplier_timeout"
                        /\ f.due > t /\ f.due < Horizon
      /\ old.listed /\ Reschedules("supplier_timeout", t + 1) =>
           \E f \in new : f.type = "supplier_timeout"
  <2>1. "supplier_timeout" \in Stochastic /\ t + 1 \in Nat
    BY <1>6 DEF Stochastic
  <2>2. \A f \in next : f \in Event /\ f.due >= t + 1
    BY <1>2, <1>6, <2>1, ScheduledFacts
  <2>3. \A f \in next : f.due \in Nat
    BY <2>2 DEF Event
  <2>4. QED
    BY <1>2, <1>4, <1>6, <2>1, <2>2, <2>3, ScheduledFacts
<1>10. Sane(r) /\ Counted(r)
  BY <1>6, <1>8 DEF Sane, Counted
<1>11. \A k \in Recovery : Moves(e, old, r, new, k)
  BY <1>5, <1>8, <1>9 DEF Moves, Until, Recovery
<1>12. \A type \in Stochastic :
         Idle(r, type) /\ Reschedules(type, t + 1) =>
           \/ \E f \in new : f.type = type
           \/ Idle(old, type) /\ e.type # type
  BY <1>5, <1>8, <1>9 DEF Idle, Stochastic
<1>13. Handles(e, r, new)
  BY <1>1, <1>6, <1>7, <1>8, <1>9, <1>10, <1>11, <1>12 DEF Handles
<1>14. QED
  BY <1>2, <1>3, <1>4, <1>6, <1>13, HandledInv

\* Only an event of a channel that is not idle is dropped: a recovery never is.
LEMMA DropInv ==
  ASSUME Inv, NEW e \in batch, Drop(e)
  PROVE  Inv'
<1>1. PICK old : old = pool[e.product]
  OBVIOUS
<1>2. Reached(e, e.type) /\ Void(e) /\ Applied(e, old, {}) /\ cancel' = cancel
  BY <1>1 DEF Drop
<1>3. /\ phase = "events" /\ e \in Event /\ t \in Nat
      /\ old \in ProductState /\ Sane(old) /\ Counted(old)
      /\ e.product \in cancel => ~old.listed /\ old.delist_t > t
      /\ e.type \in Recovery => Until(old, e.type) = t
  BY <1>1, <1>2, ReachedFacts
<1>4. e.type \in Stochastic
  <2>1. CASE e.type \in Recovery
    BY <1>1, <1>2, <1>3, <2>1 DEF Void, Until, Recovery, None
  <2>2. QED
    BY <1>3, <2>1 DEF Event, EventTypes
<1>5. ~Idle(old, e.type)
  BY <1>1, <1>2, <1>3, <1>4
     DEF Void, CanAdjust, Idle, Stochastic, Sane, ProductState
<1>6. \A k \in Recovery : Moves(e, old, old, {}, k)
  BY <1>4 DEF Moves, Stochastic, Recovery
<1>7. Handles(e, old, {})
  BY <1>1, <1>2, <1>3, <1>5, <1>6 DEF Handles
<1>8. QED
  BY <1>2, <1>3, <1>7, HandledInv

------------------------------------------------------------------------------
(* Sales and the edges of a tick                                           *)

\* A sale only touches the stock of its product.
LEMMA ConsumeInv ==
  ASSUME Inv, NEW p \in Products, Consume(p)
  PROVE  Inv'
<1>1. PICK m : m = MaterializeQuantity(pool[p], t)
  OBVIOUS
<1>2. PICK r : r = [m EXCEPT !.qty = @ - 1]
  OBVIOUS
<1>3. /\ pool' = [pool EXCEPT ![p] = r] /\ phase = "trade"
      /\ EffectiveQuantity(pool[p], t) > 0
      /\ UNCHANGED <<t, phase, pending, batch, follow, cancel>>
  BY <1>1, <1>2 DEF Consume
<1>4. pool[p] \in ProductState /\ Counted(pool[p]) /\ t \in Nat
  BY DEF Inv, TypeOK, StockKept
<1>5. m \in ProductState /\ m.qty \in 1 .. MaxStock /\ m.qty_t = t
  BY <1>1, <1>3, <1>4, EffectiveFacts, StockAssumption DEF Counted
<1>6. /\ m.listed = pool[p].listed /\ m.delist_t = pool[p].delist_t
      /\ m.price = pool[p].price /\ m.price_t = pool[p].price_t
      /\ m.active = pool[p].active /\ m.timeout_t = pool[p].timeout_t
      /\ m.ship = pool[p].ship
  BY <1>1, <1>4 DEF MaterializeQuantity, ProductState
<1>7. m.qty - 1 \in Nat /\ m.qty - 1 \in 0 .. MaxStock
  BY <1>5, StockAssumption
<1>8. /\ r \in ProductState /\ Counted(r)
      /\ r.listed = m.listed /\ r.delist_t = m.delist_t
      /\ r.price = m.price /\ r.price_t = m.price_t
      /\ r.active = m.active /\ r.timeout_t = m.timeout_t
      /\ r.ship = m.ship
  BY <1>2, <1>4, <1>5, <1>7 DEF ProductState, Counted
<1>9. pool'[p] = r /\ \A q \in Products : q # p => pool'[q] = pool[q]
  BY <1>3 DEF Inv, TypeOK
<1>10. InFlight' = InFlight
  BY <1>3 DEF InFlight
<1>11. \A q \in Products :
         /\ Sane(pool[q]) => Sane(pool'[q])
         /\ \A k : Until(pool'[q], k) = Until(pool[q], k)
         /\ \A type : Idle(pool'[q], type) <=> Idle(pool[q], type)
  BY <1>6, <1>8, <1>9 DEF Sane, Until, Idle
<1>12. TypeOK'
  BY <1>3, <1>8 DEF Inv, TypeOK
<1>13. Recoveries'
  BY <1>10, <1>11 DEF Inv, Recoveries, OnlyAt
<1>14. Paced' /\ InHorizon' /\ Delisted'
  BY <1>3, <1>10 DEF Inv, Paced, InHorizon, Delisted
<1>15. AllEnd'
  BY <1>11 DEF Inv, AllEnd, Ends
<1>16. Upcoming' = Upcoming
  BY <1>3 DEF Upcoming
<1>17. Channels'
  BY <1>10, <1>11, <1>16 DEF Inv, Channels, Reschedules
<1>18. StockKept'
  BY <1>3, <1>8, <1>9 DEF Inv, StockKept, Counted
<1>19. QED
  BY <1>12, <1>13, <1>14, <1>15, <1>17, <1>18 DEF Inv

\* The events that are due leave the table together.
LEMMA LoadDueInv ==
  ASSUME Inv, LoadDue
  PROVE  Inv'
<1>1. /\ phase = "trade" /\ phase' = "events" /\ batch = {} /\ follow = {} /\ cancel = {}
      /\ batch' = {e \in pending : e.due <= t} /\ pending' = pending \ batch'
      /\ UNCHANGED <<t, follow, cancel, pool>> /\ \A e \in pending : e.due >= t
  BY DEF LoadDue, Inv, Paced
<1>2. t \in Nat /\ \A e \in pending : e.due \in Nat
  BY DEF Inv, TypeOK, Event
<1>3. InFlight' = InFlight
  BY <1>1 DEF InFlight
<1>4. TypeOK'
  BY <1>1 DEF Inv, TypeOK
<1>5. Recoveries'
  BY <1>1, <1>3 DEF Inv, Recoveries, OnlyAt
<1>6. Paced'
  BY <1>1, <1>2 DEF Paced
<1>7. InHorizon' /\ AllEnd' /\ Delisted' /\ StockKept'
  BY <1>1, <1>3 DEF Inv, InHorizon, AllEnd, Delisted, StockKept, Ends, Counted
<1>8. Channels'
  <2>1. Upcoming = t /\ Upcoming' = t + 1
    BY <1>1 DEF Upcoming
  <2>2. \A type \in Stochastic : Reschedules(type, t + 1) => Reschedules(type, t)
    BY <1>2, WaitsAssumption, TicksAssumption DEF Reschedules
  <2>3. QED
    BY <1>1, <1>3, <2>1, <2>2 DEF Inv, Channels, Reschedules
<1>9. QED
  BY <1>4, <1>5, <1>6, <1>7, <1>8 DEF Inv

\* The table is written back: cancelling removes no recovery, and no event of a
\* product that is listed.
LEMMA FlushInv ==
  ASSUME Inv, Flush
  PROVE  Inv'
<1>1. /\ phase = "events" /\ batch = {} /\ phase' = "trade" /\ t' = t + 1
      /\ pending' = {e \in pending : ~Cancelled(e)} \cup follow
      /\ batch' = {} /\ follow' = {} /\ cancel' = {} /\ pool' = pool
      /\ \A e \in pending \cup follow : e.due > t
  BY DEF Flush, Inv, Paced
<1>2. t \in Nat /\ \A e \in pending \cup follow : e.due \in Nat
  BY DEF Inv, TypeOK, Event
<1>3. InFlight' \subseteq InFlight
      /\ \A e \in InFlight : e \notin InFlight' =>
           e.type \in Stochastic /\ e.product \in cancel
  BY <1>1 DEF InFlight, Cancelled
<1>4. TypeOK'
  BY <1>1, <1>2 DEF Inv, TypeOK
<1>5. Recoveries'
  <2>1. \A e \in InFlight : e.type \in Recovery => e \in InFlight'
    BY <1>3 DEF Recovery, Stochastic
  <2>2. QED
    BY <1>1, <1>3, <2>1 DEF Inv, Recoveries, OnlyAt
<1>6. Paced'
  BY <1>1, <1>2 DEF Paced
<1>7. InHorizon' /\ AllEnd' /\ Delisted'
  BY <1>1, <1>3 DEF Inv, InHorizon, AllEnd, Delisted, Ends
<1>8. StockKept'
  BY <1>1, <1>2 DEF Inv, StockKept, Counted, TypeOK, ProductState
<1>9. Channels'
  <2>1. Upcoming = t + 1 /\ Upcoming' = t + 1
    BY <1>1 DEF Upcoming
  <2>2. ASSUME NEW p \in Products, NEW type \in Stochastic,
               Idle(pool[p], type), Reschedules(type, t + 1)
        PROVE  \E e \in InFlight' : e.product = p /\ e.type = type
    <3>1. p \notin cancel
      BY <2>2 DEF Inv, Delisted, Idle
    <3>2. PICK e \in InFlight : e.product = p /\ e.type = type
      BY <2>1, <2>2 DEF Inv, Channels
    <3>3. QED
      BY <1>3, <3>1, <3>2
  <2>3. QED
    BY <1>1, <2>1, <2>2 DEF Channels, Reschedules
<1>10. QED
  BY <1>4, <1>5, <1>6, <1>7, <1>8, <1>9 DEF Inv

\* A catalogue without disturbances, every channel scheduled.
LEMMA InitInv == Init => Inv
<1> SUFFICES ASSUME Init PROVE Inv
  OBVIOUS
<1>1. /\ t = 0 /\ phase = "trade" /\ batch = {} /\ follow = {} /\ cancel = {}
      /\ \A p \in Products, type \in Stochastic :
           {e \in pending : e.product = p /\ e.type = type} \in Scheduled(p, type, 0)
      /\ pending \subseteq AllInitial
  BY DEF Init
<1>2. \A e \in pending : /\ e \in Event /\ e.type \in Stochastic
                         /\ e.due >= 0 /\ e.due < Horizon
  <2>1. SUFFICES ASSUME NEW e \in pending
                 PROVE  /\ e \in Event /\ e.type \in Stochastic
                        /\ e.due >= 0 /\ e.due < Horizon
    OBVIOUS
  <2>2. PICK p \in Products, type \in Stochastic : e \in UNION Scheduled(p, type, 0)
    BY <1>1 DEF AllInitial
  <2>3. PICK S \in Scheduled(p, type, 0) : e \in S
    BY <2>2
  <2>4. QED
    BY <2>3, ScheduledFacts
<1>3. \A p \in Products :
        /\ pool[p] = [listed |-> TRUE, delist_t |-> None, price |-> "base",
                      price_t |-> None, active |-> FALSE, timeout_t |-> None,
                      ship |-> "base", qty |-> InitialStock, qty_t |-> 0]
        /\ pool[p] \in ProductState
  BY StockAssumption DEF Init, ProductState
<1>4. InFlight = pending
  BY <1>1 DEF InFlight
<1>5. TypeOK
  <2>1. pool \in [Products -> ProductState]
    BY <1>3 DEF Init
  <2>2. QED
    BY <1>1, <1>2, <2>1 DEF TypeOK
<1>6. Recoveries
  <2>1. \A p \in Products : Sane(pool[p])
                            /\ \A k \in Recovery : Until(pool[p], k) = None
    BY <1>3 DEF Sane, Until, Recovery, None
  <2>2. \A e \in InFlight : e.type \notin Recovery
    BY <1>2, <1>4 DEF Stochastic, Recovery
  <2>3. QED
    BY <2>1, <2>2 DEF Recoveries, OnlyAt
<1>7. Paced /\ InHorizon /\ Delisted
  BY <1>1, <1>2, <1>4 DEF Paced, InHorizon, Delisted
<1>8. AllEnd
  BY <1>3 DEF AllEnd, Ends, Until, Recovery, None
<1>9. Channels
  <2>1. SUFFICES ASSUME NEW p \in Products, NEW type \in Stochastic,
                        Reschedules(type, 0)
                 PROVE  \E e \in pending : e.product = p /\ e.type = type
    BY <1>1, <1>4 DEF Channels, Upcoming
  <2>2. PICK S \in Scheduled(p, type, 0) :
          S = {e \in pending : e.product = p /\ e.type = type}
    BY <1>1
  <2>3. \E e \in S : e.type = type
    BY <2>1, <2>2, ScheduledFacts
  <2>4. QED
    BY <2>2, <2>3
<1>10. StockKept
  BY <1>1, <1>3, StockAssumption DEF StockKept, Counted
<1>11. QED
  BY <1>5, <1>6, <1>7, <1>8, <1>9, <1>10 DEF Inv

\* Every step keeps the invariant.
LEMMA NextInv == Inv /\ [Next]_vars => Inv'
<1> SUFFICES ASSUME Inv, [Next]_vars PROVE Inv'
  OBVIOUS
<1>1. CASE LoadDue
  BY <1>1, LoadDueInv
<1>2. CASE Flush
  BY <1>2, FlushInv
<1>3. CASE \E p \in Products : Consume(p)
  BY <1>3, ConsumeInv
<1>4. CASE \E e \in batch : Handle(e)
  BY <1>4, PriceChangeInv, PriceRecoverInv, SupplierDelistInv,
     SupplierRelistInv,
     SupplierTimeoutInv, SupplierTimeoutEndInv, DropInv DEF Handle
<1>5. CASE Finished \/ UNCHANGED vars
  <2>1. UNCHANGED <<t, phase, pending, batch, follow, cancel, pool>>
    BY <1>5 DEF Finished, vars
  <2>2. QED
    BY <2>1
       DEF Inv, TypeOK, Recoveries, OnlyAt, InFlight, Paced, InHorizon,
           AllEnd,
                Ends, Delisted, Channels, Upcoming, Reschedules, StockKept, Counted
<1>6. QED
  BY <1>1, <1>2, <1>3, <1>4, <1>5 DEF Next

\* The invariant holds in every state a run of the pool reaches.
LEMMA InvHolds == Spec => []Inv
BY InitInv, NextInv, PTL DEF Spec

\* However the three channels of a product interleave, each disturbance has its
\* one recovery booked, no channel falls silent before the horizon, and the
\* catalogue is calm behind it (supplier_scheduler.py).
THEOREM NoChannelDies == Spec => []ChannelsLive
<1>1. ASSUME Inv PROVE RecoveryBooked
  <2>1. InFlight \subseteq Event
    BY <1>1 DEF Inv, TypeOK, InFlight
  <2>2. \A p \in Products :
          /\ OnlyAt(p, "supplier_relist", pool[p].delist_t)
          /\ OnlyAt(p, "price_recover", pool[p].price_t)
          /\ OnlyAt(p, "supplier_timeout_end", pool[p].timeout_t)
          /\ Sane(pool[p])
    BY <1>1 DEF Inv, Recoveries, Until, Recovery
  <2>3. QED
    BY <2>1, <2>2, BookedMeansOnlyAt DEF RecoveryBooked, Sane
<1>2. ASSUME Inv PROVE NoLostChannel
  <2>1. phase = "trade" => InFlight = pending /\ Upcoming = t
    BY <1>2 DEF Inv, Paced, InFlight, Upcoming
  <2>2. QED
    BY <1>2, <2>1 DEF Inv, Channels, Reschedules, NoLostChannel
<1>3. ASSUME Inv PROVE CalmAfterHorizon
  <2>1. SUFFICES ASSUME \A d \in Durations : t >= Horizon + d, NEW p \in Products
                 PROVE  /\ pool[p].listed /\ pool[p].price = "base"
                        /\ pool[p].ship = "base"
    BY DEF CalmAfterHorizon
  <2>2. pool[p] \in ProductState /\ t \in Nat /\ Sane(pool[p])
    BY <1>3 DEF Inv, TypeOK, Recoveries
  <2>3. ASSUME NEW k \in Recovery, Until(pool[p], k) # None PROVE FALSE
    <3>1. PICK d \in Durations : Until(pool[p], k) < Horizon + d
      BY <1>3, <2>3 DEF Inv, AllEnd, Ends
    <3>2. PICK e \in InFlight : e.product = p /\ e.type = k
                                /\ e.due = Until(pool[p], k)
      BY <1>3, <2>3 DEF Inv, Recoveries, OnlyAt
    <3>3. e \in Event /\ phase \in {"trade", "events"}
      BY <1>3 DEF Inv, TypeOK, InFlight
    <3>4. e.due \in Nat /\ e.due >= t
      BY <1>3, <2>2, <3>3 DEF Inv, Paced, InFlight, Event
    <3>5. t >= Horizon + d /\ Horizon + d \in Nat
      BY <2>1, DurationsAssumption, TicksAssumption
    <3>6. QED
      BY <2>2, <3>1, <3>2, <3>4, <3>5
  <2>4. /\ pool[p].delist_t = None /\ pool[p].price_t = None
        /\ pool[p].timeout_t = None
    BY <2>3 DEF Until, Recovery
  <2>5. QED
    BY <2>2, <2>4 DEF Sane, ProductState
<1>4. Inv => ChannelsLive
  BY <1>1, <1>2, <1>3 DEF Inv, ChannelsLive
<1>5. QED
  BY InvHolds, <1>4, PTL

------------------------------------------------------------------------------
(* The lazy stock implements the eager one                                 *)

\* The stock and the listing of a product, seen from the shops.
LEMMA SeenFacts ==
  ASSUME Inv, NEW p \in Products
  PROVE  /\ pool[p] \in ProductState /\ Sane(pool[p]) /\ t \in Nat
         /\ pool[p].qty \in 0 .. MaxStock /\ pool[p].qty_t \in 0 .. t
         /\ Stock[p] = EffectiveQuantity(pool[p], t)
         /\ Stock[p] \in 0 .. MaxStock
         /\ Listed[p] = pool[p].listed /\ Listed[p] \in BOOLEAN
<1>1. pool[p] \in ProductState /\ Counted(pool[p]) /\ t \in Nat /\ Sane(pool[p])
  BY DEF Inv, TypeOK, StockKept, Recoveries
<1>2. EffectiveQuantity(pool[p], t) \in 0 .. MaxStock
  BY <1>1, EffectiveFacts, StockAssumption DEF Counted
<1>3. pool[p].qty_t \in 0 .. t /\ pool[p].listed \in BOOLEAN
  BY <1>1 DEF Counted, ProductState
<1>4. QED
  BY <1>1, <1>2, <1>3 DEF Stock, Listed, Counted

\* An hour that passes replenishes what every tick would have.
LEMMA GrownFacts ==
  ASSUME NEW r \in ProductState, NEW n \in Nat, r.listed,
         r.qty \in 0 .. MaxStock, r.qty_t \in 0 .. n
  PROVE  EffectiveQuantity(r, n + 1) = Eager!Grown(EffectiveQuantity(r, n))
<1>1. PICK d \in Nat : d = n - r.qty_t
  OBVIOUS
<1>2. PICK a \in Nat : a = d * Increment
  BY <1>1, StockAssumption
<1>3. (d + 1) * Increment = a + Increment
  BY <1>1, <1>2, StockAssumption
<1>4. EffectiveQuantity(r, n) = Smaller(MaxStock, r.qty + a)
  <2>1. CASE n > r.qty_t
    BY <1>1, <1>2, <2>1 DEF EffectiveQuantity
  <2>2. CASE n = r.qty_t
    <3>1. a = 0
      BY <1>1, <1>2, <2>2, StockAssumption
    <3>2. QED
      BY <2>2, <3>1, StockAssumption DEF EffectiveQuantity
  <2>3. QED
    BY <2>1, <2>2
<1>5. EffectiveQuantity(r, n + 1) = Smaller(MaxStock, r.qty + (a + Increment))
  <2>1. n + 1 > r.qty_t /\ (n + 1) - r.qty_t = d + 1
    BY <1>1
  <2>2. QED
    BY <1>3, <2>1 DEF EffectiveQuantity
<1>6. QED
  BY <1>2, <1>4, <1>5, StockAssumption DEF Smaller, Eager!Grown

\* An event that keeps the stock and the listing of its product is not seen.
LEMMA AppliedUnseen ==
  ASSUME Inv, NEW e \in batch, NEW r, NEW new, Applied(e, r, new),
         r.listed = pool[e.product].listed, r.qty = pool[e.product].qty,
         r.qty_t = pool[e.product].qty_t
  PROVE  UNCHANGED <<Stock, Listed>>
<1>1. e.product \in Products /\ pool \in [Products -> ProductState]
  BY DEF Inv, TypeOK, Event
<1>2. t' = t /\ pool' = [pool EXCEPT ![e.product] = r]
  BY DEF Applied
<1>3. \A p \in Products : /\ pool'[p].listed = pool[p].listed
                          /\ pool'[p].qty = pool[p].qty
                          /\ pool'[p].qty_t = pool[p].qty_t
  BY <1>1, <1>2
<1>4. QED
  BY <1>2, <1>3 DEF Stock, Listed, EffectiveQuantity

\* A delisting or relisting keeps the stock at the level it had.
LEMMA AppliedSwitch ==
  ASSUME Inv, NEW e \in batch, NEW r, NEW new, Applied(e, r, new),
         r.listed = ~pool[e.product].listed, r.listed \in BOOLEAN,
         EffectiveQuantity(r, t) = EffectiveQuantity(pool[e.product], t)
  PROVE  Eager!Switch(e.product)
<1>1. e.product \in Products /\ pool \in [Products -> ProductState]
  BY DEF Inv, TypeOK, Event
<1>2. t' = t /\ pool' = [pool EXCEPT ![e.product] = r]
  BY DEF Applied
<1>3. pool'[e.product] = r /\ \A p \in Products : p # e.product => pool'[p] = pool[p]
  BY <1>1, <1>2
<1>4. Stock' = Stock
  BY <1>2, <1>3 DEF Stock
<1>5. Listed' = [Listed EXCEPT ![e.product] = ~@]
  BY <1>1, <1>3 DEF Listed
<1>6. QED
  BY <1>4, <1>5 DEF Eager!Switch

\* A sale from the lazy stock is a sale.
LEMMA ConsumeSells ==
  ASSUME Inv, NEW p \in Products, Consume(p)
  PROVE  Eager!Sell(p)
<1>1. PICK m : m = MaterializeQuantity(pool[p], t)
  OBVIOUS
<1>2. PICK r : r = [m EXCEPT !.qty = @ - 1]
  OBVIOUS
<1>3. /\ pool' = [pool EXCEPT ![p] = r] /\ pool[p].listed /\ t' = t
      /\ EffectiveQuantity(pool[p], t) > 0
  BY <1>1, <1>2 DEF Consume
<1>4. /\ pool[p] \in ProductState /\ t \in Nat /\ pool[p].qty <= MaxStock
      /\ pool[p].qty_t <= t /\ Stock[p] = EffectiveQuantity(pool[p], t)
      /\ Stock[p] \in 0 .. MaxStock /\ Listed[p] = pool[p].listed
  BY SeenFacts, StockAssumption
<1>5. m \in ProductState /\ m.qty = Stock[p] /\ m.qty_t = t
  BY <1>1, <1>4, EffectiveFacts
<1>6. m.listed = pool[p].listed
  BY <1>1, <1>4 DEF MaterializeQuantity, ProductState
<1>7. r.listed = pool[p].listed /\ r.qty = Stock[p] - 1 /\ r.qty_t = t
  BY <1>2, <1>5, <1>6 DEF ProductState
<1>8. EffectiveQuantity(r, t) = Stock[p] - 1
  BY <1>3, <1>4, <1>7, StockAssumption DEF EffectiveQuantity, Smaller
<1>9. pool'[p] = r /\ \A q \in Products : q # p => pool'[q] = pool[q]
  BY <1>3 DEF Inv, TypeOK
<1>10. Stock' = [Stock EXCEPT ![p] = @ - 1]
  <2>1. \A q \in Products :
          EffectiveQuantity(pool'[q], t') = IF q = p THEN Stock[p] - 1 ELSE Stock[q]
    BY <1>3, <1>8, <1>9 DEF Stock
  <2>2. Stock' = [q \in Products |-> IF q = p THEN Stock[p] - 1 ELSE Stock[q]]
    BY <2>1 DEF Stock
  <2>3. Stock = [q \in Products |-> Stock[q]]
    BY DEF Stock
  <2>4. QED
    BY <2>2, <2>3
<1>11. Listed' = Listed
  BY <1>7, <1>9 DEF Listed
<1>12. QED
  BY <1>3, <1>4, <1>10, <1>11 DEF Eager!Sell

\* The end of a tick grows the stock of the listed products.
LEMMA FlushTicks ==
  ASSUME Inv, Flush
  PROVE  Eager!Tick
<1>1. t' = t + 1 /\ pool' = pool
  BY DEF Flush
<1>2. Listed' = Listed
  BY <1>1 DEF Listed
<1>3. ASSUME NEW p \in Products
      PROVE  EffectiveQuantity(pool[p], t + 1)
               = IF Listed[p] THEN Eager!Grown(Stock[p]) ELSE Stock[p]
  <2>1. CASE pool[p].listed
    BY <2>1, SeenFacts, GrownFacts
  <2>2. CASE ~pool[p].listed
    BY <2>2, SeenFacts DEF EffectiveQuantity
  <2>3. QED
    BY <2>1, <2>2
<1>4. QED
  BY <1>1, <1>2, <1>3 DEF Eager!Tick, Stock

\* Every event is a delisting, a relisting, or not seen.
LEMMA HandlersSwitch ==
  ASSUME Inv, NEW e \in batch, Handle(e)
  PROVE  Eager!Switch(e.product) \/ UNCHANGED <<Stock, Listed>>
<1>1. PICK old : old = pool[e.product]
  OBVIOUS
<1>2. /\ e.product \in Products /\ old \in ProductState /\ Sane(old) /\ t \in Nat
      /\ old.qty \in 0 .. MaxStock /\ old.qty_t \in 0 .. t
  BY <1>1, SeenFacts DEF Inv, TypeOK, Event
<1>3. CASE PriceChange(e)
  <2>1. PICK d \in Durations, price \in {"base", "adjusted"} :
          Applied(e, [old EXCEPT !.price = price, !.price_t = t + d],
                  {Ev(e.product, "price_recover", t + d)})
    BY <1>1, <1>3 DEF PriceChange
  <2>2. PICK r : r = [old EXCEPT !.price = price, !.price_t = t + d]
    OBVIOUS
  <2>3. r.listed = old.listed /\ r.qty = old.qty /\ r.qty_t = old.qty_t
    BY <1>2, <2>2 DEF ProductState
  <2>4. QED
    BY <1>1, <2>1, <2>2, <2>3, AppliedUnseen
<1>4. CASE PriceRecover(e)
  <2>1. PICK new : Applied(e, [old EXCEPT !.price = "base", !.price_t = None], new)
    BY <1>1, <1>4 DEF PriceRecover
  <2>2. PICK r : r = [old EXCEPT !.price = "base", !.price_t = None]
    OBVIOUS
  <2>3. r.listed = old.listed /\ r.qty = old.qty /\ r.qty_t = old.qty_t
    BY <1>2, <2>2 DEF ProductState
  <2>4. QED
    BY <1>1, <2>1, <2>2, <2>3, AppliedUnseen
<1>5. CASE SupplierDelist(e)
  <2>1. old.listed
    BY <1>1, <1>5 DEF SupplierDelist
  <2>2. PICK d \in Durations :
          Applied(e, [MaterializeQuantity(old, t) EXCEPT !.listed = FALSE,
                                                         !.delist_t = t + d],
                  {Ev(e.product, "supplier_relist", t + d)})
    BY <1>1, <1>5 DEF SupplierDelist
  <2>3. PICK m : m = MaterializeQuantity(old, t)
    OBVIOUS
  <2>4. PICK r : r = [m EXCEPT !.listed = FALSE, !.delist_t = t + d]
    OBVIOUS
  <2>5. m \in ProductState /\ m.qty = EffectiveQuantity(old, t)
    BY <1>2, <2>3, EffectiveFacts, StockAssumption
  <2>6. r.listed = FALSE /\ r.qty = m.qty
    BY <2>4, <2>5 DEF ProductState
  <2>7. EffectiveQuantity(r, t) = EffectiveQuantity(old, t)
    BY <2>5, <2>6 DEF EffectiveQuantity
  <2>8. Applied(e, r, {Ev(e.product, "supplier_relist", t + d)})
    BY <2>2, <2>3, <2>4
  <2>9. QED
    BY <1>1, <2>1, <2>6, <2>7, <2>8, AppliedSwitch
<1>6. CASE SupplierRelist(e)
  <2>1. ~old.listed
    BY <1>1, <1>2, <1>6 DEF SupplierRelist, Sane, ProductState
  <2>2. PICK r, new : /\ r = [old EXCEPT !.listed = TRUE, !.delist_t = None,
                                         !.qty_t = t]
                      /\ Applied(e, r, new)
    BY <1>1, <1>6 DEF SupplierRelist
  <2>3. r.listed = TRUE /\ r.qty = old.qty /\ r.qty_t = t
    BY <1>2, <2>2 DEF ProductState
  <2>4. EffectiveQuantity(r, t) = EffectiveQuantity(old, t)
    BY <1>2, <2>1, <2>3, StockAssumption DEF EffectiveQuantity, Smaller
  <2>5. QED
    BY <1>1, <2>1, <2>2, <2>3, <2>4, AppliedSwitch
<1>7. CASE SupplierTimeout(e)
  <2>1. PICK d \in Durations :
          Applied(e, [old EXCEPT !.active = TRUE, !.timeout_t = t + d,
                                 !.ship = "prolonged"],
                  {Ev(e.product, "supplier_timeout_end", t + d)})
    BY <1>1, <1>7 DEF SupplierTimeout
  <2>2. PICK r : r = [old EXCEPT !.active = TRUE, !.timeout_t = t + d,
                                 !.ship = "prolonged"]
    OBVIOUS
  <2>3. r.listed = old.listed /\ r.qty = old.qty /\ r.qty_t = old.qty_t
    BY <1>2, <2>2 DEF ProductState
  <2>4. QED
    BY <1>1, <2>1, <2>2, <2>3, AppliedUnseen
<1>8. CASE SupplierTimeoutEnd(e)
  <2>1. PICK new : Applied(e, [old EXCEPT !.active = FALSE, !.timeout_t = None,
                                          !.ship = "base"], new)
    BY <1>1, <1>8 DEF SupplierTimeoutEnd
  <2>2. PICK r : r = [old EXCEPT !.active = FALSE, !.timeout_t = None,
                                 !.ship = "base"]
    OBVIOUS
  <2>3. r.listed = old.listed /\ r.qty = old.qty /\ r.qty_t = old.qty_t
    BY <1>2, <2>2 DEF ProductState
  <2>4. QED
    BY <1>1, <2>1, <2>2, <2>3, AppliedUnseen
<1>9. CASE Drop(e)
  BY <1>9, AppliedUnseen DEF Drop
<1>10. QED
  BY <1>3, <1>4, <1>5, <1>6, <1>7, <1>8, <1>9 DEF Handle

\* Whatever order sales, delistings, relistings and ticks come in, the lazily
\* counted stock is the stock that is replenished at every tick (inventory.py).
THEOREM LazyStockIsEager == Spec => ImplementsEagerStock
<1>1. Init => Eager!Init
  <2>1. SUFFICES ASSUME Init PROVE Eager!Init
    OBVIOUS
  <2>2. t = 0 /\ \A p \in Products :
          /\ pool[p].listed = TRUE /\ pool[p].qty = InitialStock
          /\ pool[p].qty_t = 0
    BY <2>1 DEF Init
  <2>3. \A p \in Products : EffectiveQuantity(pool[p], t) = InitialStock
    BY <2>2, StockAssumption DEF EffectiveQuantity, Smaller
  <2>4. QED
    BY <2>2, <2>3 DEF Eager!Init, Stock, Listed
<1>2. ASSUME Inv, [Next]_vars PROVE [Eager!Next]_(Eager!vars)
  <2>1. CASE LoadDue \/ Finished \/ UNCHANGED vars
    <3>1. t' = t /\ pool' = pool
      BY <2>1 DEF LoadDue, Finished, vars
    <3>2. QED
      BY <3>1 DEF Eager!vars, Stock, Listed
  <2>2. CASE Flush
    BY <1>2, <2>2, FlushTicks DEF Eager!Next
  <2>3. ASSUME NEW p \in Products, Consume(p) PROVE Eager!Next
    BY <1>2, <2>3, ConsumeSells DEF Eager!Next
  <2>4. ASSUME NEW e \in batch, Handle(e) PROVE [Eager!Next]_(Eager!vars)
    <3>1. e.product \in Products
      BY <1>2 DEF Inv, TypeOK, Event
    <3>2. QED
      BY <1>2, <2>4, <3>1, HandlersSwitch DEF Eager!Next, Eager!vars
  <2>5. QED
    BY <1>2, <2>1, <2>2, <2>3, <2>4 DEF Next
<1>3. QED
  BY InvHolds, <1>1, <1>2, PTL DEF Spec, ImplementsEagerStock, Eager!Spec

=============================================================================
