------------------------------ MODULE SupplierPool ------------------------------
(***************************************************************************)
(* The supplier side of the products: the event scheduler of               *)
(* env/core/supplier_scheduler.py with its table supplier_events, and the  *)
(* lazily replenished stock of env/core/inventory.py.                      *)
(*                                                                         *)
(* One tick t is  purchases ; LoadDue ; the due events in their order ;    *)
(* Flush.  Each event is one action because the events of a product see    *)
(* each other's effects; the table is read and emptied before the first    *)
(* and written after the last, as step 2 of Simulator._step_impl does.     *)
(*                                                                         *)
(* The geometric waits and the uniform durations are free choices from     *)
(* sets.  An adjusted price and a prolonged ship time are one value each.  *)
(* An event is identified without its sequence number, which keys the      *)
(* random draws; of two events of a channel that are due together the      *)
(* second finds the channel busy and is dropped, so they may be one.       *)
(***************************************************************************)
EXTENDS Integers, FiniteSets

CONSTANTS
  Products,      \* the catalogue
  Waits,         \* per stochastic event, the waits its rate can produce
                 \* ({} for rate 0, {0} for rate 1)
  Durations,     \* supplier.recover_steps, the lengths of a disturbance
  Horizon,       \* run.horizon_steps: no stochastic event is due later
  LastTick,      \* bound on t: last tick of the drain
  MaxStock, Increment, InitialStock  \* inventory of every product

Stochastic == {"price_change", "supplier_delist", "supplier_timeout"}
Recovery == {"price_recover", "supplier_relist", "supplier_timeout_end"}
EventTypes == Stochastic \cup Recovery

ASSUME WaitsAssumption == Waits \in [Stochastic -> SUBSET Nat]
ASSUME DurationsAssumption == Durations \subseteq Nat \ {0}
ASSUME TicksAssumption == Horizon \in Nat /\ LastTick \in Nat
\* data/private_real.py refuses a catalogue in which this does not hold.
ASSUME StockAssumption ==
  /\ MaxStock \in Nat \ {0} /\ Increment \in Nat /\ InitialStock \in 0 .. MaxStock

VARIABLES
  t,        \* Environment.t
  phase,    \* "trade" before the due events are loaded, "events" after
  pending,  \* the table supplier_events
  batch,    \* due_events not yet applied
  follow,   \* followups of the batch
  cancel,   \* products in cancel_pending
  pool      \* the mutable fields of the products

vars == <<t, phase, pending, batch, follow, cancel, pool>>

None == -1
Event == [product : Products, type : EventTypes, due : Nat]

ProductState ==
  [listed : BOOLEAN,                  \* is_listed_by_supplier
   delist_t : Nat \cup {None},        \* delist_recover_t
   price : {"base", "adjusted"},
   price_t : Nat \cup {None},         \* price_recover_t
   active : BOOLEAN,                  \* timeout_active
   timeout_t : Nat \cup {None},       \* timeout_recover_t
   ship : {"base", "prolonged"},      \* supplier_ship_hours
   qty : Nat, qty_t : Nat]            \* quantity, quantity_updated_t

------------------------------------------------------------------------------
(* Lazy stock                                                              *)

Smaller(a, b) == IF a <= b THEN a ELSE b

EffectiveQuantity(r, now) ==
  IF r.listed
  THEN Smaller(MaxStock, r.qty + (IF now > r.qty_t THEN now - r.qty_t ELSE 0) * Increment)
  ELSE r.qty

\* Mutant of MaterializeQuantity: the time of the write is not kept.
MaterializeUnstamped(r, now) == [r EXCEPT !.qty = EffectiveQuantity(r, now)]

MaterializeQuantity(r, now) ==
  [r EXCEPT !.qty = EffectiveQuantity(r, now), !.qty_t = now]

\* Mutant of Consume: the stock is not looked at.
ConsumeUnchecked(p) ==
  /\ phase = "trade" /\ t < Horizon
  /\ pool[p].listed
  /\ LET m == MaterializeQuantity(pool[p], t)
     IN pool' = [pool EXCEPT ![p] = [m EXCEPT !.qty = @ - 1]]
  /\ UNCHANGED <<t, phase, pending, batch, follow, cancel>>

\* consume_quantity of one unit, for a listed product (the auto-purchase looks
\* at the listing and the stock before).
Consume(p) ==
  /\ phase = "trade" /\ t < Horizon
  /\ pool[p].listed /\ EffectiveQuantity(pool[p], t) > 0
  /\ LET m == MaterializeQuantity(pool[p], t)
     IN pool' = [pool EXCEPT ![p] = [m EXCEPT !.qty = @ - 1]]
  /\ UNCHANGED <<t, phase, pending, batch, follow, cancel>>

------------------------------------------------------------------------------
(* Scheduling (schedule_stochastic_event)                                  *)

Ev(p, type, due) == [product |-> p, type |-> type, due |-> due]

\* Mutant of Within: an event past the horizon is scheduled too.
WithinAnything(e) == {e}

Within(e) == IF e.due < Horizon THEN {e} ELSE {}

\* The possible results of scheduling a stochastic event: no event, or one.
Scheduled(p, type, earliest) ==
  IF Waits[type] = {} THEN {{}}
  ELSE {Within(Ev(p, type, earliest + w)) : w \in Waits[type]}

AllInitial == UNION UNION {Scheduled(p, type, 0) : p \in Products, type \in Stochastic}

\* initial_supplier_events on a catalogue without disturbances.
Init ==
  /\ t = 0 /\ phase = "trade"
  /\ pending \in {S \in SUBSET AllInitial : \A p \in Products, type \in Stochastic :
                    {e \in S : e.product = p /\ e.type = type} \in Scheduled(p, type, 0)}
  /\ batch = {} /\ follow = {} /\ cancel = {}
  /\ pool = [p \in Products |->
               [listed |-> TRUE, delist_t |-> None, price |-> "base",
                price_t |-> None, active |-> FALSE, timeout_t |-> None,
                ship |-> "base", qty |-> InitialStock, qty_t |-> 0]]

------------------------------------------------------------------------------
(* One tick                                                                *)

LoadDue ==
  /\ phase = "trade" /\ t < LastTick
  /\ phase' = "events"
  /\ batch' = {e \in pending : e.due <= t}
  /\ pending' = pending \ batch'
  /\ UNCHANGED <<t, follow, cancel, pool>>

\* The events of a product are applied by due time, then by name.
Rank == [price_change |-> 1, price_recover |-> 2, supplier_delist |-> 3,
         supplier_relist |-> 4, supplier_timeout |-> 5, supplier_timeout_end |-> 6]
Precedes(e, f) == e.due < f.due \/ (e.due = f.due /\ Rank[e.type] < Rank[f.type])

Reached(e, type) ==
  /\ phase = "events" /\ e \in batch /\ e.type = type
  /\ \A f \in batch : f.product = e.product => ~Precedes(f, e)

\* The event leaves the batch with the product state r and followups new.
Applied(e, r, new) ==
  /\ batch' = batch \ {e}
  /\ pool' = [pool EXCEPT ![e.product] = r]
  /\ follow' = follow \cup new
  /\ UNCHANGED <<t, phase, pending>>

CanAdjust(r) == r.listed /\ r.price_t = None /\ r.price = "base"

\* The factor can also yield the base price.
PriceChange(e) ==
  LET r == pool[e.product] IN
     /\ Reached(e, "price_change")
     /\ CanAdjust(r)
     /\ \E d \in Durations, price \in {"base", "adjusted"} :
          Applied(e, [r EXCEPT !.price = price, !.price_t = t + d],
                  {Ev(e.product, "price_recover", t + d)})
     /\ UNCHANGED cancel

PriceRecover(e) ==
  LET r == pool[e.product] IN
     /\ Reached(e, "price_recover")
     /\ r.price_t # None /\ t >= r.price_t
     /\ \E new \in Scheduled(e.product, "price_change", t + 1) :
          Applied(e, [r EXCEPT !.price = "base", !.price_t = None],
                  IF r.listed THEN new ELSE {})
     /\ UNCHANGED cancel

SupplierDelist(e) ==
  LET r == pool[e.product] IN
     /\ Reached(e, "supplier_delist")
     /\ r.listed
     /\ \E d \in Durations :
          Applied(e, [MaterializeQuantity(r, t) EXCEPT !.listed = FALSE,
                                                       !.delist_t = t + d],
                  {Ev(e.product, "supplier_relist", t + d)})
     /\ cancel' = cancel \cup {e.product}

\* Mutant of Unless: relisting leaves the other channels alone.
UnlessNever(busy, new) == {}

\* Followups that are only kept when their channel is idle.
Unless(busy, new) == IF busy THEN {} ELSE new

SupplierRelist(e) ==
  LET r == pool[e.product] IN
     /\ Reached(e, "supplier_relist")
     /\ r.delist_t # None /\ t >= r.delist_t
     /\ \E price \in Scheduled(e.product, "price_change", t + 1),
           delist \in Scheduled(e.product, "supplier_delist", t + 1),
           timeout \in Scheduled(e.product, "supplier_timeout", t + 1) :
          Applied(e, [r EXCEPT !.listed = TRUE, !.delist_t = None, !.qty_t = t],
                  delist \cup Unless(r.price_t # None, price)
                         \cup Unless(r.active, timeout))
     /\ UNCHANGED cancel

SupplierTimeout(e) ==
  LET r == pool[e.product] IN
     /\ Reached(e, "supplier_timeout")
     /\ r.listed /\ ~r.active
     /\ \E d \in Durations :
          Applied(e, [r EXCEPT !.active = TRUE, !.timeout_t = t + d,
                               !.ship = "prolonged"],
                  {Ev(e.product, "supplier_timeout_end", t + d)})
     /\ UNCHANGED cancel

SupplierTimeoutEnd(e) ==
  LET r == pool[e.product] IN
     /\ Reached(e, "supplier_timeout_end")
     /\ r.timeout_t # None /\ t >= r.timeout_t
     /\ \E new \in Scheduled(e.product, "supplier_timeout", t + 1) :
          Applied(e, [r EXCEPT !.active = FALSE, !.timeout_t = None, !.ship = "base"],
                  IF r.listed THEN new ELSE {})
     /\ UNCHANGED cancel

\* An event that the state of its product makes void is dropped.
Void(e) ==
  LET r == pool[e.product] IN
     CASE e.type = "price_change" -> ~CanAdjust(r)
       [] e.type = "price_recover" -> ~(r.price_t # None /\ t >= r.price_t)
       [] e.type = "supplier_delist" -> ~r.listed
       [] e.type = "supplier_relist" -> ~(r.delist_t # None /\ t >= r.delist_t)
       [] e.type = "supplier_timeout" -> ~r.listed \/ r.active
       [] OTHER -> ~(r.timeout_t # None /\ t >= r.timeout_t)

Drop(e) ==
  /\ Reached(e, e.type) /\ Void(e)
  /\ Applied(e, pool[e.product], {})
  /\ UNCHANGED cancel

\* Mutant of Cancelled: the recovery of a running disturbance goes as well.
CancelledAll(e) == e.product \in cancel

\* What delete_pending_supplier_events removes for the products delisted in
\* this batch.
Cancelled(e) == e.product \in cancel /\ e.type \in Stochastic

\* The cancellations reach the table before the followups do.
Flush ==
  /\ phase = "events" /\ batch = {}
  /\ pending' = {e \in pending : ~Cancelled(e)} \cup follow
  /\ follow' = {} /\ cancel' = {}
  /\ phase' = "trade" /\ t' = t + 1
  /\ UNCHANGED <<batch, pool>>

Finished == phase = "trade" /\ t = LastTick /\ UNCHANGED vars

Handle(e) == \/ PriceChange(e) \/ PriceRecover(e) \/ SupplierDelist(e)
             \/ SupplierRelist(e) \/ SupplierTimeout(e) \/ SupplierTimeoutEnd(e)
             \/ Drop(e)

Next == \/ LoadDue \/ Flush \/ Finished
        \/ \E p \in Products : Consume(p)
        \/ \E e \in batch : Handle(e)

Spec == Init /\ [][Next]_vars

------------------------------------------------------------------------------
(* Properties                                                              *)

\* Type invariant of the supplier pool.
TypeOK ==
  /\ t \in Nat /\ phase \in {"trade", "events"}
  /\ pending \subseteq Event /\ batch \subseteq Event /\ follow \subseteq Event
  /\ cancel \subseteq Products
  /\ pool \in [Products -> ProductState]

InFlight == pending \cup batch \cup follow
DueTimes(p, type) == {e.due : e \in {f \in InFlight : f.product = p /\ f.type = type}}
Booked(p, type, until) ==
  DueTimes(p, type) = IF until = None THEN {} ELSE {until}

\* Every disturbance of a product has exactly one recovery booked, at the time
\* the product says, and no recovery is booked without one: no interleaving of
\* the three channels leaves a product delisted, repriced or slow for ever.
RecoveryBooked ==
  \A p \in Products :
    /\ Booked(p, "supplier_relist", pool[p].delist_t)
    /\ Booked(p, "price_recover", pool[p].price_t)
    /\ Booked(p, "supplier_timeout_end", pool[p].timeout_t)
    /\ pool[p].listed <=> pool[p].delist_t = None
    /\ pool[p].active <=> pool[p].timeout_t # None
    /\ pool[p].ship = "prolonged" <=> pool[p].active
    /\ pool[p].price = "adjusted" => pool[p].price_t # None

Idle(r, type) ==
  r.listed /\ CASE type = "price_change" -> r.price_t = None
                [] type = "supplier_timeout" -> ~r.active
                [] OTHER -> TRUE

\* No channel dies: while a product is listed and a channel of it is idle, the
\* next event of that channel is scheduled, unless its wait may lead past the
\* horizon.  The skipped reschedulings of price_recover, supplier_timeout_end
\* and supplier_relist must make up for each other in every order.
NoLostChannel ==
  phase = "trade" => \A p \in Products, type \in Stochastic :
    /\ Idle(pool[p], type)
    /\ Waits[type] # {} /\ \A w \in Waits[type] : t + w < Horizon
    => \E e \in pending : e.product = p /\ e.type = type

\* Once the longest disturbance that can start before the horizon is over, the
\* drain runs on an undisturbed catalogue.
CalmAfterHorizon ==
  (\A d \in Durations : t >= Horizon + d) =>
    \A p \in Products : /\ pool[p].listed /\ pool[p].price = "base"
                        /\ pool[p].ship = "base"

\* No interleaving of the three channels leaves a product disturbed for ever or a
\* channel silent.
ChannelsLive == TypeOK /\ RecoveryBooked /\ NoLostChannel /\ CalmAfterHorizon

\* The stock a shop sees is the stock that would have been replenished at
\* every tick.
Stock == [p \in Products |-> EffectiveQuantity(pool[p], t)]
Listed == [p \in Products |-> pool[p].listed]
Eager == INSTANCE EagerStock WITH stock <- Stock, open <- Listed
ImplementsEagerStock == Eager!Spec

\* "keeps only the next due supplier event per active channel",
\* supplier_scheduler.py:3-4.  Does not hold: a followup of the tick of a delisting
\* survives it.
OneEventPerChannel ==
  phase = "trade" => \A p \in Products, type \in Stochastic :
    Cardinality({e \in pending : e.product = p /\ e.type = type}) <= 1
=============================================================================
