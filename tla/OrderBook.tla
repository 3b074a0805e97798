------------------------------ MODULE OrderBook ------------------------------
(***************************************************************************)
(* One run of the simulator seen through its money: the orders, the cash   *)
(* of every agent and the death of agents, over the environment            *)
(* transitions of env/core/simulator.py (demand and auto-purchase, then    *)
(* the order manager), and the running -> draining -> finished phases that *)
(* env/web/runner.py computes around them.                                 *)
(*                                                                         *)
(* One tick t of the run is                                                *)
(*    BeginStep ; purchases ; EndDemand ; order transitions ; EndOrders ;  *)
(*    CloseStep                                                            *)
(* where a drain tick skips the purchases.  Inside a tick every order is   *)
(* one action, because the code handles the orders one after the other and *)
(* each one changes the cash the next one sees.  The load query of the     *)
(* order manager has no ORDER BY, so the orders are taken in any order.    *)
(*                                                                         *)
(* Money is in whole units; the rounding of fees is abstracted in the      *)
(* offers (see Offers).  One tick is one hour (run.step_hours = 1).  What  *)
(* the supplier pool decides (stock, listing) is a free choice here.       *)
(***************************************************************************)
EXTENDS Integers, FiniteSets, Functions

CONSTANTS
  Agents,          \* the shops of the run
  Orders,          \* identifiers of the candidate orders (bounds demand)
  Offers,          \* what an order can be about: prices, fees and durations
  Fine,            \* fixed penalty amount of each platform rule
  FulfillmentFee,  \* outbound and reverse fee of economy_v6 (0 when off)
  ReverseFee,      \* reverse logistics fee of a refund (0 when off)
  InitialBalance,  \* usable cash every agent starts with
  InitialDeposit,  \* guarantee every agent starts with
  Promised,        \* platform_rules.default_promised_ship_hours
  NormalDelay,     \* settlement.normal_delay_hours in ticks
  Horizon,         \* run.horizon_steps: last tick with demand is Horizon - 1
  DrainSafety,     \* what _drain_safety_max_steps returns
  ThrottleK        \* economy_v6_1.violation_throttle_per_step

FineKinds == {"stockout", "insufficient_balance", "timeout", "cancel",
              "refund", "only_refund", "bad_review"}

\* An offer fixes, for one candidate order, the sale price, the purchase
\* price, the commission the take rate yields on that sale, the part of the
\* purchase price a refund recovers, and the two durations of the product.
OfferType == [sale : Nat, cost : Nat, commission : Nat, recovered : Nat,
              ship : Nat, logistics : Nat]

ASSUME OffersAssumption ==
  /\ Offers \subseteq OfferType
  /\ \A f \in Offers : f.commission <= f.sale /\ f.recovered <= f.cost

ASSUME AgentsAssumption == Agents # {}

ASSUME OrdersAssumption == IsFiniteSet(Orders)

ASSUME RulesAssumption ==
  /\ Fine \in [FineKinds -> Nat]
  /\ FulfillmentFee \in Nat /\ ReverseFee \in Nat
  /\ InitialBalance \in Nat /\ InitialDeposit \in Nat \ {0}

ASSUME TimesAssumption ==
  /\ Promised \in Nat /\ Horizon \in Nat /\ DrainSafety \in Nat
  /\ NormalDelay \in Nat \ {0} /\ ThrottleK \in Nat \ {0}

VARIABLES
  t,          \* Environment.t
  phase,      \* where in the tick the worker is
  run,        \* phase of the run as the runner sees it
  drain_t,    \* Environment.drain_started_t
  ord,        \* the orders table
  cash,       \* AgentState.cash, with its transient exhaustion marker
  alive,      \* AgentState.is_alive
  viol,       \* violation_counts of this tick's auto-purchase
  todo,       \* orders the due query returned and the loop has not reached
  touched     \* agents whose death is checked at the end of the phase

vars == <<t, phase, run, drain_t, ord, cash, alive, viol, todo, touched>>

NoTime == -1
Time == Nat \cup {NoTime}
NoOffer == [sale |-> 0, cost |-> 0, commission |-> 0, recovered |-> 0,
            ship |-> 0, logistics |-> 0]

Kinds == {"normal", "bad_review", "cancel", "refund", "only_refund"}
Unshipped == {"ordered", "late"}
Active == {"ordered", "late", "shipped", "delivered"}
Violations == {"stockout", "insufficient_balance"}
Terminal == {"cancelled", "settled_normal", "settled_bad_review",
             "settled_refund", "settled_only_refund"} \cup Violations
Status == {"none"} \cup Active \cup Terminal

ActiveOrders == {o \in Orders : ord[o].status \in Active}

------------------------------------------------------------------------------
(* Cash (order_manager._credit_cash, _debit_balance_then_deposit,          *)
(* _apply_penalty)                                                         *)

Least(a, b) == IF a <= b THEN a ELSE b
Most(a, b) == IF a >= b THEN a ELSE b

CashType == [balance : Int, deposit : Int, in_transit : Int,
             receivable : Int, fine : Nat, exhausted : BOOLEAN]

\* Mutant of Refill: what is left of the guarantee is not looked at.
RefillBlind(c, amount) == Least(amount, InitialDeposit)

Refill(c, amount) == Least(amount, Most(0, InitialDeposit - c.deposit))

\* The guarantee is refilled up to its initial amount before usable cash grows.
CreditCash(c, amount) ==
  [c EXCEPT !.deposit = @ + Refill(c, amount),
            !.balance = @ + (amount - Refill(c, amount))]

\* A debit takes usable cash first, then the guarantee; what is left over is
\* dropped.  A debit that reaches the guarantee and empties it sets the marker
\* that the next death check consumes.
FromBalance(c, amount) == Least(c.balance, amount)
FromDeposit(c, amount) == Least(c.deposit, amount - FromBalance(c, amount))
Exhausts(c, amount) ==
  /\ amount > FromBalance(c, amount)
  /\ FromDeposit(c, amount) = c.deposit

DebitCash(c, amount) ==
  [c EXCEPT !.balance = @ - FromBalance(c, amount),
            !.deposit = @ - FromDeposit(c, amount),
            !.exhausted = @ \/ Exhausts(c, amount)]

\* Mutant of ApplyPenalty: the sign of the accumulator is wrong.
ApplyPenaltyWrongSign(c, penalty) ==
  DebitCash([c EXCEPT !.fine = @ - penalty], penalty)

ApplyPenalty(c, penalty) ==
  DebitCash([c EXCEPT !.fine = @ + penalty], penalty)

\* _credit_sale: clear the receivable, pay the sale minus the commission.
CreditSale(c, f) ==
  CreditCash([c EXCEPT !.receivable = @ - f.sale], f.sale - f.commission)

\* Mutant of MustClose: the marker that outlives a later credit is ignored.
MustCloseDepositOnly(c) == c.deposit = 0

\* _check_death_for on a set of agents.
MustClose(c) == c.deposit = 0 \/ c.exhausted
AliveAfter(checked, money) ==
  [a \in Agents |-> alive[a] /\ ~(a \in checked /\ MustClose(money[a]))]

------------------------------------------------------------------------------
(* Phase of the run (runner._phase_for)                                    *)

\* Mutant of PhaseFor: the horizon is taken as inclusive.
PhaseForInclusive(now, living, orders) ==
  IF run = "running" /\ (\E a \in Agents : living[a]) /\ now <= Horizon
  THEN "running"
  ELSE IF \E o \in Orders : orders[o].status \in Active
       THEN "draining" ELSE "finished"

PhaseFor(now, living, orders) ==
  IF run = "running" /\ (\E a \in Agents : living[a]) /\ now < Horizon
  THEN "running"
  ELSE IF \E o \in Orders : orders[o].status \in Active
       THEN "draining" ELSE "finished"

\* _mark_draining keeps the first tick at which the run was draining.
DrainStart(p, now) == IF p = "draining" /\ drain_t = NoTime THEN now ELSE drain_t

------------------------------------------------------------------------------
OrderType == [status : Status, agent : Agents, offer : Offers \cup {NoOffer},
              kind : Kinds, purchase_t : Time, anomaly_t : Time,
              delay : Time, late_t : Time, shipped_t : Time,
              delivered_t : Time, settled_t : Time, revenue : Nat,
              cost : Nat, penalty : Nat, fees : Nat]

BlankOrder ==
  [status |-> "none", agent |-> CHOOSE a \in Agents : TRUE,
   offer |-> NoOffer, kind |-> "normal", purchase_t |-> NoTime,
   anomaly_t |-> NoTime, delay |-> NoTime, late_t |-> NoTime,
   shipped_t |-> NoTime, delivered_t |-> NoTime, settled_t |-> NoTime,
   revenue |-> 0, cost |-> 0, penalty |-> 0, fees |-> 0]

Init ==
  /\ t = 0 /\ phase = "idle" /\ run = "running" /\ drain_t = NoTime
  /\ ord = [o \in Orders |-> BlankOrder]
  /\ cash = [a \in Agents |->
               [balance |-> InitialBalance, deposit |-> InitialDeposit,
                in_transit |-> 0, receivable |-> 0, fine |-> 0,
                exhausted |-> FALSE]]
  /\ alive = [a \in Agents |-> TRUE]
  /\ viol = [a \in Agents |-> 0]
  /\ todo = {} /\ touched = {}

------------------------------------------------------------------------------
(* The due query (db.load_due_orders), written from the SQL.               *)

\* Mutant of DueUnshipped: late orders are no longer selected.
DueUnshippedOrderedOnly(r) ==
  /\ r.status = "ordered"
  /\ \/ t >= r.purchase_t + r.offer.ship
     \/ t - r.purchase_t > Promised

DueUnshipped(r) ==
  /\ r.status \in Unshipped
  /\ \/ t >= r.purchase_t + r.offer.ship
     \/ r.status = "ordered" /\ t - r.purchase_t > Promised

DueShipped(r) ==
  /\ r.status = "shipped"
  /\ \/ r.kind = "cancel" /\ t >= r.anomaly_t
     \/ r.offer.logistics > 0 /\ t >= r.shipped_t + r.offer.logistics

\* Mutant of DueDelivered: the settlement comes one tick too late.
DueDeliveredStrict(r) ==
  /\ r.status = "delivered"
  /\ \/ r.kind \in {"normal", "bad_review"} /\ t > r.delivered_t + r.delay + 1
     \/ r.kind \in {"refund", "only_refund"} /\ t > r.anomaly_t + 1

DueDelivered(r) ==
  /\ r.status = "delivered"
  /\ \/ r.kind \in {"normal", "bad_review"} /\ t >= r.delivered_t + r.delay
     \/ r.kind \in {"refund", "only_refund"} /\ t >= r.anomaly_t

DueOrders(orders) ==
  {o \in Orders : \/ DueUnshipped(orders[o])
                  \/ DueShipped(orders[o])
                  \/ DueDelivered(orders[o])}

------------------------------------------------------------------------------
(* Start of a tick (runner._step_with_env up to env.step)                  *)

BeginStep ==
  /\ phase = "idle" /\ run \in {"running", "draining"}
  /\ LET p == PhaseFor(t, alive, ord) IN
       /\ run' = IF /\ p = "draining"
                    /\ t - DrainStart(p, t) > DrainSafety
                 THEN "stopped" ELSE p
       /\ drain_t' = DrainStart(p, t)
       /\ phase' = CASE run' = "running"  -> "demand"
                     [] run' = "draining" -> "orders"
                     [] OTHER             -> "idle"
       /\ todo' = IF run' = "draining" THEN DueOrders(ord) ELSE {}
  /\ viol' = [a \in Agents |-> 0]
  /\ touched' = {}
  /\ UNCHANGED <<t, ord, cash, alive>>

------------------------------------------------------------------------------
(* Demand and auto-purchase (simulator._auto_purchase_new_orders)          *)

\* Mutant of Candidate: the agent's death is not looked at.
CandidateOfAnyone(o, a) ==
  /\ phase = "demand" /\ ord[o].status = "none"
  /\ viol[a] < ThrottleK

\* A candidate of a dead agent, or of an agent that has used up its K
\* violations of this tick, is dropped without a trace.
Candidate(o, a) ==
  /\ phase = "demand" /\ ord[o].status = "none"
  /\ alive[a] /\ viol[a] < ThrottleK

\* A candidate the platform fines instead of buying it: the row is kept with
\* the penalty, and the agent's death is checked at once.
Violate(o, a, f, kind) ==
  /\ Candidate(o, a)
  /\ cash' = [cash EXCEPT ![a] = ApplyPenalty(@, Fine[kind])]
  /\ ord' = [ord EXCEPT ![o] =
               [BlankOrder EXCEPT !.status = kind, !.agent = a, !.offer = f,
                                  !.purchase_t = t, !.settled_t = t,
                                  !.penalty = Fine[kind]]]
  /\ viol' = [viol EXCEPT ![a] = @ + 1]
  /\ alive' = AliveAfter({a}, cash')
  /\ touched' = touched \cup {a}
  /\ UNCHANGED <<t, phase, run, drain_t, todo>>

\* The supplier has delisted the product or has no unit left.
Stockout(o, a, f) == Violate(o, a, f, "stockout")

RequiredCash(f) == f.cost + FulfillmentFee

\* The deposit cannot pay a procurement, only usable cash can.
InsufficientBalance(o, a, f) ==
  /\ cash[a].balance < RequiredCash(f)
  /\ Violate(o, a, f, "insufficient_balance")

\* Mutant of AnomalyTimes: a cancellation is timed from the shipping.
AnomalyTimesFromShipping(kind, f) ==
  CASE kind \in {"cancel"} -> {t + f.ship + off : off \in 1 .. Most(1, f.ship)}
    [] kind \in {"refund", "only_refund"} ->
         {t + f.ship + f.logistics + off : off \in 0 .. NormalDelay}
    [] OTHER -> {NoTime}

\* When the preset anomaly of a new order strikes (demand._make_order).
AnomalyTimes(kind, f) ==
  CASE kind = "cancel" -> {t + off : off \in 1 .. Most(1, f.ship)}
    [] kind \in {"refund", "only_refund"} ->
         {t + f.ship + f.logistics + off : off \in 0 .. NormalDelay}
    [] OTHER -> {NoTime}

SettleDelays(kind) ==
  IF kind \in {"normal", "bad_review"} THEN 0 .. NormalDelay ELSE {NoTime}

Pay(c, f) ==
  [c EXCEPT !.balance = @ - RequiredCash(f), !.in_transit = @ + f.cost]

Procure(o, a, f) ==
  /\ Candidate(o, a)
  /\ cash[a].balance >= RequiredCash(f)
  /\ \E kind \in Kinds : \E at \in AnomalyTimes(kind, f), d \in SettleDelays(kind) :
       ord' = [ord EXCEPT ![o] =
                 [BlankOrder EXCEPT !.status = "ordered", !.agent = a,
                    !.offer = f, !.kind = kind, !.purchase_t = t,
                    !.anomaly_t = at, !.delay = d, !.cost = f.cost,
                    !.fees = FulfillmentFee]]
  /\ cash' = [cash EXCEPT ![a] = Pay(@, f)]
  /\ touched' = touched \cup {a}
  /\ UNCHANGED <<t, phase, run, drain_t, alive, viol, todo>>

\* Death check of the candidates' agents, then the due query: orders bought
\* in this tick are already in the table it reads.
EndDemand ==
  /\ phase = "demand"
  /\ alive' = AliveAfter(touched, cash)
  /\ phase' = "orders"
  /\ todo' = DueOrders(ord)
  /\ touched' = {}
  /\ UNCHANGED <<t, run, drain_t, ord, cash, viol>>

------------------------------------------------------------------------------
(* The order manager (order_manager.step_orders), one order of the loop    *)

\* Mutant of Transition: the order stays in the list of the tick.
TransitionAgain(o, r, c) ==
  /\ ord' = [ord EXCEPT ![o] = r]
  /\ cash' = [cash EXCEPT ![ord[o].agent] = c]
  /\ touched' = touched \cup {ord[o].agent}
  /\ UNCHANGED <<t, phase, run, drain_t, alive, viol, todo>>

\* The order leaves the list with the record r and its agent's cash c, and
\* its agent's death is checked when the loop ends.
Transition(o, r, c) ==
  /\ ord' = [ord EXCEPT ![o] = r]
  /\ cash' = [cash EXCEPT ![ord[o].agent] = c]
  /\ todo' = todo \ {o}
  /\ touched' = touched \cup {ord[o].agent}
  /\ UNCHANGED <<t, phase, run, drain_t, alive, viol>>

Reached(o, status) == phase = "orders" /\ o \in todo /\ ord[o].status \in status

\* Mutant of IsLateNow: an order that is late already is fined again.
IsLateNowRepeated(r) ==
  r.status \in Unshipped /\ t - r.purchase_t > Promised

IsLateNow(r) == r.status = "ordered" /\ t - r.purchase_t > Promised

\* Zero ship hours are looked up again in the product, where they are still zero
\* unless a supplier timeout (not modelled here) has begun; zero never ships.
ShipsNow(r) == r.offer.ship > 0 /\ t >= r.purchase_t + r.offer.ship

\* The timeout fine of an order that becomes late, before it possibly ships.
Lateness(r) ==
  IF IsLateNow(r)
  THEN [r EXCEPT !.status = "late", !.late_t = t, !.penalty = @ + Fine["timeout"]]
  ELSE r
LatenessCash(r, c) == IF IsLateNow(r) THEN ApplyPenalty(c, Fine["timeout"]) ELSE c

GoLate(o) ==
  /\ Reached(o, Unshipped)
  /\ IsLateNow(ord[o]) /\ ~ShipsNow(ord[o])
  /\ Transition(o, Lateness(ord[o]), LatenessCash(ord[o], cash[ord[o].agent]))

\* An order may become late and ship in the same tick.
Ship(o) ==
  /\ Reached(o, Unshipped)
  /\ ShipsNow(ord[o])
  /\ Transition(o, [Lateness(ord[o]) EXCEPT !.status = "shipped", !.shipped_t = t],
                LatenessCash(ord[o], cash[ord[o].agent]))

CancelDue(r) == r.kind = "cancel" /\ t >= r.anomaly_t
ArrivalDue(r) == r.offer.logistics > 0 /\ t >= r.shipped_t + r.offer.logistics

\* Mutant of CancelShipped: the goods stay in transit.
CancelShippedInTransit(o) ==
  LET r == ord[o]
      refunded == CreditCash(cash[r.agent], r.offer.cost)
  IN /\ Reached(o, {"shipped"})
     /\ CancelDue(r)
     /\ Transition(o, [r EXCEPT !.status = "cancelled", !.cost = 0,
                                !.settled_t = t, !.penalty = @ + Fine["cancel"]],
                   ApplyPenalty(refunded, Fine["cancel"]))

\* The purchase price comes back, then the fine is taken.
CancelShipped(o) ==
  LET r == ord[o]
      c == cash[r.agent]
      refunded == CreditCash([c EXCEPT !.in_transit = @ - r.offer.cost], r.offer.cost)
  IN /\ Reached(o, {"shipped"})
     /\ CancelDue(r)
     /\ Transition(o, [r EXCEPT !.status = "cancelled", !.cost = 0,
                                !.settled_t = t, !.penalty = @ + Fine["cancel"]],
                   ApplyPenalty(refunded, Fine["cancel"]))

Deliver(o) ==
  LET r == ord[o] IN
     /\ Reached(o, {"shipped"})
     /\ ~CancelDue(r) /\ ArrivalDue(r)
     /\ Transition(o, [r EXCEPT !.status = "delivered", !.delivered_t = t],
                   [cash[r.agent] EXCEPT !.in_transit = @ - r.offer.cost,
                                         !.receivable = @ + r.offer.sale])

SettlementDue(r) == t >= r.delivered_t + r.delay

\* The sale of a settled order, without fines.
Sold(r, status) ==
  [r EXCEPT !.status = status, !.settled_t = t, !.revenue = r.offer.sale,
            !.fees = @ + r.offer.commission]

SettleNormal(o) ==
  LET r == ord[o] IN
     /\ Reached(o, {"delivered"})
     /\ r.kind = "normal" /\ SettlementDue(r)
     /\ Transition(o, Sold(r, "settled_normal"), CreditSale(cash[r.agent], r.offer))

\* The customer pays, then the platform fines the shop for the review.
SettleBadReview(o) ==
  LET r == ord[o] IN
     /\ Reached(o, {"delivered"})
     /\ r.kind = "bad_review" /\ SettlementDue(r)
     /\ Transition(o, [Sold(r, "settled_bad_review") EXCEPT
                         !.penalty = @ + Fine["bad_review"]],
                   ApplyPenalty(CreditSale(cash[r.agent], r.offer), Fine["bad_review"]))

\* Mutant of SettleRefund: the reverse fee is recorded but not taken.
SettleRefundUnpaidFee(o) ==
  LET r == ord[o]
      unpaid == [cash[r.agent] EXCEPT !.receivable = @ - r.offer.sale]
  IN /\ Reached(o, {"delivered"})
     /\ r.kind = "refund" /\ t >= r.anomaly_t
     /\ Transition(o, [r EXCEPT !.status = "settled_refund", !.settled_t = t,
                                !.cost = r.offer.cost - r.offer.recovered,
                                !.fees = @ + ReverseFee,
                                !.penalty = @ + Fine["refund"]],
                   ApplyPenalty(CreditCash(unpaid, r.offer.recovered), Fine["refund"]))

\* The sale is lost, part of the purchase price is recovered, then the
\* reverse fee and the fine are taken.
SettleRefund(o) ==
  LET r == ord[o]
      unpaid == [cash[r.agent] EXCEPT !.receivable = @ - r.offer.sale]
  IN /\ Reached(o, {"delivered"})
     /\ r.kind = "refund" /\ t >= r.anomaly_t
     /\ Transition(o, [r EXCEPT !.status = "settled_refund", !.settled_t = t,
                                !.cost = r.offer.cost - r.offer.recovered,
                                !.fees = @ + ReverseFee,
                                !.penalty = @ + Fine["refund"]],
                   ApplyPenalty(DebitCash(CreditCash(unpaid, r.offer.recovered),
                                          ReverseFee),
                                Fine["refund"]))

\* The customer keeps the goods and the money.
SettleOnlyRefund(o) ==
  LET r == ord[o]
      unpaid == [cash[r.agent] EXCEPT !.receivable = @ - r.offer.sale]
  IN /\ Reached(o, {"delivered"})
     /\ r.kind = "only_refund" /\ t >= r.anomaly_t
     /\ Transition(o, [r EXCEPT !.status = "settled_only_refund", !.settled_t = t,
                                !.penalty = @ + Fine["only_refund"]],
                   ApplyPenalty(unpaid, Fine["only_refund"]))

StepOrder(o) == \/ GoLate(o) \/ Ship(o) \/ CancelShipped(o) \/ Deliver(o)
                \/ SettleNormal(o) \/ SettleBadReview(o)
                \/ SettleRefund(o) \/ SettleOnlyRefund(o)

\* An order the query returned although no branch of the loop applies to it.
Moves(r) ==
  CASE r.status \in Unshipped -> IsLateNow(r) \/ ShipsNow(r)
    [] r.status = "shipped" -> CancelDue(r) \/ ArrivalDue(r)
    [] r.status = "delivered" ->
         \/ r.kind \in {"normal", "bad_review"} /\ SettlementDue(r)
         \/ r.kind \in {"refund", "only_refund"} /\ t >= r.anomaly_t
    [] OTHER -> FALSE

PassOver(o) ==
  /\ phase = "orders" /\ o \in todo /\ ~Moves(ord[o])
  /\ todo' = todo \ {o}
  /\ UNCHANGED <<t, phase, run, drain_t, ord, cash, alive, viol, touched>>

------------------------------------------------------------------------------
(* End of the order loop and end of the tick                               *)

EndOrders ==
  /\ phase = "orders" /\ todo = {}
  /\ alive' = AliveAfter(touched, cash)
  /\ phase' = "hook"
  /\ touched' = {}
  /\ UNCHANGED <<t, run, drain_t, ord, cash, viol, todo>>

\* The agents' hook closes, t advances, and the runner computes the phase
\* that the next tick runs in.
CloseStep ==
  /\ phase = "hook"
  /\ t' = t + 1
  /\ run' = PhaseFor(t', alive, ord)
  /\ drain_t' = DrainStart(run', t')
  /\ phase' = "idle"
  /\ UNCHANGED <<ord, cash, alive, viol, todo, touched>>

Halted ==
  /\ run \in {"finished", "stopped"} /\ phase = "idle"
  /\ UNCHANGED vars

Purchase(o, a, f) == \/ Stockout(o, a, f)
                     \/ InsufficientBalance(o, a, f)
                     \/ Procure(o, a, f)

Work == \/ BeginStep
        \/ \E o \in Orders, a \in Agents, f \in Offers : Purchase(o, a, f)
        \/ EndDemand
        \/ \E o \in Orders : StepOrder(o) \/ PassOver(o)
        \/ EndOrders
        \/ CloseStep

Next == Work \/ Halted

Spec == Init /\ [][Next]_vars

\* The worker thread drives the loop without waiting for anything but the
\* hook, whose wait is bounded by max_hook_seconds.
FairSpec == Spec /\ WF_vars(Work)

------------------------------------------------------------------------------
(* Properties                                                              *)

\* Type invariant of the run.
TypeOK ==
  /\ t \in Nat
  /\ phase \in {"idle", "demand", "orders", "hook"}
  /\ run \in {"running", "draining", "finished", "stopped"}
  /\ drain_t \in Time
  /\ ord \in [Orders -> OrderType]
  /\ cash \in [Agents -> CashType]
  /\ alive \in [Agents -> BOOLEAN]
  /\ viol \in [Agents -> Nat]
  /\ todo \subseteq Orders
  /\ touched \subseteq Agents

OrdersOf(a, status) == {o \in Orders : ord[o].agent = a /\ ord[o].status \in status}
Procured == {"ordered", "late", "shipped"}

\* Goods and sales in flight are backed by orders: in_transit is the purchase
\* price of exactly the agent's unshipped and shipped orders, receivable the
\* sale price of exactly its delivered ones.  step_orders moves both amounts
\* in five places; one forgotten or doubled move shows here.
FlightBacked ==
  \A a \in Agents :
    /\ cash[a].in_transit = SumFunctionOnSet([o \in Orders |-> ord[o].offer.cost],
                                             OrdersOf(a, Procured))
    /\ cash[a].receivable = SumFunctionOnSet([o \in Orders |-> ord[o].offer.sale],
                                             OrdersOf(a, {"delivered"}))

\* Order.net_profit
NetProfit(o) == ord[o].revenue - ord[o].cost - ord[o].penalty - ord[o].fees

\* The books balance: as long as no debit was truncated, the cash and the
\* guarantee of an agent are what it started with plus the net_profit of its
\* orders, the figure the leaderboard sums; a truncated debit only makes the
\* agent richer than its books.  cumulative_fine is the sum of the penalties
\* recorded on the orders in every case.
BooksBalance ==
  \A a \in Agents :
    LET held == cash[a].balance + cash[a].deposit
        booked == InitialBalance + InitialDeposit
                  + SumFunctionOnSet([o \in Orders |-> NetProfit(o)],
                                     OrdersOf(a, Active \cup Terminal))
    IN /\ held >= booked
       /\ ~cash[a].exhausted => held = booked
       /\ cash[a].fine = SumFunctionOnSet([o \in Orders |-> ord[o].penalty],
                                          OrdersOf(a, Active \cup Terminal))

\* Every fine is charged once and for a reason: the penalty recorded on an
\* order is the timeout fine if and only if it became late, plus the fine of
\* the way it ended.
FineOnEnd(status) ==
  CASE status = "cancelled" -> Fine["cancel"]
    [] status = "settled_bad_review" -> Fine["bad_review"]
    [] status = "settled_refund" -> Fine["refund"]
    [] status = "settled_only_refund" -> Fine["only_refund"]
    [] status \in Violations -> Fine[status]
    [] OTHER -> 0

PenaltyAudit ==
  \A o \in Orders :
    ord[o].penalty = FineOnEnd(ord[o].status)
                     + (IF ord[o].late_t # NoTime THEN Fine["timeout"] ELSE 0)

\* Where an order must be when tick now has been processed: unshipped orders
\* are before their ship time (and marked late exactly when the platform's
\* promise is over), shipped ones in transit, delivered ones inside their
\* settlement delay.
InTime(r, now) ==
  CASE r.status = "ordered" -> /\ now < r.purchase_t + r.offer.ship
                               /\ now <= r.purchase_t + Promised
    [] r.status = "late" -> /\ now < r.purchase_t + r.offer.ship
                            /\ r.late_t = r.purchase_t + Promised + 1
                            /\ r.late_t <= now
    [] r.status = "shipped" ->
         /\ r.shipped_t = r.purchase_t + r.offer.ship
         /\ now < r.shipped_t + r.offer.logistics
         /\ r.kind = "cancel" => now = r.shipped_t
    [] r.status = "delivered" ->
         /\ r.delivered_t = r.purchase_t + r.offer.ship + r.offer.logistics
         /\ r.kind # "cancel"
         /\ r.kind \in {"normal", "bad_review"} =>
              now < r.delivered_t + Most(1, r.delay)
         /\ r.kind \in {"refund", "only_refund"} =>
              now < Most(r.anomaly_t, r.delivered_t + 1)
    [] OTHER -> TRUE

\* An order of a product whose two durations are positive (see ShipsWhenDue
\* for the others).
Paced(r) == r.offer.ship > 0 /\ r.offer.logistics > 0

\* Whenever the agents look, every order is on schedule.  The clauses of InTime
\* say nothing of the due query, so an order that the query misses although
\* the loop would move it breaks them.
OnSchedule ==
  phase = "hook" => \A o \in Orders : Paced(ord[o]) => InTime(ord[o], t)

\* A cancelled purchase never reaches the customer: the cancellation always
\* overtakes the delivery, whatever the durations and the lateness.
CancelBeatsDelivery ==
  \A o \in Orders : ord[o].kind = "cancel" =>
    ord[o].status \in {"ordered", "late", "shipped", "cancelled"}

\* When the agents look (and when a restart reloads the run from the tables,
\* which do not hold the transient marker), no agent is alive whose guarantee
\* is or was used up.
NoZombie ==
  phase \in {"hook", "idle"} =>
    \A a \in Agents : alive[a] => cash[a].deposit > 0 /\ ~cash[a].exhausted

\* The agents never owe: usable cash and guarantee stay at or above zero, and
\* the guarantee never grows beyond what was deposited.
Solvent ==
  \A a \in Agents : /\ cash[a].balance >= 0
                    /\ cash[a].deposit \in 0 .. InitialDeposit

\* Death is final and closes the order book of the agent, but never the
\* orders that are already in it: an agent that is not alive stays so and
\* gets no further order.
DeathIsFinal ==
  [][\A a \in Agents : ~alive[a] =>
        /\ ~alive'[a]
        /\ OrdersOf(a, Active \cup Terminal)' = OrdersOf(a, Active \cup Terminal)]_vars

\* An order that ended is never touched again, an order only moves along the
\* documented state machine, and the loop moves it at most once in a tick.
Successors(status) ==
  CASE status = "none" -> {"ordered"} \cup Violations
    [] status = "ordered" -> {"late", "shipped"}
    [] status = "late" -> {"shipped"}
    [] status = "shipped" -> {"delivered", "cancelled"}
    [] status = "delivered" -> {"settled_normal", "settled_bad_review",
                                "settled_refund", "settled_only_refund"}
    [] OTHER -> {}

LegalTransitions ==
  [][\A o \in Orders : ord'[o] # ord[o] =>
        /\ ord'[o].status \in Successors(ord[o].status)
        /\ phase = "orders" => o \notin todo']_vars

\* The order book closes at the horizon, and only a run whose active orders
\* are all settled is finished.
ClosedBook ==
  /\ \A o \in Orders : ord[o].purchase_t < Horizon
  /\ run = "finished" => ActiveOrders = {}

\* When the drain's safety stop is at least as long as an order can live after
\* the last purchase, it trips only for orders that cannot ever ship or arrive.
DrainBoundSuffices ==
  \A f \in Offers : f.ship + f.logistics + NormalDelay <= DrainSafety + 1
StopMeansStuck ==
  DrainBoundSuffices /\ run = "stopped" =>
    \E o \in ActiveOrders : ~Paced(ord[o])

\* The four accounts of an agent are right at every step: they keep their types,
\* never owe, hold what the orders in flight tie up, and balance with the books.
AccountsRight == TypeOK /\ Solvent /\ FlightBacked /\ BooksBalance

\* Orders end as they should: none is bought in the drain or left by the end of
\* the run, cancelled ones never arrive, and only hopeless ones trip its stop.
EndingsRight == CancelBeatsDelivery /\ ClosedBook /\ StopMeansStuck

\* Under a worker that goes on the run finishes, which it does only when every
\* order that was bought has ended.
RunFinishes == <>(run = "finished")

\* The documented transition  ordered/late -> (t >= purchase_t +
\* supplier_ship_hours) -> shipped, order_manager.py:8.  Does not hold for
\* offers without ship hours.
ShipsWhenDue ==
  phase = "hook" => \A o \in Orders : ord[o].status \in Unshipped =>
    t < ord[o].purchase_t + ord[o].offer.ship
=============================================================================
