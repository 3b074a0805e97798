----------------------------- MODULE MCOrderBook -----------------------------
(* Values of the constants of OrderBook for TLC.                           *)
EXTENDS OrderBook, TLC

Offer(s, c, com, rec, sh, lo) ==
  [sale |-> s, cost |-> c, commission |-> com, recovered |-> rec,
   ship |-> sh, logistics |-> lo]

\* Late and shipped in one tick, and late one tick before it ships.
MCOffers == {Offer(5, 3, 1, 2, 2, 1), Offer(4, 2, 1, 2, 3, 1)}

\* A quick and a late, cheap product, without fees and with full recovery (economy_v6
\* off), and a fine for stockouts that can kill a shop before the horizon.
MCPlainOffers == {Offer(5, 2, 0, 2, 1, 1), Offer(5, 2, 0, 2, 3, 1)}

\* A catalogue with a product that ships at once.
MCZeroOffers == {Offer(5, 3, 0, 3, 0, 1)}

\* The same beside the ordinary products.
MCMixedOffers == MCOffers \cup MCZeroOffers

MCFine == [stockout |-> 2, insufficient_balance |-> 1, timeout |-> 1,
           cancel |-> 1, refund |-> 2, only_refund |-> 1, bad_review |-> 2]

MCHarshFine == [MCFine EXCEPT !.stockout = 6]

Symmetry == Permutations(Orders)
=============================================================================
