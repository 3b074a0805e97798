------------------------------ MODULE EagerStock ------------------------------
(* What supplier stock promises to the shops: every listed product gains its *)
(* hourly increment at every tick, up to its capacity, a sale takes one unit *)
(* of a listed product, and the stock of a delisted product is frozen.       *)
EXTENDS Naturals

CONSTANTS Products, MaxStock, Increment, InitialStock

VARIABLES stock, open

vars == <<stock, open>>

Init == /\ stock = [p \in Products |-> InitialStock]
        /\ open = [p \in Products |-> TRUE]

Sell(p) == /\ open[p] /\ stock[p] > 0
           /\ stock' = [stock EXCEPT ![p] = @ - 1]
           /\ UNCHANGED open

\* The supplier delists or relists a product.
Switch(p) == /\ open' = [open EXCEPT ![p] = ~@]
             /\ UNCHANGED stock

Grown(n) == IF n + Increment <= MaxStock THEN n + Increment ELSE MaxStock

Tick == /\ stock' = [p \in Products |-> IF open[p] THEN Grown(stock[p]) ELSE stock[p]]
        /\ UNCHANGED open

Next == Tick \/ \E p \in Products : Sell(p) \/ Switch(p)

Spec == Init /\ [][Next]_vars
=============================================================================
