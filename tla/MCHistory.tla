------------------------------ MODULE MCHistory -------------------------------
(* An instance of History.  Its behaviours have orders and a crash between the *)
(* steps of a tick, or many requests for frames, or many orders, operations    *)
(* and changes by the supplier and no request.                                 *)
EXTENDS History

Bounds(ticks, orders_, rows, changes, ops, asks_, crashes_) ==
  [ticks |-> ticks, orders |-> orders_, rows |-> rows, changes |-> changes, ops |-> ops,
   asks |-> asks_, crashes |-> crashes_]

\* The stock of one product grows, of the other there is one piece.
MCStock == (1 :> [initial |-> 1, hourly |-> 1, most |-> 3]) @@ (2 :> [initial |-> 1, hourly |-> 0, most |-> 1])

SameReaders == Permutations(Readers)

MCLimits ==
  {Bounds(2, 1, 1, 1, 1, 2, 1), Bounds(3, 0, 0, 2, 0, 2, 0), Bounds(3, 0, 0, 1, 0, 3, 0),
   Bounds(3, 1, 1, 2, 1, 0, 0), Bounds(2, 2, 4, 1, 2, 0, 0), Bounds(3, 2, 4, 0, 2, 0, 0)}
=============================================================================
