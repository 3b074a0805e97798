----------------------------- MODULE MCLeaderboard -----------------------------
(* An instance of Leaderboard: a behaviour either fills runs with data and has  *)
(* no request, or has few data and requests, ends, deletions and crashes.       *)
EXTENDS Leaderboard

Upto(runs, ticks, moves, orders, ops, words, asks, ends, deletes, crashes, bills, faults, reads) ==
  [runs |-> runs, ticks |-> ticks, moves |-> moves, orders |-> orders, ops |-> ops, words |-> words, asks |-> asks,
   ends |-> ends, deletes |-> deletes, crashes |-> crashes, bills |-> bills, faults |-> faults, reads |-> reads]

MCLimits ==
  {Upto(1, 3, 0, 0, 0, 2, 0, 0, 0, 0, 0, 0, 0),   \* one run and what it says
   Upto(1, 3, 1, 1, 2, 0, 0, 0, 0, 0, 0, 0, 0),   \* one run, its orders and its shelf
   Upto(2, 3, 1, 0, 0, 0, 0, 0, 0, 0, 0, 0, 0),   \* two runs and their money
   Upto(2, 2, 0, 0, 0, 1, 0, 0, 0, 0, 0, 0, 0),   \* two runs and what they say
   Upto(1, 1, 0, 0, 0, 2, 0, 1, 0, 0, 0, 0, 2),   \* its trace is read while it is written
   Upto(1, 1, 0, 0, 0, 0, 2, 1, 1, 0, 0, 0, 0),   \* requests, a stop and a deletion
   Upto(2, 1, 0, 0, 0, 0, 1, 1, 0, 0, 1, 1, 0),   \* a request, a fault, a bill, a run that ends and one that goes on
   Upto(1, 1, 0, 0, 0, 0, 2, 1, 0, 1, 0, 0, 0),   \* requests, a stop and a crash
   Upto(1, 1, 0, 0, 0, 0, 2, 2, 0, 0, 0, 0, 0)}   \* requests and two ends of a run

SameReaders == Permutations(Readers)
=============================================================================
