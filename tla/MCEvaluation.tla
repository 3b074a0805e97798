----------------------------- MODULE MCEvaluation -----------------------------
(* An instance of Evaluation: a behaviour has one run and its agent, or a batch *)
(* of two or three runs whose agents are not modelled.                          *)
EXTENDS Evaluation

MCPrices == [input |-> 2, cache |-> 1, output |-> 3]

Mode(jobs, ticks, given) == [jobs |-> jobs, ticks |-> ticks] @@ given @@ [memory |-> TRUE] @@ [what \in Bounds |-> IF what = "replies" THEN 9 ELSE 0]

MCReports == {[id |-> 1, usage |-> Usage(2, 1, 1, 1, 4, TRUE), own |-> TRUE, reported |-> 7],
              [id |-> 2, usage |-> Usage(1, 0, 1, 0, NoTotal, FALSE), own |-> FALSE, reported |-> Unreported],
              [id |-> 2, usage |-> Usage(1, 0, 1, 0, NoTotal, FALSE), own |-> FALSE, reported |-> 7]}

MCLimits ==
  {Mode(<<"react">>, 1, [fails |-> 2, gives |-> 1]),                      \* a model that fails
   Mode(<<"react">>, 1, [fails |-> 1, losses |-> 1]),                     \* and an answer that is lost
   Mode(<<"react">>, 2, [gives |-> 1]),                                   \* a turn that comes too late
   Mode(<<"react">>, 2, [memory |-> FALSE]),                              \* an agent without a memory
   Mode(<<"react">>, 1, [stops |-> 1, starts |-> 1, replies |-> 3]),      \* a run that is stopped and started
   Mode(<<"react">>, 1, [crashes |-> 1, starts |-> 1, replies |-> 1]),    \* two agents of one run
   Mode(<<"random">>, 2, [risks |-> 1]),                                  \* a shelf and its risks
   Mode(<<"random">>, 1, [gives |-> 1, losses |-> 1]),
   Mode(<<"report">>, 3, [gives |-> 0]),                                  \* what sells, and a new day
   Mode(<<"other">>, 2, [acts |-> 2, reports |-> 2, gives |-> 1]),        \* turns and late usage
   Mode(<<"other", "other">>, 1, [acts |-> 1, gives |-> 1, faults |-> 1, stops |-> 1, rounds |-> 1]),
   Mode(<<"other", "other">>, 1, [acts |-> 1, gives |-> 1, crashes |-> 1, rebuilds |-> 1]),
   Mode(<<"other", "other", "other">>, 0, [faults |-> 1, stops |-> 1])}   \* more runs than may go on at once

SameProducts == Permutations(Products)
=============================================================================
