---------------------------- MODULE MCStepBoundary ----------------------------
(* Values for the constants of StepBoundary: a run of one agent whose process *)
(* dies once or twice, and runs of two agents with a quota.                   *)
EXTENDS StepBoundary, TLC

CONSTANTS a1, a2
MCAgents == {a1, a2}

Run(team, horizon, period, quota, polling, last, crashed, turned) ==
  [team |-> team, horizon |-> horizon, period |-> period, quota |-> quota, polls |-> polling,
   last |-> last, crashes |-> crashed, turns |-> turned]
MCSettings ==
  {Run({a1}, 3, 2, 0, FALSE, 3, 1, 1),       \* a tick with a hook, one without, one with
   Run({a1}, 2, 1, 0, TRUE, 2, 1, 1),        \* two hooks, observed at any time
   Run({a1}, 1, 1, 0, TRUE, 1, 2, 2),        \* two crashes in a hook, more turns
   Run({a1, a2}, 1, 1, 1, FALSE, 1, 0, 2),   \* two agents in a hook
   Run({a1, a2}, 2, 1, 1, FALSE, 2, 0, 1)}   \* and in two
=============================================================================
