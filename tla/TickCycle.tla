------------------------------ MODULE TickCycle ------------------------------
(* What the step boundary promises to the experiment: the clock moves one    *)
(* tick at a time, each tick transforms the environment exactly once and     *)
(* before its agents act, and what the agents do at a tick falls between its *)
(* transition and the end of its hook.  Crashes and restarts do not show.    *)
EXTENDS Naturals

CONSTANTS
  LastTick,
  Decisions \* what agents may decide to do

VARIABLES
  clock,    \* the tick
  stage,    \* "before" its transition, "acting" in its hook, "after" its hook
  moves,    \* how often every tick was transformed
  deeds     \* how often every decision was carried out in every tick

vars == <<clock, stage, moves, deeds>>

Init == /\ clock = 0 /\ stage = "before"
        /\ moves = [s \in 0 .. LastTick |-> 0]
        /\ deeds = [s \in 0 .. LastTick |-> [d \in Decisions |-> 0]]

Move == /\ stage = "before" /\ stage' = "acting"
        /\ moves' = [moves EXCEPT ![clock] = @ + 1]
        /\ UNCHANGED <<clock, deeds>>

Do(d) == /\ stage = "acting"
         /\ deeds' = [deeds EXCEPT ![clock][d] = @ + 1]
         /\ UNCHANGED <<clock, stage, moves>>

End == /\ stage = "acting" /\ stage' = "after"
       /\ UNCHANGED <<clock, moves, deeds>>

Tick == /\ stage = "after" /\ stage' = "before"
        /\ clock' = clock + 1
        /\ UNCHANGED <<moves, deeds>>

Next == Move \/ End \/ Tick \/ \E d \in Decisions : Do(d)

Spec == Init /\ [][Next]_vars
=============================================================================
