--------------------------- MODULE RunWorkerProofs ---------------------------
(* What holds of RunWorker however many workers are made, requests come,   *)
(* steps are run and crashes happen.                                       *)
EXTENDS RunWorker, TLAPS

------------------------------------------------------------------------------
(* The inductive invariant                                                 *)

\* The places of a thread that is on its way out of the loop.
Closing == {"mark finished", "mark failed", "leave", "release", "exit"}

\* The places of a thread that uses the Environment it found.
Stepping == Places \ {"none", "enter", "release", "exit", "dead"}

\* The places behind the wait of the loop from which a step still ends.
Unheld == {"look", "drain", "mark draining", "step", "hook"}

\* What a route may be, of a worker that is one of the n that were made.
OpType(n) == [name : {"none", "start", "pause", "resume", "stop"},
              at : {"none", "run", "spawn", "set", "mark", "look", "finished",
                    "state", "read", "unload"},
              of : 0 .. n]

\* A worker that was not made has no thread and no flag.
Unmade == \A w \in Workers : w > made => pc[w] = "none" /\ ~paused[w]

\* The route under the lifecycle lock works on the registered worker, which
\* nothing replaces or releases meanwhile: a start has no thread yet, and a
\* stop has set its flag.
RouteOwns ==
  \/ op = Idle
  \/ /\ op.name # "none" /\ op.of # 0 /\ op.of = current
     /\ op.name = "start" => ~Alive(op.of)
     /\ In("start", "spawn") => state[op.of] = "running"
     /\ op.name = "stop" => stop[op.of]

\* A thread that nobody stopped leaves the registry, or gets a terminal state,
\* only behind its loop.
Settled == \A w \in Workers :
  Alive(w) /\ ~stop[w] /\ (current # w \/ state[w] \in Terminal) =>
    state[w] \in Terminal /\ pc[w] \in Closing

\* A thread that steps has an Environment, and only Environments that were
\* built are stepped.
Founded ==
  /\ \A w \in Workers : pc[w] \in Stepping => env[w] # 0
  /\ \A e \in Environments : stepping[e] # 0 => e <= built

\* Every Environment but the loaded one has lost its connection.
OneConnection == \A e \in 1 .. built : e \in broken \/ e = loaded

\* Behind the one step that a pause lets end the thread has to wait.
Held == \A w \in Workers :
  paused[w] => late[w] <= 1 /\ (late[w] = 1 => pc[w] \notin Unheld)

Inv == /\ TypeOK /\ Unmade /\ RouteOwns /\ Settled /\ Founded
       /\ OneConnection /\ Held

------------------------------------------------------------------------------
(* The thread of a worker                                                  *)

\* A step of the thread of w to the place q that leaves w in the state s and
\* touches nothing else but the status in the database and persist.
Walks(w, q, s) ==
  /\ pc' = [pc EXCEPT ![w] = q] /\ state' = [state EXCEPT ![w] = s]
  /\ status' \in States /\ persist' \in [Workers -> BOOLEAN]
  /\ UNCHANGED <<work, pending, registry, op, paused, stop, env, stepping,
                 counters>>

\* Such a step keeps the invariant if it enters no step, passes the wait only
\* without a pause, and makes the state terminal only on the way out.
LEMMA WalkInv ==
  ASSUME Inv, NEW w \in Workers, NEW q \in Places \ {"none", "enter", "hook"},
         NEW s \in States \cup {"lost"},
         Alive(w), Walks(w, q, s),
         q \in Stepping => pc[w] \in Stepping,
         q \in Unheld => pc[w] \in Unheld \/ ~paused[w],
         \/ q = "dead" \/ stop[w]
         \/ q \in Closing /\ s \in Terminal
         \/ pc[w] \notin Closing /\ s \notin Terminal
         \/ pc[w] \in Closing /\ q \in Closing /\ s = state[w]
  PROVE  Inv'
<1>1. w <= made /\ pc[w] \notin {"none", "dead"}
  BY DEF Inv, Unmade, TypeOK, Alive, Workers
<1>2. /\ pc'[w] = q /\ \A v \in Workers : v # w => pc'[v] = pc[v]
      /\ state'[w] = s /\ \A v \in Workers : v # w => state'[v] = state[v]
  BY DEF Inv, TypeOK, Walks
<1>3. UNCHANGED <<work, pending, current, loaded, made, built, broken, op, paused,
                  stop, env, stepping, steps, ops, crashes, late>>
  BY DEF Walks, registry, counters
<1>4. TypeOK'
  <2>1. pc' \in [Workers -> Places]
    BY DEF Inv, TypeOK, Walks
  <2>2. state' \in [Workers -> States \cup {"unmade", "lost"}]
    BY DEF Inv, TypeOK, Walks
  <2>3. \A v \in Workers : state'[v] = "unmade" <=> v > made
    BY <1>1, <1>2 DEF Inv, TypeOK, States, Workers
  <2>4. \A v \in Workers : pc'[v] = "hook" => stepping[env[v]] = v
    BY <1>2 DEF Inv, TypeOK, OpType, At
  <2>5. QED
    BY <1>3, <2>1, <2>2, <2>3, <2>4 DEF Inv, TypeOK, At, Walks
<1>5. Unmade'
  BY <1>1, <1>2, <1>3 DEF Inv, Unmade, Workers, TypeOK
<1>6. RouteOwns'
  <2>1. CASE op = Idle
    BY <1>3, <2>1 DEF RouteOwns, Idle
  <2>2. CASE op # Idle
    <3>1. op.of \in Workers
      <4>1. op.of \in 0 .. made /\ made \in 0 .. MaxWorkers
        BY DEF Inv, TypeOK
      <4>2. op.of # 0
        BY <2>2 DEF Inv, RouteOwns
      <4>3. QED
        BY <4>1, <4>2, WorkerAssumption DEF Workers
    <3>4. op.name = "start" => op.of # w
      BY <2>2 DEF Inv, RouteOwns
    <3>2. op.name = "start" => state'[op.of] = state[op.of] /\ pc'[op.of] = pc[op.of]
      BY <1>2, <3>1, <3>4
    <3>3. QED
      BY <1>3, <2>2, <3>2 DEF Inv, RouteOwns, Alive, In
  <2>3. QED
    BY <2>1, <2>2
<1>7. Settled'
  BY <1>1, <1>2, <1>3 DEF Inv, Settled, Alive, Closing
<1>8. Founded'
  BY <1>2, <1>3 DEF Inv, Founded
<1>9. OneConnection' /\ Held'
  BY <1>2, <1>3 DEF Inv, OneConnection, Held
<1>10. QED
  BY <1>4, <1>5, <1>6, <1>7, <1>8, <1>9 DEF Inv

\* The steps of a thread that only walk.
WalkStep(w) ==
  \/ Top(w) \/ Wait(w) \/ Look(w) \/ Finish(w) \/ MarkFinished(w) \/ Drain(w)
  \/ MarkDraining(w) \/ Unsafe(w) \/ GiveUp(w) \/ Failed(w) \/ MarkFailed(w)
  \/ After(w) \/ StillDraining(w) \/ Preserve(w) \/ DrainOn(w) \/ PauseAgain(w)
  \/ MarkPaused(w) \/ Leave(w) \/ Exit(w)

\* Each of them meets the conditions of a walk.
LEMMA WalkStepInv ==
  ASSUME Inv, NEW w \in Workers, WalkStep(w)
  PROVE  Inv'
<1> USE DEF At, Goto, Become, Stepping, Unheld, Closing, Terminal, Places, States
<1>1. /\ state = [state EXCEPT ![w] = state[w]]
      /\ status \in States /\ persist \in [Workers -> BOOLEAN]
  BY DEF Inv, TypeOK
<1>2. ASSUME Alive(w) PROVE state[w] \in States \cup {"lost"}
  BY <1>2 DEF Inv, TypeOK, Unmade, Alive, Workers
<1>3. Alive(w)
  BY DEF WalkStep, Top, Wait, Look, Finish, MarkFinished, Drain, MarkDraining,
         Unsafe, GiveUp, Failed, MarkFailed, After, StillDraining, Preserve,
         DrainOn, PauseAgain, MarkPaused, Leave, Exit, Alive
<1>4. ~stop[w] /\ state[w] \in Terminal => pc[w] \in Closing
  BY <1>3 DEF Inv, Settled
<1>5. CASE Top(w)
  <2>1. Walks(w, "leave", state[w]) \/ Walks(w, "wait", state[w])
    BY <1>1, <1>5
       DEF Top, Walks, database, registry, flags, counters, Inv, TypeOK
  <2>2. QED
    BY <1>2, <1>3, <1>4, <1>5, <2>1, WalkInv DEF Top
<1>6. CASE Wait(w)
  <2>1. Walks(w, "look", state[w])
    BY <1>1, <1>6
       DEF Wait, Walks, database, registry, flags, counters, Inv, TypeOK
  <2>2. QED
    BY <1>2, <1>3, <1>4, <1>6, <2>1, WalkInv DEF Wait
<1>7. CASE Look(w)
  <2>1. \/ Walks(w, "leave", state[w]) \/ Walks(w, "finish", state[w])
        \/ Walks(w, "drain", state[w]) \/ Walks(w, "step", state[w])
    BY <1>1, <1>7
       DEF Look, Walks, database, registry, flags, counters, Inv, TypeOK
  <2>2. QED
    BY <1>2, <1>3, <1>4, <1>7, <2>1, WalkInv DEF Look
<1>8. CASE Finish(w)
  <2>1. Walks(w, "mark finished", "finished")
    BY <1>1, <1>8
       DEF Finish, Walks, database, registry, flags, counters, Inv, TypeOK
  <2>2. QED
    BY <1>2, <1>3, <1>4, <1>8, <2>1, WalkInv DEF Finish
<1>9. CASE MarkFinished(w)
  <2>1. Walks(w, "leave", state[w])
    BY <1>1, <1>9
       DEF MarkFinished, Walks, database, registry, flags, counters, Inv,
           TypeOK
  <2>2. QED
    BY <1>2, <1>3, <1>4, <1>9, <2>1, WalkInv DEF MarkFinished
<1>10. CASE Drain(w)
  <2>1. Walks(w, "mark draining", "draining")
    BY <1>1, <1>10
       DEF Drain, Walks, database, registry, flags, counters, Inv, TypeOK
  <2>2. QED
    BY <1>2, <1>3, <1>4, <1>10, <2>1, WalkInv DEF Drain
<1>11. CASE MarkDraining(w)
  <2>1. Walks(w, "step", state[w]) \/ Walks(w, "unsafe", state[w])
    BY <1>1, <1>11
       DEF MarkDraining, Walks, database, registry, flags, counters, Inv,
           TypeOK
  <2>2. QED
    BY <1>2, <1>3, <1>4, <1>11, <2>1, WalkInv DEF MarkDraining
<1>12. CASE Unsafe(w)
  <2>1. Walks(w, "give up", state[w])
    BY <1>1, <1>12
       DEF Unsafe, Walks, database, registry, flags, counters, Inv, TypeOK
  <2>2. QED
    BY <1>2, <1>3, <1>4, <1>12, <2>1, WalkInv DEF Unsafe
<1>13. CASE GiveUp(w)
  <2>1. Walks(w, "leave", "stopped")
    BY <1>1, <1>13
       DEF GiveUp, Walks, database, registry, flags, counters, Inv, TypeOK
  <2>2. QED
    BY <1>2, <1>3, <1>4, <1>13, <2>1, WalkInv DEF GiveUp
<1>14. CASE Failed(w)
  <2>1. Walks(w, "mark failed", "stopped")
    BY <1>1, <1>14
       DEF Failed, Walks, database, registry, flags, counters, Inv, TypeOK
  <2>2. QED
    BY <1>2, <1>3, <1>4, <1>14, <2>1, WalkInv DEF Failed
<1>15. CASE MarkFailed(w)
  <2>1. Walks(w, "leave", state[w])
    BY <1>1, <1>15
       DEF MarkFailed, Walks, database, registry, flags, counters, Inv, TypeOK
  <2>2. QED
    BY <1>2, <1>3, <1>4, <1>15, <2>1, WalkInv DEF MarkFailed
<1>16. CASE After(w)
  <2>1. \/ Walks(w, "leave", state[w]) \/ Walks(w, "top", state[w])
        \/ Walks(w, "still draining", state[w]) \/ Walks(w, "finish", state[w])
    BY <1>1, <1>16
       DEF After, Walks, database, registry, flags, counters, Inv, TypeOK
  <2>2. QED
    BY <1>2, <1>3, <1>4, <1>16, <2>1, WalkInv DEF After
<1>17. CASE StillDraining(w)
  <2>1. Walks(w, "preserve", state[w])
    BY <1>1, <1>17
       DEF StillDraining, Walks, database, registry, flags, counters, Inv,
           TypeOK
  <2>2. QED
    BY <1>2, <1>3, <1>4, <1>17, <2>1, WalkInv DEF StillDraining
<1>18. CASE Preserve(w)
  <2>1. Walks(w, "pause again", state[w]) \/ Walks(w, "drain on", state[w])
    BY <1>1, <1>18
       DEF Preserve, Walks, database, registry, flags, counters, Inv, TypeOK
  <2>2. QED
    BY <1>2, <1>3, <1>4, <1>18, <2>1, WalkInv DEF Preserve
<1>19. CASE DrainOn(w)
  <2>1. Walks(w, "top", "draining")
    BY <1>1, <1>19
       DEF DrainOn, Walks, database, registry, flags, counters, Inv, TypeOK
  <2>2. QED
    BY <1>2, <1>3, <1>4, <1>19, <2>1, WalkInv DEF DrainOn
<1>20. CASE PauseAgain(w)
  <2>1. Walks(w, "mark paused", "paused")
    BY <1>1, <1>20
       DEF PauseAgain, Walks, database, registry, flags, counters, Inv, TypeOK
  <2>2. QED
    BY <1>2, <1>3, <1>4, <1>20, <2>1, WalkInv DEF PauseAgain
<1>21. CASE MarkPaused(w)
  <2>1. Walks(w, "top", state[w])
    BY <1>1, <1>21
       DEF MarkPaused, Walks, database, registry, flags, counters, Inv, TypeOK
  <2>2. QED
    BY <1>2, <1>3, <1>4, <1>21, <2>1, WalkInv DEF MarkPaused
<1>22. CASE Leave(w)
  <2>1. Walks(w, "release", state[w])
    BY <1>1, <1>22
       DEF Leave, Walks, database, registry, flags, counters, Inv, TypeOK
  <2>2. QED
    BY <1>2, <1>3, <1>4, <1>22, <2>1, WalkInv DEF Leave
<1>23. CASE Exit(w)
  <2>1. Walks(w, "dead", state[w])
    BY <1>1, <1>23
       DEF Exit, Walks, database, registry, flags, counters, Inv, TypeOK
  <2>2. QED
    BY <1>2, <1>3, <1>4, <1>23, <2>1, WalkInv DEF Exit
<1>24. QED
  BY <1>5, <1>6, <1>7, <1>8, <1>9, <1>10, <1>11, <1>12, <1>13, <1>14, <1>15,
     <1>16, <1>17, <1>18, <1>19, <1>20, <1>21, <1>22, <1>23
     DEF WalkStep

\* What each part of the invariant depends on.
LEMMA Frames ==
  /\ Unmade /\ UNCHANGED <<made, pc, paused>> => Unmade'
  /\ RouteOwns /\ UNCHANGED <<op, current, pc, stop, state>> => RouteOwns'
  /\ Settled /\ UNCHANGED <<pc, stop, current, state>> => Settled'
  /\ Founded /\ UNCHANGED <<pc, env, stepping, built>> => Founded'
  /\ OneConnection /\ UNCHANGED <<built, broken, loaded>> => OneConnection'
  /\ Held /\ UNCHANGED <<paused, late, pc>> => Held'
BY DEF Unmade, RouteOwns, Settled, Founded, OneConnection, Held, Alive, In,
       Idle

\* A step of the thread of w from one place of the loop to another keeps what
\* the invariant says of places, when only the thread's place changes of
\* what it says it about.
LEMMA PlaceInv ==
  ASSUME Inv, NEW w \in Workers, Alive(w),
         NEW q \in Places \ {"none"}, pc' = [pc EXCEPT ![w] = q],
         UNCHANGED <<made, op, paused, stop, state>>,
         current' = current \/ (current = w /\ op = Idle /\ q = "dead"),
         \/ q = "dead" \/ stop[w] \/ pc[w] \notin Closing
         \/ pc[w] \in Closing /\ q \in Closing
  PROVE  /\ Unmade' /\ RouteOwns'
         /\ state[w] \notin Terminal \/ q \in Closing \/ q = "dead" => Settled'
<1>1. w <= made
  BY DEF Inv, Unmade, TypeOK, Alive, Workers
<1>2. pc'[w] = q /\ \A v \in Workers : v # w => pc'[v] = pc[v]
  BY DEF Inv, TypeOK
<1>3. Unmade'
  BY <1>1, <1>2 DEF Inv, Unmade, Workers, TypeOK
<1>4. RouteOwns'
  <2>1. CASE op = Idle
    BY <2>1 DEF RouteOwns, Idle
  <2>2. CASE op # Idle
    <3>1. op.of \in Workers
      <4>1. op.of \in 0 .. made /\ made \in 0 .. MaxWorkers
        BY DEF Inv, TypeOK
      <4>2. op.of # 0
        BY <2>2 DEF Inv, RouteOwns
      <4>3. QED
        BY <4>1, <4>2, WorkerAssumption DEF Workers
    <3>2. op.name = "start" => op.of # w
      BY <2>2 DEF Inv, RouteOwns
    <3>3. op.name = "start" => pc'[op.of] = pc[op.of]
      BY <1>2, <3>1, <3>2
    <3>4. QED
      BY <2>2, <3>3 DEF Inv, RouteOwns, Alive, In
  <2>3. QED
    BY <2>1, <2>2
<1>5. ASSUME state[w] \notin Terminal \/ q \in Closing \/ q = "dead" PROVE Settled'
  BY <1>2, <1>5 DEF Inv, Settled, Alive, Closing
<1>6. QED
  BY <1>3, <1>4, <1>5

\* The thread finds its Environment, or gives up.
LEMMA EnterInv ==
  ASSUME Inv, NEW w \in Workers, Enter(w)
  PROVE  Inv'
<1>1. Alive(w) /\ pc[w] = "enter" /\ w <= made
  BY DEF Enter, At, Alive, Inv, Unmade, Workers, TypeOK
<1>2. state[w] \in Terminal => stop[w]
  BY <1>1 DEF Inv, Settled, Closing
<1>3. CASE loaded # 0
  <2>1. /\ env' = [env EXCEPT ![w] = loaded] /\ pc' = [pc EXCEPT ![w] = "top"]
        /\ UNCHANGED <<state, status, work, pending, current, loaded, made, built,
                       broken, op, paused, stop, persist, stepping, steps, ops,
                       crashes, late>>
    BY <1>3 DEF Enter, Goto, database, registry, flags, counters
  <2>2. pc'[w] = "top" /\ \A v \in Workers : v # w => pc'[v] = pc[v] /\ env'[v] = env[v]
    BY <2>1 DEF Inv, TypeOK
  <2>3. TypeOK'
    <3>1. pc' \in [Workers -> Places] /\ env' \in [Workers -> 0 .. built]
      BY <2>1 DEF Inv, TypeOK, Places
    <3>2. \A v \in Workers : pc'[v] = "hook" => stepping[env'[v]] = v
      BY <2>2 DEF Inv, TypeOK, OpType, At
    <3>3. QED
      BY <2>1, <3>1, <3>2 DEF Inv, TypeOK, OpType, At
  <2>4. Unmade' /\ RouteOwns'
    BY <1>1, <2>1, PlaceInv DEF Closing, Places
  <2>5. Settled'
    BY <1>1, <1>2, <2>1, <2>2 DEF Inv, Settled, Alive, Closing
  <2>6. Founded'
    BY <1>3, <2>1, <2>2 DEF Inv, Founded, Stepping, TypeOK
  <2>7. OneConnection'
    BY <2>1, Frames DEF Inv
  <2>8. Held'
    BY <2>1, <2>2 DEF Inv, Held, Unheld
  <2>9. QED
    BY <2>3, <2>4, <2>5, <2>6, <2>7, <2>8 DEF Inv
<1>4. CASE loaded = 0
  <2>1. Walks(w, "release", "stopped")
    BY <1>4
       DEF Enter, Walks, Goto, Become, database, registry, flags, counters,
                Inv, TypeOK, States
  <2>2. QED
    BY <1>1, <2>1, WalkInv
       DEF Places, States, Stepping, Unheld, Closing, Terminal
<1>5. QED
  BY <1>3, <1>4

\* The phase of the orders only moves ahead.
LEMMA AheadType ==
  \A x \in {"running", "draining", "finished"} :
    Ahead[x] \subseteq {"running", "draining", "finished"}
BY DEF Ahead

\* A thread that steps does so in an Environment that was built.
LEMMA StepperFacts ==
  ASSUME Inv, NEW w \in Workers, pc[w] \in Stepping
  PROVE  /\ env[w] \in 1 .. built /\ env[w] \in Environments
         /\ w \in 1 .. made
<1>1. env[w] \in 0 .. built /\ built \in 1 .. MaxWorkers /\ made \in 0 .. MaxWorkers
  BY DEF Inv, TypeOK
<1>2. env[w] # 0 /\ pc[w] # "none"
  BY DEF Inv, Founded, Stepping
<1>3. w <= made
  BY <1>1, <1>2, WorkerAssumption DEF Inv, Unmade, Workers
<1>4. QED
  BY <1>1, <1>2, <1>3, WorkerAssumption DEF Environments, Workers

\* The step begins in the Environment that nobody steps.
LEMMA BeginStepInv ==
  ASSUME Inv, NEW w \in Workers, BeginStep(w)
  PROVE  Inv'
<1>1. Alive(w) /\ pc[w] = "step" /\ w \in 1 .. made
  BY DEF BeginStep, At, Alive, Inv, Unmade, Workers, TypeOK
<1>2. env[w] \in 1 .. built /\ env[w] \in Environments
  BY <1>1, StepperFacts DEF Stepping, Places
<1>3. /\ stepping' = [stepping EXCEPT ![env[w]] = w] /\ stepping[env[w]] = 0
      /\ pc' = [pc EXCEPT ![w] = "hook"]
      /\ steps' = IF steps < StepBound THEN steps + 1 ELSE steps
      /\ UNCHANGED <<state, status, current, loaded, made, built, broken, op,
                     paused, stop, persist, env, ops, crashes, late>>
  BY DEF BeginStep, Goto, registry, flags
<1>4. pc'[w] = "hook" /\ \A v \in Workers : v # w => pc'[v] = pc[v]
  BY <1>3 DEF Inv, TypeOK
<1>5. stepping'[env[w]] = w /\ \A e \in Environments : e # env[w] => stepping'[e] = stepping[e]
  BY <1>2, <1>3 DEF Inv, TypeOK
<1>6. TypeOK'
  <2>1. pc' \in [Workers -> Places] /\ stepping' \in [Environments -> 0 .. made]
    <3>1. pc \in [Workers -> Places] /\ stepping \in [Environments -> 0 .. made]
          /\ made \in Nat
      BY DEF Inv, TypeOK
    <3>2. pc' \in [Workers -> Places]
      BY <1>3, <3>1 DEF Places
    <3>3. w \in 0 .. made
      BY <1>1, <3>1
    <3>4. stepping' \in [Environments -> 0 .. made]
      BY <1>3, <3>1, <3>3
    <3>5. QED
      BY <3>2, <3>4
  <2>2. ASSUME NEW v \in Workers, pc'[v] = "hook" PROVE stepping'[env[v]] = v
    <3>1. CASE v = w
      BY <1>5, <3>1
    <3>2. CASE v # w
      <4>1. stepping[env[v]] = v /\ v # 0
        BY <1>4, <2>2, <3>2 DEF Inv, TypeOK, At, Workers
      <4>2. env[v] \in Environments
        BY <1>4, <2>2, <3>2, StepperFacts DEF Stepping, Places
      <4>3. QED
        BY <1>3, <1>5, <4>1, <4>2
    <3>3. QED
      BY <3>1, <3>2
  <2>3. pending' \in BOOLEAN /\ work' \in {"running", "draining", "finished"}
    BY AheadType DEF BeginStep, Transform, Inv, TypeOK
  <2>4. steps' \in 0 .. StepBound
    BY <1>3, WorkerAssumption DEF Inv, TypeOK
  <2>5. QED
    BY <1>3, <2>1, <2>2, <2>3, <2>4 DEF Inv, TypeOK, OpType, At
<1>7. Unmade' /\ RouteOwns'
  BY <1>1, <1>3, PlaceInv DEF Closing, Places
<1>8. Settled'
  BY <1>1, <1>3, <1>4 DEF Inv, Settled, Alive, Closing
<1>9. Founded'
  <2>1. \A v \in Workers : pc'[v] \in Stepping => env[v] # 0
    BY <1>2, <1>4 DEF Inv, Founded
  <2>2. \A e \in Environments : stepping'[e] # 0 => e <= built
    BY <1>2, <1>5 DEF Inv, Founded
  <2>3. QED
    BY <1>3, <2>1, <2>2 DEF Founded
<1>10. OneConnection'
  BY <1>3, Frames DEF Inv
<1>11. Held'
  BY <1>1, <1>3, <1>4 DEF Inv, Held, Unheld
<1>12. QED
  BY <1>6, <1>7, <1>8, <1>9, <1>10, <1>11 DEF Inv

\* The step that held step_lock ends, with its clock or with an exception.
LEMMA LeaveHookInv ==
  ASSUME Inv, NEW w \in Workers, EndStep(w) \/ FailStep(w)
  PROVE  Inv'
<1>1. Alive(w) /\ pc[w] = "hook" /\ w \in 1 .. made
  BY DEF EndStep, FailStep, At, Alive, Inv, Unmade, Workers, TypeOK
<1>2. env[w] \in 1 .. built /\ env[w] \in Environments
  BY <1>1, StepperFacts DEF Stepping, Places
<1>3. PICK q \in {"after", "leave", "failed"} : pc' = [pc EXCEPT ![w] = q]
                                               /\ (q = "leave" => stop[w])
  BY DEF EndStep, FailStep, Goto
<1>4. /\ stepping' = [stepping EXCEPT ![env[w]] = 0]
      /\ UNCHANGED <<state, status, current, loaded, made, built, broken, op,
                     paused, stop, persist, env, steps, ops, crashes>>
  BY DEF EndStep, FailStep, database, registry, flags, counters
<1>5. late' \in [Workers -> Nat]
      /\ late'[w] \in {late[w], IF paused[w] THEN late[w] + 1 ELSE 0}
      /\ \A v \in Workers : v # w => late'[v] = late[v]
  BY DEF EndStep, FailStep, counters, Inv, TypeOK
<1>6. pc'[w] = q /\ \A v \in Workers : v # w => pc'[v] = pc[v]
  BY <1>3 DEF Inv, TypeOK
<1>7. stepping'[env[w]] = 0 /\ \A e \in Environments : e # env[w] => stepping'[e] = stepping[e]
  BY <1>2, <1>4 DEF Inv, TypeOK
<1>8. TypeOK'
  <2>1. pc' \in [Workers -> Places] /\ stepping' \in [Environments -> 0 .. made]
    <3>1. pc \in [Workers -> Places] /\ stepping \in [Environments -> 0 .. made]
          /\ made \in Nat
      BY DEF Inv, TypeOK
    <3>2. pc' \in [Workers -> Places]
      BY <1>3, <3>1 DEF Places
    <3>3. 0 \in 0 .. made
      BY <3>1
    <3>4. stepping' \in [Environments -> 0 .. made]
      BY <1>4, <3>1, <3>3
    <3>5. QED
      BY <3>2, <3>4
  <2>2. ASSUME NEW v \in Workers, pc'[v] = "hook" PROVE stepping'[env[v]] = v
    <3>1. v # w /\ pc[v] = "hook"
      BY <1>6, <2>2
    <3>2. stepping[env[v]] = v /\ stepping[env[w]] = w
      BY <1>1, <3>1 DEF Inv, TypeOK, OpType, At
    <3>3. env[v] \in Environments
      BY <3>1, StepperFacts DEF Stepping, Places
    <3>4. QED
      BY <1>7, <3>1, <3>2, <3>3
  <2>3. pending' \in BOOLEAN /\ work' \in {"running", "draining", "finished"}
    BY AheadType DEF EndStep, FailStep, Inv, TypeOK, database
  <2>4. QED
    BY <1>4, <1>5, <2>1, <2>2, <2>3 DEF Inv, TypeOK, OpType, At
<1>9. Unmade' /\ RouteOwns'
  BY <1>1, <1>3, <1>4, PlaceInv DEF Closing, Places
<1>10. Settled'
  BY <1>1, <1>3, <1>4, <1>6 DEF Inv, Settled, Alive, Closing
<1>11. Founded'
  BY <1>1, <1>2, <1>3, <1>4, <1>6, <1>7 DEF Inv, Founded, Stepping, Places
<1>12. OneConnection'
  BY <1>4, Frames DEF Inv
<1>13. Held'
  <2>1. ASSUME NEW v \in Workers, paused[v]
        PROVE  late'[v] <= 1 /\ (late'[v] = 1 => pc'[v] \notin Unheld)
    <3>1. CASE v = w
      <4>1. late[w] \in Nat /\ late[w] <= 1 /\ late[w] # 1
        BY <1>1, <2>1, <3>1 DEF Inv, TypeOK, Held, Unheld
      <4>2. late'[w] \in {0, 1}
        BY <1>5, <2>1, <3>1, <4>1
      <4>3. pc'[w] \notin Unheld
        BY <1>6 DEF Unheld
      <4>4. QED
        BY <3>1, <4>2, <4>3
    <3>2. CASE v # w
      BY <1>5, <1>6, <2>1, <3>2 DEF Inv, Held
    <3>3. QED
      BY <3>1, <3>2
  <2>2. QED
    BY <1>4, <2>1 DEF Held
<1>14. QED
  BY <1>8, <1>9, <1>10, <1>11, <1>12, <1>13 DEF Inv

\* Dropping the Environment leaves no connection behind.
LEMMA DroppedKeeps ==
  ASSUME Inv, loaded' = 0, UNCHANGED built,
         broken' = IF loaded = 0 THEN broken ELSE broken \cup {loaded}
  PROVE  OneConnection' /\ broken' \subseteq 1 .. built /\ 0 \in 0 .. built
BY DEF Inv, OneConnection, TypeOK

\* The thread of an ended worker drops what the registry has of it.
LEMMA ReleaseInv ==
  ASSUME Inv, NEW w \in Workers, Release(w)
  PROVE  Inv'
<1>1. Alive(w) /\ pc[w] = "release" /\ state[w] \in States \cup {"lost"}
  BY DEF Release, At, Alive, Inv, Unmade, Workers, TypeOK
<1>2. CASE state[w] \in Terminal
  <2>1. /\ pc' = [pc EXCEPT ![w] = "dead"] /\ op = Idle
        /\ UNCHANGED <<status, work, pending, made, built, op, state, paused,
                       stop, persist, env, stepping, steps, ops, crashes, late>>
    BY <1>2 DEF Release, Goto, Dropped, database, registry, flags, counters
  <2>2. pc'[w] = "dead" /\ \A v \in Workers : v # w => pc'[v] = pc[v]
    BY <2>1 DEF Inv, TypeOK
  <2>3. \/ current = w /\ Dropped(w)
        \/ UNCHANGED <<current, loaded, broken>>
    BY <1>2 DEF Release, registry
  <2>4. Unmade' /\ RouteOwns' /\ Settled'
    BY <1>1, <2>1, <2>3, PlaceInv DEF Closing, Places, Dropped
  <2>5. OneConnection' /\ broken' \subseteq 1 .. built /\ loaded' \in 0 .. built
        /\ current' \in 0 .. made
    <3>1. CASE Dropped(w)
      BY <2>1, <3>1, DroppedKeeps DEF Dropped, Inv, TypeOK
    <3>2. CASE UNCHANGED <<current, loaded, broken>>
      BY <2>1, <3>2, Frames DEF Inv, TypeOK
    <3>3. QED
      BY <2>3, <3>1, <3>2
  <2>6. TypeOK'
    <3>1. pc' \in [Workers -> Places]
      BY <2>1 DEF Inv, TypeOK, Places
    <3>2. \A v \in Workers : pc'[v] = "hook" => stepping[env[v]] = v
      BY <2>2 DEF Inv, TypeOK, OpType, At
    <3>3. QED
      BY <2>1, <2>5, <3>1, <3>2 DEF Inv, TypeOK, OpType, At
  <2>7. Founded' /\ Held'
    BY <2>1, <2>2 DEF Inv, Founded, Held, Stepping, Unheld
  <2>8. QED
    BY <2>4, <2>5, <2>6, <2>7 DEF Inv
<1>3. CASE state[w] \notin Terminal
  <2>1. Walks(w, "exit", state[w])
    BY <1>3 DEF Release, Walks, Goto, database, registry, flags, Inv, TypeOK
  <2>2. QED
    BY <1>1, <2>1, WalkInv DEF Places, Stepping, Unheld, Closing
<1>4. QED
  BY <1>2, <1>3

\* Every step of a thread keeps the invariant.
LEMMA ThreadInv ==
  ASSUME Inv, NEW w \in Workers, Thread(w)
  PROVE  Inv'
BY EnterInv, BeginStepInv, LeaveHookInv, ReleaseInv, WalkStepInv
   DEF Thread, WalkStep

------------------------------------------------------------------------------
(* The control routes                                                      *)

\* What a route knows while it holds the lifecycle lock.
LEMMA RouteFacts ==
  ASSUME Inv, op # Idle
  PROVE  /\ op.of \in Workers /\ op.of = current /\ op.of <= made
         /\ op.name # "none"
         /\ op.name = "start" => pc[op.of] \in {"none", "dead"}
         /\ op.name = "stop" => stop[op.of]
<1>1. op.of \in 0 .. made /\ made \in 0 .. MaxWorkers
  BY DEF Inv, TypeOK
<1>2. op.of # 0 /\ op.of = current
  BY DEF Inv, RouteOwns
<1>3. QED
  BY <1>1, <1>2, WorkerAssumption DEF Inv, RouteOwns, Workers, Alive

\* A worker that is registered was made.
LEMMA CurrentFacts ==
  ASSUME Inv, current # 0
  PROVE  current \in Workers /\ current \in 0 .. made
BY WorkerAssumption DEF Inv, TypeOK, Workers

\* A start makes a worker only in place of one that has ended.
LEMMA StartsInv == ASSUME Inv, Starts PROVE Inv'
<1>1. /\ op = Idle /\ made < MaxWorkers /\ made' = made + 1 /\ current' = made'
      /\ op' = [name |-> "start", at |-> "run", of |-> made']
      /\ ops < OpBound /\ ops' = ops + 1
      /\ current # 0 => state[current] \in Terminal
      /\ UNCHANGED <<status, work, pending, broken, paused, stop, persist, pc, env,
                     stepping, steps, crashes, late>>
  BY DEF Starts, Enters, Replaceable, database, flags
<1>2. made \in Nat /\ made' \in Workers /\ made' \in 0 .. MaxWorkers
  BY <1>1, WorkerAssumption DEF Inv, TypeOK, Workers
<1>3. pc[made'] = "none" /\ ~paused[made']
  BY <1>1, <1>2 DEF Inv, Unmade
<1>4. \/ /\ loaded = 0 /\ built' = built + 1 /\ built < MaxWorkers
         /\ loaded' = built'
      \/ /\ loaded # 0 /\ UNCHANGED <<built, loaded>>
  BY DEF Starts
<1>5. PICK s \in {"pending", "draining"} : state' = [state EXCEPT ![made'] = s]
  BY DEF Starts, Become, Hydrated
<1>6. state'[made'] = s /\ \A v \in Workers : v # made' => state'[v] = state[v]
  BY <1>2, <1>5 DEF Inv, TypeOK
<1>7. TypeOK'
  <2>1. /\ built \in Nat /\ built' \in 1 .. MaxWorkers /\ built <= built'
        /\ loaded' \in 0 .. built'
    BY <1>4, WorkerAssumption DEF Inv, TypeOK
  <2>2. broken' \subseteq 1 .. built' /\ env' \in [Workers -> 0 .. built']
    BY <1>1, <2>1 DEF Inv, TypeOK
  <2>3. stepping' \in [Environments -> 0 .. made'] /\ current' \in 0 .. made'
    BY <1>1, <1>2 DEF Inv, TypeOK
  <2>4. state' \in [Workers -> States \cup {"unmade", "lost"}]
    BY <1>5 DEF Inv, TypeOK, States
  <2>5. \A v \in Workers : state'[v] = "unmade" <=> v > made'
    BY <1>1, <1>2, <1>6 DEF Inv, TypeOK, Workers
  <2>6. op' \in OpType(made')
    BY <1>1, <1>2 DEF OpType
  <2>7. ops' \in 0 .. OpBound
    BY <1>1, WorkerAssumption DEF Inv, TypeOK
  <2>8. QED
    BY <1>1, <1>2, <2>1, <2>2, <2>3, <2>4, <2>5, <2>6, <2>7
       DEF Inv, TypeOK, OpType, At
<1>8. Unmade'
  BY <1>1, <1>2 DEF Inv, Unmade, Workers
<1>9. RouteOwns'
  BY <1>1, <1>2, <1>3 DEF RouteOwns, Alive, In
<1>10. Settled'
  <2>1. ASSUME NEW v \in Workers, Alive(v), ~stop[v]
        PROVE  state'[v] \in Terminal /\ pc[v] \in Closing
    <3>1. v # made'
      BY <1>3, <2>1 DEF Alive
    <3>2. CASE v = current
      <4>1. v # 0 /\ state[v] \in Terminal
        BY <1>1, <3>2, <2>1 DEF Workers
      <4>2. QED
        BY <1>6, <2>1, <3>1, <4>1 DEF Inv, Settled
    <3>3. CASE v # current
      BY <1>6, <2>1, <3>1, <3>3 DEF Inv, Settled
    <3>4. QED
      BY <3>2, <3>3
  <2>2. QED
    BY <1>1, <2>1 DEF Settled, Alive
<1>11. Founded'
  BY <1>1, <1>4 DEF Inv, Founded, TypeOK, Environments
<1>12. OneConnection'
  BY <1>1, <1>4 DEF Inv, OneConnection, TypeOK
<1>13. Held'
  BY <1>1, Frames DEF Inv
<1>14. QED
  BY <1>7, <1>8, <1>9, <1>10, <1>11, <1>12, <1>13 DEF Inv

\* A request for the registered worker enters, and may set its flags.
LEMMA EntersInv ==
  ASSUME Inv, StartsAgain \/ Pause \/ Resume \/ Stop
  PROVE  Inv'
<1>1. PICK name \in {"start", "pause", "resume", "stop"},
           place \in {"run", "set", "look"} :
           /\ op' = [name |-> name, at |-> place, of |-> current]
           /\ name = "start" => ~Alive(current)
           /\ name = "stop" => stop' = [stop EXCEPT ![current] = TRUE]
           /\ name # "stop" => stop' = stop
  BY DEF StartsAgain, Pause, Resume, Stop, Enters, flags
<1>2. /\ op = Idle /\ current # 0 /\ ops < OpBound /\ ops' = ops + 1
      /\ UNCHANGED <<status, work, pending, current, loaded, made, built, broken,
                     state, pc, env, stepping, steps, crashes>>
  BY DEF StartsAgain, Pause, Resume, Stop, Enters, database, registry, flags
<1>3. current \in Workers /\ current \in 0 .. made
  BY <1>2, CurrentFacts
<1>4. /\ stop' \in [Workers -> BOOLEAN] /\ stop'[current] = (stop[current] \/ name = "stop")
      /\ \A v \in Workers : v # current => stop'[v] = stop[v]
  BY <1>1, <1>3 DEF Inv, TypeOK
<1>5. \/ UNCHANGED <<paused, persist, late>>
      \/ /\ paused' = [paused EXCEPT ![current] = FALSE]
         /\ persist' = [persist EXCEPT ![current] = TRUE]
         /\ late' = [late EXCEPT ![current] = 0]
  BY DEF StartsAgain, Pause, Resume, Stop, flags
<1>6. /\ paused' \in [Workers -> BOOLEAN] /\ persist' \in [Workers -> BOOLEAN]
      /\ late' \in [Workers -> Nat]
      /\ \A v \in Workers : paused'[v] => paused[v] /\ late'[v] = late[v]
  <2>1. /\ paused \in [Workers -> BOOLEAN] /\ persist \in [Workers -> BOOLEAN]
        /\ late \in [Workers -> Nat]
    BY DEF Inv, TypeOK
  <2>2. CASE UNCHANGED <<paused, persist, late>>
    BY <2>1, <2>2
  <2>3. CASE /\ paused' = [paused EXCEPT ![current] = FALSE]
             /\ persist' = [persist EXCEPT ![current] = TRUE]
             /\ late' = [late EXCEPT ![current] = 0]
    <3>1. /\ paused' \in [Workers -> BOOLEAN] /\ persist' \in [Workers -> BOOLEAN]
          /\ ~paused'[current]
          /\ \A v \in Workers : v # current => paused'[v] = paused[v]
      BY <1>3, <2>1, <2>3
    <3>2. /\ late' \in [Workers -> Nat]
          /\ \A v \in Workers : v # current => late'[v] = late[v]
      BY <1>3, <2>1, <2>3
    <3>3. QED
      BY <3>1, <3>2
  <2>4. QED
    BY <1>5, <2>2, <2>3
<1>7. TypeOK'
  <2>1. op' \in OpType(made)
    BY <1>1, <1>3 DEF OpType
  <2>2. ops' \in 0 .. OpBound
    BY <1>2, WorkerAssumption DEF Inv, TypeOK
  <2>3. QED
    BY <1>2, <1>4, <1>6, <2>1, <2>2 DEF Inv, TypeOK, OpType, At
<1>8. Unmade'
  BY <1>2, <1>6 DEF Inv, Unmade
<1>9. RouteOwns'
  BY <1>1, <1>2, <1>4 DEF RouteOwns, Alive, In
<1>10. Settled'
  BY <1>2, <1>3, <1>4 DEF Inv, Settled, Alive
<1>11. Founded' /\ OneConnection'
  BY <1>2, Frames DEF Inv
<1>12. Held'
  BY <1>2, <1>6 DEF Inv, Held
<1>13. QED
  BY <1>7, <1>8, <1>9, <1>10, <1>11, <1>12 DEF Inv

\* A run without a worker is stopped.
LEMMA StopUnloadedInv == ASSUME Inv, StopUnloaded PROVE Inv'
<1>1. /\ op = Idle /\ ops < OpBound /\ ops' = ops + 1 /\ status' = "stopped"
      /\ loaded' = 0
      /\ broken' = IF loaded = 0 THEN broken ELSE broken \cup {loaded}
      /\ UNCHANGED <<work, pending, current, made, built, op, state, paused, stop,
                     persist, pc, env, stepping, steps, crashes, late>>
  BY DEF StopUnloaded, flags
<1>2. OneConnection' /\ broken' \subseteq 1 .. built /\ 0 \in 0 .. built
  BY <1>1, DroppedKeeps
<1>3. ops' \in 0 .. OpBound
  BY <1>1, WorkerAssumption DEF Inv, TypeOK
<1>4. TypeOK'
  BY <1>1, <1>2, <1>3 DEF Inv, TypeOK, OpType, At, States
<1>5. Unmade' /\ RouteOwns' /\ Settled' /\ Founded' /\ Held'
  BY <1>1, Frames DEF Inv
<1>6. QED
  BY <1>2, <1>4, <1>5 DEF Inv

\* A step of a route that only writes the status or looks at something.
LEMMA TalkInv ==
  ASSUME Inv, PauseMark \/ ResumeMark \/ StopLook \/ StopRead \/ StopMark
  PROVE  Inv'
<1>1. /\ op # Idle /\ op.name # "start"
      /\ status' \in States
      /\ UNCHANGED <<work, pending, current, loaded, made, built, broken, state,
                     paused, stop, persist, pc, env, stepping, steps, ops, crashes,
                     late>>
  BY DEF PauseMark, ResumeMark, StopLook, StopRead, StopMark, In, Idle,
         States,
         database, registry, flags, counters, Inv, TypeOK
<1>2. PICK place \in {"finished", "state", "unload", "mark"} :
         op' = Idle \/ op' = [op EXCEPT !.at = place]
  BY DEF PauseMark, ResumeMark, StopLook, StopRead, StopMark, Proceed, Answer
<1>3. TypeOK'
  <2>1. op' \in OpType(made)
    BY <1>2 DEF Inv, TypeOK, Idle, OpType
  <2>2. QED
    BY <1>1, <2>1 DEF Inv, TypeOK, OpType, At
<1>4. RouteOwns'
  <2>1. CASE op' = Idle
    BY <2>1 DEF RouteOwns, Idle
  <2>2. CASE op' = [op EXCEPT !.at = place]
    <3>1. op'.name = op.name /\ op'.of = op.of /\ op.name # "start"
      BY <1>1, <2>2 DEF Inv, TypeOK
    <3>2. QED
      BY <1>1, <3>1, RouteFacts DEF RouteOwns, In, Workers
  <2>3. QED
    BY <1>2, <2>1, <2>2
<1>5. Unmade' /\ Settled' /\ Founded' /\ OneConnection' /\ Held'
  BY <1>1, Frames DEF Inv
<1>6. QED
  BY <1>3, <1>4, <1>5 DEF Inv

\* A step of a route that writes the state or a flag of its worker.
LEMMA WriteInv ==
  ASSUME Inv, StartRun \/ PauseSet \/ ResumeSet \/ ResumeState \/ StopState
  PROVE  Inv'
<1> DEFINE w == op.of
<1>1. op # Idle
  BY DEF StartRun, PauseSet, ResumeSet, ResumeState, StopState, In, Idle
<1>2. /\ w \in Workers /\ w = current /\ w <= made
      /\ op.name = "start" => pc[w] \in {"none", "dead"}
      /\ op.name = "stop" => stop[w]
  BY <1>1, RouteFacts
<1> HIDE DEF w
<1>3. /\ UNCHANGED <<status, work, pending, current, loaded, made, built, broken,
                     persist, pc, env, stepping, steps, ops, crashes>>
  BY DEF StartRun, PauseSet, ResumeSet, ResumeState, StopState, database,
         registry,
         flags, counters
<1>4. PICK place \in {"spawn", "mark", "state", "unload", "read"} :
         op' = [op EXCEPT !.at = place] /\ (op.name = "start" => place = "spawn")
  BY DEF StartRun, PauseSet, ResumeSet, ResumeState, StopState, Proceed, In
<1>5. op'.name = op.name /\ op'.at = place /\ op'.of = w
  BY <1>4 DEF Inv, TypeOK, w
<1>6. PICK s \in {state[w], "running", "paused", "stopped"} :
         /\ state' = [state EXCEPT ![w] = s]
         /\ op.name = "start" => s = "running"
         /\ op.name # "stop" => s # "stopped" \/ s = state[w]
  <2>1. state = [state EXCEPT ![w] = state[w]]
    BY DEF Inv, TypeOK
  <2>2. QED
    BY <2>1
       DEF StartRun, PauseSet, ResumeSet, ResumeState, StopState, Become, In,
           w
<1>7. state'[w] = s /\ \A v \in Workers : v # w => state'[v] = state[v]
  BY <1>2, <1>6 DEF Inv, TypeOK
<1>8. PICK halt \in {stop[w], FALSE} :
         /\ stop' = [stop EXCEPT ![w] = halt] /\ (op.name # "start" => halt = stop[w])
  <2>1. stop = [stop EXCEPT ![w] = stop[w]]
    BY DEF Inv, TypeOK
  <2>2. QED
    BY <2>1
       DEF StartRun, PauseSet, ResumeSet, ResumeState, StopState, flags, In, w
<1>9. /\ stop' \in [Workers -> BOOLEAN] /\ stop'[w] = halt
      /\ \A v \in Workers : v # w => stop'[v] = stop[v]
  BY <1>2, <1>8 DEF Inv, TypeOK
<1>10. /\ paused' \in [Workers -> BOOLEAN] /\ late' \in [Workers -> Nat]
       /\ \A v \in Workers : v # w => paused'[v] = paused[v]
       /\ \A v \in Workers : paused'[v] => late'[v] = 0 \/ (paused[v] /\ late'[v] = late[v])
  <2>1. paused \in [Workers -> BOOLEAN] /\ late \in [Workers -> Nat]
    BY DEF Inv, TypeOK
  <2>2. \/ UNCHANGED <<paused, late>>
        \/ paused' = [paused EXCEPT ![w] = FALSE] /\ late' = late
        \/ \E b \in BOOLEAN : /\ paused' = [paused EXCEPT ![w] = b]
                              /\ late' = [late EXCEPT ![w] = 0]
    BY DEF StartRun, PauseSet, ResumeSet, ResumeState, StopState, flags,
           counters, w
  <2>3. CASE UNCHANGED <<paused, late>>
    BY <2>1, <2>3
  <2>4. CASE paused' = [paused EXCEPT ![w] = FALSE] /\ late' = late
    <3>1. /\ paused' \in [Workers -> BOOLEAN] /\ ~paused'[w]
          /\ \A v \in Workers : v # w => paused'[v] = paused[v]
      BY <1>2, <2>1, <2>4
    <3>2. QED
      BY <2>1, <2>4, <3>1
  <2>5. ASSUME NEW b \in BOOLEAN, paused' = [paused EXCEPT ![w] = b],
               late' = [late EXCEPT ![w] = 0]
        PROVE  /\ paused' \in [Workers -> BOOLEAN] /\ late' \in [Workers -> Nat]
               /\ late'[w] = 0
               /\ \A v \in Workers : v # w => paused'[v] = paused[v] /\ late'[v] = late[v]
    <3>1. /\ paused' \in [Workers -> BOOLEAN]
          /\ \A v \in Workers : v # w => paused'[v] = paused[v]
      BY <1>2, <2>1, <2>5
    <3>2. /\ late' \in [Workers -> Nat] /\ late'[w] = 0
          /\ \A v \in Workers : v # w => late'[v] = late[v]
      BY <1>2, <2>1, <2>5
    <3>3. QED
      BY <3>1, <3>2
  <2>6. QED
    BY <2>2, <2>3, <2>4, <2>5
<1>11. TypeOK'
  <2>1. op' \in OpType(made)
    BY <1>4 DEF Inv, TypeOK, OpType
  <2>2. state[w] \in States \cup {"lost"} /\ s \in States \cup {"lost"}
    BY <1>2, <1>6 DEF Inv, TypeOK, States, Workers
  <2>3. state' \in [Workers -> States \cup {"unmade", "lost"}]
    BY <1>6, <2>2 DEF Inv, TypeOK
  <2>4. \A v \in Workers : state'[v] = "unmade" <=> v > made
    BY <1>2, <1>7, <2>2 DEF Inv, TypeOK, States, Workers
  <2>5. QED
    BY <1>3, <1>9, <1>10, <2>1, <2>3, <2>4 DEF Inv, TypeOK, OpType, At
<1>12. Unmade'
  BY <1>2, <1>3, <1>10 DEF Inv, Unmade, Workers, TypeOK
<1>13. RouteOwns'
  BY <1>1, <1>2, <1>3, <1>4, <1>5, <1>6, <1>7, <1>8, <1>9, RouteFacts
     DEF RouteOwns, Alive, In, Workers
<1>14. Settled'
  <2>1. ASSUME NEW v \in Workers, Alive(v), ~stop'[v],
               current # v \/ state'[v] \in Terminal
        PROVE  state'[v] \in Terminal /\ pc[v] \in Closing
    <3>1. CASE v = w
      <4>1. op.name # "start" /\ ~stop[w] /\ op.name # "stop"
        BY <1>2, <1>8, <1>9, <2>1, <3>1 DEF Alive
      <4>2. state'[w] = state[w]
        BY <1>2, <1>6, <1>7, <2>1, <3>1, <4>1 DEF Terminal
      <4>3. QED
        BY <2>1, <3>1, <4>1, <4>2 DEF Inv, Settled
    <3>2. CASE v # w
      BY <1>7, <1>9, <2>1, <3>2 DEF Inv, Settled
    <3>3. QED
      BY <3>1, <3>2
  <2>2. QED
    BY <1>3, <2>1 DEF Settled, Alive
<1>15. Founded' /\ OneConnection'
  BY <1>3, Frames DEF Inv
<1>16. Held'
  BY <1>3, <1>10 DEF Inv, Held
<1>17. QED
  BY <1>11, <1>12, <1>13, <1>14, <1>15, <1>16 DEF Inv

\* The thread of a started worker begins.
LEMMA SpawnInv == ASSUME Inv, Spawn PROVE Inv'
<1> DEFINE w == op.of
<1>1. op # Idle /\ op.name = "start" /\ op.at = "spawn"
  BY DEF Spawn, In, Idle
<1>2. /\ w \in Workers /\ w = current /\ w <= made /\ pc[w] \in {"none", "dead"}
      /\ state[w] = "running"
  BY <1>1, RouteFacts DEF Inv, RouteOwns, In
<1> HIDE DEF w
<1>3. /\ pc' = [pc EXCEPT ![w] = "enter"] /\ op' = Idle /\ status' = "running"
      /\ UNCHANGED <<work, pending, current, loaded, made, built, broken, state,
                     paused, stop, persist, env, stepping, steps, ops, crashes,
                     late>>
  BY DEF Spawn, Goto, Answer, w, registry, flags, counters
<1>4. pc'[w] = "enter" /\ \A v \in Workers : v # w => pc'[v] = pc[v]
  BY <1>2, <1>3 DEF Inv, TypeOK
<1>5. TypeOK'
  <2>1. pc' \in [Workers -> Places]
    BY <1>3 DEF Inv, TypeOK, Places
  <2>2. \A v \in Workers : pc'[v] = "hook" => stepping[env[v]] = v
    BY <1>4 DEF Inv, TypeOK, OpType, At
  <2>3. op' \in OpType(made)
    BY <1>3 DEF Inv, TypeOK, Idle, OpType
  <2>4. QED
    BY <1>3, <2>1, <2>2, <2>3 DEF Inv, TypeOK, OpType, At, States
<1>6. Unmade'
  BY <1>2, <1>3, <1>4 DEF Inv, Unmade, Workers, TypeOK
<1>7. RouteOwns'
  BY <1>3 DEF RouteOwns, Idle
<1>8. Settled'
  BY <1>2, <1>3, <1>4 DEF Inv, Settled, Alive, Terminal
<1>9. Founded' /\ Held'
  BY <1>3, <1>4 DEF Inv, Founded, Held, Stepping, Unheld
<1>10. OneConnection'
  BY <1>3, Frames DEF Inv
<1>11. QED
  BY <1>5, <1>6, <1>7, <1>8, <1>9, <1>10 DEF Inv

\* The end of a stop releases a run whose thread has gone.
LEMMA StopUnloadInv == ASSUME Inv, StopUnload PROVE Inv'
<1> DEFINE w == op.of
<1>1. op # Idle
  BY DEF StopUnload, In, Idle
<1>2. w \in Workers /\ w = current
  BY <1>1, RouteFacts
<1>3. /\ op' = Idle /\ persist' = [persist EXCEPT ![w] = FALSE]
      /\ UNCHANGED <<status, work, pending, made, built, state, paused, stop, pc,
                     env, stepping, steps, ops, crashes, late>>
  BY DEF StopUnload, Answer, Dropped, database, registry, counters
<1>4. \/ Dropped(w) /\ ~Alive(w)
      \/ UNCHANGED <<current, loaded, broken>>
  BY DEF StopUnload, registry
<1> HIDE DEF w
<1>5. OneConnection' /\ broken' \subseteq 1 .. built /\ loaded' \in 0 .. built
      /\ current' \in 0 .. made
  <2>1. CASE Dropped(w)
    BY <1>3, <2>1, DroppedKeeps DEF Dropped, Inv, TypeOK
  <2>2. CASE UNCHANGED <<current, loaded, broken>>
    BY <1>3, <2>2, Frames DEF Inv, TypeOK
  <2>3. QED
    BY <1>4, <2>1, <2>2
<1>6. TypeOK'
  <2>1. op' \in OpType(made)
    BY <1>3 DEF Inv, TypeOK, Idle, OpType
  <2>2. persist' \in [Workers -> BOOLEAN]
    BY <1>3 DEF Inv, TypeOK
  <2>3. QED
    BY <1>3, <1>5, <2>1, <2>2 DEF Inv, TypeOK, OpType, At
<1>7. RouteOwns'
  BY <1>3 DEF RouteOwns, Idle
<1>8. Settled'
  BY <1>2, <1>3, <1>4 DEF Inv, Settled, Alive, Dropped
<1>9. Unmade' /\ Founded' /\ Held'
  BY <1>3, Frames DEF Inv
<1>10. QED
  BY <1>5, <1>6, <1>7, <1>8, <1>9 DEF Inv

------------------------------------------------------------------------------
(* The process, and the theorems                                           *)

\* A crash leaves no thread, no registry and no connection.
LEMMA CrashInv == ASSUME Inv, Crash PROVE Inv'
<1>1. \A w \in Workers : pc'[w] \in {"none", "dead"} /\ ~paused'[w] /\ env'[w] = 0
                         /\ (w > made => pc'[w] = "none")
  BY DEF Crash, Inv, TypeOK, Workers
<1>2. UNCHANGED <<work, pending, made, built, steps, ops>>
      /\ broken' = broken \cup (1 .. built) /\ op' = Idle
      /\ \A e \in Environments : stepping'[e] = 0
  BY DEF Crash
<1>3. TypeOK'
  <2>1. pc' \in [Workers -> Places] /\ env' \in [Workers -> 0 .. built]
    <3>1. built \in Nat /\ 0 \in 0 .. built
      BY DEF Inv, TypeOK
    <3>2. \A w \in Workers : (IF w <= made THEN "dead" ELSE "none") \in Places
      BY DEF Places
    <3>3. QED
      BY <3>1, <3>2 DEF Crash
  <2>2. state' \in [Workers -> States \cup {"unmade", "lost"}]
        /\ \A w \in Workers : state'[w] = "unmade" <=> w > made
    BY DEF Crash, Inv, TypeOK, Workers
  <2>3. /\ paused' \in [Workers -> BOOLEAN] /\ stop' \in [Workers -> BOOLEAN]
        /\ persist' \in [Workers -> BOOLEAN] /\ late' \in [Workers -> Nat]
        /\ stepping' \in [Environments -> 0 .. made]
    BY DEF Crash, Inv, TypeOK
  <2>4. status' \in States /\ crashes' \in 0 .. CrashBound
    BY WorkerAssumption DEF Crash, Inv, TypeOK, States
  <2>5. op' \in OpType(made)
        /\ current' \in 0 .. made /\ loaded' \in 0 .. built
    BY DEF Crash, Inv, TypeOK, Idle, OpType
  <2>6. QED
    BY <1>1, <1>2, <2>1, <2>2, <2>3, <2>4, <2>5 DEF Inv, TypeOK, OpType, At
<1>4. Unmade' /\ RouteOwns' /\ Settled'
  BY <1>1, <1>2 DEF Unmade, RouteOwns, Settled, Alive, Idle
<1>5. Founded' /\ OneConnection' /\ Held'
  BY <1>1, <1>2 DEF Founded, OneConnection, Held, Stepping
<1>6. QED
  BY <1>3, <1>4, <1>5 DEF Inv

\* The run starts within the invariant.
LEMMA InitInv == Init => Inv
<1> SUFFICES ASSUME Init PROVE Inv
  OBVIOUS
<1>1. TypeOK
  <2>1. /\ pc \in [Workers -> Places] /\ env \in [Workers -> 0 .. built]
        /\ state \in [Workers -> States \cup {"unmade", "lost"}]
        /\ {paused, stop, persist} \subseteq [Workers -> BOOLEAN]
        /\ stepping \in [Environments -> 0 .. made] /\ late \in [Workers -> Nat]
    BY DEF Init, Places
  <2>2. \A w \in Workers : (state[w] = "unmade" <=> w > made) /\ pc[w] # "hook"
    BY DEF Init, Workers
  <2>3. op \in OpType(made)
    BY DEF Init, Idle, OpType
  <2>4. /\ built \in 1 .. MaxWorkers /\ made \in 0 .. MaxWorkers /\ current \in 0 .. made
        /\ loaded \in 0 .. built /\ broken \subseteq 1 .. built
        /\ steps \in 0 .. StepBound /\ ops \in 0 .. OpBound /\ crashes \in 0 .. CrashBound
    BY WorkerAssumption DEF Init
  <2>5. status \in States /\ work \in {"running", "draining", "finished"}
        /\ pending \in BOOLEAN
    BY DEF Init, States
  <2>6. QED
    BY <2>1, <2>2, <2>3, <2>4, <2>5 DEF TypeOK, OpType, At
<1>2. Unmade /\ RouteOwns /\ Settled /\ Founded /\ OneConnection /\ Held
  BY DEF Init, Unmade, RouteOwns, Settled, Founded, OneConnection, Held,
         Alive,
         Stepping
<1>3. QED
  BY <1>1, <1>2 DEF Inv

\* Every step keeps the invariant.
LEMMA NextInv == Inv /\ [Next]_vars => Inv'
<1> SUFFICES ASSUME Inv, [Next]_vars PROVE Inv'
  OBVIOUS
<1>1. CASE Route
  BY <1>1, StartsInv, EntersInv, StopUnloadedInv DEF Route
<1>2. CASE Answering
  BY <1>2, WriteInv, TalkInv, SpawnInv, StopUnloadInv DEF Answering
<1>3. CASE Crash
  BY <1>3, CrashInv
<1>4. CASE \E w \in Workers : Thread(w)
  BY <1>4, ThreadInv
<1>5. CASE UNCHANGED vars
  <2>1. TypeOK'
    BY <1>5
       DEF vars, database, registry, flags, counters, Inv, TypeOK, OpType, At
  <2>2. QED
    BY <1>5, <2>1, Frames DEF vars, database, registry, flags, counters, Inv
<1>6. QED
  BY <1>1, <1>2, <1>3, <1>4, <1>5 DEF Next

\* However the routes and the threads interleave, one thread of a run goes on,
\* and one Environment with a connection is in a step (_get_or_create_worker,
\* release_terminal_runtime, step_lock).
THEOREM OneWorkerAtATime == Spec => []OneRun
<1>1. Inv => OneLoop
  BY DEF Inv, Settled, OneLoop
<1>2. Inv => OneEnvironment
  BY DEF Inv, Founded, OneConnection, TypeOK, OneEnvironment, Environments
<1>3. Inv => OneRun
  BY <1>1, <1>2 DEF Inv, OneRun
<1>4. QED
  BY InitInv, NextInv, <1>3, PTL DEF Spec

\* Behind a pause at most one step ends, whichever way it overtakes the loop.
THEOREM PauseIsKept == Spec => []PauseHolds
<1>1. Inv => PauseHolds
  BY DEF Inv, Held, PauseHolds
<1>2. QED
  BY InitInv, NextInv, <1>1, PTL DEF Spec
=============================================================================
