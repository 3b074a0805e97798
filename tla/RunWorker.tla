------------------------------ MODULE RunWorker ------------------------------
(***************************************************************************)
(* Start, pause, resume and stop of a run: the worker threads of           *)
(* env/web/run_worker.py, the control routes of env/web/routes_dashboard.py *)
(* and the registry of env/web/runner.py that keeps at most one worker and *)
(* one Environment of the run in memory.                                   *)
(*                                                                         *)
(* A route runs under the run's lifecycle lock, one at a time (op).  The    *)
(* thread of a worker takes no lock while it reads and writes the worker's *)
(* state, so every read and every write that a route could come between is *)
(* a step of its own.  Environment.step is StepBoundary; here it begins    *)
(* with step_lock and ends by advancing the run, or by an exception.       *)
(*                                                                         *)
(* A start that finds a stopped worker in the registry, or none, makes a   *)
(* new worker; workers are numbered in that order, and so are the          *)
(* Environments, each with its connection to the database.                 *)
(***************************************************************************)
EXTENDS Naturals

CONSTANTS
  MaxWorkers,   \* bound on the workers that are made
  OpBound,      \* bound on the control requests
  StepBound,    \* the run is over after so many steps at the latest
  CrashBound    \* bound on the crashes of the process

ASSUME WorkerAssumption ==
  MaxWorkers \in Nat \ {0} /\ {OpBound, StepBound, CrashBound} \subseteq Nat

VARIABLES
  \* The database.
  status,    \* runs.status
  work,      \* phase the orders and agents of the run are in: _phase_for
  pending,   \* runs.pending_hook_t is set
  \* The registry.
  current,   \* registry.workers[run_id], 0 for none
  loaded,    \* registry.envs[run_id], 0 for none
  made,      \* workers made so far
  built,     \* Environments built so far
  broken,    \* Environments whose connection was closed
  op,        \* the control route under the lifecycle lock
  \* The workers.
  state,     \* RunWorker.state, "unmade" before the worker is made
  paused,    \* _pause is cleared
  stop,      \* _stop is set
  persist,   \* _persist_on_stop
  pc,        \* where the worker's thread is, "none" without one
  env,       \* the Environment the thread captured
  stepping,  \* per Environment the worker that holds its step_lock, or 0
  \* The run of the model.
  steps, ops, crashes,
  late       \* steps of a worker that ended since its pause flag was set

database == <<status, work, pending>>
registry == <<current, loaded, made, built, broken>>
flags == <<paused, stop, persist>>
counters == <<steps, ops, crashes, late>>
vars == <<database, registry, op, state, flags, pc, env, stepping, counters>>

Workers == 1 .. MaxWorkers
Environments == 1 .. MaxWorkers
Terminal == {"finished", "stopped"}
Idle == [name |-> "none", at |-> "none", of |-> 0]

Init ==
  /\ status = "pending" /\ work = "running" /\ pending = FALSE
  /\ current = 0 /\ loaded = 1 /\ made = 0 /\ built = 1 /\ broken = {}
  /\ op = Idle
  /\ state = [w \in Workers |-> "unmade"]
  /\ paused = [w \in Workers |-> FALSE]
  /\ stop = [w \in Workers |-> FALSE]
  /\ persist = [w \in Workers |-> TRUE]
  /\ pc = [w \in Workers |-> "none"]
  /\ env = [w \in Workers |-> 0]
  /\ stepping = [e \in Environments |-> 0]
  /\ steps = 0 /\ ops = 0 /\ crashes = 0
  /\ late = [w \in Workers |-> 0]

-----------------------------------------------------------------------------
(* The thread of a worker: _loop.                                          *)

At(w, place) == pc[w] = place
Goto(w, place) == pc' = [pc EXCEPT ![w] = place]
Become(w, s) == state' = [state EXCEPT ![w] = s]

\* _loop finds its Environment, or none and gives up.
Enter(w) ==
  /\ At(w, "enter")
  /\ IF loaded # 0
     THEN /\ env' = [env EXCEPT ![w] = loaded] /\ Goto(w, "top")
          /\ UNCHANGED <<state, status>>
     ELSE /\ Become(w, "stopped") /\ status' = "stopped" /\ Goto(w, "release")
          /\ UNCHANGED env
  /\ UNCHANGED <<work, pending, registry, op, flags, stepping, counters>>

\* The loop condition.
Top(w) ==
  /\ At(w, "top")
  /\ Goto(w, IF stop[w] THEN "leave" ELSE "wait")
  /\ UNCHANGED <<database, registry, op, state, flags, env, stepping, counters>>

\* Mutant of Wait: the pause only takes effect in the hook.
WaitNever(w) ==
  /\ At(w, "wait")
  /\ Goto(w, "look")
  /\ UNCHANGED <<database, registry, op, state, flags, env, stepping, counters>>

\* The wait for the pause to end.
Wait(w) ==
  /\ At(w, "wait") /\ ~paused[w]
  /\ Goto(w, "look")
  /\ UNCHANGED <<database, registry, op, state, flags, env, stepping, counters>>

\* After the wait: stopped meanwhile, over, draining or running.  An ended run
\* with a pending hook is stepped once more to finalize it.
Look(w) ==
  /\ At(w, "look")
  /\ Goto(w, CASE stop[w]                                      -> "leave"
               [] ~stop[w] /\ work = "finished" /\ ~pending     -> "finish"
               [] ~stop[w] /\ work = "draining"                 -> "drain"
               [] OTHER                                         -> "step")
  /\ UNCHANGED <<database, registry, op, state, flags, env, stepping, counters>>

\* The state first, then the database: _mark_finished, _mark_draining.
Finish(w) ==
  /\ At(w, "finish")
  /\ Become(w, "finished") /\ Goto(w, "mark finished")
  /\ UNCHANGED <<database, registry, op, flags, env, stepping, counters>>

MarkFinished(w) ==
  /\ At(w, "mark finished")
  /\ status' = "finished" /\ Goto(w, "leave")
  /\ UNCHANGED <<work, pending, registry, op, state, flags, env, stepping,
                 counters>>

Drain(w) ==
  /\ At(w, "drain")
  /\ Become(w, "draining") /\ Goto(w, "mark draining")
  /\ UNCHANGED <<database, registry, op, flags, env, stepping, counters>>

MarkDraining(w) ==
  /\ At(w, "mark draining")
  /\ status' = "draining"
  /\ Goto(w, "step") \/ Goto(w, "unsafe")
  /\ UNCHANGED <<work, pending, registry, op, state, flags, env, stepping,
                 counters>>

\* drain_safety_max_steps, and an exception of a step: the run is stopped
\* from inside, in the database first.
Unsafe(w) ==
  /\ At(w, "unsafe")
  /\ status' = "stopped" /\ persist' = [persist EXCEPT ![w] = FALSE]
  /\ Goto(w, "give up")
  /\ UNCHANGED <<work, pending, registry, op, state, paused, stop, env,
                 stepping, counters>>

GiveUp(w) ==
  /\ At(w, "give up")
  /\ Become(w, "stopped") /\ Goto(w, "leave")
  /\ UNCHANGED <<database, registry, op, flags, env, stepping, counters>>

Ahead == [running |-> {"running", "draining", "finished"},
          draining |-> {"draining", "finished"},
          finished |-> {"finished"}]

\* The transition of a step is committed, which may kill the last shop; it was
\* before a restart; or it fails, as it does with a closed connection.
Transform(w) ==
  \/ /\ env[w] \notin broken /\ ~pending
     /\ pending' = TRUE /\ work' \in Ahead[work]
  \/ UNCHANGED <<pending, work>>

\* Mutant of BeginStep: without step_lock.
BeginStepUnlocked(w) ==
  /\ At(w, "step")
  /\ Transform(w)
  /\ steps' = IF steps < StepBound THEN steps + 1 ELSE steps
  /\ stepping' = [stepping EXCEPT ![env[w]] = w]
  /\ Goto(w, "hook")
  /\ UNCHANGED <<status, registry, op, state, flags, env, ops, crashes, late>>

\* Environment.step under its step_lock, up to its hook.
BeginStep(w) ==
  /\ At(w, "step") /\ stepping[env[w]] = 0
  /\ Transform(w)
  /\ steps' = IF steps < StepBound THEN steps + 1 ELSE steps
  /\ stepping' = [stepping EXCEPT ![env[w]] = w]
  /\ Goto(w, "hook")
  /\ UNCHANGED <<status, registry, op, state, flags, env, ops, crashes, late>>

\* The step returns with the clock committed.
EndStep(w) ==
  /\ At(w, "hook") /\ env[w] \notin broken /\ pending
  /\ work' \in IF steps < StepBound THEN Ahead[work] ELSE {"finished"}
  /\ pending' = FALSE
  /\ stepping' = [stepping EXCEPT ![env[w]] = 0]
  /\ late' = [late EXCEPT ![w] = IF paused[w] THEN @ + 1 ELSE 0]
  /\ Goto(w, "after")
  /\ UNCHANGED <<status, registry, op, state, flags, env, steps, ops, crashes>>

\* The step raises: a stopped worker leaves, another one gives the run up.
FailStep(w) ==
  /\ At(w, "hook")
  /\ stepping' = [stepping EXCEPT ![env[w]] = 0]
  /\ Goto(w, IF stop[w] THEN "leave" ELSE "failed")
  /\ UNCHANGED <<database, registry, op, state, flags, env, counters>>

\* The state first this time, then the database.
Failed(w) ==
  /\ At(w, "failed")
  /\ Become(w, "stopped") /\ Goto(w, "mark failed")
  /\ UNCHANGED <<database, registry, op, flags, env, stepping, counters>>

MarkFailed(w) ==
  /\ At(w, "mark failed")
  /\ status' = "stopped" /\ persist' = [persist EXCEPT ![w] = FALSE]
  /\ Goto(w, "leave")
  /\ UNCHANGED <<work, pending, registry, op, state, paused, stop, env,
                 stepping, counters>>

\* The phase after the step, acted on unless the worker is being stopped.
After(w) ==
  /\ At(w, "after")
  /\ Goto(w, CASE stop[w]                            -> "leave"
               [] ~stop[w] /\ work = "running"       -> "top"
               [] ~stop[w] /\ work = "draining"      -> "still draining"
               [] ~stop[w] /\ work = "finished"      -> "finish")
  /\ UNCHANGED <<database, registry, op, state, flags, env, stepping, counters>>

\* _mark_draining of a pause during the step, then _preserve_pause_after_step.
StillDraining(w) ==
  /\ At(w, "still draining")
  /\ status' = "draining" /\ Goto(w, "preserve")
  /\ UNCHANGED <<work, pending, registry, op, state, flags, env, stepping,
                 counters>>

Preserve(w) ==
  /\ At(w, "preserve")
  /\ Goto(w, IF paused[w] /\ ~stop[w] THEN "pause again" ELSE "drain on")
  /\ UNCHANGED <<database, registry, op, state, flags, env, stepping, counters>>

DrainOn(w) ==
  /\ At(w, "drain on")
  /\ Become(w, "draining") /\ Goto(w, "top")
  /\ UNCHANGED <<database, registry, op, flags, env, stepping, counters>>

PauseAgain(w) ==
  /\ At(w, "pause again")
  /\ Become(w, "paused") /\ Goto(w, "mark paused")
  /\ UNCHANGED <<database, registry, op, flags, env, stepping, counters>>

MarkPaused(w) ==
  /\ At(w, "mark paused")
  /\ status' = "paused" /\ Goto(w, "top")
  /\ UNCHANGED <<work, pending, registry, op, state, flags, env, stepping,
                 counters>>

\* Behind the loop: a stop that was not persisted yet is.
Leave(w) ==
  /\ At(w, "leave")
  /\ status' = IF /\ state[w] = "stopped" /\ stop[w] /\ persist[w]
               THEN "stopped" ELSE status
  /\ Goto(w, "release")
  /\ UNCHANGED <<work, pending, registry, op, state, flags, env, stepping,
                 counters>>

\* Mutant of Dropped: the connection is left open.
DroppedOpen(w) ==
  /\ current' = 0 /\ loaded' = 0
  /\ UNCHANGED <<made, built, broken>>

\* release_terminal_runtime drops the worker and the Environment when the
\* worker is still the registered one, and closes the connection.
Dropped(w) ==
  /\ current' = 0 /\ loaded' = 0
  /\ broken' = IF loaded = 0 THEN broken ELSE broken \cup {loaded}
  /\ UNCHANGED <<made, built>>

Release(w) ==
  /\ At(w, "release")
  /\ IF state[w] \in Terminal
     THEN /\ op = Idle /\ Goto(w, "dead")
          /\ IF current = w THEN Dropped(w) ELSE UNCHANGED registry
     ELSE Goto(w, "exit") /\ UNCHANGED registry
  /\ UNCHANGED <<database, op, state, flags, env, stepping, counters>>

\* A thread that found nothing to release is alive for a moment more.
Exit(w) ==
  /\ At(w, "exit") /\ Goto(w, "dead")
  /\ UNCHANGED <<database, registry, op, state, flags, env, stepping, counters>>

Thread(w) ==
  \/ Enter(w) \/ Top(w) \/ Wait(w) \/ Look(w) \/ Finish(w)
  \/ MarkFinished(w)
  \/ Drain(w) \/ MarkDraining(w) \/ Unsafe(w) \/ GiveUp(w)
  \/ BeginStep(w) \/ EndStep(w) \/ FailStep(w) \/ Failed(w) \/ MarkFailed(w)
  \/ After(w) \/ StillDraining(w) \/ Preserve(w) \/ DrainOn(w)
  \/ PauseAgain(w) \/ MarkPaused(w) \/ Leave(w) \/ Release(w) \/ Exit(w)

-----------------------------------------------------------------------------
(* The control routes, each under the lifecycle lock.                      *)

Alive(w) == pc[w] \notin {"none", "dead"}
Proceed(place) == op' = [op EXCEPT !.at = place]
Answer == op' = Idle
In(name, place) == op.name = name /\ op.at = place

\* A request enters with the worker that is registered when it does.
Enters(name, place, w) ==
  /\ op = Idle /\ ops < OpBound
  /\ ops' = ops + 1
  /\ op' = [name |-> name, at |-> place, of |-> w]

\* A state found in the database by a new worker: RunWorker.__init__, made
\* pending by _get_or_create_worker when the run may be started again.
Hydrated == IF status = "draining" THEN "draining" ELSE "pending"

\* Mutant of Replaceable: a paused worker is replaced, not resumed.
ReplaceablePaused(w) == state[w] \in Terminal \cup {"paused"}

\* Only an ended worker is replaced by a start.
Replaceable(w) == state[w] \in Terminal

\* POST /start, and POST /resume of a paused run without a worker: a run that
\* is not finished gets an Environment, and a worker unless it has one that
\* has not ended.
Starts ==
  /\ op = Idle /\ ops < OpBound /\ status # "finished"
  /\ IF loaded = 0
     THEN /\ built < MaxWorkers /\ built' = built + 1 /\ loaded' = built'
     ELSE UNCHANGED <<built, loaded>>
  /\ current # 0 => Replaceable(current)
  /\ made < MaxWorkers
  /\ made' = made + 1 /\ current' = made'
  /\ Become(made', IF current = 0 THEN Hydrated ELSE "pending")
  /\ Enters("start", "run", made')
  /\ UNCHANGED <<database, broken, flags, pc, env, stepping, steps, crashes,
                 late>>

\* POST /start of a draining worker whose thread has gone; any other live
\* worker but a paused one is left as it is.
StartsAgain ==
  /\ current # 0 /\ state[current] = "draining" /\ ~Alive(current)
  /\ Enters("start", "run", current)
  /\ UNCHANGED <<database, registry, state, flags, pc, env, stepping, steps,
                 crashes, late>>

\* RunWorker.start: the flags and the state, then the database and the thread.
StartRun ==
  /\ In("start", "run")
  /\ stop' = [stop EXCEPT ![op.of] = FALSE]
  /\ paused' = [paused EXCEPT ![op.of] = FALSE]
  /\ Become(op.of, "running") /\ Proceed("spawn")
  /\ UNCHANGED <<database, registry, persist, pc, env, stepping, counters>>

Spawn ==
  /\ In("start", "spawn")
  /\ status' = "running" /\ Goto(op.of, "enter") /\ Answer
  /\ UNCHANGED <<work, pending, registry, state, flags, env, stepping, counters>>

\* RunWorker.pause: the state is read, then the flag, the state and the
\* database are written.
Pause ==
  /\ current # 0 /\ state[current] \in {"running", "draining"}
  /\ Enters("pause", "set", current)
  /\ UNCHANGED <<database, registry, state, flags, pc, env, stepping, steps,
                 crashes, late>>

PauseSet ==
  /\ In("pause", "set")
  /\ paused' = [paused EXCEPT ![op.of] = TRUE]
  /\ late' = [late EXCEPT ![op.of] = 0]
  /\ Become(op.of, "paused") /\ Proceed("mark")
  /\ UNCHANGED <<database, registry, stop, persist, pc, env, stepping, steps,
                 ops, crashes>>

PauseMark ==
  /\ In("pause", "mark")
  /\ status' = "paused" /\ Answer
  /\ UNCHANGED <<work, pending, registry, state, flags, pc, env, stepping,
                 counters>>

\* RunWorker.resume, by POST /resume or POST /start of a paused worker.
Resume ==
  /\ current # 0 /\ state[current] = "paused"
  /\ Enters("resume", "set", current)
  /\ UNCHANGED <<database, registry, state, flags, pc, env, stepping, steps,
                 crashes, late>>

ResumeSet ==
  /\ In("resume", "set")
  /\ paused' = [paused EXCEPT ![op.of] = FALSE] /\ Proceed("state")
  /\ late' = [late EXCEPT ![op.of] = 0]
  /\ UNCHANGED <<database, registry, state, stop, persist, pc, env, stepping,
                 steps, ops, crashes>>

ResumeState ==
  /\ In("resume", "state")
  /\ Become(op.of, "running") /\ Proceed("mark")
  /\ UNCHANGED <<database, registry, flags, pc, env, stepping, counters>>

ResumeMark ==
  /\ In("resume", "mark")
  /\ status' = "running" /\ Answer
  /\ UNCHANGED <<work, pending, registry, state, flags, pc, env, stepping,
                 counters>>

\* POST /stop without a worker: only the database is looked at.
StopUnloaded ==
  /\ op = Idle /\ ops < OpBound /\ current = 0 /\ status \notin Terminal
  /\ ops' = ops + 1
  /\ status' = "stopped"
  /\ loaded' = 0
  /\ broken' = IF loaded = 0 THEN broken ELSE broken \cup {loaded}
  /\ UNCHANGED <<work, pending, current, made, built, op, state, flags, pc, env,
                 stepping, steps, crashes, late>>

\* Mutant of Stop: the pause is not released.
StopPaused ==
  /\ current # 0 /\ Enters("stop", "look", current)
  /\ stop' = [stop EXCEPT ![current] = TRUE]
  /\ persist' = [persist EXCEPT ![current] = TRUE]
  /\ UNCHANGED <<database, registry, state, paused, pc, env, stepping, steps,
                 crashes, late>>

\* _stop_with_lifecycle: the flags, the state, then the database unless the
\* thread has put a terminal status there.
Stop ==
  /\ current # 0 /\ Enters("stop", "look", current)
  /\ stop' = [stop EXCEPT ![current] = TRUE]
  /\ paused' = [paused EXCEPT ![current] = FALSE]
  /\ persist' = [persist EXCEPT ![current] = TRUE]
  /\ late' = [late EXCEPT ![current] = 0]
  /\ UNCHANGED <<database, registry, state, pc, env, stepping, steps, crashes>>

StopLook ==
  /\ In("stop", "look")
  /\ Proceed(IF state[op.of] = "finished" THEN "finished" ELSE "state")
  /\ UNCHANGED <<database, registry, state, flags, pc, env, stepping, counters>>

StopState ==
  /\ In("stop", "finished") \/ In("stop", "state")
  /\ Become(op.of, "stopped")
  /\ Proceed(IF op.at = "finished" THEN "unload" ELSE "read")
  /\ UNCHANGED <<database, registry, flags, pc, env, stepping, counters>>

StopRead ==
  /\ In("stop", "read")
  /\ Proceed(IF status \in Terminal THEN "unload" ELSE "mark")
  /\ UNCHANGED <<database, registry, state, flags, pc, env, stepping, counters>>

StopMark ==
  /\ In("stop", "mark")
  /\ status' = "stopped" /\ Proceed("unload")
  /\ UNCHANGED <<work, pending, registry, state, flags, pc, env, stepping,
                 counters>>

\* The thread is left to write nothing; the route releases a run without one.
StopUnload ==
  /\ In("stop", "unload")
  /\ persist' = [persist EXCEPT ![op.of] = FALSE]
  /\ IF ~Alive(op.of) /\ state[op.of] \in Terminal /\ current = op.of
     THEN Dropped(op.of) ELSE UNCHANGED registry
  /\ Answer
  /\ UNCHANGED <<database, state, paused, stop, pc, env, stepping, counters>>

Route == \/ Starts \/ StartsAgain \/ Pause \/ Resume
         \/ Stop \/ StopUnloaded
Answering == \/ StartRun \/ Spawn \/ PauseSet \/ PauseMark
             \/ ResumeSet \/ ResumeState \/ ResumeMark
             \/ StopLook \/ StopState \/ StopRead \/ StopMark \/ StopUnload

\* The process dies; the next one demotes a run that was stepped, and keeps a
\* paused one: _reconcile_orphaned_runs.
Crash ==
  /\ crashes < CrashBound
  /\ crashes' = crashes + 1
  /\ status' = IF status \in {"running", "draining"} THEN "stopped" ELSE status
  /\ current' = 0 /\ loaded' = 0 /\ broken' = broken \cup (1 .. built)
  /\ op' = Idle
  /\ state' = [w \in Workers |-> IF w <= made THEN "lost" ELSE "unmade"]
  /\ pc' = [w \in Workers |-> IF w <= made THEN "dead" ELSE "none"]
  /\ paused' = [w \in Workers |-> FALSE] /\ stop' = paused'
  /\ persist' = [w \in Workers |-> TRUE]
  /\ env' = [w \in Workers |-> 0] /\ stepping' = [e \in Environments |-> 0]
  /\ late' = [w \in Workers |-> 0]
  /\ UNCHANGED <<work, pending, made, built, steps, ops>>

Next == \/ Route \/ Answering \/ Crash
        \/ \E w \in Workers : Thread(w)

\* A thread runs, except that a hook may stay open while the run is paused; a
\* route that holds the lifecycle lock finishes.
Runs(w) == Thread(w) /\ (At(w, "hook") => ~paused[w] \/ stop[w])

Spec == Init /\ [][Next]_vars /\ WF_vars(Answering)
        /\ \A w \in Workers : WF_vars(Runs(w))

-----------------------------------------------------------------------------
(* Properties.                                                             *)

Places == {"none", "enter", "top", "wait", "look", "finish", "mark finished", "drain",
           "mark draining", "unsafe", "give up", "step", "hook", "failed",
           "mark failed", "after", "still draining", "preserve", "drain on",
           "pause again", "mark paused", "leave", "release", "exit", "dead"}
States == {"pending", "running", "paused", "draining", "finished", "stopped"}

\* Every variable stays in its type, and memory refers only to what was made;
\* a thread in a step holds the step_lock of its Environment.
TypeOK ==
  /\ status \in States /\ work \in {"running", "draining", "finished"}
  /\ pending \in BOOLEAN
  /\ made \in 0 .. MaxWorkers /\ built \in 1 .. MaxWorkers
  /\ current \in 0 .. made /\ loaded \in 0 .. built
  /\ broken \subseteq 1 .. built
  /\ op \in [name : {"none", "start", "pause", "resume", "stop"},
             at : {"none", "run", "spawn", "set", "mark", "look", "finished",
                   "state", "read", "unload"},
             of : 0 .. made]
  /\ state \in [Workers -> States \cup {"unmade", "lost"}]
  /\ \A w \in Workers : state[w] = "unmade" <=> w > made
  /\ {paused, stop, persist} \subseteq [Workers -> BOOLEAN]
  /\ pc \in [Workers -> Places] /\ env \in [Workers -> 0 .. built]
  /\ stepping \in [Environments -> 0 .. made]
  /\ \A w \in Workers : At(w, "hook") => stepping[env[w]] = w
  /\ steps \in 0 .. StepBound /\ ops \in 0 .. OpBound
  /\ crashes \in 0 .. CrashBound /\ late \in [Workers -> Nat]

\* However starts, stops and releases interleave, at most one thread of the
\* run is not on its way out (_get_or_create_worker against _loop).
OneLoop == \A v, w \in Workers :
  (Alive(v) /\ ~stop[v] /\ state[v] \notin Terminal /\
   Alive(w) /\ ~stop[w] /\ state[w] \notin Terminal) => v = w

\* Once the pause flag is set the step in flight, or the one whose wait was
\* over, may still end, and no other: whatever the pause overtakes, the loop
\* waits before the next (_pause.wait against pause and resume).
PauseHolds == \A w \in Workers : paused[w] => late[w] <= 1

\* Two Environments of the run may be in a step at a time, when a stopped
\* worker's last step outlives a release; but then at most one of them still
\* has a connection, so no tick is transformed twice.
OneEnvironment == \A d, e \in Environments \ broken :
  stepping[d] # 0 /\ stepping[e] # 0 => d = e

\* At any time one thread of a run goes on, and one Environment steps it.
OneRun == TypeOK /\ OneLoop /\ OneEnvironment

\* A stopped worker's thread comes to its end, also from a pause or a hook,
\* unless the worker is started again; only the open hook of a newer worker
\* that was paused can hold it up, at step_lock.
Ended(w) == \/ ~stop[w] \/ ~Alive(w)
            \/ \E v \in Workers \ {w} : Alive(v) /\ paused[v]

StopEnds == \A w \in Workers : []<>Ended(w)

\* The state machine in the docstring of run_worker.py:  * -> stop() -> stopped.
\* Does not hold: a loop that begins to drain overwrites the stop.
StopMeansStopped == \A w \in Workers :
  stop[w] /\ ~Alive(w) /\ op = Idle =>
    state[w] \in Terminal \cup {"lost"}
=============================================================================
