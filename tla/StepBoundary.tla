---------------------------- MODULE StepBoundary ----------------------------
(***************************************************************************)
(* The boundary between the environment's steps and its agents:            *)
(* Environment.step of env/core/simulator.py with the durable marker       *)
(* (runs.current_t, pending_hook_t, pending_hook_closed), the hook that    *)
(* lets the agents act, the /observation and /act routes of                *)
(* env/web/routes_agent.py that agents reach it by, and the idempotency    *)
(* cache and step trace in files beside the database.                      *)
(*                                                                         *)
(* One process steps the run while the requests of the agents run on       *)
(* other threads.  env.lock is the variable lock; whatever happens while   *)
(* a thread holds it, and cannot be seen from outside even by a crash, is  *)
(* one action.  A crash loses the memory and keeps the database and the    *)
(* files; the next request or step rehydrates the run.                     *)
(*                                                                         *)
(* What a transition does to the run is OrderBook and SupplierPool; here   *)
(* it happens as a whole and may kill agents.  An agent asks for an        *)
(* observation, makes one mutating tool call per decision, alone or with   *)
(* the end_of_step behind it, and sends what has not been answered again.  *)
(* A request that was lost is one not sent yet.                            *)
(***************************************************************************)
EXTENDS Integers, FiniteSets, Sequences, SequencesExt

CONSTANTS
  Agents,
  LastTick,     \* bound on t
  IdemCap,      \* IdemCache.cap
  Declares,     \* the clients send X-Agent-Step, as the SDK does
  Settings      \* what a run may be: [team (its agents), horizon (run.horizon_steps: later ticks drain
                \* and open no hook), period (agent.activation_period), quota (agent.max_turns_per_step, 0
                \* for none), polls (agents may send nowait=1), and bounds: last (on t), crashes, turns (an
                \* agent records in one tick)]

ASSUME BoundaryAssumption ==
  /\ IsFiniteSet(Agents) /\ Agents \cap {"none", "worker"} = {} /\ LastTick \in Nat /\ IdemCap \in Nat \ {0}
  /\ Declares \in BOOLEAN
  /\ Settings \subseteq [team : (SUBSET Agents) \ {{}}, horizon : Nat, period : Nat \ {0}, quota : Nat,
                         polls : BOOLEAN, last : 0 .. LastTick, crashes : Nat, turns : Nat]

VARIABLES
  \* The database and the files.
  current,      \* runs.current_t
  pending,      \* runs.pending_hook_t
  closed,       \* runs.pending_hook_closed
  moved,        \* how often the transition of every tick was committed
  ran,          \* how often every decision's mutation was committed, per tick
  idem,         \* idem_cache.json, oldest entry first
  trace,        \* turns in by_step/t_<tick>.json per agent, or Missing
  cost,         \* turns in cost.json by_step
  live,         \* agents.is_alive
  \* The memory of the process.
  t,            \* Environment.t
  pc,           \* where the stepping thread is
  lock,         \* holder of env.lock: "none", "worker" or an agent's request
  active,       \* active_hook_agents
  done,         \* hook_done_agents
  open,         \* hook_open
  event,        \* hook_event
  turns,        \* len(turns_meta_by_agent)
  observed,     \* some observation_packet was served in this tick
  cache,        \* idem_cache, least recently used entry first
  taken,        \* the step trace the stepping thread has copied or read back
  \* The agents.
  seen,         \* step of the latest observation
  next,         \* what the agent sends next, or "compose": the route is about to answer its request
  \* The run of the model.
  said,         \* turns acknowledged per tick, in this and earlier processes
  kept,         \* turns in the trace when the hook was marked closed
  ahead,        \* who had ended the step when its hook was opened, until it is closed
  crashes,
  setting

durable == <<current, pending, closed, moved, ran, idem, trace, cost, live>>
memory == <<t, pc, lock, active, done, open, event, turns, observed,
            cache, taken>>
clients == <<seen, next>>
history == <<said, kept, ahead, crashes, setting>>
vars == <<durable, memory, clients, history>>

None == -1
Ticks == 0 .. LastTick
NoTurns == [a \in Agents |-> 0]
Missing == [a \in Agents |-> None]      \* the step has no trace file
Turns(file) == IF file = Missing THEN NoTurns ELSE file
\* An idempotency key: the agent, the tick the call is executed in and the
\* decision (named by the step it was made at) its tool_call_id stands for.
Keys == Agents \X Ticks \X Ticks

Init ==
  /\ setting \in Settings
  /\ current = 0 /\ pending = None /\ closed = FALSE
  /\ moved = [s \in Ticks |-> 0]
  /\ ran = [k \in Keys |-> 0]
  /\ idem = <<>>
  /\ trace = [s \in Ticks |-> Missing] /\ cost = [s \in Ticks |-> NoTurns]
  /\ live = setting.team
  /\ t = 0 /\ pc = "idle" /\ lock = "none"
  /\ active = {} /\ done = {} /\ open = FALSE /\ event = FALSE
  /\ turns = NoTurns /\ observed = FALSE /\ cache = <<>> /\ taken = Missing
  /\ seen = [a \in Agents |-> None] /\ next = [a \in Agents |-> "observe"]
  /\ said = [s \in Ticks |-> NoTurns] /\ kept = [s \in Ticks |-> NoTurns]
  /\ ahead = {} /\ crashes = 0

-----------------------------------------------------------------------------
(* The stepping thread.                                                    *)

HookPart == <<open, event, active, done>>
Files == <<idem, trace, cost>>

\* Mutant of BeginTransition: the marker is not looked at, a restarted step
\* replays its transition.
ReplayTransition ==
  /\ pc = "idle" /\ lock = "none" /\ t < setting.last
  /\ pc' = "moving" /\ lock' = "worker"
  /\ UNCHANGED <<durable, t, HookPart, turns, observed, cache, taken,
                 clients, history>>

\* step() without a marker: the transition of t under env.lock.  It is seen,
\* by a reader or by a restart, when mark_step_transition_committed commits.
BeginTransition ==
  /\ pc = "idle" /\ lock = "none" /\ t < setting.last /\ pending = None
  /\ pc' = "moving" /\ lock' = "worker"
  /\ UNCHANGED <<durable, t, HookPart, turns, observed, cache, taken,
                 clients, history>>

CommitTransition ==
  /\ pc = "moving"
  /\ moved' = [moved EXCEPT ![t] = @ + 1]
  /\ live' \in SUBSET live
  /\ pending' = t /\ closed' = FALSE
  /\ pc' = "reset" /\ lock' = "none"
  /\ UNCHANGED <<current, ran, Files, t, HookPart, turns, observed, cache,
                 taken, clients, history>>

\* step() with a marker of an earlier process: _resume_committed_step.  A hook
\* that was closed is not opened again, its trace is read back instead.
ResumeTransition ==
  /\ pc = "idle" /\ lock = "none" /\ pending = t
  /\ IF closed THEN pc' = "final" /\ taken' = trace[t]
               ELSE pc' = "reset" /\ UNCHANGED taken
  /\ UNCHANGED <<durable, t, lock, HookPart, turns, observed, cache,
                 clients, history>>

\* The agents of the hook, under turn_lock only.
AgentActive == t < setting.horizon /\ t % setting.period = 0

ResetHook ==
  /\ pc = "reset"
  /\ active' = IF AgentActive THEN live ELSE {}
  /\ done' = {}
  /\ pc' = IF active' # {} THEN "open" ELSE "closing"
  /\ UNCHANGED <<durable, t, lock, open, event, turns, observed, cache,
                 taken, clients, history>>

\* Mutant of OpenHook: the event of the tick before is not cleared.
OpenUncleared ==
  /\ pc = "open" /\ lock = "none"
  /\ open' = TRUE /\ ahead' = done
  /\ pc' = "waiting"
  /\ UNCHANGED <<durable, t, lock, active, done, event, turns, observed, cache,
                 taken, clients, said, kept, crashes, setting>>

OpenHook ==
  /\ pc = "open" /\ lock = "none"
  /\ event' = FALSE /\ open' = TRUE /\ ahead' = done
  /\ pc' = "waiting"
  /\ UNCHANGED <<durable, t, lock, active, done, turns, observed, cache,
                 taken, clients, said, kept, crashes, setting>>

\* hook_blocker returns on the event; or it gives up after max_hook_seconds,
\* or because the run is stopped.
ReleasedHook ==
  /\ pc = "waiting" /\ event
  /\ pc' = "shut"
  /\ UNCHANGED <<durable, t, lock, HookPart, turns, observed, cache, taken,
                 clients, history>>

\* Mutant of GiveUpHook: without max_hook_seconds.
GiveUpNever ==
  /\ pc = "waiting" /\ ~event /\ active = {}
  /\ pc' = "shut"
  /\ UNCHANGED <<durable, t, lock, HookPart, turns, observed, cache, taken,
                 clients, history>>

GiveUpHook ==
  /\ pc = "waiting" /\ ~event
  /\ pc' = "shut"
  /\ UNCHANGED <<durable, t, lock, HookPart, turns, observed, cache, taken,
                 clients, history>>

CloseHook ==
  /\ pc = "shut" /\ lock = "none"
  /\ open' = FALSE /\ pc' = "closing" /\ ahead' = {}
  /\ UNCHANGED <<durable, t, lock, event, active, done, turns, observed,
                 cache, taken, clients, said, kept, crashes, setting>>

\* The artifacts of the hook are copied under turn_lock, written without a
\* lock, and only then the hook is marked closed.
Recorded == IF observed \/ turns # NoTurns THEN turns ELSE Missing

CopyTrace ==
  /\ pc = "closing"
  /\ taken' = Recorded /\ pc' = "writing"
  /\ UNCHANGED <<durable, t, lock, HookPart, turns, observed, cache,
                 clients, history>>

WriteTrace ==
  /\ pc = "writing"
  /\ trace' = IF taken = Missing THEN trace ELSE [trace EXCEPT ![t] = taken]
  /\ pc' = "mark"
  /\ UNCHANGED <<current, pending, closed, moved, ran, idem, cost, live, t,
                 lock, HookPart, turns, observed, cache, taken, clients,
                 history>>

\* Mutant of MarkClosed: the final write uses the copy made at the boundary.
MarkClosedWithCopy ==
  /\ pc = "mark"
  /\ closed' = TRUE
  /\ kept' = [kept EXCEPT ![t] = Turns(taken)]
  /\ pc' = "final"
  /\ UNCHANGED <<current, pending, moved, ran, Files, live, t, lock, HookPart,
                 turns, observed, cache, taken, clients, said, ahead, crashes, setting>>

MarkClosed ==
  /\ pc = "mark"
  /\ closed' = TRUE
  /\ kept' = [kept EXCEPT ![t] = Turns(taken)]
  /\ taken' = Missing /\ pc' = "final"
  /\ UNCHANGED <<current, pending, moved, ran, Files, live, t, lock, HookPart,
                 turns, observed, cache, clients, said, ahead, crashes, setting>>

\* Mutant of Finalize: the trace read back is not handed to update_cost.
FinalizeMixed ==
  LET final == IF taken # Missing THEN taken ELSE Recorded IN
  /\ pc = "final" /\ lock = "none"
  /\ lock' = "worker" /\ pc' = "commit"
  /\ IF final = Missing
     THEN UNCHANGED <<trace, cost>>
     ELSE /\ trace' = [trace EXCEPT ![t] = final]
          /\ cost' = [cost EXCEPT ![t] = turns]
  /\ turns' = NoTurns /\ observed' = FALSE
  /\ active' = {} /\ done' = {} /\ taken' = Missing
  /\ UNCHANGED <<current, pending, closed, moved, ran, idem, live, t, open,
                 event, cache, clients, history>>

\* Under env.lock: the files of the step are written for good and the buffers
\* cleared; a crash before the COMMIT leaves the files and the marker.
Finalize ==
  LET final == IF taken # Missing THEN taken ELSE Recorded IN
  /\ pc = "final" /\ lock = "none"
  /\ lock' = "worker" /\ pc' = "commit"
  /\ IF final = Missing
     THEN UNCHANGED <<trace, cost>>
     ELSE /\ trace' = [trace EXCEPT ![t] = final]
          /\ cost' = [cost EXCEPT ![t] = final]
  /\ turns' = NoTurns /\ observed' = FALSE
  /\ active' = {} /\ done' = {} /\ taken' = Missing
  /\ UNCHANGED <<current, pending, closed, moved, ran, idem, live, t, open,
                 event, cache, clients, history>>

\* Mutant of CommitClock: the marker stays when the clock advances.
CommitClockMarked ==
  /\ pc = "commit"
  /\ current' = t + 1
  /\ t' = t + 1
  /\ pc' = "idle" /\ lock' = "none"
  /\ UNCHANGED <<pending, closed, moved, ran, Files, live, HookPart, turns,
                 observed, cache, taken, clients, history>>

CommitClock ==
  /\ pc = "commit"
  /\ current' = t + 1 /\ pending' = None /\ closed' = FALSE
  /\ t' = t + 1
  /\ pc' = "idle" /\ lock' = "none"
  /\ UNCHANGED <<moved, ran, Files, live, HookPart, turns, observed, cache,
                 taken, clients, history>>

Work == \/ BeginTransition \/ CommitTransition \/ ResumeTransition
        \/ ResetHook \/ OpenHook \/ ReleasedHook \/ GiveUpHook \/ CloseHook
        \/ CopyTrace \/ WriteTrace \/ MarkClosed \/ Finalize \/ CommitClock

-----------------------------------------------------------------------------
(* The requests of the agents.                                             *)

\* GET /observation waits for the hook to be open, under hook_cond, unless it is
\* sent with nowait=1, ...
Notice(a) ==
  /\ next[a] = "observe" /\ a \in live /\ (open \/ setting.polls)
  /\ next' = [next EXCEPT ![a] = "compose"]
  /\ UNCHANGED <<durable, memory, seen, history>>

\* ... and composes the observation without a lock: by then the hook may be
\* closed and the clock further.
Observe(a) ==
  /\ next[a] = "compose" /\ a \in live
  /\ seen' = [seen EXCEPT ![a] = t]
  /\ \E n \in {"call", "call and end", "end"} : next' = [next EXCEPT ![a] = n]
  /\ observed' = TRUE
  /\ UNCHANGED <<durable, t, pc, lock, HookPart, turns, cache, taken, history>>

\* Any route answers 410 to a dead agent, and the agent leaves.
Leave(a) ==
  /\ next[a] # "gone" /\ a \notin live
  /\ next' = [next EXCEPT ![a] = "gone"]
  /\ UNCHANGED <<durable, memory, seen, history>>

Quota(a) == setting.quota > 0 /\ turns[a] >= setting.quota
\* Mutant of Stale: the header is not compared.
StaleNever(a) == FALSE

Stale(a) == Declares /\ seen[a] # t
Calling == {"call", "call and end"}

\* POST /act refused: 425 stale_step sends the agent back to the observation,
\* and so does 425 hook_closed; 429 leaves it only the end of the step.
Refuse(a) ==
  /\ lock = "none" /\ a \in live
  /\ \/ /\ next[a] \in Calling \cup {"end"} /\ Stale(a)
        /\ next' = [next EXCEPT ![a] = "observe"]
     \/ /\ next[a] \in Calling /\ ~Stale(a) /\ ~open
        /\ next' = [next EXCEPT ![a] = "observe"]
     \/ /\ next[a] \in Calling /\ ~Stale(a) /\ open /\ Quota(a)
        /\ next' = [next EXCEPT ![a] = "end"]
  /\ UNCHANGED <<durable, memory, seen, history>>

Accepted(a) == /\ next[a] \in Calling /\ a \in live
               /\ ~Stale(a) /\ open /\ ~Quota(a)

Key(a) == <<a, t, seen[a]>>
Cached(k) == \E i \in DOMAIN cache : cache[i] = k

\* Mutant of Put: the result is not cached.
PutNothing(c, k) == c

\* OrderedDict: move_to_end, and popitem(last=False) beyond the cap.
Without(c, k) == IF \E i \in DOMAIN c : c[i] = k
                 THEN RemoveAt(c, CHOOSE i \in DOMAIN c : c[i] = k) ELSE c
Put(c, k) ==
  LET longer == Append(Without(c, k), k)
  IN  IF Len(longer) > IdemCap THEN Tail(longer) ELSE longer

\* The turn of a request: record_act appends it and writes the step live.
Record(a) ==
  /\ turns[a] < setting.turns
  /\ turns' = [turns EXCEPT ![a] = @ + 1]
  /\ trace' = [trace EXCEPT ![t] = turns']
  /\ said' = [said EXCEPT ![t][a] = @ + 1]

\* mark_agent_step_done, and hook_event.set() when it returned True.
Hooked == IF active = {} THEN live ELSE active \cap live

\* Mutant of EndStep: the comparison is made before the agent is added.
EndStepEarly(a) ==
  /\ active' = Hooked
  /\ done' = IF a \in Hooked THEN done \cup {a} ELSE done
  /\ event' = (event \/ (active' # {} /\ active' \subseteq done))

EndStep(a) ==
  /\ active' = Hooked
  /\ done' = IF a \in Hooked THEN done \cup {a} ELSE done
  /\ event' = (event \/ (active' # {} /\ active' \subseteq done'))

\* The answer arrives, or it is lost and the agent sends the request again.
Answered(a, then) == \/ next' = [next EXCEPT ![a] = then]
                     \/ UNCHANGED next

\* A mutating call with a new key: with_idempotency runs the tool, whose
\* changes are in the database when it returns, ...
Execute(a) ==
  /\ lock = "none" /\ Accepted(a) /\ ~Cached(Key(a)) /\ turns[a] < setting.turns
  /\ ran' = [ran EXCEPT ![Key(a)] = @ + 1]
  /\ lock' = a
  /\ UNCHANGED <<current, pending, closed, moved, Files, live, t, pc, HookPart,
                 turns, observed, cache, taken, clients, history>>

\* ... and the rest of /act: the key is cached and persisted, an end_of_step
\* behind the call is marked, the turn recorded and the answer sent.
Acknowledge(a) ==
  /\ lock = a
  /\ cache' = Put(cache, Key(a)) /\ idem' = cache'
  /\ Record(a)
  /\ IF next[a] = "call and end"
     THEN EndStep(a) /\ Answered(a, "observe")
     ELSE UNCHANGED <<active, done, event>> /\ Answered(a, "end")
  /\ lock' = "none"
  /\ UNCHANGED <<current, pending, closed, moved, ran, cost, live, t, pc, open,
                 observed, taken, seen, kept, ahead, crashes, setting>>

\* A key in the cache is answered from it; it becomes the latest one, which
\* is persisted only with the next mutation.
Replay(a) ==
  /\ lock = "none" /\ Accepted(a) /\ Cached(Key(a))
  /\ cache' = Put(cache, Key(a))
  /\ Record(a)
  /\ IF next[a] = "call and end"
     THEN EndStep(a) /\ Answered(a, "observe")
     ELSE UNCHANGED <<active, done, event>> /\ Answered(a, "end")
  /\ UNCHANGED <<current, pending, closed, moved, ran, idem, cost, live, t, pc,
                 lock, open, observed, taken, seen, kept, ahead, crashes, setting>>

\* A pure end_of_step needs neither an open hook nor quota.
End(a) ==
  /\ lock = "none" /\ next[a] = "end" /\ a \in live /\ ~Stale(a)
  /\ EndStep(a) /\ Record(a) /\ Answered(a, "observe")
  /\ UNCHANGED <<current, pending, closed, moved, ran, idem, cost, live, t, pc,
                 lock, open, observed, cache, taken, seen, kept, ahead, crashes, setting>>

Request(a) == \/ Notice(a) \/ Observe(a) \/ Leave(a) \/ Refuse(a) \/ Execute(a)
              \/ Acknowledge(a) \/ Replay(a) \/ End(a)

-----------------------------------------------------------------------------
\* The process dies and the run is rehydrated: _rehydrate, load_idem.  An
\* observation it had not answered is asked for again.
Crash ==
  /\ crashes < setting.crashes
  /\ crashes' = crashes + 1
  /\ t' = current /\ pc' = "idle" /\ lock' = "none"
  /\ active' = {} /\ done' = {} /\ open' = FALSE /\ event' = FALSE
  /\ turns' = NoTurns /\ observed' = FALSE
  /\ cache' = idem /\ taken' = Missing
  /\ next' = [a \in Agents |-> IF next[a] = "compose" THEN "observe" ELSE next[a]]
  /\ ahead' = {}
  /\ UNCHANGED <<durable, seen, said, kept, setting>>

Next == Work \/ Crash \/ \E a \in setting.team : Request(a)

\* The loop of run_worker.py keeps stepping and, unless the run is paused,
\* waits max_hook_seconds at most in a hook; a request under way ends.  No
\* agent has to send anything.
Spec == Init /\ [][Next]_vars /\ WF_vars(Work)
        /\ \A a \in Agents : WF_vars(Acknowledge(a))

-----------------------------------------------------------------------------
(* Properties.                                                             *)

Lives == {"idle", "moving", "reset", "open", "waiting", "shut", "closing",
          "writing", "mark", "final", "commit"}
Counts == [Agents -> 0 .. setting.turns]

\* Every variable stays in its type; the database names no tick but the next.
TypeOK ==
  /\ current \in Ticks /\ pending \in {None, current} /\ closed \in BOOLEAN
  /\ moved \in [Ticks -> Nat] /\ ran \in [Keys -> Nat]
  /\ idem \in Seq(Keys) /\ live \subseteq Agents
  /\ trace \in [Ticks -> Counts \cup {Missing}] /\ cost \in [Ticks -> Counts]
  /\ t = current /\ pc \in Lives /\ lock \in Agents \cup {"none", "worker"}
  /\ active \subseteq Agents /\ done \subseteq Agents
  /\ {open, event, observed} \subseteq BOOLEAN
  /\ turns \in Counts /\ cache \in Seq(Keys)
  /\ taken \in Counts \cup {Missing}
  /\ seen \in [Agents -> Ticks \cup {None}]
  /\ next \in [Agents -> Calling \cup {"observe", "compose", "end", "gone"}]
  /\ said \in [Ticks -> [Agents -> Nat]] /\ kept \in [Ticks -> Counts]
  /\ setting \in Settings /\ ahead \subseteq Agents /\ crashes \in 0 .. setting.crashes

\* The boundary implements the clock the experiment assumes: crash it where
\* you like, every tick is transformed once and before its agents act, and a
\* mutation falls into the tick whose hook is open (Environment.step).
Stage == IF pending = None THEN "before"
         ELSE IF closed THEN "after" ELSE "acting"
Deeds == [s \in Ticks |-> [d \in Agents \X Ticks |-> ran[<<d[1], s, d[2]>>]]]
Clock == INSTANCE TickCycle
           WITH Decisions <- Agents \X Ticks,
                clock <- current, stage <- Stage, moves <- moved, deeds <- Deeds
ImplementsTickCycle == Clock!Spec

\* An agent that declares the step of its observation never has a decision
\* executed in another tick, whatever it sends again (check_stale_step, twice).
NoStaleAction == Declares => \A k \in Keys : ran[k] > 0 => k[2] = k[3]

\* The same decision is executed again only by the next process after a crash:
\* while a process lives its idempotency cache answers every repetition.
RanOncePerLife == \A k \in Keys : ran[k] <= 1 + crashes

\* An agent's decision runs in the tick it was made for, and once while the
\* process lives.
ActsOnce == NoStaleAction /\ RanOncePerLife

\* What the docstring of with_idempotency says of its record: it is on the
\* same side of a crash as the mutation, so nothing is executed twice.
\* Does not hold after a crash between the two.
RanOnce == \A k \in Keys : ran[k] <= 1

\* The hook is released only when every active agent has ended this very step
\* after observing it (mark_agent_step_done and check_stale_step).
WaitsForAll == pc = "waiting" /\ event
                 => \A a \in active : a \in done /\ seen[a] = t

\* An end_of_step that releases the hook is not lost: the stepping thread does not
\* wait for agents that have all ended the step, unless they ended it ahead of its
\* hook.  An agent that knows the step already, from a hook before a restart or from
\* an observation composed after the hook before had closed, may end it between the
\* reset and the opening; hook_event.clear() then forgets it.
ReleaseIsKept ==
  pc = "waiting" /\ active \subseteq done => event \/ active \subseteq ahead

\* The hook waits for whom it should: it is released exactly when everyone who
\* acts in it has ended this step, and every variable keeps its type.
HookWaits == TypeOK /\ WaitsForAll /\ ReleaseIsKept

\* Without a crash the trace and the cost of a finished step hold every turn
\* acknowledged in it, late end_of_step requests included (record_act against
\* the two writes of _run_hook_and_finalize).
TraceComplete == crashes = 0 =>
  \A s \in Ticks : s < current => Turns(trace[s]) = said[s] /\ cost[s] = said[s]

\* cost.json charges a finished step for nothing, or for exactly the turns its
\* trace shows, also when a crash fell between the files and the COMMIT
\* (update_cost is repeated when a closed hook is resumed).
CostIsTraced == \A s \in Ticks :
  s < current => cost[s] \in {NoTurns, Turns(trace[s])}

\* What an agent is charged for is what its trace shows, through every crash, and
\* all it did, without one.
ChargesRight == TraceComplete /\ CostIsTraced

\* What the comment above write_step_index says: a restart after the marker is
\* set finishes the step without losing the turns of the agents.  Does not hold: an
\* end_of_step sent again overwrites them.
KeptTurns == \A s \in Ticks, a \in Agents :
  s < current => Turns(trace[s])[a] >= kept[s][a]

\* The run is stepped to its end whatever its agents do or fail to do: the
\* wait for them is bounded and no request keeps the lock (hook_blocker).
ReachesEnd == <>(current = setting.last)

=============================================================================
