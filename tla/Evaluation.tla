------------------------------ MODULE Evaluation ------------------------------
(***************************************************************************)
(* An evaluation: a batch (scripts/run_batch.py) has the service create    *)
(* runs and polls them, agents of Baselines play them, CostLedger counts   *)
(* what they cost, and what became of a run goes into its summary, the     *)
(* history of experiments and the summary of the batch.  The batch, the    *)
(* service and every agent are processes of their own.  A run is known by  *)
(* the index of its job; its hooks are every tick.                         *)
(***************************************************************************)
EXTENDS CostLedger, Baselines

CONSTANTS
  Procs,        \* processes of agents that may be started
  PerDay,       \* ticks of a day
  MaxParallel,  \* max_parallel of the batch
  Reports,      \* late usage: [id, usage, own (model), reported]
  Limits        \* what a behaviour may have: [jobs (kinds of agents), memory, ticks (of a run), and how many
                \* replies and fails (of models), losses (of requests or answers), gives (hooks that time out), acts (of agents
                \* that are not modelled), reports, risks, faults (of batch requests), stops, crashes, starts,
                \* rebuilds and idle rounds of the batch]

Bounds == {"replies", "fails", "losses", "gives", "acts", "reports", "risks", "faults", "stops", "crashes", "starts", "rebuilds", "rounds"}

ASSUME EvaluationAssumption ==
  /\ MaxParallel \in Nat /\ PerDay \in Nat \ {0} /\ 0 \notin Procs
  /\ \A l \in Limits : /\ l.jobs \in Seq({"react", "random", "report", "other"})
                       /\ l.memory \in BOOLEAN /\ l.ticks \in Nat /\ \A what \in Bounds : l[what] \in Nat
  /\ \A report \in Reports :
       /\ report.usage \in [input : Nat, cache : Nat, output : Nat, reasoning : Nat, total : Int, legacy : BOOLEAN]
       /\ report.own \in BOOLEAN /\ report.reported \in Int

VARIABLES
  phase,     \* of a run: none, active, stopping, stopped, over, marked, summed, loading, done
  t,         \* its tick
  hook,      \* closed, open or shut: released, its step not finished
  looked,    \* an observation was served in this hook
  turns,     \* usages of the turns of this step, in memory
  trace,     \* of the steps before, in files
  cost,      \* cost.json
  shop,      \* [shelf, risky]: what is listed, what suppliers fail to deliver
  child,     \* bootstrap_procs: the process of its agent, or 0
  proc,      \* what every process keeps, see Baselines
  summary,   \* run_summary.json, or Nothing
  rows,      \* run_history.jsonl
  held,      \* what writers of the history have loaded
  lock,      \* _HISTORY_LOCK of the service: a run, or 0
  batch,     \* [pc, next, active, todo, completed, results, failures, read]
  told,      \* per process: the runtime health its accepted acts carried
  faced,     \* per process: the failures it met
  lossy,     \* processes that lost an answer
  crowded,   \* runs that two processes have played
  dropped,   \* per run: what was taken off its shelf in this hook
  relisted,  \* a process listed what it took off in the same hook
  excused,   \* runs whose row may be missing
  used, limit

runs == <<phase, t, hook, looked, turns, trace, cost>>
agents == <<child, proc>>
history == <<summary, rows, held, lock, excused>>
health == <<told, faced, lossy>>
shelves == <<shop, dropped, relisted>>
bounds == <<used, limit>>
vars == <<runs, shelves, agents, history, health, batch, crowded, bounds>>

Nothing == <<>>
None == 0
Jobs == 1 .. Len(limit.jobs)
AllJobs == UNION {DOMAIN l.jobs : l \in Limits}
Use(what) == used[what] < limit[what] /\ used' = [used EXCEPT ![what] = @ + 1] /\ UNCHANGED limit

Alive(p) == proc[p] # Nothing /\ proc[p].pc # "gone"
Gone(a) == [a EXCEPT !.pc = "gone"]
Day(r) == t[r] \div PerDay

Init ==
  /\ limit \in Limits /\ used = [what \in Bounds |-> 0]
  /\ phase = [r \in AllJobs |-> "none"] /\ t = [r \in AllJobs |-> 0] /\ hook = [r \in AllJobs |-> "closed"]
  /\ looked = [r \in AllJobs |-> FALSE] /\ turns = [r \in AllJobs |-> <<>>] /\ trace = [r \in AllJobs |-> <<>>]
  /\ cost = [r \in AllJobs |-> NoCost]
  /\ shop = [r \in AllJobs |-> [shelf |-> {}, risky |-> {}]]
  /\ child = [r \in AllJobs |-> None] /\ proc = [p \in Procs |-> Nothing]
  /\ summary = [r \in AllJobs |-> Nothing] /\ rows = <<>> /\ held = <<>> /\ lock = None
  /\ batch = [pc |-> "fill", next |-> 1, active |-> {}, todo |-> <<>>, completed |-> {}, results |-> {},
              failures |-> <<>>, read |-> <<>>]
  /\ told = [p \in Procs |-> [failed |-> 0, spent |-> 0]] /\ faced = told
  /\ lossy = {} /\ crowded = {} /\ excused = {}
  /\ dropped = [r \in AllJobs |-> {}] /\ relisted = FALSE

-----------------------------------------------------------------------------
(* The service starts and ends runs and their agents.                      *)

Kinds == {"react", "random", "report"}
Process(r) == IF limit.jobs[r] = "react" THEN React(r) ELSE Rule(r, limit.jobs[r])

\* A new process for a run, unless the one the service knows still runs.
Spawn(r) ==
  IF limit.jobs[r] \notin Kinds \/ (child[r] # None /\ Alive(child[r])) THEN UNCHANGED <<agents, crowded>>
  ELSE \E p \in Procs :
         /\ proc[p] = Nothing
         /\ proc' = [proc EXCEPT ![p] = Process(r)] /\ child' = [child EXCEPT ![r] = p]
         /\ crowded' = IF \E q \in Procs : Alive(q) /\ proc[q].run = r THEN crowded \cup {r} ELSE crowded

Kill(r) ==
  /\ child' = [child EXCEPT ![r] = None]
  /\ proc' = IF child[r] = None THEN proc ELSE [proc EXCEPT ![child[r]] = Gone(@)]

\* create_run: the run starts and its agent with it.
Created(r) ==
  /\ phase' = [phase EXCEPT ![r] = "active"]
  /\ Spawn(r)
  /\ UNCHANGED <<t, hook, looked, turns, trace, cost, shelves, history, health>>

\* The operator starts a stopped run again.
StartAgain(r) ==
  /\ phase[r] = "stopped" /\ Use("starts")
  /\ phase' = [phase EXCEPT ![r] = "active"]
  /\ Spawn(r)
  /\ UNCHANGED <<t, hook, looked, turns, trace, cost, shelves, history, health, batch>>

\* The operator stops a run: the step under way is finished.
Stop(r) ==
  /\ phase[r] = "active" /\ Use("stops")
  /\ phase' = [phase EXCEPT ![r] = "stopping"]
  /\ hook' = [hook EXCEPT ![r] = IF @ = "open" THEN "shut" ELSE @]
  /\ Kill(r)
  /\ UNCHANGED <<t, looked, turns, trace, cost, shelves, history, health, batch, crowded>>

Stopped(r) ==
  /\ phase[r] = "stopping" /\ hook[r] = "closed"
  /\ phase' = [phase EXCEPT ![r] = "stopped"]
  /\ UNCHANGED <<t, hook, looked, turns, trace, cost, shelves, agents, history, health, batch, crowded, bounds>>

\* The service dies and comes back: what was running is stopped, what had been
\* marked is finished, and the agents go on without their service knowing.
Crash ==
  /\ Use("crashes")
  /\ phase' = [r \in AllJobs |-> CASE phase[r] \in {"active", "stopping", "over"} -> "stopped"
                                   [] phase[r] \in {"marked", "summed", "loading"} -> "done"
                                   [] OTHER -> phase[r]]
  /\ hook' = [r \in AllJobs |-> "closed"] /\ looked' = [r \in AllJobs |-> FALSE]
  /\ turns' = [r \in AllJobs |-> <<>>]
  /\ child' = [r \in AllJobs |-> None]
  /\ excused' = excused \cup {r \in AllJobs : phase[r] \in {"marked", "summed", "loading"}}
  /\ held' = [w \in DOMAIN held \ AllJobs |-> held[w]] /\ lock' = None
  /\ UNCHANGED <<t, trace, cost, shelves, proc, summary, rows, health, batch, crowded>>

-----------------------------------------------------------------------------
(* The steps of a run.                                                     *)

OpenHook(r) ==
  /\ phase[r] = "active" /\ hook[r] = "closed" /\ t[r] < limit.ticks
  /\ hook' = [hook EXCEPT ![r] = "open"]
  /\ dropped' = [dropped EXCEPT ![r] = {}]
  /\ UNCHANGED <<phase, t, looked, turns, trace, cost, shop, relisted, agents, history, health, batch, crowded, bounds>>

\* The hook is given up after max_hook_seconds.
GiveUp(r) ==
  /\ phase[r] = "active" /\ hook[r] = "open" /\ Use("gives")
  /\ hook' = [hook EXCEPT ![r] = "shut"]
  /\ UNCHANGED <<phase, t, looked, turns, trace, cost, shelves, agents, history, health, batch, crowded>>

\* The step is written down and counted, and the next one begins; suppliers
\* may fail or recover.
FinishStep(r) ==
  /\ hook[r] = "shut"
  /\ IF looked[r] \/ turns[r] # <<>>
     THEN /\ trace' = [trace EXCEPT ![r] = With(@, t[r], turns[r])]
          /\ cost' = [cost EXCEPT ![r] = Recomputed(@, t[r], turns[r])]
     ELSE UNCHANGED <<trace, cost>>
  /\ t' = [t EXCEPT ![r] = @ + 1] /\ hook' = [hook EXCEPT ![r] = "closed"]
  /\ turns' = [turns EXCEPT ![r] = <<>>] /\ looked' = [looked EXCEPT ![r] = FALSE]
  /\ \/ UNCHANGED <<shop, bounds>>
     \/ \E product \in Products :
          /\ Use("risks")
          /\ shop' = [shop EXCEPT ![r].risky = SymDiff(@, {product})]
  /\ UNCHANGED <<phase, dropped, relisted, agents, history, health, batch, crowded>>

\* The worker finds the horizon reached and nothing left to drain.
Over(r) ==
  /\ phase[r] = "active" /\ hook[r] = "closed" /\ t[r] >= limit.ticks
  /\ phase' = [phase EXCEPT ![r] = "over"]
  /\ UNCHANGED <<t, hook, looked, turns, trace, cost, shelves, agents, history, health, batch, crowded, bounds>>

\* _mark_finished marks the run, writes its summary and then its row.
Mark(r) ==
  /\ phase[r] = "over"
  /\ phase' = [phase EXCEPT ![r] = "marked"]
  /\ UNCHANGED <<t, hook, looked, turns, trace, cost, shelves, agents, history, health, batch, crowded, bounds>>

Summarize(r) ==
  /\ phase[r] = "marked"
  /\ summary' = [summary EXCEPT ![r] = [status |-> "finished", total |-> cost[r].total, by |-> cost[r].by]]
  /\ phase' = [phase EXCEPT ![r] = "summed"]
  /\ UNCHANGED <<t, hook, looked, turns, trace, cost, shelves, agents, rows, held, lock, excused, health, batch,
                 crowded, bounds>>

\* Late usage of a run whose runtime is loaded; what is sent again, or is not
\* valid, changes nothing.
Report(r, report, step) ==
  /\ phase[r] \in {"active", "stopping", "over", "marked", "summed", "loading"} /\ step \in 0 .. t[r]
  /\ Valid(report.usage) /\ ~Empty(report.usage)
  /\ Use("reports")
  /\ cost' = [cost EXCEPT ![r] = Recorded(@, report.id, Entry(step, report.usage, report.own, report.reported))]
  /\ UNCHANGED <<phase, t, hook, looked, turns, trace, shelves, agents, history, health, batch, crowded>>

-----------------------------------------------------------------------------
(* Writers of the history: the service for a run, the batch, a rebuild.    *)

Batch == -1
Rebuild == -2
\* A writer reads the file, and later writes it back with its own row; what
\* another process writes in between is lost.
Reads(w) == held' = With(held, w, rows)
Writes(w, new) ==
  /\ rows' = new
  /\ held' = [x \in DOMAIN held \ {w} |-> held[x]]
Foreign(w) == {x \in DOMAIN held : x # w /\ ~(x \in AllJobs /\ w \in AllJobs)}
Noted(w, some) == excused' = IF Foreign(w) = {} THEN excused ELSE excused \cup some

\* Mutant of LoadHistory: without the lock.
LoadUnlocked(r) ==
  /\ phase[r] = "summed"
  /\ Reads(r) /\ lock' = r
  /\ phase' = [phase EXCEPT ![r] = "loading"]
  /\ UNCHANGED <<t, hook, looked, turns, trace, cost, shelves, agents, summary, rows, excused, health, batch, crowded,
                 bounds>>

LoadHistory(r) ==
  /\ phase[r] = "summed" /\ lock = None
  /\ Reads(r) /\ lock' = r
  /\ phase' = [phase EXCEPT ![r] = "loading"]
  /\ UNCHANGED <<t, hook, looked, turns, trace, cost, shelves, agents, summary, rows, excused, health, batch, crowded,
                 bounds>>

\* The row is there, the runtime released and the agent killed.
WriteHistory(r) ==
  /\ phase[r] = "loading"
  /\ Writes(r, Upserted(held[r], Row(r, summary[r], NoLabel, NoLabel))) /\ Noted(r, {r})
  /\ lock' = None
  /\ phase' = [phase EXCEPT ![r] = "done"]
  /\ Kill(r)
  /\ UNCHANGED <<t, hook, looked, turns, trace, cost, shelves, summary, health, batch, crowded, bounds>>

\* scripts/rebuild_run_history.py, from the summaries and ledgers it finds.
RebuildScan ==
  /\ Rebuild \notin DOMAIN held /\ Use("rebuilds")
  /\ held' = With(held, Rebuild, Rebuilt({r \in AllJobs : phase[r] # "none"}, summary, cost))
  /\ UNCHANGED <<runs, shelves, agents, summary, rows, lock, excused, health, batch, crowded>>

RebuildWrite ==
  /\ Rebuild \in DOMAIN held
  /\ Writes(Rebuild, held[Rebuild]) /\ Noted(Rebuild, AllJobs)
  /\ UNCHANGED <<runs, shelves, agents, summary, lock, health, batch, crowded, bounds>>

-----------------------------------------------------------------------------
(* Requests of an agent's process, through the SDK.                        *)

Loaded == {"active", "stopping", "over", "marked", "summed", "loading"}
NoUsage == Usage(0, 0, 0, 0, 0, FALSE)
TurnUsage == Usage(1, 1, 1, 0, 3, FALSE)

\* /observation answers once a hook is open, and ends the agent of a run that
\* is over.
Observe(p) ==
  LET a == proc[p]  r == a.run IN
  /\ Alive(p) /\ a.pc = "observe" /\ phase[r] = "active" /\ hook[r] = "open"
  /\ proc' = [proc EXCEPT ![p] = IF a.kind = "react" THEN Observed(a, t[r], limit.memory) ELSE Starts(a, t[r])]
  /\ looked' = [looked EXCEPT ![r] = TRUE]
  /\ UNCHANGED <<phase, t, hook, turns, trace, cost, shelves, child, history, health, batch, crowded, bounds>>

Leave(p) ==
  /\ Alive(p) /\ proc[p].pc = "observe" /\ phase[proc[p].run] \notin {"active", "stopping"}
  /\ proc' = [proc EXCEPT ![p] = Gone(@)]
  /\ UNCHANGED <<runs, shelves, child, history, health, batch, crowded, bounds>>

\* /act is taken in the tick the agent observed: while the hook is open, or if
\* all it does is end the step.
Sends(p) == Alive(p) /\ proc[p].pc \notin {"observe", "think"}
Accepts(r, step, ends) == phase[r] \in Loaded /\ step = t[r] /\ (hook[r] = "open" \/ ends)
Take(r, usage, ends) ==
  /\ turns' = [turns EXCEPT ![r] = Append(@, usage)]
  /\ hook' = [hook EXCEPT ![r] = IF ends /\ @ = "open" THEN "shut" ELSE @]
  /\ UNCHANGED <<phase, t, looked, trace, cost>>

-----------------------------------------------------------------------------
(* ReAct: a call of the model, and the act that follows.                   *)

ModelFails(p, kind) ==
  /\ Alive(p) /\ proc[p].pc = "think" /\ Use("fails")
  /\ LET b == Failed(proc[p], kind) IN
       /\ proc' = [proc EXCEPT ![p] = b]
       /\ faced' = [faced EXCEPT ![p] = [failed |-> @.failed + 1, spent |-> @.spent + b.spent - proc[p].spent]]
  /\ UNCHANGED <<runs, shelves, child, history, told, lossy, batch, crowded>>

\* Tools with or without the end of the step, or the end alone.
ModelReplies(p, said, ends, usage) ==
  /\ Alive(p) /\ proc[p].pc = "think" /\ (said = "calls" \/ ends) /\ Use("replies")
  /\ proc' = [proc EXCEPT ![p] = Replied(@, said, ends, usage)]
  /\ UNCHANGED <<runs, shelves, child, history, health, batch, crowded>>

Alone(a) == a.ends /\ a.said # "calls"
Told(p) == told' = [told EXCEPT ![p] = [failed |-> @.failed + proc[p].failed, spent |-> @.spent + proc[p].spent]]

ActTaken(p) ==
  LET a == proc[p] IN
  /\ Sends(p) /\ a.kind = "react" /\ Accepts(a.run, a.step, Alone(a))
  /\ Take(a.run, IF a.pc = "act" THEN TurnUsage ELSE NoUsage, a.ends)
  /\ Told(p)
  /\ \/ /\ proc' = [proc EXCEPT ![p] = Answered(a, limit.memory)]
        /\ UNCHANGED <<lossy, bounds>>
     \/ /\ Use("losses")
        /\ lossy' = lossy \cup {p}
        /\ proc' = [proc EXCEPT ![p] = IF a.last THEN Gone(a) ELSE Crashed(a)]
  /\ UNCHANGED <<shelves, child, history, faced, batch, crowded>>

\* The request is lost on its way.
ActLost(p) ==
  LET a == proc[p] IN
  /\ Sends(p) /\ a.kind = "react" /\ Use("losses")
  /\ proc' = [proc EXCEPT ![p] = IF a.last THEN Gone(a) ELSE Crashed(a)]
  /\ UNCHANGED <<runs, shelves, child, history, health, batch, crowded>>

\* Refused: 425 takes the turn back, 410 forces its end, and so does a refusal
\* of calls while the hook is open (malformed, over the quota); a forced end that
\* is refused changes no more than the reminder.
ActRefused(p) ==
  LET a == proc[p]
      open == Accepts(a.run, a.step, Alone(a))
  IN
  /\ Sends(p) /\ a.kind = "react" /\ (open => a.pc = "act" /\ ~Alone(a))
  /\ proc' = [proc EXCEPT ![p] = CASE a.pc = "force" -> Refused(a)
                                   [] a.pc = "act" /\ phase[a.run] \in Loaded /\ ~open -> TakenBack(a)
                                   [] OTHER -> Forced(a, "says")]
  /\ UNCHANGED <<runs, shelves, child, history, health, batch, crowded, bounds>>

-----------------------------------------------------------------------------
(* The rule based agent: one tool call per act.                            *)

Act(p, b) ==
  /\ Accepts(proc[p].run, proc[p].step, proc[p].pc = "end")
  /\ Take(proc[p].run, TurnUsage, proc[p].pc = "end")
  /\ \/ proc' = [proc EXCEPT ![p] = b] /\ UNCHANGED bounds
     \/ proc' = [proc EXCEPT ![p] = Gone(b)] /\ Use("losses")   \* no answer
  /\ UNCHANGED <<child, history, health, batch, crowded>>
Is(p, pc) == Alive(p) /\ proc[p].kind = "rule" /\ proc[p].pc = pc
Shelf(p) == shop[proc[p].run].shelf
Takes(r, products) ==
  /\ shop' = [shop EXCEPT ![r].shelf = @ \ products]
  /\ dropped' = [dropped EXCEPT ![r] = @ \cup (products \cap shop[r].shelf)]
  /\ UNCHANGED relisted

AskBalance(p) ==
  /\ Is(p, "balance")
  /\ \E poor \in BOOLEAN : Act(p, [proc[p] EXCEPT !.poor = poor, !.pc = "shelf"])
  /\ UNCHANGED shelves

AskShelf(p) == Is(p, "shelf") /\ Act(p, Shelved(proc[p], Shelf(p))) /\ UNCHANGED shelves

\* Short of cash: the whole shelf is taken off and the step ended.
Clear(p) == /\ Is(p, "clear") /\ Act(p, [proc[p] EXCEPT !.pc = "end"])
            /\ Takes(proc[p].run, proc[p].picks)

AskRisks(p) == Is(p, "risks") /\ Act(p, Risked(proc[p], shop[proc[p].run].risky)) /\ UNCHANGED shelves

Drop(p) == /\ Is(p, "drop") /\ Act(p, Dropped(proc[p]))
           /\ Takes(proc[p].run, proc[p].picks)

\* Prices are adjusted by an act, if any.
Adjust(p) ==
  /\ Is(p, "price")
  /\ LET b == Priced(proc[p], Day(proc[p].run)) IN
       \/ Act(p, b)
       \/ /\ proc' = [proc EXCEPT ![p] = b]
          /\ UNCHANGED <<runs, child, history, health, batch, crowded, bounds>>
  /\ UNCHANGED shelves

Review(p) ==
  /\ Is(p, "review")
  /\ \E stale \in SUBSET proc[p].shelf : Act(p, Reviewed(proc[p], stale, Day(proc[p].run)))
  /\ UNCHANGED shelves

DropUnsold(p) ==
  /\ Is(p, "unsold")
  /\ Act(p, Seeds([proc[p] EXCEPT !.shelf = @ \ proc[p].picks], Day(proc[p].run)))
  /\ Takes(proc[p].run, proc[p].picks)

\* The report and the pages of a search are one act here; what they show is
\* for the catalog to say.
Search(p) ==
  /\ Is(p, "search")
  /\ \E picks \in SUBSET Candidates(proc[p]) :
       /\ Cardinality(picks) <= Target(proc[p])
       /\ Act(p, Picked(proc[p], picks, Day(proc[p].run)))
  /\ UNCHANGED shelves

\* list_product may refuse some of the products.
List(p) ==
  /\ Is(p, "list") /\ Act(p, Listed(proc[p], Day(proc[p].run)))
  /\ \E new \in SUBSET proc[p].picks :
       /\ shop' = [shop EXCEPT ![proc[p].run].shelf = @ \cup new]
       /\ relisted' = (relisted \/ (new \cap dropped[proc[p].run] # {} /\ proc[p].run \notin crowded))
  /\ UNCHANGED dropped

End(p) == Is(p, "end") /\ Act(p, [proc[p] EXCEPT !.pc = "observe"]) /\ UNCHANGED shelves

\* Refused: 410 ends the process, after 425 it observes again; a request that is
\* lost ends it.
RuleRefused(p) ==
  LET a == proc[p] IN
  /\ Sends(p) /\ a.kind = "rule" /\ ~Accepts(a.run, a.step, a.pc = "end")
  /\ proc' = [proc EXCEPT ![p] = IF phase[a.run] \in Loaded THEN [a EXCEPT !.pc = "observe"] ELSE Gone(a)]
  /\ UNCHANGED <<runs, shelves, child, history, health, batch, crowded, bounds>>

RuleLost(p) ==
  /\ Sends(p) /\ proc[p].kind = "rule" /\ Use("losses")
  /\ proc' = [proc EXCEPT ![p] = Gone(@)]
  /\ UNCHANGED <<runs, shelves, child, history, health, batch, crowded>>

\* An agent that is not modelled takes a turn.
OtherTurn(r, ends) ==
  /\ limit.jobs[r] = "other" /\ Accepts(r, t[r], FALSE) /\ Use("acts")
  /\ Take(r, TurnUsage, ends)
  /\ UNCHANGED <<shelves, agents, history, health, batch, crowded>>

-----------------------------------------------------------------------------
(* The batch.  Its failures are [index, tracked]: tracked if it knew the    *)
(* run.                                                                     *)

Failure(i, tracked) == [index |-> i, tracked |-> tracked]
FailedJobs(failures) == {failures[i].index : i \in DOMAIN failures}

\* Mutant of Orphaned: also those that have ended in this round.
OrphanedAll(results, failures, except) ==
  LET left == batch.active \ {except} IN
  failures \o [i \in 1 .. Cardinality(left) |-> Failure(Sorted(left)[i], TRUE)]

\* _collect_orphaned_runs: what is still active when the batch gives up fails.
Orphaned(results, failures, except) ==
  LET left == batch.active \ (results \cup FailedJobs(failures) \cup {except}) IN
  failures \o [i \in 1 .. Cardinality(left) |-> Failure(Sorted(left)[i], TRUE)]

\* A batch that ends or gives up writes its summary, unless it gave up without
\* a result.
AfterRuns(b) == [b EXCEPT !.pc = IF b.failures = <<>> \/ b.results # {} THEN "sum" ELSE "end", !.todo = <<>>,
                          !.completed = {}]

\* The queue is filled up, then every active run is asked for.  A round that
\* begins before any of them has ended changes nothing unless one ends or a
\* request fails meanwhile, and is counted.
CreateRun ==
  LET i == batch.next IN
  /\ batch.pc = "fill" /\ i \in Jobs /\ Cardinality(batch.active) < MaxParallel
  /\ Created(i)
  /\ batch' = [batch EXCEPT !.active = @ \cup {i}, !.next = @ + 1]
  /\ UNCHANGED bounds

\* A creation that fails, or whose answer is lost, ends the batch.
GivesUp(failures, except) ==
  batch' = AfterRuns([batch EXCEPT !.failures = Orphaned(batch.results, failures, except)])

CreateFails ==
  LET i == batch.next IN
  /\ batch.pc = "fill" /\ i \in Jobs /\ Cardinality(batch.active) < MaxParallel
  /\ Use("faults")
  /\ GivesUp(Append(batch.failures, Failure(i, FALSE)), None)
  /\ \/ Created(i)
     \/ UNCHANGED <<runs, shelves, agents, history, health, crowded>>

Round ==
  /\ batch.pc = "fill" /\ (batch.next \notin Jobs \/ Cardinality(batch.active) >= MaxParallel)
  /\ batch' = IF batch.active = {} THEN AfterRuns(batch)
              ELSE [batch EXCEPT !.pc = "poll", !.todo = Sorted(batch.active), !.completed = {}]
  /\ IF batch.active = {} \/ \E r \in batch.active : phase[r] # "active" THEN UNCHANGED bounds ELSE Use("rounds")
  /\ UNCHANGED <<runs, shelves, agents, history, health, crowded>>

\* The status of a run: stopped fails it, its phase tells whether it has ended.
Ask ==
  LET i == Head(batch.todo)
      asked == [batch EXCEPT !.todo = Tail(@)]
  IN
  /\ batch.pc = "poll" /\ batch.todo # <<>>
  /\ batch' = CASE phase[i] \in {"stopping", "stopped"} ->
                     [asked EXCEPT !.failures = Append(@, Failure(i, TRUE)), !.completed = @ \cup {i}]
                [] phase[i] \in {"over", "marked", "summed", "loading", "done"} ->
                     [asked EXCEPT !.results = @ \cup {i}, !.completed = @ \cup {i}]
                [] OTHER -> asked
  /\ UNCHANGED <<runs, shelves, agents, history, health, crowded, bounds>>

AskFails ==
  /\ batch.pc = "poll" /\ batch.todo # <<>> /\ Use("faults")
  /\ GivesUp(Append(batch.failures, Failure(Head(batch.todo), TRUE)), Head(batch.todo))
  /\ UNCHANGED <<runs, shelves, agents, history, health, crowded>>

Asked ==
  /\ batch.pc = "poll" /\ batch.todo = <<>>
  /\ batch' = [batch EXCEPT !.pc = "fill", !.active = @ \ batch.completed, !.completed = {}]
  /\ UNCHANGED <<runs, shelves, agents, history, health, crowded, bounds>>

\* write_batch_summary: the summaries there are, then a row for each of them.
ReadSummaries ==
  /\ batch.pc = "sum"
  /\ batch' = [batch EXCEPT !.pc = "upsert", !.read = [r \in batch.results |-> summary[r]],
                            !.todo = Sorted({r \in batch.results : summary[r] # Nothing})]
  /\ UNCHANGED <<runs, shelves, agents, history, health, crowded, bounds>>

BatchLoad ==
  /\ batch.pc = "upsert" /\ batch.todo # <<>> /\ Batch \notin DOMAIN held
  /\ Reads(Batch)
  /\ UNCHANGED <<runs, shelves, agents, summary, rows, lock, excused, health, batch, crowded, bounds>>

BatchWrite ==
  LET r == Head(batch.todo) IN
  /\ batch.pc = "upsert" /\ Batch \in DOMAIN held
  /\ Writes(Batch, Upserted(held[Batch], Row(r, batch.read[r], "model", "batch"))) /\ Noted(Batch, {r})
  /\ batch' = [batch EXCEPT !.todo = Tail(@)]
  /\ UNCHANGED <<runs, shelves, agents, summary, lock, health, crowded, bounds>>

BatchEnds ==
  /\ batch.pc = "upsert" /\ batch.todo = <<>>
  /\ batch' = [batch EXCEPT !.pc = "end"]
  /\ UNCHANGED <<runs, shelves, agents, history, health, crowded, bounds>>

-----------------------------------------------------------------------------
Service == \/ \E r \in Jobs :
                \/ StartAgain(r) \/ Stop(r) \/ Stopped(r) \/ OpenHook(r) \/ GiveUp(r) \/ FinishStep(r) \/ Over(r)
                \/ Mark(r) \/ Summarize(r) \/ LoadHistory(r) \/ WriteHistory(r)
                \/ \E report \in Reports, step \in 0 .. limit.ticks : Report(r, report, step)
                \/ \E ends \in BOOLEAN : OtherTurn(r, ends)
           \/ Crash \/ RebuildScan \/ RebuildWrite

ReactStep(p) == \/ \E kind \in {"transient", "forbidden", "fatal"} : ModelFails(p, kind)
                \/ \E said \in {"calls", "says", "nothing"}, ends, usage \in BOOLEAN : ModelReplies(p, said, ends, usage)
                \/ ActTaken(p) \/ ActLost(p) \/ ActRefused(p)
RuleStep(p) == \/ AskBalance(p) \/ AskShelf(p) \/ Clear(p) \/ AskRisks(p) \/ Drop(p) \/ Adjust(p) \/ Review(p)
               \/ DropUnsold(p) \/ Search(p) \/ List(p) \/ End(p) \/ RuleRefused(p) \/ RuleLost(p)

RunModels == \/ CreateRun \/ CreateFails \/ Round \/ Ask \/ AskFails \/ Asked \/ ReadSummaries \/ BatchLoad
             \/ BatchWrite \/ BatchEnds

Next == Service \/ RunModels \/ \E p \in Procs : Observe(p) \/ Leave(p) \/ ReactStep(p) \/ RuleStep(p)

Spec == Init /\ [][Next]_vars

-----------------------------------------------------------------------------
(* Properties.                                                             *)

\* The ledger adds up: every step is the turns written down for it and the late
\* usage that names it, and the total is all steps, whatever came in which order.
LedgerAddsUp == \A r \in Jobs : LET c == cost[r] IN
  /\ c.total = FoldFunction(Plus, Zero, c.by)
  /\ \A s \in 0 .. limit.ticks :
       At(c, s) = Plus(StepAmount(IF s \in DOMAIN trace[r] THEN trace[r][s] ELSE <<>>), Lines(c.entries, s))

\* An agent tells of every failed call of its model: what its acts carried and
\* what it will carry is what it faced, or more if an answer was lost.
HealthReported == \A p \in Procs : (Alive(p) /\ proc[p].kind = "react") =>
  \A k \in {"failed", "spent"} :
    /\ told[p][k] + proc[p][k] >= faced[p][k]
    /\ p \notin lossy => told[p][k] + proc[p][k] = faced[p][k]

\* A conversation is one a provider takes: results follow their call and every
\* call has one; a compaction is due exactly while its message waits to be sent;
\* and, unless the run was started again, no tick is observed twice and no message
\* of a turn that was taken back is left.  Not after a turn was compacted and then
\* taken back.
HistorySound == \A p \in Procs : (proc[p] # Nothing /\ proc[p].kind = "react" /\ ~proc[p].odd) =>
  LET h == proc[p].history IN
  /\ proc[p].pending = proc[p].note
  /\ \A i \in DOMAIN h : /\ OfTool(h[i]) => i > 1 /\ h[i - 1].role = "calls"
                         /\ h[i].role = "calls" => i < Len(h) /\ OfTool(h[i + 1])
  /\ used.starts = 0 => \A i \in DOMAIN h :
       /\ h[i].step \notin proc[p].back
       /\ \A j \in DOMAIN h : h[i] = h[j] /\ h[i].role = "observation" => i = j

\* One rule based agent never lists more than its shelf holds, and never lists
\* again what it has just taken off.
ShelfKept == /\ \A r \in Jobs : r \notin crowded => Cardinality(shop[r].shelf) <= SeedCount
             /\ ~relisted

\* The batch accounts for every run it started, once: as active, as a result or
\* as a failure.
BatchAccounts ==
  LET b == batch
      failed == FailedJobs(b.failures)
  IN /\ Cardinality(failed) = Len(b.failures) /\ b.results \cap failed = {}
     /\ {i \in Jobs : i < b.next} \subseteq b.results \cup failed \cup b.active
     /\ b.pc \in {"sum", "upsert", "end"} => {i \in Jobs : i < b.next} \subseteq b.results \cup failed
     /\ b.pc \in {"fill", "poll"} => b.active \cap (b.results \cup failed) \subseteq b.completed
     /\ Cardinality(b.active) <= MaxParallel

\* The history has a row of every run that has a summary, with what it cost.
HistoryKeeps == \A r \in Jobs : (phase[r] = "done" /\ summary[r] # Nothing /\ r \notin excused) =>
  /\ r \in DOMAIN Index(rows)
  /\ Index(rows)[r].turns = summary[r].total.turns /\ Index(rows)[r].usd = summary[r].total.usd
=============================================================================
