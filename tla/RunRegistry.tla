----------------------------- MODULE RunRegistry -----------------------------
(***************************************************************************)
(* The registry of env/web/runner.py for one run: its connections, the     *)
(* leases that keep them open, the Environment and the worker it keeps in  *)
(* memory, and creation, release and deletion of the run.                  *)
(*                                                                         *)
(* A thread serves one request at a time; a worker is known by its thread. *)
(* What a thread does under _conn_lock or under registry.lock is one       *)
(* action; the lifecycle lock is held over several and is a variable.  The *)
(* worker's own states are in RunWorker, the step in StepBoundary: here a  *)
(* worker is live or ended and a step ends in one of three ways.           *)
(***************************************************************************)
EXTENDS Naturals, FiniteSets

CONSTANTS
  Requests,     \* threads that serve requests
  Loops,        \* threads of workers, as many as may overlap
  Served,       \* the operations that are requested
  OpBound       \* bound on the requests

ASSUME RegistryAssumption ==
  /\ IsFiniteSet(Requests \cup Loops) /\ Requests \cap Loops = {}
  /\ "none" \notin Requests \cup Loops
  /\ Served \subseteq {"create", "page", "observe", "read", "stream", "step",
                       "start", "stop", "delete"}
  /\ OpBound \in Nat

Threads == Requests \cup Loops
\* As many connections as can be referred to at a time: two per thread, the
\* two of the registry, that of the Environment and one just opened.
Connections == 1 .. 2 * Cardinality(Threads) + 4
None == "none"

VARIABLES
  thread,      \* per thread its operation and where it is in it
  lock,        \* holder of the run's lifecycle lock
  conns,       \* registry._conns[run_id], 0 for none
  reader,      \* registry._read_conns[run_id], 0 for none
  active,      \* registry._conn_active[run_id]
  open,        \* connections that are not closed
  deleting,    \* the run is in registry._deleting
  env,         \* connection of the Environment in registry.envs, 0 for none
  worker,      \* worker in registry.workers
  live,        \* workers whose state is not finished or stopped
  halt,        \* workers whose _stop is set
  bootstrap,   \* a bootstrap agent's process runs for the run
  disk,        \* what the run's directory holds
  status,      \* runs.status
  ops          \* requests served so far

links == <<conns, reader, active, open, deleting>>
memory == <<env, worker, live, halt, bootstrap>>
files == <<disk, status>>
vars == <<thread, lock, links, memory, files, ops>>

Idle == [op |-> None, at |-> "idle", kind |-> None, back |-> None, conn |-> 0, new |-> 0,
         held |-> FALSE, told |-> FALSE, who |-> None]

Init ==
  /\ thread = [x \in Threads |-> Idle]
  /\ lock = None
  /\ conns = 0 /\ reader = 0 /\ active = 0 /\ open = {} /\ deleting = FALSE
  /\ env = 0 /\ worker = None /\ live = {} /\ halt = {} /\ bootstrap = FALSE
  /\ disk = "nothing" /\ status = "pending"
  /\ ops = 0

At(x, place) == thread[x].at = place
Becomes(x, r) == thread' = [thread EXCEPT ![x] = r]
Goto(x, place) == Becomes(x, [thread[x] EXCEPT !.at = place])
Unlock(x) == lock' = IF lock = x THEN None ELSE lock
Free(x) == lock \in {None, x}

\* A call of conn_for ("plain"), lease_conn_for ("lease") or read_conn_for
\* ("read") that comes back at a place.
Call(x, kind, place) ==
  Becomes(x, [thread[x] EXCEPT !.at = "ask", !.kind = kind, !.back = place])

Row == disk = "run"
Ended == {"finished", "stopped"}

-----------------------------------------------------------------------------
(* Connections and leases.                                                 *)

Counted(x) == thread[x].kind # "plain"
Unused == Connections \ (open \cup {conns, reader, env}
                              \cup {thread[x].conn : x \in Threads}
                              \cup {thread[x].new : x \in Threads})
Fresh == CHOOSE c \in Unused : TRUE

\* Where a thread goes on when it gets no connection: most requests answer
\* with an error, a loop dies of it, a summary is written without.
Refused(x) ==
  CASE thread[x].back = "count"                           -> "idle"
    [] thread[x].back = "ended"                           -> "publish"
    [] thread[x].back = "failed"                          -> "release"
    [] thread[x].back = "rebuild" /\ thread[x].op = "step" -> "leave"
    [] thread[x].back = "rebuild" /\ x \in Loops          -> "publish"
    [] OTHER                                              -> "idle"

Refuse(x) ==
  /\ Becomes(x, IF Refused(x) = "idle" THEN Idle
                ELSE [thread[x] EXCEPT !.at = Refused(x), !.new = 0])
  /\ Unlock(x)

Returns(x, c) ==
  Becomes(x, IF Counted(x)
             THEN [thread[x] EXCEPT !.at = thread[x].back, !.new = 0,
                                    !.conn = c, !.held = TRUE]
             ELSE [thread[x] EXCEPT !.at = thread[x].back, !.new = c])

\* _conn_active is counted up before a connection is looked for.
Cached(x) == IF thread[x].kind = "read" /\ conns = 0 THEN reader ELSE conns

Ask(x) ==
  /\ At(x, "ask")
  /\ \/ /\ deleting /\ Refuse(x) /\ UNCHANGED active
     \/ /\ ~deleting /\ Cached(x) # 0
        /\ Returns(x, Cached(x)) /\ UNCHANGED lock
        /\ active' = IF Counted(x) THEN active + 1 ELSE active
     \/ /\ ~deleting /\ Cached(x) = 0 /\ (disk # "nothing" \/ thread[x].op = "create")
        /\ Goto(x, "open") /\ UNCHANGED lock
        /\ active' = IF Counted(x) THEN active + 1 ELSE active
     \/ /\ ~deleting /\ Cached(x) = 0 /\ disk = "nothing" /\ thread[x].op # "create"
        /\ Refuse(x) /\ UNCHANGED active
  /\ UNCHANGED <<conns, reader, open, deleting, memory, files, ops>>

\* Mutant of OpenFails: the lease of a connection that cannot be opened stays.
OpenFailsLeased(x) ==
  /\ Refuse(x) /\ UNCHANGED <<active, open, disk>>

\* The open fails, as that of a reader does when the file is gone.
OpenFails(x) ==
  /\ Refuse(x) /\ UNCHANGED <<open, disk>>
  /\ active' = IF Counted(x) THEN active - 1 ELSE active

\* The database is opened without a lock; open_db makes a missing directory
\* and an empty database in it.
Open(x) ==
  /\ At(x, "open")
  /\ \/ OpenFails(x)
     \/ /\ thread[x].kind = "read" => disk # "nothing"
        /\ Becomes(x, [thread[x] EXCEPT !.at = "register", !.new = Fresh])
        /\ open' = open \cup {Fresh}
        /\ disk' = IF disk = "nothing" THEN "empty" ELSE disk
        /\ UNCHANGED <<active, lock>>
  /\ UNCHANGED <<conns, reader, deleting, memory, status, ops>>

\* Mutant of Register: the second look at the registry is left out.
RegisterBlind(x) ==
  /\ At(x, "register") /\ ~deleting
  /\ IF thread[x].kind = "read"
     THEN reader' = thread[x].new /\ UNCHANGED conns
     ELSE conns' = thread[x].new /\ UNCHANGED reader
  /\ Returns(x, thread[x].new)
  /\ UNCHANGED <<lock, active, open, deleting, memory, files, ops>>

\* Mutant of Join: a deletion that is given up leaves its mark.
JoinMarked(x) ==
  /\ At(x, "join")
  /\ \/ At(thread[x].who, "idle") /\ Goto(x, "forget") /\ UNCHANGED bootstrap
     \/ ~At(thread[x].who, "idle") /\ Becomes(x, Idle) /\ bootstrap' = FALSE
  /\ UNCHANGED <<lock, links, env, worker, live, halt, files, ops>>

\* Under the lock again: given up for a deletion or for a connection that
\* somebody else registered meanwhile, and registered otherwise.
Register(x) ==
  LET mine == thread[x].new
      other == IF thread[x].kind = "read" /\ conns = 0 THEN reader ELSE conns
  IN /\ At(x, "register")
     /\ \/ /\ deleting
           /\ open' = open \ {mine} /\ Refuse(x)
           /\ active' = IF Counted(x) THEN active - 1 ELSE active
           /\ UNCHANGED <<conns, reader>>
        \/ /\ ~deleting /\ other # 0
           /\ open' = open \ {mine} /\ Returns(x, other)
           /\ UNCHANGED <<conns, reader, active, lock>>
        \/ /\ ~deleting /\ other = 0
           /\ IF thread[x].kind = "read"
              THEN reader' = mine /\ UNCHANGED conns
              ELSE conns' = mine /\ UNCHANGED reader
           /\ Returns(x, mine)
           /\ UNCHANGED <<open, active, lock>>
     /\ UNCHANGED <<deleting, memory, files, ops>>

\* The end of a request, with the lease it holds.
Finish(x) ==
  /\ Becomes(x, Idle)
  /\ active' = IF thread[x].held THEN active - 1 ELSE active

\* Mutant of Closable: the leases are not waited for.
ClosableNow == TRUE

\* close_run_conn waits until no lease is left.
Closable == active = 0

Close ==
  /\ conns' = 0 /\ reader' = 0 /\ open' = open \ {conns, reader}

-----------------------------------------------------------------------------
(* Requests.                                                               *)

Begin(x) ==
  /\ x \in Requests /\ At(x, "idle") /\ ops < OpBound
  /\ ops' = ops + 1
  /\ \E op \in Served :
       LET r == [Idle EXCEPT !.op = op]
           Asks(kind, place) ==
             Becomes(x, [r EXCEPT !.at = "ask", !.kind = kind, !.back = place])
       IN CASE op = "create"              -> ops = 0 /\ Asks("plain", "insert")
            [] op = "page"                -> Asks("lease", "using")
            [] op = "read"                -> Asks("read", "using")
            [] op \in {"observe", "step"} -> Asks("lease", "env")
            [] op = "stream"              ->
                 /\ worker # None
                 /\ Becomes(x, [r EXCEPT !.at = "ask", !.kind = "lease",
                                         !.back = "streaming", !.who = worker])
            [] op \in {"start", "stop"}   -> Becomes(x, [r EXCEPT !.at = "lock"])
            [] op = "delete"              -> Becomes(x, [r EXCEPT !.at = "mark"])
  /\ UNCHANGED <<lock, links, memory, files>>

\* A page, an observation or an action is answered and its lease returned;
\* a stream when the worker told it that the run ended, or its client left.
Answer(x) ==
  /\ At(x, "using") \/ At(x, "streaming")
  /\ Finish(x)
  /\ UNCHANGED <<lock, conns, reader, open, deleting, memory, files, ops>>

\* lease_env_for looks for the Environment under its lease.
FindEnv(x) ==
  /\ At(x, "env")
  /\ IF env = 0
     THEN Finish(x)
     ELSE /\ Goto(x, IF thread[x].op = "step" THEN "work" ELSE "using")
          /\ UNCHANGED active
  /\ UNCHANGED <<lock, conns, reader, open, deleting, memory, files, ops>>

\* create_run: the rows in one transaction, or none, then the Environment.
Insert(x) ==
  /\ At(x, "insert")
  /\ \/ disk' = "run" /\ Goto(x, "add env")
     \/ disk' = disk /\ Becomes(x, Idle)
  /\ UNCHANGED <<lock, links, memory, status, ops>>

AddEnv(x) ==
  /\ At(x, "add env")
  /\ env' = thread[x].new
  /\ Becomes(x, Idle) \/ Goto(x, "auto start")
  /\ UNCHANGED <<lock, links, worker, live, halt, bootstrap, files, ops>>

AutoStart(x) ==
  /\ At(x, "auto start") /\ Free(x)
  /\ lock' = x /\ Goto(x, "worker")
  /\ UNCHANGED <<links, memory, files, ops>>

\* The synchronous step of a run without a worker: its end is left open, a
\* step that raised and one that ended the run go on to release the runtime.
Work(x) ==
  /\ At(x, "work")
  /\ \/ /\ Finish(x) /\ UNCHANGED status
     \/ /\ status' = "finished" /\ Goto(x, "summary") /\ UNCHANGED active
     \/ /\ thread[x].held /\ active' = active - 1 /\ UNCHANGED status
        /\ Becomes(x, [thread[x] EXCEPT !.at = "ask", !.kind = "plain",
                                        !.back = "failed", !.held = FALSE])
  /\ UNCHANGED <<lock, conns, reader, open, deleting, memory, disk, ops>>

Failed(x) ==
  /\ At(x, "failed")
  /\ status' = IF status = "finished" THEN status ELSE "stopped"
  /\ Goto(x, "release")
  /\ UNCHANGED <<lock, links, memory, disk, ops>>

\* _persist_run_summary asks _require for the Environment, which takes the
\* lifecycle lock, and hydrates it again when it is gone.
AfterSummary(x) == IF thread[x].op = "step" THEN "leave" ELSE "publish"

Summary(x) ==
  /\ At(x, "summary") /\ Free(x)
  /\ IF env # 0
     THEN Goto(x, AfterSummary(x)) /\ UNCHANGED lock
     ELSE lock' = x /\ Call(x, "plain", "rebuild")
  /\ UNCHANGED <<links, memory, files, ops>>

\* _rehydrate: a row and a connection that can still be read make an
\* Environment, unless there is one by now.
Rebuild(x) ==
  /\ At(x, "rebuild")
  /\ IF Row /\ thread[x].new \in open
     THEN /\ env' = IF env = 0 THEN thread[x].new ELSE env
          /\ IF thread[x].op = "start"
             THEN Goto(x, "worker") /\ UNCHANGED lock
             ELSE Goto(x, AfterSummary(x)) /\ Unlock(x)
     ELSE Refuse(x) /\ UNCHANGED env
  /\ UNCHANGED <<links, worker, live, halt, bootstrap, files, ops>>

\* The finished step returns its lease before the runtime is released.
Leave(x) ==
  /\ At(x, "leave")
  /\ Becomes(x, [thread[x] EXCEPT !.at = "release", !.held = FALSE, !.conn = 0])
  /\ active' = active - 1
  /\ UNCHANGED <<lock, conns, reader, open, deleting, memory, files, ops>>

\* release_terminal_runtime, by its worker or by a request that has to read
\* that the run is over.
Release(x) ==
  /\ At(x, "release") /\ Free(x)
  /\ lock' = x
  /\ IF x \in Loops THEN Goto(x, "drop") ELSE Call(x, "read", "drop")
  /\ UNCHANGED <<links, memory, files, ops>>

\* Under registry.lock: a live worker keeps the runtime of its run.
Drop(x) ==
  /\ At(x, "drop")
  /\ IF /\ worker \notin live
        /\ IF x \in Loops THEN worker = x ELSE Row /\ status \in Ended
     THEN /\ Becomes(x, [thread[x] EXCEPT !.at = "close", !.conn = 0, !.held = FALSE])
          /\ worker' = None /\ env' = 0 /\ bootstrap' = FALSE
          /\ UNCHANGED <<live, halt, lock>>
     ELSE Becomes(x, Idle) /\ Unlock(x) /\ UNCHANGED memory
  /\ active' = IF thread[x].held THEN active - 1 ELSE active
  /\ UNCHANGED <<conns, reader, open, deleting, files, ops>>

CloseConns(x) ==
  /\ At(x, "close") /\ Closable
  /\ Close
  /\ IF thread[x].op = "delete"
     THEN Goto(x, "remove") /\ UNCHANGED lock
     ELSE Becomes(x, Idle) /\ Unlock(x)
  /\ UNCHANGED <<active, deleting, memory, files, ops>>

\* POST /start and POST /stop under the lifecycle lock, which POST /start
\* takes before it reads the run.
Control(x) ==
  /\ At(x, "lock") /\ Free(x)
  /\ lock' = x
  /\ IF thread[x].op = "stop" /\ worker # None
     THEN Goto(x, "stop worker")
     ELSE Call(x, "read", IF thread[x].op = "stop" THEN "stopping" ELSE "starting")
  /\ UNCHANGED <<links, memory, files, ops>>

\* The connection it was read with is returned at once.
Starting(x) ==
  /\ At(x, "starting")
  /\ LET r == [thread[x] EXCEPT !.held = FALSE, !.conn = 0]
     IN \/ /\ ~Row \/ status = "finished"
           /\ Becomes(x, Idle) /\ Unlock(x)
        \/ /\ Row /\ status # "finished" /\ env # 0
           /\ Becomes(x, [r EXCEPT !.at = "worker"]) /\ UNCHANGED lock
        \/ /\ Row /\ status # "finished" /\ env = 0
           /\ Becomes(x, [r EXCEPT !.at = "ask", !.kind = "plain", !.back = "rebuild"])
           /\ UNCHANGED lock
  /\ active' = active - 1
  /\ UNCHANGED <<conns, reader, open, deleting, memory, files, ops>>

\* A live worker is left alone, an ended one is replaced even while its thread
\* still runs.  Without a thread that is free the model starts no other.
MakeWorker(x) ==
  /\ At(x, "worker")
  /\ \/ /\ worker \in live \/ \A l \in Loops : ~At(l, "idle")
        /\ Becomes(x, Idle) /\ Unlock(x) /\ UNCHANGED <<worker, live, halt>>
     \/ /\ worker \notin live
        /\ \E l \in Loops :
             /\ At(l, "idle")
             /\ worker' = l /\ live' = live \cup {l} /\ halt' = halt \ {l}
             /\ Becomes(x, [thread[x] EXCEPT !.at = "ask", !.kind = "plain",
                                             !.back = "spawn", !.who = l])
        /\ UNCHANGED lock
  /\ UNCHANGED <<links, env, bootstrap, files, ops>>

Spawn(x) ==
  /\ At(x, "spawn")
  /\ status' = "running"
  /\ thread' = [thread EXCEPT ![x].at = "agent",
                   ![thread[x].who] = [Idle EXCEPT !.op = "loop", !.at = "top"]]
  /\ UNCHANGED <<lock, links, memory, disk, ops>>

\* The bootstrap agent is spawned before the lifecycle lock is let go.
SpawnAgent(x) ==
  /\ At(x, "agent")
  /\ bootstrap' = TRUE
  /\ Becomes(x, Idle) /\ Unlock(x)
  /\ UNCHANGED <<links, env, worker, live, halt, files, ops>>

Stopping(x) ==
  /\ At(x, "stopping")
  /\ IF Row /\ status \notin Ended
     THEN /\ Becomes(x, [thread[x] EXCEPT !.at = "ask", !.kind = "plain",
                           !.back = "stopped", !.held = FALSE, !.conn = 0])
          /\ UNCHANGED lock
     ELSE Becomes(x, Idle) /\ Unlock(x)
  /\ active' = active - 1
  /\ UNCHANGED <<conns, reader, open, deleting, memory, files, ops>>

Stopped(x) ==
  /\ At(x, "stopped")
  /\ status' = "stopped"
  /\ Call(x, "read", "drop")
  /\ UNCHANGED <<lock, links, memory, disk, ops>>

\* RunWorker.stop, which writes only when no deletion asked for it; a run
\* without a live thread is released at once.
StopWorker(x) ==
  /\ At(x, "stop worker")
  /\ bootstrap' = FALSE
  /\ IF worker = None
     THEN Becomes(x, Idle) /\ Unlock(x) /\ UNCHANGED <<env, worker, live, halt, status>>
     ELSE /\ halt' = halt \cup {worker} /\ live' = live \ {worker}
          /\ status' = IF status \in Ended \/ deleting THEN status ELSE "stopped"
          /\ IF At(worker, "idle")
             THEN /\ worker' = None /\ env' = 0 /\ Goto(x, "close")
                  /\ UNCHANGED lock
             ELSE Becomes(x, Idle) /\ Unlock(x) /\ UNCHANGED <<env, worker>>
  /\ UNCHANGED <<links, disk, ops>>

-----------------------------------------------------------------------------
(* delete_run.                                                             *)

Mark(x) ==
  /\ At(x, "mark")
  /\ IF disk = "nothing" \/ deleting
     THEN Becomes(x, Idle) /\ UNCHANGED deleting
     ELSE /\ deleting' = TRUE
          /\ Becomes(x, [thread[x] EXCEPT !.who = worker,
                           !.at = IF worker # None THEN "halt" ELSE "forget"])
  /\ UNCHANGED <<lock, conns, reader, active, open, memory, files, ops>>

\* worker.stop(persist=False) takes the lifecycle lock for a moment.
Halt(x) ==
  /\ At(x, "halt") /\ Free(x)
  /\ IF worker = thread[x].who
     THEN halt' = halt \cup {worker} /\ live' = live \ {worker}
     ELSE UNCHANGED <<halt, live>>
  /\ Goto(x, "join")
  /\ UNCHANGED <<lock, links, env, worker, bootstrap, files, ops>>

\* The thread is given two seconds; then the deletion is given up.
Join(x) ==
  /\ At(x, "join")
  /\ \/ /\ At(thread[x].who, "idle")
        /\ Goto(x, "forget") /\ UNCHANGED <<deleting, bootstrap>>
     \/ /\ ~At(thread[x].who, "idle")
        /\ Becomes(x, Idle) /\ deleting' = FALSE /\ bootstrap' = FALSE
  /\ UNCHANGED <<lock, conns, reader, active, open, env, worker, live, halt,
                 files, ops>>

Forget(x) ==
  /\ At(x, "forget")
  /\ worker' = None /\ env' = 0 /\ bootstrap' = FALSE
  /\ Goto(x, "wait")
  /\ UNCHANGED <<lock, links, live, halt, files, ops>>

\* Once the leases are returned the status is written and the database is
\* checkpointed, through a connection of its own if there is none.
WaitLeases(x) ==
  /\ At(x, "wait") /\ Closable
  /\ status' = IF Row THEN "stopped" ELSE status
  /\ Goto(x, "close")
  /\ UNCHANGED <<lock, links, memory, disk, ops>>

Remove(x) ==
  /\ At(x, "remove")
  /\ disk' \in {"nothing", disk}
  /\ deleting' = FALSE
  /\ Becomes(x, Idle)
  /\ UNCHANGED <<lock, conns, reader, active, open, memory, status, ops>>

-----------------------------------------------------------------------------
(* The worker's thread.                                                    *)

\* Every turn of the loop counts the active orders under a lease.
Top(l) ==
  /\ At(l, "top")
  /\ IF l \in halt THEN Goto(l, "publish") ELSE Call(l, "lease", "count")
  /\ UNCHANGED <<lock, links, memory, files, ops>>

\* The run goes on, is over, or its step raises.
Count(l) ==
  /\ At(l, "count")
  /\ LET r == [thread[l] EXCEPT !.held = FALSE, !.conn = 0]
     IN \/ Becomes(l, [r EXCEPT !.at = "top"]) /\ UNCHANGED <<live, status>>
        \/ /\ live' = live \ {l} /\ UNCHANGED status
           /\ Becomes(l, [r EXCEPT !.at = "ask", !.kind = "plain", !.back = "ended"])
        \/ /\ live' = live \ {l}
           /\ status' = IF deleting \/ l \in halt THEN status ELSE "stopped"
           /\ Becomes(l, [r EXCEPT !.at = "publish"])
  /\ active' = active - 1
  /\ UNCHANGED <<lock, conns, reader, open, deleting, env, worker, halt,
                 bootstrap, disk, ops>>

MarkFinished(l) ==
  /\ At(l, "ended")
  /\ status' = "finished"
  /\ Goto(l, "summary")
  /\ UNCHANGED <<lock, links, memory, disk, ops>>

\* The streams that listen to the worker are told that the run ended.
Publish(l) ==
  /\ At(l, "publish")
  /\ thread' = [x \in Threads |->
       IF x = l THEN [thread[x] EXCEPT !.at = "release", !.conn = 0]
       ELSE IF thread[x].op = "stream" /\ thread[x].who = l
            THEN [thread[x] EXCEPT !.told = TRUE]
            ELSE thread[x]]
  /\ UNCHANGED <<lock, links, memory, files, ops>>

Request(x) ==
  \/ Ask(x) \/ Open(x) \/ Register(x) \/ Answer(x) \/ FindEnv(x)
  \/ Insert(x) \/ AddEnv(x) \/ AutoStart(x)
  \/ Work(x) \/ Failed(x) \/ Summary(x) \/ Rebuild(x) \/ Leave(x)
  \/ Release(x) \/ Drop(x) \/ CloseConns(x)
  \/ Control(x) \/ Starting(x) \/ MakeWorker(x) \/ Spawn(x) \/ SpawnAgent(x)
  \/ Stopping(x) \/ Stopped(x) \/ StopWorker(x)
  \/ Mark(x) \/ Halt(x) \/ Join(x) \/ Forget(x) \/ WaitLeases(x) \/ Remove(x)

WorkerLoop(l) == Top(l) \/ Count(l) \/ MarkFinished(l) \/ Publish(l)

Next == \/ \E x \in Requests : Begin(x)
        \/ \E x \in Threads : Request(x)
        \/ \E l \in Loops : WorkerLoop(l)

\* A thread runs on, but a stream only ends by itself when it is told to.
Runs(x) == Request(x) /\ (At(x, "streaming") => thread[x].told)

Spec == /\ Init /\ [][Next]_vars
        /\ \A x \in Threads : WF_vars(Runs(x))
        /\ \A l \in Loops : WF_vars(WorkerLoop(l))

-----------------------------------------------------------------------------
(* Properties.                                                             *)

\* The connection a thread was lent stays open until the lease is returned,
\* whatever is released or deleted meanwhile (close_run_conn, delete_run
\* against lease_conn_for and read_conn_for).
LeaseProtects == \A x \in Threads : thread[x].held => thread[x].conn \in open

\* The count of the leases is the number of threads inside one or on their way
\* into one: no path of an error loses a lease or returns one twice, which
\* would keep every later deletion waiting or let one through too early.
LeasesCounted ==
  active = Cardinality({x \in Threads :
    thread[x].held \/ (Counted(x) /\ thread[x].at \in {"open", "register"})})

\* Every open connection can still be closed by somebody: it is registered, or
\* in the hands of the thread that opened it.
NoLeak == \A c \in open :
  c \in {conns, reader} \/ \E x \in Threads : At(x, "register") /\ thread[x].new = c

\* No path of an error loses a lease or a connection.
NothingLost == LeasesCounted /\ NoLeak

\* The lifecycle lock is never held by a thread that waits for leases while one
\* of the leases is held by a thread that waits for that lock.  Does not hold: a
\* last step under a lease and the release of the run wait for each other.
NoCircularWait == \A x, y \in Threads :
  ~ /\ lock = x /\ At(x, "close")
    /\ thread[y].held /\ At(y, "summary")

\* A stream whose worker has not told it of an end.
Listening == \E x \in Requests : At(x, "streaming") /\ ~thread[x].told

\* A deletion comes to an end, with the run gone or given up, as long as no
\* stream listens and the circular wait does not happen: it is never left
\* waiting for a lease that some path of an error forgot.
DeletionEnds == []<>(~deleting \/ Listening \/ ~NoCircularWait)
=============================================================================
