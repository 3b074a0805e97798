-------------------------- MODULE RunRegistryProofs --------------------------
(***************************************************************************)
(* Proofs about RunRegistry: a connection that was lent is open until it   *)
(* is returned, and the count of the leases is the leases there are.       *)
(*                                                                         *)
(* The inductive invariant Inv says of every thread what its place in the  *)
(* code implies: the kind of call it is in and where that call comes back, *)
(* whether it has a lease and holds the lifecycle lock, and that the count *)
(* includes it from the moment a call is counted until its lease is gone.  *)
(* Most steps only move one thread and leave the connections alone, and    *)
(* are proved through one lemma each about where the thread goes to.       *)
(***************************************************************************)
EXTENDS RunRegistry, FiniteSetTheorems, TLAPS

-----------------------------------------------------------------------------
(* The inductive invariant.                                                *)

Handles == Connections \cup {0}
Names ==
  Served \cup {None, "loop", "plain", "lease", "read",
    "idle", "ask", "open", "register", "lock", "mark", "insert", "add env", "auto start",
    "worker", "spawn", "agent", "using", "streaming", "env", "work", "failed", "summary",
    "rebuild", "leave", "release", "drop", "close", "starting", "stopping", "stopped",
    "stop worker", "halt", "join", "forget", "wait", "remove", "top", "count", "ended",
    "publish"}
ThreadState ==
  [op : Names, at : Names, kind : Names, back : Names,
   conn : Handles, new : Handles, held : BOOLEAN, told : BOOLEAN,
   who : Loops \cup {None}]

Types ==
  /\ thread \in [Threads -> ThreadState]
  /\ lock \in Threads \cup {None}
  /\ active \in Nat
  /\ open \subseteq Connections
  /\ conns \in Handles /\ reader \in Handles /\ env \in Handles
  /\ worker \in Loops \cup {None}

Asking == {"ask", "open", "register"}

\* What a thread does with a connection it leases, and with one it only uses.
Leased == {"using", "env", "streaming", "drop", "starting", "stopping", "count"}
Borrowed == {"insert", "failed", "rebuild", "spawn", "stopped", "ended"}

\* The thread in the state r is at a place, or in the call that comes back there.
Bound(r, place) == r.at = place \/ (r.at \in Asking /\ r.back = place)

\* The places at which the thread x, in the state r, is under a lease.
UnderLease(x, r) ==
  \/ r.at \in {"env", "using", "streaming", "work", "leave", "count",
               "starting", "stopping"}
  \/ r.at = "summary" /\ r.op = "step"
  \/ r.at = "drop" /\ x \in Requests
  \/ Bound(r, "rebuild") /\ r.op = "step"

\* A worker was made and its thread is not started yet.
Starts(r) == Bound(r, "spawn")

\* The places at which the lifecycle lock is held.
UnderLock(r) ==
  \/ r.at \in {"worker", "agent"}
  \/ Bound(r, "spawn") \/ Bound(r, "starting") \/ Bound(r, "rebuild")

\* What the state r of the thread x says of its operation, its calls and its lease.
Shape(x, r) ==
  /\ r.at # "idle" => (r.op = "loop" <=> x \in Loops)
  /\ r.at \in Asking => IF r.kind = "plain" THEN r.back \in Borrowed
                        ELSE r.kind \in {"lease", "read"} /\ r.back \in Leased
  /\ r.held <=> UnderLease(x, r)
  /\ r.at = "work" => r.op = "step"
  /\ r.at = "summary" => r.op \in {"step", "loop"}
  /\ r.at = "lock" => r.op \in {"start", "stop"}
  /\ Bound(r, "starting") => r.op = "start"
  /\ Bound(r, "stopping") \/ Bound(r, "stopped") => r.op = "stop"
  /\ Bound(r, "rebuild") => r.op \in {"step", "start", "loop"} /\ r.back = "rebuild"
  /\ r.at \in Asking /\ r.back = "drop" => x \in Requests

Shapes == \A x \in Threads : Shape(x, thread[x])
Locked == \A x \in Threads : UnderLock(thread[x]) => lock = x
Spawned == \A x \in Threads : Starts(thread[x]) =>
  thread[x].who \in Loops /\ At(thread[x].who, "idle")

\* A thread that the count of the leases has to include.
Owes(r) == r.held \/ (r.kind # "plain" /\ r.at \in {"open", "register"})
Owing == {x \in Threads : Owes(thread[x])}

Registered == conns \in open \cup {0} /\ reader \in open \cup {0}

\* The connection that a thread has opened and not registered yet is its own.
Owned == \A x \in Threads : At(x, "register") =>
  /\ thread[x].new \in open /\ thread[x].new \notin {conns, reader}
  /\ \A y \in Threads : y # x /\ At(y, "register") => thread[y].new # thread[x].new
  /\ \A y \in Threads : thread[y].held => thread[y].conn # thread[x].new

Threading == Shapes /\ Locked /\ Spawned /\ active = Cardinality(Owing)
Holding == Registered /\ Owned /\ LeaseProtects /\ NoLeak
Inv == Types /\ Threading /\ Holding

-----------------------------------------------------------------------------
(* A step of one thread.                                                   *)

\* Two states of a thread that differ at most in what a stream was told.
Alike(r, s) ==
  /\ r.op = s.op /\ r.at = s.at /\ r.kind = s.kind /\ r.back = s.back
  /\ r.conn = s.conn /\ r.new = s.new /\ r.held = s.held /\ r.who = s.who

\* The thread x moves to the state r, and the others stay.
Moves(x, r) ==
  /\ r \in ThreadState
  /\ thread' \in [Threads -> ThreadState] /\ thread'[x] = r
  /\ \A y \in Threads : y # x => Alike(thread'[y], thread[y])
  /\ x \in Requests \/ thread[x].at # "idle"
  /\ Shape(x, r)
  /\ UnderLock(r) => lock' = x
  /\ lock' = lock \/ (lock \in {None, x} /\ lock' \in {None, x})
  /\ Starts(r) => r.who \in Loops /\ thread[r.who].at = "idle"
  /\ active' = IF Owes(r) THEN (IF Owes(thread[x]) THEN active ELSE active + 1)
               ELSE (IF Owes(thread[x]) THEN active - 1 ELSE active)

\* The threads are finitely many, and no thread has the name of none.
LEMMA Setting ==
  /\ IsFiniteSet(Threads) /\ Cardinality(Threads) \in Nat
  /\ Requests \cap Loops = {} /\ "none" \notin Threads
  /\ Connections \subseteq Nat \ {0}
  /\ 0 \in Handles
<1>1. IsFiniteSet(Threads) BY RegistryAssumption DEF RegistryAssumption, Threads
<1>2. Cardinality(Threads) \in Nat BY <1>1, FS_CardinalityType
<1> QED BY <1>1, <1>2, RegistryAssumption
        DEF RegistryAssumption, Threads, Connections, Handles

\* The threads the count includes are finitely many, none when it is 0.
LEMMA OwingFacts ==
  /\ IsFiniteSet(Owing)
  /\ Cardinality(Owing) \in Nat
  /\ Cardinality(Owing) = 0 <=> Owing = {}
<1>1. Owing \in SUBSET Threads BY DEF Owing
<1>2. IsFiniteSet(Owing) BY <1>1, Setting, FS_Subset
<1> QED BY <1>2, FS_CardinalityType, FS_EmptySet

\* A thread that moves to a state of the right shape, and is counted rightly,
\* leaves the threads in order.
LEMMA MoveThreading ==
  ASSUME Types, Threading, NEW x \in Threads, NEW r, Moves(x, r)
  PROVE  Threading' /\ active' \in Nat /\ lock' \in Threads \cup {None}
<1> USE DEF Moves, Threading
<1>1. Shapes'
  <2> SUFFICES ASSUME NEW y \in Threads PROVE Shape(y, thread'[y]) BY DEF Shapes
  <2>1. CASE y = x BY <2>1
  <2>2. CASE y # x
    <3>1. Shape(y, thread[y]) BY DEF Shapes
    <3> QED BY <3>1, <2>2 DEF Shape, Alike, UnderLease, Bound
  <2> QED BY <2>1, <2>2
<1>2. Locked'
  <2> SUFFICES ASSUME NEW y \in Threads, UnderLock(thread'[y]) PROVE lock' = y
      BY DEF Locked
  <2>1. CASE y = x BY <2>1
  <2>2. CASE y # x
    <3>1. UnderLock(thread[y]) BY <2>2 DEF UnderLock, Starts, Alike, Bound
    <3>2. lock = y BY <3>1 DEF Locked
    <3> QED BY <3>2, <2>2, Setting DEF None
  <2> QED BY <2>1, <2>2
<1>3. Spawned'
  <2> SUFFICES ASSUME NEW y \in Threads, Starts(thread'[y])
               PROVE  thread'[y].who \in Loops /\ thread'[thread'[y].who].at = "idle"
      BY DEF Spawned, At
  <2>1. \A l \in Loops : thread[l].at = "idle" => thread'[l].at = "idle"
    <3> SUFFICES ASSUME NEW l \in Loops, thread[l].at = "idle"
                 PROVE  thread'[l].at = "idle"
        OBVIOUS
    <3>1. l \in Threads /\ l # x BY Setting DEF Threads
    <3> QED BY <3>1 DEF Alike
  <2>2. CASE y = x BY <2>1, <2>2
  <2>3. CASE y # x
    <3>1. Starts(thread[y]) /\ thread'[y].who = thread[y].who
      BY <2>3 DEF Starts, Alike, Bound
    <3> QED BY <3>1, <2>1 DEF Spawned, At
  <2> QED BY <2>2, <2>3
<1>4. /\ Owes(r) => Owing' = Owing \cup {x}
      /\ ~Owes(r) => Owing' = Owing \ {x}
  <2>1. \A y \in Threads : y # x => (Owes(thread'[y]) <=> Owes(thread[y]))
    BY DEF Owes, Alike
  <2> QED BY <2>1 DEF Owing
<1>5. active' = Cardinality(Owing') /\ active' \in Nat
  <2>1. Owes(thread[x]) <=> x \in Owing BY DEF Owing
  <2>2. /\ Cardinality(Owing \cup {x}) = IF x \in Owing THEN Cardinality(Owing)
                                         ELSE Cardinality(Owing) + 1
        /\ IsFiniteSet(Owing \cup {x})
    BY OwingFacts, FS_AddElement
  <2>3. /\ Cardinality(Owing \ {x}) = IF x \in Owing THEN Cardinality(Owing) - 1
                                      ELSE Cardinality(Owing)
        /\ IsFiniteSet(Owing \ {x})
    BY OwingFacts, FS_RemoveElement
  <2>4. Cardinality(Owing \cup {x}) \in Nat /\ Cardinality(Owing \ {x}) \in Nat
    BY <2>2, <2>3, FS_CardinalityType
  <2>5. CASE Owes(r)
    <3>1. active' = IF x \in Owing THEN active ELSE active + 1 BY <2>5, <2>1
    <3> QED BY <2>5, <3>1, <2>2, <2>4, <1>4
  <2>6. CASE ~Owes(r)
    <3>1. active' = IF x \in Owing THEN active - 1 ELSE active BY <2>6, <2>1
    <3> QED BY <2>6, <3>1, <2>3, <2>4, <1>4
  <2> QED BY <2>5, <2>6
<1>6. lock' \in Threads \cup {None} BY DEF Types
<1> QED BY <1>1, <1>2, <1>3, <1>5, <1>6

\* The connections and who has them stay as they are.
Quiet(x, r) ==
  /\ UNCHANGED <<conns, reader, open>>
  /\ thread[x].at # "register" /\ r.at # "register"
  /\ r.held => \/ r.conn \in {conns, reader} \ {0}
               \/ thread[x].held /\ r.conn = thread[x].conn
  /\ env' \in Handles /\ worker' \in Loops \cup {None}

\* A move that leaves the connections alone keeps the whole invariant.
LEMMA MoveQuietly ==
  ASSUME Inv, NEW x \in Threads, NEW r, Moves(x, r), Quiet(x, r)
  PROVE  Inv'
<1>1. Threading' /\ active' \in Nat /\ lock' \in Threads \cup {None}
  BY MoveThreading DEF Inv
<1>2. Types' BY <1>1 DEF Inv, Types, Moves, Quiet
<1>3. \A y \in Threads : thread'[y].at = "register" =>
         /\ thread[y].at = "register" /\ thread[y].new = thread'[y].new /\ y # x
  BY DEF Moves, Quiet, Alike
<1>4. \A y \in Threads : thread[y].at = "register" =>
         thread'[y].at = "register" /\ thread[y].new = thread'[y].new
  BY DEF Moves, Quiet, Alike
<1>5. \A y \in Threads : thread'[y].held =>
         \/ thread'[y].conn \in {conns, reader} \ {0}
         \/ thread[y].held /\ thread'[y].conn = thread[y].conn
  BY DEF Moves, Quiet, Alike
<1>6. Registered' BY DEF Inv, Holding, Registered, Quiet
<1>7. Owned'
  <2> SUFFICES ASSUME NEW y \in Threads, thread'[y].at = "register"
               PROVE /\ thread'[y].new \in open /\ thread'[y].new \notin {conns, reader}
                     /\ \A z \in Threads : z # y /\ thread'[z].at = "register"
                          => thread'[z].new # thread'[y].new
                     /\ \A z \in Threads : thread'[z].held
                          => thread'[z].conn # thread'[y].new
      BY DEF Owned, At, Quiet
  <2> QED BY <1>3, <1>5 DEF Inv, Holding, Owned, At
<1>8. LeaseProtects'
  BY <1>5 DEF Inv, Holding, LeaseProtects, Registered, Quiet
<1>9. NoLeak'
  <2> SUFFICES ASSUME NEW c \in open
               PROVE  \/ c \in {conns, reader}
                      \/ \E y \in Threads : thread'[y].at = "register" /\ thread'[y].new = c
      BY DEF NoLeak, At, Quiet
  <2> QED BY <1>4 DEF Inv, Holding, NoLeak, At
<1> QED BY <1>1, <1>2, <1>6, <1>7, <1>8, <1>9 DEF Inv, Holding

-----------------------------------------------------------------------------
(* The steps of a request that leave the connections as they are.          *)

\* Becomes changes one thread.
LEMMA Becoming ==
  ASSUME Types, NEW x \in Threads, NEW r \in ThreadState, Becomes(x, r)
  PROVE  /\ thread' \in [Threads -> ThreadState] /\ thread'[x] = r
         /\ \A y \in Threads : y # x => Alike(thread'[y], thread[y])
BY DEF Types, Becomes, Alike

\* What the invariant says of one thread.
LEMMA States ==
  ASSUME Inv, NEW x \in Threads
  PROVE  /\ thread[x] \in ThreadState /\ Idle \in ThreadState
         /\ Shape(x, thread[x]) /\ (UnderLock(thread[x]) => lock = x)
         /\ lock \in Threads \cup {None} /\ active \in Nat
         /\ (Starts(thread[x]) =>
               thread[x].who \in Loops /\ thread[thread[x].who].at = "idle")
         /\ Requests \subseteq Threads /\ Loops \subseteq Threads
         /\ Requests \cap Loops = {} /\ None \notin Threads
         /\ worker \in Loops \cup {None} /\ env \in Handles
<1>1. thread[x] \in ThreadState BY DEF Inv, Types
<1>2. Idle \in ThreadState
  <2>1. \A a, b \in Names, c \in Handles, d \in BOOLEAN, w \in Loops \cup {None} :
          [op |-> a, at |-> b, kind |-> a, back |-> a, conn |-> c, new |-> c,
           held |-> d, told |-> d, who |-> w] \in ThreadState
    BY DEF ThreadState
  <2>2. "none" \in Names /\ "idle" \in Names /\ FALSE \in BOOLEAN
    BY DEF Names, None
  <2> QED BY <2>1, <2>2, Setting DEF Idle, None
<1>3. /\ Shape(x, thread[x]) /\ (UnderLock(thread[x]) => lock = x)
      /\ (Starts(thread[x]) =>
            thread[x].who \in Loops /\ thread[thread[x].who].at = "idle")
  BY DEF Inv, Threading, Shapes, Locked, Spawned, At
<1>4. /\ Requests \subseteq Threads /\ Loops \subseteq Threads
      /\ Requests \cap Loops = {} /\ None \notin Threads
  BY Setting DEF Threads, None
<1> QED BY <1>1, <1>2, <1>3, <1>4 DEF Inv, Types

\* A step in which one thread becomes another state of the right shape, and
\* the connections stay, keeps the invariant.
LEMMA StepTo ==
  ASSUME Inv, NEW x \in Threads, NEW r \in ThreadState, Becomes(x, r), Quiet(x, r),
         x \in Requests \/ thread[x].at # "idle",
         Shape(x, r), UnderLock(r) => lock' = x,
         lock' = lock \/ (lock \in {None, x} /\ lock' \in {None, x}),
         Starts(r) => r.who \in Loops /\ thread[r.who].at = "idle",
         active' = IF Owes(r) THEN (IF Owes(thread[x]) THEN active ELSE active + 1)
                   ELSE (IF Owes(thread[x]) THEN active - 1 ELSE active)
  PROVE  Inv'
<1>1. Moves(x, r) BY Becoming DEF Inv, Moves
<1> QED BY <1>1, MoveQuietly

\* r is s but for its place, its call and its lease (and what it opens).
Edit(r, s, at, kind, back, held, conn) ==
  /\ r \in ThreadState
  /\ r.op = s.op /\ r.who = s.who
  /\ r.at = at /\ r.kind = kind /\ r.back = back /\ r.held = held /\ r.conn = conn

\* What the steps make of the state of a thread.
LEMMA EditAt ==
  ASSUME NEW s \in ThreadState, NEW at \in Names
  PROVE  Edit([s EXCEPT !.at = at],
              s, at, s.kind, s.back,
              s.held, s.conn)
BY DEF Edit, ThreadState

\* A place, and what is opened, is changed.
LEMMA EditNew ==
  ASSUME NEW s \in ThreadState, NEW at \in Names, NEW c \in Handles
  PROVE  Edit([s EXCEPT !.at = at, !.new = c],
              s, at, s.kind, s.back,
              s.held, s.conn)
BY DEF Edit, ThreadState

\* A counted call returns: the thread has its lease.
LEMMA EditLeased ==
  ASSUME NEW s \in ThreadState, NEW at \in Names, NEW c \in Handles, NEW n \in Handles
  PROVE  Edit([s EXCEPT !.at = at, !.new = n, !.conn = c, !.held = TRUE],
              s, at, s.kind, s.back, TRUE, c)
BY DEF Edit, ThreadState

\* A lease is returned, its connection first.
LEMMA EditConn ==
  ASSUME NEW s \in ThreadState, NEW at \in Names, NEW c \in Handles
  PROVE  Edit([s EXCEPT !.at = at, !.conn = c, !.held = FALSE],
              s, at, s.kind, s.back, FALSE, c)
BY DEF Edit, ThreadState

\* A lease is returned, its mark first.
LEMMA EditReturned ==
  ASSUME NEW s \in ThreadState, NEW at \in Names, NEW c \in Handles
  PROVE  Edit([s EXCEPT !.at = at, !.held = FALSE, !.conn = c],
              s, at, s.kind, s.back, FALSE, c)
BY DEF Edit, ThreadState

\* A call begins.
LEMMA EditCall ==
  ASSUME NEW s \in ThreadState, NEW at \in Names, NEW kind \in Names, NEW back \in Names
  PROVE  Edit([s EXCEPT !.at = at, !.kind = kind, !.back = back],
              s, at, kind, back,
              s.held, s.conn)
BY DEF Edit, ThreadState

\* A lease is returned and a call begins.
LEMMA EditRecall ==
  ASSUME NEW s \in ThreadState, NEW at \in Names, NEW kind \in Names, NEW back \in Names, NEW c \in Handles
  PROVE  Edit([s EXCEPT !.at = at, !.kind = kind, !.back = back,
                                 !.held = FALSE, !.conn = c],
              s, at, kind, back, FALSE, c)
BY DEF Edit, ThreadState

\* A lease is returned, and a call begins in the state that leaves.
LEMMA EditNested ==
  ASSUME NEW s \in ThreadState, NEW at \in Names, NEW kind \in Names, NEW back \in Names,
         NEW c \in Handles
  PROVE  Edit([[s EXCEPT !.held = FALSE, !.conn = c]
                 EXCEPT !.at = at, !.kind = kind, !.back = back],
              s, at, kind, back, FALSE, c)
BY DEF Edit, ThreadState

\* A call begins without the lease, whose connection is still known.
LEMMA EditHeld ==
  ASSUME NEW s \in ThreadState, NEW at \in Names, NEW kind \in Names, NEW back \in Names
  PROVE  Edit([s EXCEPT !.at = at, !.kind = kind, !.back = back, !.held = FALSE],
              s, at, kind, back, FALSE, s.conn)
BY DEF Edit, ThreadState

\* The first state of a thread that serves a request.
Opens(r, s, op, at, kind, back) ==
  /\ r \in ThreadState
  /\ r.op = op /\ r.at = at /\ r.kind = kind /\ r.back = back /\ r.held = s.held

\* A call begins in which a worker was made.
LEMMA EditMade ==
  ASSUME NEW s \in ThreadState, NEW at \in Names, NEW kind \in Names, NEW back \in Names,
         NEW w \in Loops
  PROVE  /\ Opens([s EXCEPT !.at = at, !.kind = kind, !.back = back, !.who = w],
                  s, s.op, at, kind, back)
         /\ [s EXCEPT !.at = at, !.kind = kind, !.back = back, !.who = w].who = w
BY DEF Opens, ThreadState

\* The thread of a worker begins.
LEMMA EditLoop ==
  ASSUME NEW s \in ThreadState, NEW op \in Names, NEW at \in Names
  PROVE  Opens([s EXCEPT !.op = op, !.at = at], s, op, at, s.kind, s.back)
BY DEF Opens, ThreadState

\* The place alone is changed.
LEMMA EditPlace ==
  ASSUME NEW s \in ThreadState, NEW at \in Names, NEW c \in Handles
  PROVE  Edit([s EXCEPT !.at = at, !.conn = c], s, at, s.kind, s.back, s.held, c)
BY DEF Edit, ThreadState

\* A stream is told that its run ended.
LEMMA EditTold ==
  ASSUME NEW s \in ThreadState
  PROVE  [s EXCEPT !.told = TRUE] \in ThreadState /\ Alike([s EXCEPT !.told = TRUE], s)
BY DEF Alike, ThreadState

\* Whether the thread x is under a lease at a place outside of a call.
Lent(x, op, at) ==
  \/ at \in {"env", "using", "streaming", "work", "leave", "count",
             "starting", "stopping"}
  \/ at \in {"summary", "rebuild"} /\ op = "step"
  \/ at = "drop" /\ x \in Requests

\* What is known of a thread outside of a call.
LEMMA Outside ==
  ASSUME Inv, NEW x \in Threads, thread[x].at \notin Asking, thread[x].at # "idle"
  PROVE  /\ thread[x].held <=> Lent(x, thread[x].op, thread[x].at)
         /\ Owes(thread[x]) <=> thread[x].held
         /\ thread[x].at \in {"worker", "agent", "spawn", "starting", "rebuild"} => lock = x
         /\ thread[x].op = "loop" <=> x \in Loops
         /\ thread[x].at = "work" => thread[x].op = "step"
         /\ thread[x].at = "summary" => thread[x].op \in {"step", "loop"}
         /\ thread[x].at = "lock" => thread[x].op \in {"start", "stop"}
         /\ thread[x].at = "starting" => thread[x].op = "start"
         /\ thread[x].at \in {"stopping", "stopped"} => thread[x].op = "stop"
         /\ thread[x].at = "rebuild" => /\ thread[x].op \in {"step", "start", "loop"}
                                        /\ thread[x].back = "rebuild"
<1> DEFINE s == thread[x]
<1>1. \A place : Bound(s, place) <=> s.at = place BY DEF Bound
<1>2. s.held <=> Lent(x, s.op, s.at)
  <2>1. s.held <=> UnderLease(x, s) BY States DEF Shape
  <2> QED BY <1>1, <2>1 DEF UnderLease, Lent
<1>3. Owes(s) <=> s.held BY DEF Owes, Asking
<1>4. s.at \in {"worker", "agent", "spawn", "starting", "rebuild"} => lock = x
  <2>1. UnderLock(s) => lock = x BY States
  <2> QED BY <1>1, <2>1 DEF UnderLock
<1>5. Shape(x, s) BY States
<1> QED BY <1>1, <1>2, <1>3, <1>4, <1>5 DEF Shape

\* What a step leaves alone, and what it may do to the lifecycle lock.
Frame(x) ==
  /\ UNCHANGED <<conns, reader, open>>
  /\ env' \in Handles /\ worker' \in Loops \cup {None}
  /\ lock' = lock \/ (lock \in {None, x} /\ lock' \in {None, x})

\* A step from outside of a call to outside of a call.
LEMMA GoesTo ==
  ASSUME Inv, NEW x \in Threads, NEW r \in ThreadState, Becomes(x, r), Frame(x),
         thread[x].at \notin Asking, thread[x].at # "idle", r.op = thread[x].op,
         r.at \notin Asking,
         r.at \notin {"idle", "lock", "starting", "stopping", "stopped", "rebuild", "spawn"},
         r.held <=> Lent(x, r.op, r.at),
         r.held => thread[x].held /\ r.conn = thread[x].conn,
         r.at = "work" => r.op = "step",
         r.at = "summary" => r.op \in {"step", "loop"},
         r.at \in {"worker", "agent"} => lock' = x,
         active' = IF thread[x].held /\ ~r.held THEN active - 1 ELSE active
  PROVE  Inv'
<1> DEFINE s == thread[x]
<1>1. \A place : Bound(r, place) <=> r.at = place BY DEF Bound
<1>2. Shape(x, r)
  <2>1. r.held <=> UnderLease(x, r) BY <1>1 DEF UnderLease, Lent
  <2> QED BY <1>1, <2>1, Outside DEF Shape
<1>3. (UnderLock(r) => lock' = x) /\ ~Starts(r) BY <1>1 DEF UnderLock, Starts
<1>4. Owes(r) <=> r.held BY DEF Owes, Asking
<1>5. Owes(s) <=> s.held BY Outside
<1>6. Quiet(x, r) BY DEF Quiet, Asking, Frame
<1> QED BY <1>2, <1>3, <1>4, <1>5, <1>6, StepTo DEF Frame

\* A step from outside of a call into one.
LEMMA GoesAsking ==
  ASSUME Inv, NEW x \in Threads, NEW r \in ThreadState, Becomes(x, r), Frame(x),
         thread[x].at \notin Asking, thread[x].at # "idle", r.op = thread[x].op,
         r.at = "ask", r.back # "spawn",
         IF r.kind = "plain" THEN r.back \in Borrowed
         ELSE r.kind \in {"lease", "read"} /\ r.back \in Leased,
         r.held <=> r.back = "rebuild" /\ r.op = "step",
         r.held => thread[x].held /\ r.conn = thread[x].conn,
         r.back \in {"starting", "rebuild"} => lock' = x,
         r.back = "starting" => r.op = "start",
         r.back \in {"stopping", "stopped"} => r.op = "stop",
         r.back = "rebuild" => r.op \in {"step", "start", "loop"},
         r.back = "drop" => x \in Requests,
         active' = IF thread[x].held /\ ~r.held THEN active - 1 ELSE active
  PROVE  Inv'
<1> DEFINE s == thread[x]
<1>1. \A place : place # "ask" => (Bound(r, place) <=> r.back = place)
  BY DEF Bound, Asking
<1>2. Shape(x, r)
  <2>1. r.held <=> UnderLease(x, r) BY <1>1 DEF UnderLease, Asking
  <2> QED BY <1>1, <2>1, Outside DEF Shape, Asking
<1>3. (UnderLock(r) => lock' = x) /\ ~Starts(r) BY <1>1 DEF UnderLock, Starts
<1>4. Owes(r) <=> r.held BY DEF Owes
<1>5. Owes(s) <=> s.held BY Outside
<1>6. Quiet(x, r) BY DEF Quiet, Asking, Frame
<1> QED BY <1>2, <1>3, <1>4, <1>5, <1>6, StepTo DEF Frame

\* A step that ends the thread's request.
LEMMA Ends ==
  ASSUME Inv, NEW x \in Threads, Becomes(x, Idle), Frame(x),
         thread[x].at \notin Asking, thread[x].at # "idle",
         active' = IF thread[x].held THEN active - 1 ELSE active
  PROVE  Inv'
<1>1. Shape(x, Idle) /\ ~UnderLock(Idle) /\ ~Starts(Idle) /\ ~Owes(Idle) /\ ~Idle.held
      /\ Idle.at # "register"
  BY DEF Idle, Shape, UnderLock, UnderLease, Starts, Owes, Asking, Bound, None
<1>2. Owes(thread[x]) <=> thread[x].held BY Outside
<1>3. Quiet(x, Idle) BY <1>1 DEF Quiet, Frame, Asking
<1> QED BY <1>1, <1>2, <1>3, States, StepTo DEF Frame

\* A request that ends returns its lease.
LEMMA AnswerInv == ASSUME Inv, NEW x \in Threads, Answer(x) PROVE Inv'
<1> DEFINE s == thread[x]
<1>1. s.at \in {"using", "streaming"} /\ Frame(x)
  BY States DEF Answer, At, Frame, memory
<1> QED BY <1>1, Ends DEF Answer, Asking, Finish

\* The Environment is looked for under the lease, or the lease returned.
LEMMA FindEnvInv == ASSUME Inv, NEW x \in Threads, FindEnv(x) PROVE Inv'
<1> DEFINE s == thread[x]
<1>1. s.at = "env" /\ Frame(x)
  BY States DEF FindEnv, At, Frame, memory
<1>2. CASE env = 0
  BY <1>1, <1>2, Ends DEF FindEnv, Asking, Finish
<1>3. CASE env # 0 /\ s.op = "step"
  <2>1. "work" \in Names BY DEF Names
  <2>2. PICK r : Becomes(x, r) /\ Edit(r, s, "work", s.kind, s.back, s.held, s.conn)
    BY <1>3, <2>1, EditAt, States DEF FindEnv, Goto
  <2> QED BY <1>1, <1>3, <2>2, Outside, States, GoesTo DEF FindEnv, Edit, Lent, Asking
<1>4. CASE env # 0 /\ s.op # "step"
  <2>1. "using" \in Names BY DEF Names
  <2>2. PICK r : Becomes(x, r) /\ Edit(r, s, "using", s.kind, s.back, s.held, s.conn)
    BY <1>4, <2>1, EditAt, States DEF FindEnv, Goto
  <2> QED BY <1>1, <1>4, <2>2, Outside, States, GoesTo DEF FindEnv, Edit, Lent, Asking
<1> QED BY <1>2, <1>3, <1>4 DEF FindEnv

\* The rows of a new run are written, or its request ends.
LEMMA InsertInv == ASSUME Inv, NEW x \in Threads, Insert(x) PROVE Inv'
<1> DEFINE s == thread[x]
<1>1. s.at = "insert" /\ Frame(x)
  BY States DEF Insert, At, Frame, links, memory
<1>2. CASE Goto(x, "add env")
  <2>1. "add env" \in Names BY DEF Names
  <2>2. PICK r : Becomes(x, r) /\ Edit(r, s, "add env", s.kind, s.back, s.held, s.conn)
    BY <1>2, <2>1, EditAt, States DEF Insert, Goto
  <2> QED BY <1>1, <1>2, <2>2, Outside, States, GoesTo DEF Insert, Edit, Lent, Asking, links
<1>3. CASE Becomes(x, Idle)
  BY <1>1, <1>3, Outside, Ends DEF Insert, Lent, Asking, links
<1> QED BY <1>2, <1>3 DEF Insert

\* The Environment of a new run keeps the connection it was made with.
LEMMA AddEnvInv == ASSUME Inv, NEW x \in Threads, AddEnv(x) PROVE Inv'
<1> DEFINE s == thread[x]
<1>1. s.at = "add env" /\ Frame(x)
  BY States DEF AddEnv, At, Frame, links, ThreadState
<1>2. CASE Goto(x, "auto start")
  <2>1. "auto start" \in Names BY DEF Names
  <2>2. PICK r : Becomes(x, r) /\ Edit(r, s, "auto start", s.kind, s.back, s.held, s.conn)
    BY <1>2, <2>1, EditAt, States DEF AddEnv, Goto
  <2> QED BY <1>1, <1>2, <2>2, Outside, States, GoesTo DEF AddEnv, Edit, Lent, Asking, links
<1>3. CASE Becomes(x, Idle)
  BY <1>1, <1>3, Outside, Ends DEF AddEnv, Lent, Asking, links
<1> QED BY <1>2, <1>3 DEF AddEnv

\* The lifecycle lock is taken for the worker of a new run.
LEMMA AutoStartInv == ASSUME Inv, NEW x \in Threads, AutoStart(x) PROVE Inv'
<1> DEFINE s == thread[x]
<1>1. s.at = "auto start" /\ Frame(x)
  BY States DEF AutoStart, At, Frame, links, memory, Free
<1>2. "worker" \in Names BY DEF Names
<1>3. PICK r : Becomes(x, r) /\ Edit(r, s, "worker", s.kind, s.back, s.held, s.conn)
  BY <1>2, EditAt, States DEF AutoStart, Goto
<1> QED BY <1>1, <1>3, Outside, States, GoesTo DEF AutoStart, Edit, Lent, Asking, links

\* A synchronous step ends, raises without its lease, or ends the run.
LEMMA WorkInv == ASSUME Inv, NEW x \in Threads, Work(x) PROVE Inv'
<1> DEFINE s == thread[x]
<1>1. s.at = "work" /\ Frame(x)
  BY States DEF Work, At, Frame, memory
<1>2. CASE Finish(x) /\ UNCHANGED status
  BY <1>1, <1>2, Ends DEF Asking, Finish
<1>3. CASE Goto(x, "summary") /\ UNCHANGED active
  <2>1. "summary" \in Names BY DEF Names
  <2>2. PICK r : Becomes(x, r) /\ Edit(r, s, "summary", s.kind, s.back, s.held, s.conn)
    BY <1>3, <2>1, EditAt, States DEF Goto
  <2> QED BY <1>1, <1>3, <2>2, Outside, States, GoesTo DEF Edit, Lent, Asking
<1>4. CASE /\ s.held /\ active' = active - 1
              /\ Becomes(x, [s EXCEPT !.at = "ask", !.kind = "plain", !.back = "failed",
                                      !.held = FALSE])
  <2>1. "plain" \in Names /\ "failed" \in Names /\ "ask" \in Names BY DEF Names
  <2>2. PICK r : Becomes(x, r) /\ Edit(r, s, "ask", "plain", "failed", FALSE, s.conn)
    BY <1>4, <2>1, EditHeld, States
  <2> QED BY <1>1, <1>4, <2>2, States, GoesAsking DEF Work, Edit, Asking, Borrowed
<1> QED BY <1>2, <1>3, <1>4 DEF Work

\* A step that raised marks the run and goes on to release it.
LEMMA FailedInv == ASSUME Inv, NEW x \in Threads, Failed(x) PROVE Inv'
<1> DEFINE s == thread[x]
<1>1. s.at = "failed" /\ Frame(x)
  BY States DEF Failed, At, Frame, links, memory
<1>2. "release" \in Names BY DEF Names
<1>3. PICK r : Becomes(x, r) /\ Edit(r, s, "release", s.kind, s.back, s.held, s.conn)
  BY <1>2, EditAt, States DEF Failed, Goto
<1> QED BY <1>1, <1>3, Outside, States, GoesTo DEF Failed, Edit, Lent, Asking, links

\* The summary of a run needs its Environment, hydrated under the lock.
LEMMA SummaryInv == ASSUME Inv, NEW x \in Threads, Summary(x) PROVE Inv'
<1> DEFINE s == thread[x]
<1>1. s.at = "summary" /\ Frame(x)
  BY States DEF Summary, At, Frame, links, memory, Free
<1>2. CASE env # 0 /\ s.op = "step"
  <2>1. "leave" \in Names BY DEF Names
  <2>2. PICK r : Becomes(x, r) /\ Edit(r, s, "leave", s.kind, s.back, s.held, s.conn)
    BY <1>2, <2>1, EditAt, States DEF Summary, Goto, AfterSummary
  <2> QED BY <1>1, <1>2, <2>2, Outside, States, GoesTo DEF Summary, Edit, Lent, Asking, links
<1>3. CASE env # 0 /\ s.op # "step"
  <2>1. "publish" \in Names BY DEF Names
  <2>2. PICK r : Becomes(x, r) /\ Edit(r, s, "publish", s.kind, s.back, s.held, s.conn)
    BY <1>3, <2>1, EditAt, States DEF Summary, Goto, AfterSummary
  <2> QED BY <1>1, <1>3, <2>2, Outside, States, GoesTo DEF Summary, Edit, Lent, Asking, links
<1>4. CASE env = 0
  <2>1. "plain" \in Names /\ "rebuild" \in Names /\ "ask" \in Names BY DEF Names
  <2>2. PICK r : Becomes(x, r) /\ Edit(r, s, "ask", "plain", "rebuild", s.held, s.conn)
    BY <1>4, <2>1, EditCall, States DEF Summary, Call
  <2> QED BY <1>1, <1>4, <2>2, Outside, States, GoesAsking DEF Summary, Edit, Lent, Asking, Borrowed, links
<1> QED BY <1>2, <1>3, <1>4 DEF Summary

\* A step that ended the run returns its lease before it releases it.
LEMMA LeaveInv == ASSUME Inv, NEW x \in Threads, Leave(x) PROVE Inv'
<1> DEFINE s == thread[x]
<1>1. s.at = "leave" /\ Frame(x)
  BY States DEF Leave, At, Frame, memory
<1>2. "release" \in Names BY DEF Names
<1>3. PICK r : Becomes(x, r) /\ Edit(r, s, "release", s.kind, s.back, FALSE, 0)
  BY <1>2, EditReturned, States, Setting DEF Leave
<1> QED BY <1>1, <1>3, Outside, States, GoesTo DEF Leave, Edit, Lent, Asking

\* The release of a run's memory begins under the lifecycle lock.
LEMMA ReleaseInv == ASSUME Inv, NEW x \in Threads, Release(x) PROVE Inv'
<1> DEFINE s == thread[x]
<1>1. s.at = "release" /\ Frame(x)
  BY States DEF Release, At, Frame, links, memory, Free
<1>2. CASE x \in Loops
  <2>1. "drop" \in Names BY DEF Names
  <2>2. PICK r : Becomes(x, r) /\ Edit(r, s, "drop", s.kind, s.back, s.held, s.conn)
    BY <1>2, <2>1, EditAt, States DEF Release, Goto
  <2> QED BY <1>1, <1>2, <2>2, Outside, States, GoesTo DEF Release, Edit, Lent, Asking, links
<1>3. CASE x \notin Loops
  <2>1. "read" \in Names /\ "drop" \in Names /\ "ask" \in Names BY DEF Names
  <2>2. PICK r : Becomes(x, r) /\ Edit(r, s, "ask", "read", "drop", s.held, s.conn)
    BY <1>3, <2>1, EditCall, States DEF Release, Call
  <2> QED BY <1>1, <1>3, <2>2, Outside, States, GoesAsking DEF Release, Edit, Lent, Asking, Leased, links, Threads
<1> QED BY <1>2, <1>3 DEF Release

\* A run's memory is dropped, and the lease it was looked at with returned.
LEMMA DropInv == ASSUME Inv, NEW x \in Threads, Drop(x) PROVE Inv'
<1> DEFINE s == thread[x]
<1>1. s.at = "drop" /\ Frame(x)
  BY States, Setting DEF Drop, At, Frame, memory, Unlock
<1>2. CASE Becomes(x, Idle)
  BY <1>1, <1>2, Ends DEF Drop, Asking
<1>3. CASE ~Becomes(x, Idle)
  <2>1. "close" \in Names BY DEF Names
  <2>2. PICK r : Becomes(x, r) /\ Edit(r, s, "close", s.kind, s.back, FALSE, 0)
    BY <1>3, <2>1, EditConn, States, Setting DEF Drop
  <2> QED BY <1>1, <1>3, <2>2, States, GoesTo DEF Drop, Edit, Lent, Asking
<1> QED BY <1>2, <1>3 DEF Drop

\* A start or a stop begins under the lifecycle lock.
LEMMA ControlInv == ASSUME Inv, NEW x \in Threads, Control(x) PROVE Inv'
<1> DEFINE s == thread[x]
<1>1. s.at = "lock" /\ Frame(x)
  BY States DEF Control, At, Frame, links, memory, Free
<1>2. CASE s.op = "stop" /\ worker # None
  <2>1. "stop worker" \in Names BY DEF Names
  <2>2. PICK r : Becomes(x, r) /\ Edit(r, s, "stop worker", s.kind, s.back, s.held, s.conn)
    BY <1>2, <2>1, EditAt, States DEF Control, Goto
  <2> QED BY <1>1, <1>2, <2>2, Outside, States, GoesTo DEF Control, Edit, Lent, Asking, links
<1>3. CASE s.op = "stop" /\ worker = None
  <2>1. "read" \in Names /\ "stopping" \in Names /\ "ask" \in Names BY DEF Names
  <2>2. PICK r : Becomes(x, r) /\ Edit(r, s, "ask", "read", "stopping", s.held, s.conn)
    BY <1>3, <2>1, EditCall, States DEF Control, Call
  <2> QED BY <1>1, <1>3, <2>2, Outside, States, GoesAsking DEF Control, Edit, Lent, Asking, Leased, links
<1>4. CASE s.op # "stop"
  <2>1. "read" \in Names /\ "starting" \in Names /\ "ask" \in Names BY DEF Names
  <2>2. PICK r : Becomes(x, r) /\ Edit(r, s, "ask", "read", "starting", s.held, s.conn)
    BY <1>4, <2>1, EditCall, States DEF Control, Call
  <2> QED BY <1>1, <1>4, <2>2, Outside, States, GoesAsking DEF Control, Edit, Lent, Asking, Leased, links
<1> QED BY <1>2, <1>3, <1>4 DEF Control

\* A start returns the lease it has read the run with.
LEMMA StartingInv == ASSUME Inv, NEW x \in Threads, Starting(x) PROVE Inv'
<1> DEFINE s == thread[x]
<1>1. s.at = "starting" /\ Frame(x)
  BY States DEF Starting, At, Frame, memory, Unlock
<1>2. CASE Becomes(x, Idle)
  BY <1>1, <1>2, Outside, Ends DEF Starting, Lent, Asking
<1>3. CASE UNCHANGED lock /\ Becomes(x, [[s EXCEPT !.held = FALSE, !.conn = 0] EXCEPT !.at = "worker"])
  <2>1. "worker" \in Names BY DEF Names
  <2>2. PICK r : Becomes(x, r) /\ Edit(r, s, "worker", s.kind, s.back, FALSE, 0)
    BY <1>3, <2>1, EditReturned, States, Setting DEF Starting
  <2> QED BY <1>1, <1>3, <2>2, Outside, States, GoesTo DEF Starting, Edit, Lent, Asking
<1>4. CASE /\ UNCHANGED lock
              /\ Becomes(x, [[s EXCEPT !.held = FALSE, !.conn = 0] EXCEPT !.at = "ask",
                               !.kind = "plain", !.back = "rebuild"])
  <2>1. "plain" \in Names /\ "rebuild" \in Names /\ "ask" \in Names BY DEF Names
  <2>2. PICK r : Becomes(x, r) /\ Edit(r, s, "ask", "plain", "rebuild", FALSE, 0)
    BY <1>4, <2>1, EditNested, States, Setting DEF Starting
  <2> QED BY <1>1, <1>4, <2>2, Outside, States, GoesAsking DEF Starting, Edit, Lent, Asking, Borrowed
<1> QED BY <1>2, <1>3, <1>4 DEF Starting

\* The bootstrap agent is spawned and the lifecycle lock let go.
LEMMA SpawnAgentInv == ASSUME Inv, NEW x \in Threads, SpawnAgent(x) PROVE Inv'
<1> DEFINE s == thread[x]
<1>1. s.at = "agent" /\ Frame(x)
  BY States DEF SpawnAgent, At, Frame, links, Unlock
<1> QED BY <1>1, Outside, Ends DEF SpawnAgent, Lent, Asking, links

\* A stop returns the lease it has read the run with.
LEMMA StoppingInv == ASSUME Inv, NEW x \in Threads, Stopping(x) PROVE Inv'
<1> DEFINE s == thread[x]
<1>1. s.at = "stopping" /\ Frame(x)
  BY States DEF Stopping, At, Frame, memory, Unlock
<1>2. CASE Row /\ status \notin Ended
  <2>1. "plain" \in Names /\ "stopped" \in Names /\ "ask" \in Names BY DEF Names
  <2>2. PICK r : Becomes(x, r) /\ Edit(r, s, "ask", "plain", "stopped", FALSE, 0)
    BY <1>2, <2>1, EditRecall, States, Setting DEF Stopping
  <2> QED BY <1>1, <1>2, <2>2, Outside, States, GoesAsking DEF Stopping, Edit, Lent, Asking, Borrowed
<1>3. CASE ~(Row /\ status \notin Ended)
  BY <1>1, <1>3, Outside, Ends DEF Stopping, Lent, Asking
<1> QED BY <1>2, <1>3 DEF Stopping

\* A stop without a worker marks the run and looks at it again.
LEMMA StoppedInv == ASSUME Inv, NEW x \in Threads, Stopped(x) PROVE Inv'
<1> DEFINE s == thread[x]
<1>1. s.at = "stopped" /\ Frame(x)
  BY States DEF Stopped, At, Frame, links, memory
<1>2. "read" \in Names /\ "drop" \in Names /\ "ask" \in Names BY DEF Names
<1>3. PICK r : Becomes(x, r) /\ Edit(r, s, "ask", "read", "drop", s.held, s.conn)
  BY <1>2, EditCall, States DEF Stopped, Call
<1> QED BY <1>1, <1>3, Outside, States, GoesAsking DEF Stopped, Edit, Lent, Asking, Leased, links, Threads

\* A stop of a worker ends, or closes what a dead worker left.
LEMMA StopWorkerInv == ASSUME Inv, NEW x \in Threads, StopWorker(x) PROVE Inv'
<1> DEFINE s == thread[x]
<1>1. s.at = "stop worker" /\ Frame(x)
  BY States, Setting DEF StopWorker, At, Frame, links, Unlock
<1>2. CASE Goto(x, "close")
  <2>1. "close" \in Names BY DEF Names
  <2>2. PICK r : Becomes(x, r) /\ Edit(r, s, "close", s.kind, s.back, s.held, s.conn)
    BY <1>2, <2>1, EditAt, States DEF StopWorker, Goto
  <2> QED BY <1>1, <1>2, <2>2, Outside, States, GoesTo DEF StopWorker, Edit, Lent, Asking, links
<1>3. CASE Becomes(x, Idle)
  BY <1>1, <1>3, Outside, Ends DEF StopWorker, Lent, Asking, links
<1> QED BY <1>2, <1>3 DEF StopWorker

\* A deletion stops the worker of the run.
LEMMA HaltInv == ASSUME Inv, NEW x \in Threads, Halt(x) PROVE Inv'
<1> DEFINE s == thread[x]
<1>1. s.at = "halt" /\ Frame(x)
  BY States DEF Halt, At, Frame, links
<1>2. "join" \in Names BY DEF Names
<1>3. PICK r : Becomes(x, r) /\ Edit(r, s, "join", s.kind, s.back, s.held, s.conn)
  BY <1>2, EditAt, States DEF Halt, Goto
<1> QED BY <1>1, <1>3, Outside, States, GoesTo DEF Halt, Edit, Lent, Asking, links

\* A deletion waits for the thread of the worker, or gives up.
LEMMA JoinInv == ASSUME Inv, NEW x \in Threads, Join(x) PROVE Inv'
<1> DEFINE s == thread[x]
<1>1. s.at = "join" /\ Frame(x)
  BY States DEF Join, At, Frame
<1>2. CASE Goto(x, "forget")
  <2>1. "forget" \in Names BY DEF Names
  <2>2. PICK r : Becomes(x, r) /\ Edit(r, s, "forget", s.kind, s.back, s.held, s.conn)
    BY <1>2, <2>1, EditAt, States DEF Join, Goto
  <2> QED BY <1>1, <1>2, <2>2, Outside, States, GoesTo DEF Join, Edit, Lent, Asking
<1>3. CASE Becomes(x, Idle)
  BY <1>1, <1>3, Outside, Ends DEF Join, Lent, Asking
<1> QED BY <1>2, <1>3 DEF Join

\* A deletion forgets the worker and the Environment.
LEMMA ForgetInv == ASSUME Inv, NEW x \in Threads, Forget(x) PROVE Inv'
<1> DEFINE s == thread[x]
<1>1. s.at = "forget" /\ Frame(x)
  BY Setting DEF Forget, At, Frame, links
<1>2. "wait" \in Names BY DEF Names
<1>3. PICK r : Becomes(x, r) /\ Edit(r, s, "wait", s.kind, s.back, s.held, s.conn)
  BY <1>2, EditAt, States DEF Forget, Goto
<1> QED BY <1>1, <1>3, Outside, States, GoesTo DEF Forget, Edit, Lent, Asking, links

\* A deletion waits until no lease is left.
LEMMA WaitLeasesInv == ASSUME Inv, NEW x \in Threads, WaitLeases(x) PROVE Inv'
<1> DEFINE s == thread[x]
<1>1. s.at = "wait" /\ Frame(x)
  BY States DEF WaitLeases, At, Frame, links, memory
<1>2. "close" \in Names BY DEF Names
<1>3. PICK r : Becomes(x, r) /\ Edit(r, s, "close", s.kind, s.back, s.held, s.conn)
  BY <1>2, EditAt, States DEF WaitLeases, Goto
<1> QED BY <1>1, <1>3, Outside, States, GoesTo DEF WaitLeases, Edit, Lent, Asking, links

\* A deletion removes the directory of the run.
LEMMA RemoveInv == ASSUME Inv, NEW x \in Threads, Remove(x) PROVE Inv'
<1> DEFINE s == thread[x]
<1>1. s.at = "remove" /\ Frame(x)
  BY States DEF Remove, At, Frame, memory
<1> QED BY <1>1, Outside, Ends DEF Remove, Lent, Asking

\* A worker's loop goes on to its next step, or ends.
LEMMA TopInv == ASSUME Inv, NEW x \in Loops, Top(x) PROVE Inv'
<1> DEFINE s == thread[x]
<1> x \in Threads BY DEF Threads
<1>1. s.at = "top" /\ Frame(x)
  BY States DEF Top, At, Frame, links, memory
<1>2. CASE x \in halt
  <2>1. "publish" \in Names BY DEF Names
  <2>2. PICK r : Becomes(x, r) /\ Edit(r, s, "publish", s.kind, s.back, s.held, s.conn)
    BY <1>2, <2>1, EditAt, States DEF Top, Goto
  <2> QED BY <1>1, <1>2, <2>2, Outside, States, GoesTo DEF Top, Edit, Lent, Asking, links
<1>3. CASE x \notin halt
  <2>1. "lease" \in Names /\ "count" \in Names /\ "ask" \in Names BY DEF Names
  <2>2. PICK r : Becomes(x, r) /\ Edit(r, s, "ask", "lease", "count", s.held, s.conn)
    BY <1>3, <2>1, EditCall, States DEF Top, Call
  <2> QED BY <1>1, <1>3, <2>2, Outside, States, GoesAsking DEF Top, Edit, Lent, Asking, Leased, links
<1> QED BY <1>2, <1>3 DEF Top

\* A worker's loop counts its steps under a lease it returns.
LEMMA CountInv == ASSUME Inv, NEW x \in Loops, Count(x) PROVE Inv'
<1> DEFINE s == thread[x]
<1> x \in Threads BY DEF Threads
<1>1. s.at = "count" /\ Frame(x)
  BY States DEF Count, At, Frame
<1>2. CASE Becomes(x, [[s EXCEPT !.held = FALSE, !.conn = 0] EXCEPT !.at = "top"])
  <2>1. "top" \in Names BY DEF Names
  <2>2. PICK r : Becomes(x, r) /\ Edit(r, s, "top", s.kind, s.back, FALSE, 0)
    BY <1>2, <2>1, EditReturned, States, Setting DEF Count
  <2> QED BY <1>1, <1>2, <2>2, Outside, States, GoesTo DEF Count, Edit, Lent, Asking
<1>3. CASE Becomes(x, [[s EXCEPT !.held = FALSE, !.conn = 0] EXCEPT !.at = "ask",
                              !.kind = "plain", !.back = "ended"])
  <2>1. "plain" \in Names /\ "ended" \in Names /\ "ask" \in Names BY DEF Names
  <2>2. PICK r : Becomes(x, r) /\ Edit(r, s, "ask", "plain", "ended", FALSE, 0)
    BY <1>3, <2>1, EditNested, States, Setting DEF Count
  <2> QED BY <1>1, <1>3, <2>2, Outside, States, GoesAsking DEF Count, Edit, Lent, Asking, Borrowed
<1>4. CASE Becomes(x, [[s EXCEPT !.held = FALSE, !.conn = 0] EXCEPT !.at = "publish"])
  <2>1. "publish" \in Names BY DEF Names
  <2>2. PICK r : Becomes(x, r) /\ Edit(r, s, "publish", s.kind, s.back, FALSE, 0)
    BY <1>4, <2>1, EditReturned, States, Setting DEF Count
  <2> QED BY <1>1, <1>4, <2>2, Outside, States, GoesTo DEF Count, Edit, Lent, Asking
<1> QED BY <1>2, <1>3, <1>4 DEF Count

\* A worker's loop marks the run finished.
LEMMA MarkFinishedInv == ASSUME Inv, NEW x \in Loops, MarkFinished(x) PROVE Inv'
<1> DEFINE s == thread[x]
<1> x \in Threads BY DEF Threads
<1>1. s.at = "ended" /\ Frame(x)
  BY States DEF MarkFinished, At, Frame, links, memory
<1>2. "summary" \in Names BY DEF Names
<1>3. PICK r : Becomes(x, r) /\ Edit(r, s, "summary", s.kind, s.back, s.held, s.conn)
  BY <1>2, EditAt, States DEF MarkFinished, Goto
<1> QED BY <1>1, <1>3, Outside, States, GoesTo DEF MarkFinished, Edit, Lent, Asking, links

\* A request begins with its operation.
LEMMA EditOp ==
  ASSUME NEW s \in ThreadState, NEW op \in Names, NEW at \in Names
  PROVE  Opens([[s EXCEPT !.op = op] EXCEPT !.at = at], s, op, at, s.kind, s.back)
BY DEF Opens, ThreadState

\* A request begins with a call.
LEMMA EditAsks ==
  ASSUME NEW s \in ThreadState, NEW op \in Names, NEW at \in Names, NEW kind \in Names,
         NEW back \in Names
  PROVE  Opens([[s EXCEPT !.op = op] EXCEPT !.at = at, !.kind = kind, !.back = back],
               s, op, at, kind, back)
BY DEF Opens, ThreadState

\* A stream begins with a call, and with the worker it listens to.
LEMMA EditStream ==
  ASSUME NEW s \in ThreadState, NEW op \in Names, NEW at \in Names, NEW kind \in Names,
         NEW back \in Names, NEW w \in Loops \cup {None}
  PROVE  Opens([[s EXCEPT !.op = op]
                  EXCEPT !.at = at, !.kind = kind, !.back = back, !.who = w],
               s, op, at, kind, back)
BY DEF Opens, ThreadState

\* A thread begins to serve a request.
LEMMA BeginInv == ASSUME Inv, NEW x \in Requests, Begin(x) PROVE Inv'
<1> DEFINE s == thread[x]
<1> x \in Threads BY DEF Threads
<1>1. s.at = "idle" /\ Frame(x) /\ active' = active
  BY States DEF Begin, At, Frame, links, memory
<1>2. ~s.held /\ ~Owes(s) /\ Idle.held = FALSE
  BY <1>1, States DEF Shape, UnderLease, Bound, Asking, Owes, Idle
<1>3. \E r \in ThreadState :
        /\ Becomes(x, r) /\ r.op # "loop" /\ r.held = FALSE
        /\ \/ r.at = "mark"
           \/ r.at = "lock" /\ r.op \in {"start", "stop"}
           \/ /\ r.at = "ask"
              /\ \/ r.kind = "plain" /\ r.back = "insert"
                 \/ r.kind \in {"lease", "read"} /\ r.back \in {"using", "env", "streaming"}
  <2> DEFINE Asks(op, kind, place) ==
               Becomes(x, [[Idle EXCEPT !.op = op]
                             EXCEPT !.at = "ask", !.kind = kind, !.back = place])
             Goes(op, place) == Becomes(x, [[Idle EXCEPT !.op = op] EXCEPT !.at = place])
             Streams(op) == Becomes(x, [[Idle EXCEPT !.op = op]
                             EXCEPT !.at = "ask", !.kind = "lease", !.back = "streaming",
                                    !.who = worker])
  <2>1. PICK op \in Served :
          CASE op = "create"              -> ops = 0 /\ Asks(op, "plain", "insert")
            [] op = "page"                -> Asks(op, "lease", "using")
            [] op = "read"                -> Asks(op, "read", "using")
            [] op \in {"observe", "step"} -> Asks(op, "lease", "env")
            [] op = "stream"              -> worker # None /\ Streams(op)
            [] op \in {"start", "stop"}   -> Goes(op, "lock")
            [] op = "delete"              -> Goes(op, "mark")
    BY DEF Begin
  <2>2. op \in Names /\ op # "loop" /\ Idle \in ThreadState /\ worker \in Loops \cup {None}
    BY RegistryAssumption, States DEF RegistryAssumption, Names
  <2>3. op \in {"create", "page", "observe", "read", "stream", "step",
                "start", "stop", "delete"}
    BY RegistryAssumption DEF RegistryAssumption
  <2>4. \A k, b \in Names : Asks(op, k, b) =>
          \E r : Becomes(x, r) /\ Opens(r, Idle, op, "ask", k, b)
    <3>1. "ask" \in Names BY DEF Names
    <3> QED BY <2>2, <3>1, EditAsks
  <2>5. \A p \in Names : Goes(op, p) =>
          \E r : Becomes(x, r) /\ Opens(r, Idle, op, p, Idle.kind, Idle.back)
    BY <2>2, EditOp
  <2>6. Streams(op) =>
          \E r : Becomes(x, r) /\ Opens(r, Idle, op, "ask", "lease", "streaming")
    <3>1. "ask" \in Names /\ "lease" \in Names /\ "streaming" \in Names BY DEF Names
    <3> QED BY <2>2, <3>1, EditStream
  <2>7. \/ op \in {"start", "stop"} /\ Goes(op, "lock")
        \/ Goes(op, "mark") \/ Streams(op)
        \/ Asks(op, "plain", "insert") \/ Asks(op, "lease", "using")
        \/ Asks(op, "read", "using") \/ Asks(op, "lease", "env")
    <3> HIDE DEF Goes, Streams, Asks
    <3> QED BY <2>1, <2>3
  <2>8. {"lock", "mark", "plain", "lease", "read", "insert", "using", "env"} \subseteq Names
    BY DEF Names
  <2> HIDE DEF Goes, Streams, Asks
  <2>9. CASE op \in {"start", "stop"} /\ Goes(op, "lock")
    BY <1>2, <2>2, <2>5, <2>8, <2>9 DEF Opens
  <2>10. CASE Goes(op, "mark") BY <1>2, <2>2, <2>5, <2>8, <2>10 DEF Opens
  <2>11. CASE Streams(op) BY <1>2, <2>2, <2>6, <2>11 DEF Opens
  <2>12. CASE Asks(op, "plain", "insert") BY <1>2, <2>2, <2>4, <2>8, <2>12 DEF Opens
  <2>13. CASE Asks(op, "lease", "using") BY <1>2, <2>2, <2>4, <2>8, <2>13 DEF Opens
  <2>14. CASE Asks(op, "read", "using") BY <1>2, <2>2, <2>4, <2>8, <2>14 DEF Opens
  <2>15. CASE Asks(op, "lease", "env") BY <1>2, <2>2, <2>4, <2>8, <2>15 DEF Opens
  <2> QED BY <2>7, <2>9, <2>10, <2>11, <2>12, <2>13, <2>14, <2>15
<1>4. PICK r \in ThreadState :
        /\ Becomes(x, r) /\ r.op # "loop" /\ r.held = FALSE
        /\ \/ r.at = "mark"
           \/ r.at = "lock" /\ r.op \in {"start", "stop"}
           \/ /\ r.at = "ask"
              /\ \/ r.kind = "plain" /\ r.back = "insert"
                 \/ r.kind \in {"lease", "read"} /\ r.back \in {"using", "env", "streaming"}
  BY <1>3
<1>5. Shape(x, r) /\ ~UnderLock(r) /\ ~Starts(r)
  BY <1>4, States
     DEF Shape, UnderLease, UnderLock, Starts, Bound, Asking, Leased, Borrowed
<1>6. ~Owes(r) /\ Quiet(x, r) BY <1>1, <1>4 DEF Owes, Quiet, Frame
<1> QED BY <1>1, <1>2, <1>4, <1>5, <1>6, StepTo DEF Frame

\* A thread remembers a worker.
LEMMA EditWho ==
  ASSUME NEW s \in ThreadState, NEW w \in Loops \cup {None}, NEW at \in Names
  PROVE  Opens([s EXCEPT !.who = w, !.at = at], s, s.op, at, s.kind, s.back)
BY DEF Opens, ThreadState

\* A deletion marks the run, once.
LEMMA MarkInv == ASSUME Inv, NEW x \in Threads, Mark(x) PROVE Inv'
<1> DEFINE s == thread[x]
<1>1. s.at = "mark" /\ Frame(x) /\ active' = active
  BY States DEF Mark, At, Frame, memory
<1>2. CASE Becomes(x, Idle)
  BY <1>1, <1>2, Outside, Ends DEF Asking, Lent
<1>3. CASE ~Becomes(x, Idle)
  <2> DEFINE next == IF worker # None THEN "halt" ELSE "forget"
  <2>1. s \in ThreadState /\ worker \in Loops \cup {None} BY States
  <2>2. next \in {"halt", "forget"} /\ next \in Names BY DEF Names
  <2>3. Becomes(x, [s EXCEPT !.who = worker, !.at = next]) BY <1>3 DEF Mark
  <2> HIDE DEF next
  <2>4. PICK r : Becomes(x, r) /\ Opens(r, s, s.op, next, s.kind, s.back)
    BY <2>1, <2>2, <2>3, EditWho

  <2> QED BY <1>1, <2>2, <2>4, Outside, GoesTo DEF Opens, Asking, Lent
<1> QED BY <1>2, <1>3

\* A call that gets no connection.
LEMMA RefuseFacts ==
  ASSUME Inv, NEW x \in Threads, Refuse(x), thread[x].at \in Asking \cup {"rebuild"}
  PROVE  \E r \in ThreadState :
           /\ Becomes(x, r) /\ Shape(x, r) /\ r.at \notin Asking
           /\ ~UnderLock(r) /\ ~Starts(r)
           /\ r.held <=> thread[x].held
           /\ r.held => r.conn = thread[x].conn
<1> DEFINE s == thread[x]
           place == Refused(x)
<1>1. CASE Refused(x) = "idle"
  <2>1. ~s.held
    <3>1. SUFFICES ASSUME s.held PROVE FALSE OBVIOUS
    <3>2. s.back = "rebuild" /\ s.op = "step"
      BY <3>1, States DEF Shape, UnderLease, Bound, Asking
    <3> QED BY <1>1, <3>2 DEF Refused
  <2>2. Becomes(x, Idle) BY <1>1 DEF Refuse
  <2>3. /\ Shape(x, Idle) /\ ~UnderLock(Idle) /\ ~Starts(Idle) /\ ~Idle.held
        /\ Idle.at \notin Asking
    BY DEF Idle, Shape, UnderLock, UnderLease, Starts, Asking, Bound, None
  <2> QED BY <2>1, <2>2, <2>3, States
<1>2. CASE Refused(x) # "idle"
  <2>1. place \in {"publish", "release", "leave"} /\ place \in Names
    BY <1>2 DEF Refused, Names
  <2>2. place = "leave" => s.back = "rebuild" /\ s.op = "step" BY DEF Refused
  <2>3. Becomes(x, [s EXCEPT !.at = place, !.new = 0]) BY <1>2 DEF Refuse
  <2>4. s.held => place = "leave"
    <3>1. s.held => s.back = "rebuild" /\ s.op = "step"
      BY States DEF Shape, UnderLease, Bound, Asking
    <3>2. s.op = "step" => x \notin Loops
      <4>1. Shape(x, s) /\ s.at # "idle" BY States DEF Asking
      <4> QED BY <4>1 DEF Shape
    <3> QED BY <3>1, <3>2 DEF Refused
  <2>5. s.back = "rebuild" /\ s.op = "step" => s.held
    BY States DEF Shape, UnderLease, Bound, Asking
  <2> HIDE DEF place
  <2>6. PICK r : Becomes(x, r) /\ Edit(r, s, place, s.kind, s.back, s.held, s.conn)
    BY <2>1, <2>3, EditNew, States, Setting
  <2>7. r.held <=> place = "leave" BY <2>2, <2>4, <2>5, <2>6 DEF Edit
  <2>8. s.at # "idle" => (s.op = "loop" <=> x \in Loops) BY States DEF Shape
  <2>9. Shape(x, r) BY <2>1, <2>6, <2>7, <2>8 DEF Edit, Shape, UnderLease, Bound, Asking
  <2>10. ~UnderLock(r) /\ ~Starts(r) /\ r.at \notin Asking
    BY <2>1, <2>6 DEF Edit, UnderLock, Starts, Bound, Asking
  <2> QED BY <2>6, <2>9, <2>10 DEF Edit
<1> QED BY <1>1, <1>2

\* A call that gets the connection c.
LEMMA ReturnFacts ==
  ASSUME Inv, NEW x \in Threads, NEW c \in Handles, Returns(x, c), thread[x].at \in Asking
  PROVE  \E r \in ThreadState :
           /\ Becomes(x, r) /\ Shape(x, r) /\ r.at \notin Asking
           /\ UnderLock(r) => lock = x
           /\ Starts(r) => r.who \in Loops /\ thread[r.who].at = "idle"
           /\ r.held <=> (Counted(x) \/ thread[x].held)
           /\ r.held => r.conn = IF Counted(x) THEN c ELSE thread[x].conn
<1> DEFINE s == thread[x]
<1>0. s.back \in Names /\ s \in ThreadState /\ 0 \in Handles BY States, Setting DEF ThreadState
<1>1. s.back \in Leased \cup Borrowed /\ (Counted(x) <=> s.back \in Leased)
  BY States DEF Shape, Counted, Leased, Borrowed
<1>2. s.held <=> s.back = "rebuild" /\ s.op = "step"
  BY States DEF Shape, UnderLease, Bound, Asking
<1>3. \E r : /\ Becomes(x, r)
             /\ r \in ThreadState /\ r.op = s.op /\ r.who = s.who
             /\ r.at = s.back /\ r.back = s.back
             /\ r.held <=> (Counted(x) \/ s.held)
             /\ r.conn = IF Counted(x) THEN c ELSE s.conn
  <2>1. CASE Counted(x)
    <3>1. PICK r : Becomes(x, r) /\ Edit(r, s, s.back, s.kind, s.back, TRUE, c)
      BY <1>0, <2>1, EditLeased DEF Returns
    <3> QED BY <2>1, <3>1 DEF Edit
  <2>2. CASE ~Counted(x)
    <3>1. PICK r : Becomes(x, r) /\ Edit(r, s, s.back, s.kind, s.back, s.held, s.conn)
      BY <1>0, <2>2, EditNew DEF Returns
    <3> QED BY <2>2, <3>1 DEF Edit
  <2> QED BY <2>1, <2>2
<1>4. PICK r : /\ Becomes(x, r)
               /\ r \in ThreadState /\ r.op = s.op /\ r.who = s.who
               /\ r.at = s.back /\ r.back = s.back
               /\ r.held <=> (Counted(x) \/ s.held)
               /\ r.conn = IF Counted(x) THEN c ELSE s.conn
  BY <1>3
<1>5. r.at \notin Asking /\ r.at = s.back /\ r.back = s.back /\ r.op = s.op
  BY <1>1, <1>4 DEF Leased, Borrowed, Asking
<1>6. \A p : Bound(r, p) <=> r.at = p BY <1>5 DEF Bound
<1>7. \A p : p # "ask" /\ s.back = p => Bound(s, p) BY DEF Bound
<1>8. Shape(x, r)
  <2>1. r.held <=> UnderLease(x, r)
    <3>1. s.back = "drop" => x \in Requests BY States DEF Shape
    <3>2. r.held <=> Counted(x) \/ s.held BY <1>4
    <3> QED BY <1>1, <1>2, <1>5, <1>6, <3>1, <3>2 DEF UnderLease, Leased, Borrowed
  <2>2. s.at # "idle" BY DEF Asking
  <2>3. Shape(x, s) BY States
  <2> QED BY <1>1, <1>5, <1>6, <1>7, <2>1, <2>2, <2>3 DEF Shape, Leased, Borrowed
<1>9. UnderLock(r) => UnderLock(s)
  BY <1>1, <1>5, <1>6, <1>7 DEF UnderLock, Leased, Borrowed
<1>10. Starts(r) => Starts(s) BY <1>6, <1>5, <1>7 DEF Starts
<1> QED BY <1>4, <1>5, <1>8, <1>9, <1>10, States

\* A counted call is not made under another lease.
LEMMA CountedFacts ==
  ASSUME Inv, NEW x \in Threads, thread[x].at \in Asking, Counted(x)
  PROVE  ~thread[x].held
<1>1. thread[x].held => thread[x].back = "rebuild"
  BY States DEF Shape, UnderLease, Bound, Asking
<1>2. thread[x].back \in Leased BY States DEF Shape, Counted
<1> QED BY <1>1, <1>2 DEF Leased

\* A step of a call to the place of the same call.
LEMMA WithinCall ==
  ASSUME Inv, NEW x \in Threads, NEW r, NEW place \in {"open", "register"},
         Edit(r, thread[x], place, thread[x].kind, thread[x].back, thread[x].held,
              thread[x].conn),
         thread[x].at \in Asking
  PROVE  /\ Shape(x, r) /\ (UnderLock(r) => lock = x)
         /\ (Starts(r) => r.who \in Loops /\ thread[r.who].at = "idle")
         /\ (Owes(r) <=> Counted(x) \/ thread[x].held)
<1> DEFINE s == thread[x]
<1>1. r.at \in Asking /\ r.op = s.op /\ r.kind = s.kind /\ r.back = s.back /\ r.held = s.held
  BY DEF Edit, Asking
<1>2. \A p : p \notin Asking => (Bound(r, p) <=> Bound(s, p))
  BY <1>1 DEF Bound
<1>3. Shape(x, r)
  <2>1. UnderLease(x, r) <=> UnderLease(x, s) BY <1>1, <1>2 DEF UnderLease, Asking
  <2>2. Shape(x, s) BY States
  <2> QED BY <1>1, <1>2, <2>1, <2>2 DEF Shape, Asking
<1>4. UnderLock(r) => UnderLock(s) BY <1>1, <1>2 DEF UnderLock, Asking
<1>5. Starts(r) => Starts(s) BY <1>2 DEF Starts, Asking
<1>6. Owes(r) <=> Counted(x) \/ s.held BY DEF Edit, Owes, Counted
<1> QED BY <1>3, <1>4, <1>5, <1>6, States DEF Edit

\* A call is refused, answered from the registry, or counted and opened.
LEMMA AskInv == ASSUME Inv, NEW x \in Threads, Ask(x) PROVE Inv'
<1> DEFINE s == thread[x]
<1>1. s.at = "ask" /\ Frame(x) BY States, Setting DEF Ask, At, Frame, memory, Refuse, Unlock
<1>2. s.at \in Asking /\ (Owes(s) <=> s.held) BY <1>1 DEF Asking, Owes
<1>3. CASE Refuse(x) /\ active' = active
  <2>1. PICK r \in ThreadState :
          /\ Becomes(x, r) /\ Shape(x, r) /\ r.at \notin Asking
          /\ ~UnderLock(r) /\ ~Starts(r)
          /\ r.held <=> thread[x].held
          /\ r.held => r.conn = thread[x].conn
    BY <1>2, <1>3, RefuseFacts
  <2>2. (Owes(r) <=> r.held) /\ Quiet(x, r)
    BY <1>1, <2>1 DEF Owes, Quiet, Asking, Frame
  <2> QED BY <1>1, <1>2, <1>3, <2>1, <2>2, StepTo DEF Frame
<1>4. CASE /\ Cached(x) # 0 /\ Returns(x, Cached(x)) /\ UNCHANGED lock
           /\ active' = IF Counted(x) THEN active + 1 ELSE active
  <2>1. Cached(x) \in Handles /\ Cached(x) \in {conns, reader} \ {0}
    BY <1>4 DEF Cached, Inv, Types
  <2>2. PICK r \in ThreadState :
           /\ Becomes(x, r) /\ Shape(x, r) /\ r.at \notin Asking
           /\ UnderLock(r) => lock = x
           /\ Starts(r) => r.who \in Loops /\ thread[r.who].at = "idle"
           /\ r.held <=> (Counted(x) \/ thread[x].held)
           /\ r.held => r.conn = IF Counted(x) THEN Cached(x) ELSE thread[x].conn
    BY <1>2, <1>4, <2>1, ReturnFacts
  <2>3. (Owes(r) <=> r.held) /\ Quiet(x, r)
    BY <1>1, <2>1, <2>2 DEF Owes, Quiet, Asking, Frame
  <2>4. Counted(x) => ~s.held BY <1>2, CountedFacts
  <2> QED BY <1>1, <1>2, <1>4, <2>2, <2>3, <2>4, StepTo DEF Frame
<1>5. CASE /\ Goto(x, "open") /\ UNCHANGED lock
           /\ active' = IF Counted(x) THEN active + 1 ELSE active
  <2>1. "open" \in Names BY DEF Names
  <2>2. PICK r : Becomes(x, r) /\ Edit(r, s, "open", s.kind, s.back, s.held, s.conn)
    BY <1>5, <2>1, EditAt, States DEF Goto
  <2>3. Quiet(x, r) BY <1>1, <2>2 DEF Quiet, Frame, Edit
  <2>4. Counted(x) => ~s.held BY <1>2, CountedFacts
  <2> QED BY <1>1, <1>2, <1>5, <2>2, <2>3, <2>4, WithinCall, StepTo DEF Frame, Edit
<1> QED BY <1>3, <1>4, <1>5 DEF Ask

\* A connection that cannot be opened is not counted any more.
LEMMA OpenFailsInv ==
  ASSUME Inv, NEW x \in Threads, Open(x), OpenFails(x)
  PROVE  Inv'
<1> DEFINE s == thread[x]
<1>1. s.at = "open" /\ Frame(x)
  BY States DEF Open, OpenFails, At, Frame, memory, Refuse, Unlock
<1>2. s.at \in Asking /\ (Owes(s) <=> Counted(x) \/ s.held)
  BY <1>1 DEF Asking, Owes, Counted
<1>3. Refuse(x) /\ active' = IF Counted(x) THEN active - 1 ELSE active BY DEF OpenFails
<1>4. PICK r \in ThreadState :
        /\ Becomes(x, r) /\ Shape(x, r) /\ r.at \notin Asking
        /\ ~UnderLock(r) /\ ~Starts(r)
        /\ r.held <=> thread[x].held
        /\ r.held => r.conn = thread[x].conn
  BY <1>2, <1>3, RefuseFacts
<1>5. (Owes(r) <=> r.held) /\ Quiet(x, r)
  BY <1>1, <1>4 DEF Owes, Quiet, Asking, Frame
<1>6. Counted(x) => ~s.held BY <1>2, CountedFacts
<1> QED BY <1>1, <1>2, <1>3, <1>4, <1>5, <1>6, StepTo DEF Frame

\* An Environment is hydrated again, or the call refused.
LEMMA RebuildInv == ASSUME Inv, NEW x \in Threads, Rebuild(x) PROVE Inv'
<1> DEFINE s == thread[x]
<1>1. s.at = "rebuild" /\ Frame(x) /\ active' = active
  <2>1. env' \in Handles
    BY States DEF Rebuild, ThreadState
  <2> QED BY <2>1, States DEF Rebuild, At, Frame, links, Refuse, Unlock
<1>2. s.at \notin Asking /\ s.at # "idle" BY <1>1 DEF Asking
<1>3. CASE Refuse(x)
  <2>1. PICK r \in ThreadState :
          /\ Becomes(x, r) /\ Shape(x, r) /\ r.at \notin Asking
          /\ ~UnderLock(r) /\ ~Starts(r)
          /\ r.held <=> thread[x].held
          /\ r.held => r.conn = thread[x].conn
    BY <1>1, <1>3, RefuseFacts
  <2>2. (Owes(r) <=> r.held) /\ Quiet(x, r)
    BY <1>1, <2>1 DEF Owes, Quiet, Asking, Frame
  <2> QED BY <1>1, <1>2, <2>1, <2>2, Outside, StepTo DEF Frame
<1>4. CASE s.op = "start" /\ Goto(x, "worker") /\ UNCHANGED lock
  <2>1. "worker" \in Names BY DEF Names
  <2>2. PICK r : Becomes(x, r) /\ Edit(r, s, "worker", s.kind, s.back, s.held, s.conn)
    BY <1>4, <2>1, EditAt, States DEF Goto
  <2> QED BY <1>1, <1>2, <1>4, <2>2, Outside, GoesTo DEF Edit, Asking, Lent
<1>5. CASE s.op # "start" /\ Goto(x, AfterSummary(x))
  <2> DEFINE p == AfterSummary(x)
  <2>1. p \in Names /\ p \in {"leave", "publish"} /\ (p = "leave" <=> s.op = "step")
    BY DEF Names, AfterSummary
  <2>2. Becomes(x, [s EXCEPT !.at = p]) BY <1>5 DEF Goto
  <2> HIDE DEF p
  <2>3. PICK r : Becomes(x, r) /\ Edit(r, s, p, s.kind, s.back, s.held, s.conn)
    BY <2>1, <2>2, EditAt, States
  <2> QED BY <1>1, <1>2, <2>1, <2>3, Outside, GoesTo DEF Edit, Asking, Lent
<1> QED BY <1>3, <1>4, <1>5 DEF Rebuild

\* There are enough connections for one that nobody refers to.
LEMMA FreshFacts ==
  ASSUME Inv
  PROVE  /\ Fresh \in Connections \ open /\ Fresh \notin {conns, reader, env}
         /\ \A y \in Threads : thread[y].conn # Fresh /\ thread[y].new # Fresh
<1> DEFINE C == {thread[y].conn : y \in Threads}
           N == {thread[y].new : y \in Threads}
           R == {conns, reader, env}
           n == Cardinality(Threads)
<1>1. IsFiniteSet(C) /\ Cardinality(C) <= n /\ Cardinality(C) \in Nat
  <2>1. [y \in Threads |-> thread[y].conn] \in Surjection(Threads, C) BY DEF Surjection
  <2> HIDE DEF C
  <2> QED BY <2>1, Setting, FS_Surjection, FS_CardinalityType
<1>2. IsFiniteSet(N) /\ Cardinality(N) <= n /\ Cardinality(N) \in Nat
  <2>1. [y \in Threads |-> thread[y].new] \in Surjection(Threads, N) BY DEF Surjection
  <2> HIDE DEF N
  <2> QED BY <2>1, Setting, FS_Surjection, FS_CardinalityType
<1>3. IsFiniteSet(R) /\ Cardinality(R) <= 3 /\ Cardinality(R) \in Nat
  <2> DEFINE D == {conns} \cup {reader}
  <2>1. IsFiniteSet({conns}) /\ Cardinality({conns}) = 1 BY FS_Singleton
  <2>2. IsFiniteSet(D) /\ Cardinality(D) <= 2 /\ Cardinality(D) \in Nat
    BY <2>1, FS_AddElement, FS_CardinalityType
  <2>3. R = D \cup {env} OBVIOUS
  <2> HIDE DEF D, R
  <2>4. /\ IsFiniteSet(D \cup {env})
        /\ Cardinality(D \cup {env}) = IF env \in D THEN Cardinality(D)
                                        ELSE Cardinality(D) + 1
    BY <2>2, FS_AddElement
  <2> QED BY <2>2, <2>3, <2>4
<1> HIDE DEF C, N, R
<1>4. /\ IsFiniteSet(C \cup N) /\ Cardinality(C \cup N) <= n + n
      /\ Cardinality(C \cup N) \in Nat
  <2>1. IsFiniteSet(C \cup N) /\ IsFiniteSet(C \cap N)
    BY <1>1, <1>2, FS_Union, FS_Subset
  <2>2. Cardinality(C \cup N) \in Nat /\ Cardinality(C \cap N) \in Nat
    BY <2>1, FS_CardinalityType
  <2>3. Cardinality(C \cup N) = Cardinality(C) + Cardinality(N) - Cardinality(C \cap N)
    BY <1>1, <1>2, FS_Union
  <2> QED BY <1>1, <1>2, <2>1, <2>2, <2>3, Setting
<1>5. /\ IsFiniteSet((C \cup N) \cup R) /\ Cardinality((C \cup N) \cup R) <= n + n + 3
      /\ Cardinality((C \cup N) \cup R) \in Nat
  <2>1. IsFiniteSet((C \cup N) \cup R) /\ IsFiniteSet((C \cup N) \cap R)
    BY <1>3, <1>4, FS_Union, FS_Subset
  <2>2. Cardinality((C \cup N) \cup R) \in Nat /\ Cardinality((C \cup N) \cap R) \in Nat
    BY <2>1, FS_CardinalityType
  <2>3. Cardinality((C \cup N) \cup R)
          = Cardinality(C \cup N) + Cardinality(R) - Cardinality((C \cup N) \cap R)
    BY <1>3, <1>4, FS_Union
  <2> QED BY <1>3, <1>4, <2>1, <2>2, <2>3, Setting
<1>6. open \subseteq (C \cup N) \cup R
  BY DEF Inv, Holding, NoLeak, C, N, R
<1>7. Cardinality(Connections) = 2 * n + 4 /\ IsFiniteSet(Connections)
  BY Setting, FS_Interval DEF Connections
<1>8. ~(Connections \subseteq (C \cup N) \cup R)
  <2>1. SUFFICES ASSUME Connections \subseteq (C \cup N) \cup R PROVE FALSE OBVIOUS
  <2>2. Cardinality(Connections) <= Cardinality((C \cup N) \cup R)
    BY <1>5, <2>1, FS_Subset
  <2> QED BY <1>5, <1>7, <2>2, Setting
<1>9. Unused = Connections \ ((C \cup N) \cup R) BY <1>6 DEF Unused, C, N, R
<1>10. Fresh \in Unused BY <1>8, <1>9 DEF Fresh
<1> QED BY <1>10 DEF Unused

\* A connection is opened: nobody else refers to it.
LEMMA OpenedInv ==
  ASSUME Inv, NEW x \in Threads, Open(x), ~OpenFails(x)
  PROVE  Inv'
<1> DEFINE s == thread[x]
<1>1. /\ s.at = "open" /\ UNCHANGED <<conns, reader, env, worker, active, lock>>
      /\ open' = open \cup {Fresh}
      /\ Becomes(x, [s EXCEPT !.at = "register", !.new = Fresh])
  BY DEF Open, At, memory
<1>2. s.at \in Asking /\ (Owes(s) <=> Counted(x) \/ s.held)
  BY <1>1 DEF Asking, Owes, Counted
<1>3. /\ Fresh \in Connections \ open /\ Fresh \notin {conns, reader, env}
      /\ \A y \in Threads : thread[y].conn # Fresh /\ thread[y].new # Fresh
  BY FreshFacts
<1>4. PICK r : /\ Becomes(x, r) /\ r.new = Fresh
               /\ Edit(r, s, "register", s.kind, s.back, s.held, s.conn)
  <2>1. "register" \in Names /\ s \in ThreadState /\ Fresh \in Handles
    BY <1>3, States DEF Names, Handles
  <2>2. [s EXCEPT !.at = "register", !.new = Fresh].new = Fresh BY <2>1 DEF ThreadState
  <2> QED BY <1>1, <2>1, <2>2, EditNew
<1>5. /\ Shape(x, r) /\ (UnderLock(r) => lock = x)
      /\ (Starts(r) => r.who \in Loops /\ thread[r.who].at = "idle")
      /\ (Owes(r) <=> Counted(x) \/ s.held)
  BY <1>2, <1>4, WithinCall
<1>6. Moves(x, r)
  BY <1>1, <1>2, <1>4, <1>5, Becoming DEF Moves, Edit, Inv
<1>7. Threading' /\ active' \in Nat /\ lock' \in Threads \cup {None}
  BY <1>6, MoveThreading DEF Inv
<1>8. Types' BY <1>1, <1>3, <1>6, <1>7 DEF Inv, Types, Moves
<1>9. /\ thread'[x] = r /\ r.held = s.held /\ r.conn = s.conn /\ r.at = "register"
      /\ \A y \in Threads : y # x => Alike(thread'[y], thread[y])
  BY <1>4, <1>6 DEF Moves, Edit
<1>10. Registered' BY <1>1 DEF Inv, Holding, Registered
<1>11. Owned'
  <2> SUFFICES ASSUME NEW y \in Threads, thread'[y].at = "register"
               PROVE /\ thread'[y].new \in open' /\ thread'[y].new \notin {conns, reader}
                     /\ \A z \in Threads : z # y /\ thread'[z].at = "register"
                          => thread'[z].new # thread'[y].new
                     /\ \A z \in Threads : thread'[z].held
                          => thread'[z].conn # thread'[y].new
      BY <1>1 DEF Owned, At
  <2>1. CASE y = x BY <1>1, <1>3, <1>4, <1>9, <2>1 DEF Alike
  <2>2. CASE y # x
    <3>1. thread[y].at = "register" /\ thread'[y].new = thread[y].new
      BY <1>9, <2>2 DEF Alike
    <3> QED BY <1>1, <1>3, <1>4, <1>9, <2>2, <3>1 DEF Alike, Inv, Holding, Owned, At
  <2> QED BY <2>1, <2>2
<1>12. LeaseProtects'
  BY <1>1, <1>9 DEF Alike, Inv, Holding, LeaseProtects
<1>13. NoLeak'
  <2> SUFFICES ASSUME NEW c \in open'
               PROVE  \/ c \in {conns, reader}
                      \/ \E y \in Threads : thread'[y].at = "register" /\ thread'[y].new = c
      BY <1>1 DEF NoLeak, At
  <2>1. CASE c = Fresh BY <1>4, <1>9, <2>1
  <2>2. CASE c # Fresh
    BY <1>1, <1>9, <2>2 DEF Alike, Inv, Holding, NoLeak, At
  <2> QED BY <2>1, <2>2
<1> QED BY <1>7, <1>8, <1>10, <1>11, <1>12, <1>13 DEF Inv, Holding

\* The connection that the thread x has opened is registered, or closed again.
LEMMA RegisterInv == ASSUME Inv, NEW x \in Threads, Register(x) PROVE Inv'
<1> DEFINE s == thread[x]
           mine == s.new
<1>1. s.at = "register" /\ env' = env /\ worker' = worker BY DEF Register, At, memory
<1>2. s.at \in Asking /\ (Owes(s) <=> Counted(x) \/ s.held) /\ (Counted(x) => ~s.held)
  <2>1. s.at \in Asking BY <1>1 DEF Asking
  <2> QED BY <1>1, <2>1, CountedFacts DEF Owes, Counted
<1>3. mine \in Handles /\ mine # 0 /\ mine \in open /\ mine \notin {conns, reader}
  BY <1>1, Setting DEF Inv, Types, Holding, Owned, At, ThreadState
<1>4. /\ \A y \in Threads : y # x /\ thread[y].at = "register" => thread[y].new # mine
      /\ \A y \in Threads : thread[y].held => thread[y].conn # mine
  BY <1>1 DEF Inv, Holding, Owned, At
\* What x becomes, and which connection it was lent.
<1>5. \E r \in ThreadState :
        /\ Moves(x, r) /\ r.at # "register"
        /\ r.held => \/ r.conn \in open' \cap {conns', reader'}
                     \/ s.held /\ r.conn = s.conn
  <2>1. CASE Refuse(x) /\ active' = IF Counted(x) THEN active - 1 ELSE active
    <3>1. PICK r \in ThreadState :
            /\ Becomes(x, r) /\ Shape(x, r) /\ r.at \notin Asking
            /\ ~UnderLock(r) /\ ~Starts(r)
            /\ r.held <=> thread[x].held
            /\ r.held => r.conn = thread[x].conn
      BY <1>2, <2>1, RefuseFacts
    <3>2. Owes(r) <=> r.held BY <3>1 DEF Owes, Asking
    <3>3. lock' = lock \/ (lock \in {None, x} /\ lock' \in {None, x})
      BY <2>1 DEF Refuse, Unlock
    <3>4. Moves(x, r)
      BY <1>1, <1>2, <2>1, <3>1, <3>2, <3>3, Becoming DEF Moves, Inv
    <3> QED BY <3>1, <3>4 DEF Asking
  <2>2. ASSUME NEW c \in Handles, Returns(x, c), UNCHANGED <<active, lock>>,
               c \in open' \cap {conns', reader'}
        PROVE  \E r \in ThreadState :
                 /\ Moves(x, r) /\ r.at # "register"
                 /\ r.held => \/ r.conn \in open' \cap {conns', reader'}
                              \/ s.held /\ r.conn = s.conn
    <3>1. PICK r \in ThreadState :
            /\ Becomes(x, r) /\ Shape(x, r) /\ r.at \notin Asking
            /\ UnderLock(r) => lock = x
            /\ Starts(r) => r.who \in Loops /\ thread[r.who].at = "idle"
            /\ r.held <=> (Counted(x) \/ thread[x].held)
            /\ r.held => r.conn = IF Counted(x) THEN c ELSE thread[x].conn
      BY <1>2, <2>2, ReturnFacts
    <3>2. Owes(r) <=> r.held BY <3>1 DEF Owes, Asking
    <3>3. Moves(x, r)
      BY <1>1, <1>2, <2>2, <3>1, <3>2, Becoming DEF Moves, Inv
    <3> QED BY <2>2, <3>1, <3>3 DEF Asking
  <2> DEFINE other == IF s.kind = "read" /\ conns = 0 THEN reader ELSE conns
  <2>3. CASE /\ ~deleting /\ other # 0 /\ open' = open \ {mine} /\ Returns(x, other)
             /\ UNCHANGED <<conns, reader, active, lock>>
    <3>1. other \in Handles /\ other \in {conns, reader} BY DEF Inv, Types
    <3>2. other \in open' BY <1>3, <2>3, <3>1 DEF Inv, Holding, Registered
    <3> HIDE DEF other
    <3> QED BY <2>2, <2>3, <3>1, <3>2
  <2>4. CASE /\ ~deleting /\ other = 0 /\ mine \in {conns', reader'} /\ Returns(x, mine)
             /\ UNCHANGED <<open, active, lock>>
    BY <1>3, <2>2, <2>4
  <2> QED BY <2>1, <2>3, <2>4 DEF Register
<1>6. PICK r \in ThreadState :
        /\ Moves(x, r) /\ r.at # "register"
        /\ r.held => \/ r.conn \in open' \cap {conns', reader'}
                     \/ s.held /\ r.conn = s.conn
  BY <1>5
\* What becomes of the connections.
<1>7. \/ open' = open \ {mine} /\ UNCHANGED <<conns, reader>>
      \/ /\ open' = open
         /\ \/ conns = 0 /\ conns' = mine /\ reader' = reader
            \/ reader = 0 /\ reader' = mine /\ conns' = conns
  <2>1. \/ open' = open \ {mine} /\ UNCHANGED <<conns, reader>>
        \/ /\ open' = open
           /\ (IF s.kind = "read" /\ conns = 0 THEN reader ELSE conns) = 0
           /\ IF s.kind = "read" THEN reader' = mine /\ UNCHANGED conns
              ELSE conns' = mine /\ UNCHANGED reader
    BY DEF Register
  <2> QED BY <2>1
<1>8. Threading' /\ active' \in Nat /\ lock' \in Threads \cup {None}
  BY <1>6, MoveThreading DEF Inv
<1>9. Types' BY <1>1, <1>3, <1>6, <1>7, <1>8 DEF Inv, Types, Moves
<1>10. /\ thread'[x] = r
       /\ \A y \in Threads : y # x => Alike(thread'[y], thread[y])
  BY <1>6 DEF Moves
<1>11. Registered' BY <1>3, <1>7 DEF Inv, Holding, Registered
<1>12. \A y \in Threads : thread'[y].at = "register" =>
         y # x /\ thread[y].at = "register" /\ thread'[y].new = thread[y].new
  BY <1>6, <1>10 DEF Alike
<1>13. \A y \in Threads : thread'[y].held =>
         \/ thread'[y].conn \in open' \cap {conns', reader'}
         \/ thread[y].held /\ thread'[y].conn = thread[y].conn
  BY <1>6, <1>10 DEF Alike
<1>14. Owned'
  <2> SUFFICES ASSUME NEW y \in Threads, thread'[y].at = "register"
               PROVE /\ thread'[y].new \in open' /\ thread'[y].new \notin {conns', reader'}
                     /\ \A z \in Threads : z # y /\ thread'[z].at = "register"
                          => thread'[z].new # thread'[y].new
                     /\ \A z \in Threads : thread'[z].held
                          => thread'[z].conn # thread'[y].new
      BY DEF Owned, At
  <2>1. /\ y # x /\ thread[y].at = "register" /\ thread'[y].new = thread[y].new
        /\ thread[y].new # mine
    BY <1>4, <1>12
  <2>2. /\ thread[y].new \in open /\ thread[y].new \notin {conns, reader}
        /\ \A z \in Threads : z # y /\ thread[z].at = "register"
             => thread[z].new # thread[y].new
        /\ \A z \in Threads : thread[z].held => thread[z].conn # thread[y].new
    BY <2>1 DEF Inv, Holding, Owned, At
  <2>3. thread'[y].new \in open' /\ thread'[y].new \notin {conns', reader'}
    BY <1>7, <2>1, <2>2
  <2> QED BY <1>12, <1>13, <2>1, <2>2, <2>3
<1>15. LeaseProtects'
  BY <1>4, <1>7, <1>13 DEF Inv, Holding, LeaseProtects
<1>16. NoLeak'
  <2> SUFFICES ASSUME NEW c \in open'
               PROVE  \/ c \in {conns', reader'}
                      \/ \E y \in Threads : thread'[y].at = "register" /\ thread'[y].new = c
      BY DEF NoLeak, At
  <2>1. c \in open /\ (c \in {conns, reader} => c \in {conns', reader'})
        /\ (c = mine => c \in {conns', reader'})
    BY <1>3, <1>7, Setting DEF Inv, Types
  <2>2. CASE c \in {conns, reader} \cup {mine} BY <2>1, <2>2
  <2>3. CASE c \notin {conns, reader} \cup {mine}
    <3>1. PICK y \in Threads : thread[y].at = "register" /\ thread[y].new = c
      BY <2>1, <2>3 DEF Inv, Holding, NoLeak, At
    <3>2. y # x BY <2>3, <3>1
    <3> QED BY <1>10, <3>1, <3>2 DEF Alike
  <2> QED BY <2>2, <2>3
<1> QED BY <1>8, <1>9, <1>11, <1>14, <1>15, <1>16 DEF Inv, Holding

\* Without a lease nobody uses the connections that are closed.
LEMMA CloseConnsInv == ASSUME Inv, NEW x \in Threads, CloseConns(x) PROVE Inv'
<1> DEFINE s == thread[x]
<1>1. /\ s.at = "close" /\ active = 0 /\ active' = active /\ env' = env /\ worker' = worker
      /\ conns' = 0 /\ reader' = 0 /\ open' = open \ {conns, reader}
  BY DEF CloseConns, Close, Closable, At, memory
<1>2. s.at \notin Asking /\ s.at # "idle" BY <1>1 DEF Asking
<1>3. \A y \in Threads : ~thread[y].held
  <2>1. Owing = {} BY <1>1, OwingFacts DEF Inv, Threading
  <2> QED BY <2>1 DEF Owing, Owes
<1>4. \E r \in ThreadState : Moves(x, r) /\ r.at # "register" /\ ~r.held
  <2>1. CASE Becomes(x, Idle) /\ Unlock(x)
    <3>1. Shape(x, Idle) /\ ~UnderLock(Idle) /\ ~Starts(Idle) /\ ~Owes(Idle) /\ ~Idle.held
          /\ Idle.at # "register"
      BY DEF Idle, Shape, UnderLock, UnderLease, Starts, Owes, Asking, Bound,
             None
    <3>2. Idle \in ThreadState BY States
    <3>3. lock' = lock \/ (lock \in {None, x} /\ lock' \in {None, x})
      BY <2>1 DEF Unlock
    <3>4. Moves(x, Idle)
      BY <1>1, <1>2, <1>3, <2>1, <3>1, <3>2, <3>3, Becoming, Outside
         DEF Moves, Inv
    <3> QED BY <3>1, <3>2, <3>4
  <2>2. CASE Goto(x, "remove") /\ UNCHANGED lock
    <3>1. "remove" \in Names BY DEF Names
    <3>2. PICK r : Becomes(x, r) /\ Edit(r, s, "remove", s.kind, s.back, s.held, s.conn)
      BY <2>2, <3>1, EditAt, States DEF Goto
    <3>3. ~r.held /\ r \in ThreadState /\ r.at = "remove" /\ r.op = s.op
      BY <1>3, <3>2 DEF Edit
    <3>4. Shape(x, r)
      BY <1>2, <3>3, Outside DEF Shape, UnderLease, Bound, Asking
    <3>5. ~UnderLock(r) /\ ~Starts(r) /\ ~Owes(r)
      BY <3>3 DEF UnderLock, Starts, Owes, Bound, Asking
    <3>6. Moves(x, r)
      BY <1>1, <1>2, <1>3, <2>2, <3>2, <3>3, <3>4, <3>5, Becoming, Outside
         DEF Moves, Inv
    <3> QED BY <3>3, <3>6
  <2> QED BY <2>1, <2>2 DEF CloseConns
<1>5. PICK r \in ThreadState : Moves(x, r) /\ r.at # "register" /\ ~r.held BY <1>4
<1>6. Threading' /\ active' \in Nat /\ lock' \in Threads \cup {None}
  BY <1>5, MoveThreading DEF Inv
<1>7. Types' BY <1>1, <1>5, <1>6, Setting DEF Inv, Types, Moves
<1>8. /\ thread'[x] = r
      /\ \A y \in Threads : y # x => Alike(thread'[y], thread[y])
  BY <1>5 DEF Moves
<1>9. \A y \in Threads :
        /\ ~thread'[y].held
        /\ thread'[y].at = "register" =>
             thread[y].at = "register" /\ thread'[y].new = thread[y].new
        /\ thread[y].at = "register" =>
             thread'[y].at = "register" /\ thread'[y].new = thread[y].new
  BY <1>1, <1>3, <1>5, <1>8 DEF Alike
<1>10. Registered' BY <1>1 DEF Registered
<1>11. Owned'
  <2> SUFFICES ASSUME NEW y \in Threads, thread'[y].at = "register"
               PROVE /\ thread'[y].new \in open' /\ thread'[y].new # 0
                     /\ \A z \in Threads : z # y /\ thread'[z].at = "register"
                          => thread'[z].new # thread'[y].new
      BY <1>1, <1>9 DEF Owned, At
  <2> QED BY <1>1, <1>9, Setting DEF Inv, Types, Holding, Owned, At
<1>12. LeaseProtects' BY <1>9 DEF LeaseProtects
<1>13. NoLeak' BY <1>1, <1>9 DEF Inv, Holding, NoLeak, At
<1> QED BY <1>6, <1>7, <1>10, <1>11, <1>12, <1>13 DEF Inv, Holding

\* A worker is made for a thread that is free, under the lifecycle lock.
LEMMA MakeWorkerInv == ASSUME Inv, NEW x \in Threads, MakeWorker(x) PROVE Inv'
<1> DEFINE s == thread[x]
<1>1. s.at = "worker" /\ Frame(x) /\ active' = active
  BY States DEF MakeWorker, At, Frame, links, Unlock
<1>2. s.at \notin Asking /\ s.at # "idle" /\ ~s.held /\ lock = x
  BY <1>1, Outside DEF Asking, Lent
<1>3. CASE Becomes(x, Idle)
  BY <1>1, <1>2, <1>3, Ends
<1>4. CASE /\ UNCHANGED lock
           /\ \E l \in Loops : /\ thread[l].at = "idle"
                               /\ Becomes(x, [s EXCEPT !.at = "ask", !.kind = "plain",
                                                       !.back = "spawn", !.who = l])
  <2>1. PICK l \in Loops : /\ thread[l].at = "idle"
                           /\ Becomes(x, [s EXCEPT !.at = "ask", !.kind = "plain",
                                                   !.back = "spawn", !.who = l])
    BY <1>4
  <2>2. PICK r : /\ Becomes(x, r) /\ r.who = l
                 /\ Opens(r, s, s.op, "ask", "plain", "spawn")
    <3>1. "ask" \in Names /\ "plain" \in Names /\ "spawn" \in Names BY DEF Names
    <3> QED BY <2>1, <3>1, States, EditMade
  <2>3. /\ r \in ThreadState /\ r.op = s.op /\ r.at = "ask" /\ r.kind = "plain"
        /\ r.back = "spawn" /\ ~r.held
    BY <1>2, <2>2 DEF Opens
  <2>4. Shape(x, r)
    BY <1>2, <2>3, Outside DEF Shape, UnderLease, Bound, Asking, Borrowed
  <2>5. ~Owes(r) /\ ~Owes(s) /\ Quiet(x, r)
    BY <1>1, <1>2, <2>3, Outside DEF Owes, Quiet, Frame
  <2> QED BY <1>1, <1>2, <1>4, <2>1, <2>2, <2>3, <2>4, <2>5, StepTo DEF Frame
<1> QED BY <1>3, <1>4 DEF MakeWorker, At

\* The thread of the new worker starts while that of the request goes on.
LEMMA SpawnInv == ASSUME Inv, NEW x \in Threads, Spawn(x) PROVE Inv'
<1> DEFINE s == thread[x]
           l == s.who
<1>1. s.at = "spawn" /\ UNCHANGED <<lock, conns, reader, active, open, env, worker>>
  BY DEF Spawn, At, links, memory
<1>2. s.at \notin Asking /\ s.at # "idle" /\ ~s.held /\ lock = x
  BY <1>1, Outside DEF Asking, Lent
<1>3. l \in Loops /\ l \in Threads /\ thread[l].at = "idle" /\ l # x
  <2>1. Starts(s) BY <1>1 DEF Starts, Bound
  <2> QED BY <1>2, <2>1, States
<1>4. /\ thread' \in [Threads -> ThreadState]
      /\ thread'[x].at = "agent" /\ thread'[x].op = s.op /\ ~thread'[x].held
      /\ thread'[l].at = "top" /\ thread'[l].op = "loop" /\ ~thread'[l].held
      /\ \A y \in Threads : y # x /\ y # l => thread'[y] = thread[y]
  <2> DEFINE a == [s EXCEPT !.at = "agent"]
             b == [Idle EXCEPT !.op = "loop", !.at = "top"]
  <2>1. a \in ThreadState /\ a.at = "agent" /\ a.op = s.op /\ a.held = s.held
    <3>1. "agent" \in Names BY DEF Names
    <3> QED BY <3>1, States, EditAt DEF Edit
  <2>2. b \in ThreadState /\ b.at = "top" /\ b.op = "loop" /\ b.held = FALSE
    <3>1. "top" \in Names /\ "loop" \in Names BY DEF Names
    <3>2. Idle.held = FALSE BY DEF Idle
    <3>3. Opens(b, Idle, "loop", "top", Idle.kind, Idle.back) BY <3>1, States, EditLoop
    <3> HIDE DEF b
    <3> QED BY <3>2, <3>3 DEF Opens
  <2>3. thread \in [Threads -> ThreadState] BY DEF Inv, Types
  <2>4. thread' = [thread EXCEPT ![x].at = "agent", ![l] = b] BY DEF Spawn
  <2>5. thread' = [thread EXCEPT ![x] = a, ![l] = b] BY <1>3, <2>3, <2>4
  <2> HIDE DEF a, b
  <2> QED BY <1>2, <1>3, <2>1, <2>2, <2>3, <2>5
<1>5. \A y \in Threads :
        /\ Owes(thread'[y]) <=> Owes(thread[y])
        /\ thread'[y].held <=> thread[y].held
        /\ thread'[y].at = "register" <=> thread[y].at = "register"
        /\ thread[y].at = "register" \/ thread[y].held => thread'[y] = thread[y]
  <2> SUFFICES ASSUME NEW y \in Threads
               PROVE  /\ Owes(thread'[y]) <=> Owes(thread[y])
                      /\ thread'[y].held <=> thread[y].held
                      /\ thread'[y].at = "register" <=> thread[y].at = "register"
                      /\ thread[y].at = "register" \/ thread[y].held
                           => thread'[y] = thread[y]
      OBVIOUS
  <2>1. CASE y = x BY <1>1, <1>2, <1>4, <2>1 DEF Owes
  <2>2. CASE y = l
    <3>1. ~thread[l].held
      BY <1>3, States DEF Shape, UnderLease, Bound, Asking
    <3> QED BY <1>3, <1>4, <2>2, <3>1 DEF Owes
  <2>3. CASE y # x /\ y # l BY <1>4, <2>3
  <2> QED BY <2>1, <2>2, <2>3
<1>6. Shapes'
  <2> SUFFICES ASSUME NEW y \in Threads PROVE Shape(y, thread'[y]) BY DEF Shapes
  <2>1. CASE y = x
    BY <1>2, <1>4, <2>1, Outside DEF Shape, UnderLease, Bound, Asking
  <2>2. CASE y = l
    BY <1>3, <1>4, <2>2 DEF Shape, UnderLease, Bound, Asking
  <2>3. CASE y # x /\ y # l BY <1>4, <2>3 DEF Inv, Threading, Shapes
  <2> QED BY <2>1, <2>2, <2>3
<1>7. Locked'
  <2> SUFFICES ASSUME NEW y \in Threads, UnderLock(thread'[y]) PROVE lock' = y
      BY DEF Locked
  <2>1. CASE y = l BY <1>4, <2>1 DEF UnderLock, Bound, Asking
  <2> QED BY <1>1, <1>2, <1>4, <2>1 DEF Inv, Threading, Locked
<1>8. Spawned'
  <2> SUFFICES ASSUME NEW y \in Threads, Starts(thread'[y]) PROVE FALSE
      BY DEF Spawned
  <2>1. y # x /\ y # l BY <1>4 DEF Starts, Bound, Asking
  <2>2. UnderLock(thread[y]) BY <1>4, <2>1 DEF Starts, UnderLock
  <2> QED BY <1>2, <2>1, <2>2 DEF Inv, Threading, Locked
<1>9. Owing' = Owing BY <1>5 DEF Owing
<1>10. Types' /\ Threading'
  BY <1>1, <1>4, <1>6, <1>7, <1>8, <1>9 DEF Inv, Types, Threading
<1>11. Holding'
  <2>1. Registered' BY <1>1 DEF Inv, Holding, Registered
  <2>2. Owned'
    <3> SUFFICES ASSUME NEW y \in Threads, thread'[y].at = "register"
                 PROVE /\ thread'[y].new \in open /\ thread'[y].new \notin {conns, reader}
                       /\ \A z \in Threads : z # y /\ thread'[z].at = "register"
                            => thread'[z].new # thread'[y].new
                       /\ \A z \in Threads : thread'[z].held
                            => thread'[z].conn # thread'[y].new
        BY <1>1 DEF Owned, At
    <3> QED BY <1>5 DEF Inv, Holding, Owned, At
  <2>3. LeaseProtects' BY <1>1, <1>5 DEF Inv, Holding, LeaseProtects
  <2>4. NoLeak' BY <1>1, <1>5 DEF Inv, Holding, NoLeak, At
  <2> QED BY <2>1, <2>2, <2>3, <2>4 DEF Holding
<1> QED BY <1>10, <1>11 DEF Inv

\* The streams are told, and the thread of the worker goes on.
LEMMA PublishInv == ASSUME Inv, NEW x \in Loops, Publish(x) PROVE Inv'
<1> DEFINE s == thread[x]
<1> x \in Threads BY DEF Threads
<1>1. s.at = "publish" /\ Frame(x) /\ active' = active
  BY States DEF Publish, At, Frame, links, memory
<1>2. s.at \notin Asking /\ s.at # "idle" /\ ~s.held
  BY <1>1, Outside DEF Asking, Lent
<1>3. PICK r : /\ r = [s EXCEPT !.at = "release", !.conn = 0]
               /\ Edit(r, s, "release", s.kind, s.back, s.held, 0)
  <2>1. "release" \in Names BY DEF Names
  <2> QED BY <2>1, States, Setting, EditPlace
<1>4. thread' = [y \in Threads |->
        IF y = x THEN r
        ELSE IF thread[y].op = "stream" /\ thread[y].who = x
             THEN [thread[y] EXCEPT !.told = TRUE] ELSE thread[y]]
  BY <1>3 DEF Publish
<1>5. \A y \in Threads : /\ [thread[y] EXCEPT !.told = TRUE] \in ThreadState
                         /\ Alike([thread[y] EXCEPT !.told = TRUE], thread[y])
  BY States, EditTold
<1>6. thread' \in [Threads -> ThreadState] /\ thread'[x] = r
  <2>1. \A y \in Threads : thread[y] \in ThreadState BY States
  <2>2. r \in ThreadState BY <1>3 DEF Edit
  <2> QED BY <1>4, <1>5, <2>1, <2>2
<1>7. \A y \in Threads : y # x => Alike(thread'[y], thread[y])
  BY <1>4, <1>5 DEF Alike
<1>8. ~r.held /\ r \in ThreadState /\ r.at = "release" /\ r.op = s.op
  BY <1>2, <1>3 DEF Edit
<1>9. Shape(x, r) /\ ~UnderLock(r) /\ ~Starts(r) /\ ~Owes(r) /\ ~Owes(s)
  BY <1>2, <1>8, Outside
     DEF Shape, UnderLease, UnderLock, Starts, Owes, Bound, Asking
<1>10. Moves(x, r)
  BY <1>1, <1>2, <1>6, <1>7, <1>8, <1>9 DEF Moves, Frame
<1>11. Quiet(x, r) BY <1>1, <1>8 DEF Quiet, Frame
<1> QED BY <1>10, <1>11, MoveQuietly

-----------------------------------------------------------------------------
(* The theorems.                                                           *)

\* The invariant holds at first.
LEMMA InitInv == Init => Inv
<1> SUFFICES ASSUME Init PROVE Inv OBVIOUS
<1> USE DEF Init
<1>1. Idle \in ThreadState
  <2>1. \A a, b \in Names, c \in Handles, d \in BOOLEAN, w \in Loops \cup {None} :
          [op |-> a, at |-> b, kind |-> a, back |-> a, conn |-> c, new |-> c,
           held |-> d, told |-> d, who |-> w] \in ThreadState
    BY DEF ThreadState
  <2>2. "none" \in Names /\ "idle" \in Names /\ FALSE \in BOOLEAN BY DEF Names, None
  <2> QED BY <2>1, <2>2, Setting DEF Idle, None
<1>2. \A x \in Threads : thread[x] = Idle OBVIOUS
<1>3. /\ Idle.at = "idle" /\ ~Idle.held /\ ~UnderLock(Idle) /\ ~Starts(Idle) /\ ~Owes(Idle)
      /\ \A x : Shape(x, Idle)
  BY DEF Idle, Shape, UnderLock, UnderLease, Starts, Owes, Asking, Bound
<1>4. Types BY <1>1, Setting DEF Types
<1>5. Owing = {} BY <1>2, <1>3 DEF Owing
<1>6. Threading
  BY <1>2, <1>3, <1>5, FS_EmptySet DEF Threading, Shapes, Locked, Spawned
<1>7. Holding
  BY <1>2, <1>3 DEF Holding, Registered, Owned, LeaseProtects, NoLeak, At
<1> QED BY <1>4, <1>6, <1>7 DEF Inv

\* Every step keeps the invariant.
LEMMA NextInv == Inv /\ [Next]_vars => Inv'
<1> SUFFICES ASSUME Inv, [Next]_vars PROVE Inv' OBVIOUS
<1>1. CASE UNCHANGED vars
  BY <1>1
     DEF vars, links, memory, files, Inv, Types, Threading, Shapes, Locked,
         Spawned,
              Owing, Holding, Registered, Owned, LeaseProtects, NoLeak, At
<1>2. ASSUME NEW x \in Requests, Begin(x) PROVE Inv' BY <1>2, BeginInv
<1>3. ASSUME NEW x \in Threads, Request(x) PROVE Inv'
  BY <1>3, AskInv, OpenFailsInv, OpenedInv, RegisterInv, AnswerInv,
     FindEnvInv, InsertInv,
     AddEnvInv, AutoStartInv, WorkInv, FailedInv, SummaryInv, RebuildInv, LeaveInv,
     ReleaseInv, DropInv, CloseConnsInv, ControlInv, StartingInv, MakeWorkerInv, SpawnInv,
     SpawnAgentInv, StoppingInv, StoppedInv, StopWorkerInv, MarkInv, HaltInv, JoinInv,
     ForgetInv, WaitLeasesInv, RemoveInv DEF Request
<1>4. ASSUME NEW l \in Loops, WorkerLoop(l) PROVE Inv'
  BY <1>4, TopInv, CountInv, MarkFinishedInv, PublishInv DEF WorkerLoop
<1> QED BY <1>1, <1>2, <1>3, <1>4 DEF Next

\* The invariant holds of every behaviour.
LEMMA InvHolds == Spec => []Inv
BY InitInv, NextInv, PTL DEF Spec

\* The connection that a thread was lent is open until the lease is returned.
THEOREM LeasesProtect == Spec => []LeaseProtects
<1>1. Inv => LeaseProtects BY DEF Inv, Holding
<1> QED BY <1>1, InvHolds, PTL

\* The count of the leases is right, and every open connection has an owner.
THEOREM NoLeaseIsLost == Spec => []NothingLost
<1>1. Inv => NothingLost
  <2>1. LeasesCounted <=> active = Cardinality(Owing)
    BY DEF LeasesCounted, Owing, Owes, Counted
  <2> QED BY <2>1 DEF Inv, Threading, Holding, NothingLost
<1> QED BY <1>1, InvHolds, PTL
=============================================================================
