-------------------------- MODULE StepBoundaryProofs --------------------------
(* What holds of StepBoundary for every set of agents, every run and every *)
(* number of crashes.                                                      *)
EXTENDS StepBoundary, FiniteSetTheorems, SequenceTheorems, TLAPS

------------------------------------------------------------------------------
(* The inductive invariant                                                 *)

\* What the place of the stepping thread says of the lock, the hook and the
\* marker in the database.
Control ==
  /\ lock = "worker" <=> pc \in {"moving", "commit"}
  /\ open => pc \in {"waiting", "shut"}
  /\ lock \in Agents => open /\ lock \in live /\ next[lock] \in Calling
  /\ \A a \in Agents : next[a] \in Calling => seen[a] # None
  /\ pc # "idle" \/ pending # None => t < setting.last
  /\ pc = "moving" => pending = None
  /\ pc \notin {"idle", "moving"} => pending = t
  /\ closed => pending # None
  /\ pc \notin {"idle", "final", "commit"} => ~closed
  /\ pc \in {"final", "commit"} => closed

\* Of agents that declare their step: who has ended the hook has observed this
\* tick, and the hook that is open is released by the last of them.
Hook ==
  /\ \A a \in Agents : seen[a] <= t
  /\ \A a \in done : seen[a] = t
  /\ lock \in Agents => seen[lock] = t
  /\ pc \in {"open", "waiting"} => active # {} /\ active \subseteq live
  /\ pc = "waiting" /\ event => active \subseteq done
  /\ pc = "commit" => done = {}
  /\ ReleaseIsKept

\* Nothing is written of a tick before it begins.
Ahead == \A s \in Ticks : s > t =>
  trace[s] = Missing /\ cost[s] = NoTurns /\ said[s] = NoTurns

\* A step is charged for after its hook was marked closed, and then its trace is
\* read back before it is charged for again.
Charged ==
  /\ \A s \in Ticks : trace[s] = Missing => cost[s] = NoTurns
  /\ cost[t] # NoTurns => closed
  /\ pc = "final" /\ cost[t] # NoTurns => taken # Missing
  /\ pc = "commit" => cost[t] \in {NoTurns, Turns(trace[t])}

\* Before the first crash the buffers hold what was acknowledged in the tick.
Whole == crashes = 0 =>
  /\ pc = "idle" => pending = None
  /\ pc # "commit" => /\ said[t] = turns /\ cost[t] = NoTurns
                      /\ turns = NoTurns /\ ~observed
                           => trace[t] = Missing /\ taken = Missing
  /\ pc = "commit" => /\ said[t] = cost[t] /\ said[t] = Turns(trace[t])
                      /\ taken = Missing /\ turns = NoTurns
  /\ pc = "final" => taken = Missing

Ledger == Ahead /\ Charged /\ CostIsTraced /\ Whole /\ TraceComplete

\* A cache of keys in the order of their ticks, no key twice.
Recent(c, now) ==
  /\ Len(c) <= IdemCap
  /\ \A i, j \in DOMAIN c : i < j => c[i] # c[j] /\ c[i][2] <= c[j][2]
  /\ \A i \in DOMAIN c : c[i][2] <= now /\ c[i][3] = c[i][2]

\* A decision that this process has carried out in this tick is answered from
\* the cache, or being answered.
Answerable ==
  /\ Recent(cache, t) /\ Recent(idem, t)
  /\ \A k \in Keys : k[2] > t => ran[k] = 0
  /\ \A k \in Keys : k[2] = t /\ ran[k] > crashes => Cached(k) \/ lock = k[1]

------------------------------------------------------------------------------
(* Types                                                                   *)

\* What the assumption on the settings says of one of them.
LEMMA SettingFacts ==
  ASSUME NEW x \in Settings
  PROVE  /\ x.team \subseteq Agents /\ x.team # {} /\ x.last \in Ticks
         /\ x.crashes \in Nat /\ x.turns \in Nat /\ x.horizon \in Nat
         /\ x.period \in Nat \ {0}
BY BoundaryAssumption DEF Ticks

\* A count of turns is no missing file.
LEMMA TypeFacts ==
  ASSUME TypeOK
  PROVE  /\ t \in Ticks /\ Ticks \subseteq Nat
         /\ setting.last \in Ticks /\ setting.turns \in Nat /\ setting.crashes \in Nat
         /\ NoTurns \in Counts /\ Missing \notin Counts
         /\ \A s \in Ticks : /\ Turns(trace[s]) \in Counts
                             /\ trace[s] \in Counts => Turns(trace[s]) = trace[s]
         /\ None \notin Ticks
<1>1. t \in Ticks /\ setting \in Settings
  BY DEF TypeOK
<1>2. Ticks \subseteq Nat /\ None \notin Ticks
  BY BoundaryAssumption DEF Ticks, None
<1>3. PICK a \in Agents : TRUE
  BY <1>1, SettingFacts
<1>4. Missing \notin Counts
  BY <1>3 DEF Missing, Counts, None
<1>5. NoTurns \in Counts
  BY <1>1, SettingFacts DEF NoTurns, Counts
<1>6. QED
  BY <1>1, <1>2, <1>4, <1>5, SettingFacts DEF TypeOK, Turns

\* The tick after one before the end of the run is a tick.
LEMMA NextTick ==
  ASSUME TypeOK, t < setting.last
  PROVE  t + 1 \in Ticks
<1>1. t \in 0 .. LastTick /\ setting.last \in 0 .. LastTick /\ LastTick \in Nat
  BY TypeFacts, BoundaryAssumption DEF Ticks
<1>2. QED
  BY <1>1 DEF Ticks

\* A run begins with every type in place.
LEMMA InitTypes == Init => TypeOK /\ Control
<1> SUFFICES ASSUME Init PROVE TypeOK /\ Control
  OBVIOUS
<1>1. setting \in Settings /\ 0 \in Ticks /\ setting.turns \in Nat /\ setting.crashes \in Nat
  BY SettingFacts, BoundaryAssumption DEF Init, Ticks
<1>2. NoTurns \in Counts /\ Missing = [a \in Agents |-> None]
  BY <1>1 DEF NoTurns, Counts, Missing
<1>3. TypeOK
  <2>1. /\ current \in Ticks /\ pending \in {None, current} /\ closed \in BOOLEAN
        /\ moved \in [Ticks -> Nat] /\ ran \in [Keys -> Nat] /\ live \subseteq Agents
    BY <1>1, SettingFacts DEF Init
  <2>7. idem \in Seq(Keys) /\ cache \in Seq(Keys)
    BY DEF Init
  <2>2. trace \in [Ticks -> Counts \cup {Missing}] /\ cost \in [Ticks -> Counts]
    BY <1>2 DEF Init
  <2>3. /\ t = current /\ pc \in Lives /\ lock \in Agents \cup {"none", "worker"}
        /\ active \subseteq Agents /\ done \subseteq Agents
        /\ {open, event, observed} \subseteq BOOLEAN
        /\ turns \in Counts /\ taken \in Counts \cup {Missing}
    BY <1>2 DEF Init, Lives
  <2>4. /\ seen \in [Agents -> Ticks \cup {None}]
        /\ next \in [Agents -> Calling \cup {"observe", "compose", "end", "gone"}]
    BY DEF Init
  <2>5. said \in [Ticks -> [Agents -> Nat]] /\ kept \in [Ticks -> Counts]
    BY <1>2 DEF Init, NoTurns
  <2>6. QED
    BY <1>1, <2>1, <2>2, <2>3, <2>4, <2>5, <2>7 DEF Init, TypeOK
<1>4. Control
  BY BoundaryAssumption DEF Init, Control, Calling
<1>5. QED
  BY <1>3, <1>4

------------------------------------------------------------------------------
(* The idempotency cache                                                   *)

\* A call that an agent makes stands under a key.
LEMMA KeyFacts ==
  ASSUME TypeOK, Control, NEW a \in Agents, next[a] \in Calling
  PROVE  Key(a) \in Keys /\ Key(a)[1] = a /\ Key(a)[2] = t /\ Key(a)[3] = seen[a]
<1>1. t \in Ticks /\ seen[a] \in Ticks
  BY DEF TypeOK, Control
<1>2. QED
  BY <1>1 DEF Key, Keys

\* Taking the element at i out of a sequence closes the gap.
LEMMA RemoveAtFacts ==
  ASSUME NEW S, NEW c \in Seq(S), NEW i \in 1 .. Len(c)
  PROVE  /\ RemoveAt(c, i) \in Seq(S) /\ Len(RemoveAt(c, i)) = Len(c) - 1
         /\ \A j \in 1 .. Len(c) - 1 :
              RemoveAt(c, i)[j] = IF j < i THEN c[j] ELSE c[j + 1]
<1>1. PICK x : x = SubSeq(c, 1, i - 1)
  OBVIOUS
<1>2. PICK y : y = SubSeq(c, i + 1, Len(c))
  OBVIOUS
<1>3. Len(c) \in Nat /\ \A j \in 1 .. Len(c) : c[j] \in S
  OBVIOUS
<1>4. /\ x \in Seq(S) /\ Len(x) = i - 1
      /\ \A j \in 1 .. i - 1 : x[j] = c[j]
  BY <1>1, <1>3, SubSeqProperties
<1>5. /\ y \in Seq(S) /\ Len(y) = Len(c) - i
      /\ \A j \in 1 .. Len(c) - i : y[j] = c[i + j]
  <2>1. (i + 1) \in Int /\ Len(c) \in Int /\ \A j \in i + 1 .. Len(c) : c[j] \in S
    BY <1>3
  <2>2. /\ y \in Seq(S)
        /\ Len(y) = IF i + 1 <= Len(c) THEN Len(c) - (i + 1) + 1 ELSE 0
        /\ \A j \in 1 .. Len(c) - (i + 1) + 1 : y[j] = c[(i + 1) + j - 1]
    BY <1>2, <2>1, SubSeqProperties
  <2>3. \A j \in 1 .. Len(c) - i : (i + 1) + j - 1 = i + j
    OBVIOUS
  <2>4. QED
    BY <1>3, <2>2, <2>3
<1>6. RemoveAt(c, i) = x \o y
  BY <1>1, <1>2 DEF RemoveAt
<1>7. /\ x \o y \in Seq(S) /\ Len(x \o y) = Len(c) - 1
      /\ \A j \in 1 .. Len(c) - 1 :
           (x \o y)[j] = IF j <= i - 1 THEN x[j] ELSE y[j - (i - 1)]
  BY <1>3, <1>4, <1>5, ConcatProperties
<1>8. ASSUME NEW j \in 1 .. Len(c) - 1
      PROVE  (x \o y)[j] = IF j < i THEN c[j] ELSE c[j + 1]
  <2>1. CASE j < i
    BY <1>4, <1>7, <2>1
  <2>2. ASSUME j >= i
        PROVE  (x \o y)[j] = c[j + 1] /\ ~(j < i)
    <3>1. j - (i - 1) \in 1 .. Len(c) - i /\ i + (j - (i - 1)) = j + 1
      BY <1>3, <2>2
    <3>2. QED
      BY <1>5, <1>7, <2>2, <3>1
  <2>3. j < i \/ j >= i
    BY <1>3
  <2>4. QED
    BY <2>1, <2>2, <2>3
<1>9. QED
  BY <1>6, <1>7, <1>8

\* A sequence without k, in the order it had.
LEMMA WithoutFacts ==
  ASSUME NEW c \in Seq(Keys), NEW k \in Keys
  PROVE  \/ Without(c, k) = c /\ \A i \in 1 .. Len(c) : c[i] # k
         \/ \E i \in 1 .. Len(c) :
              /\ c[i] = k /\ Without(c, k) \in Seq(Keys)
              /\ Len(Without(c, k)) = Len(c) - 1
              /\ \A j \in 1 .. Len(c) - 1 :
                   Without(c, k)[j] = IF j < i THEN c[j] ELSE c[j + 1]
<1>1. DOMAIN c = 1 .. Len(c)
  OBVIOUS
<1>2. CASE \E i \in DOMAIN c : c[i] = k
  <2>1. PICK i : i = CHOOSE n \in DOMAIN c : c[n] = k
    OBVIOUS
  <2>2. i \in 1 .. Len(c) /\ c[i] = k
    BY <1>1, <1>2, <2>1
  <2>3. Without(c, k) = RemoveAt(c, i)
    BY <1>2, <2>1 DEF Without
  <2>4. QED
    BY <2>2, <2>3, RemoveAtFacts
<1>3. CASE \A i \in DOMAIN c : c[i] # k
  BY <1>1, <1>3 DEF Without
<1>4. QED
  BY <1>2, <1>3

\* Putting a key keeps the cache a sequence of keys.
LEMMA PutTypes ==
  ASSUME NEW c \in Seq(Keys), NEW k \in Keys
  PROVE  Put(c, k) \in Seq(Keys)
<1>1. Without(c, k) \in Seq(Keys)
  BY WithoutFacts
<1>2. PICK longer : longer = Append(Without(c, k), k)
  OBVIOUS
<1>3. longer \in Seq(Keys) /\ longer # <<>>
  BY <1>1, <1>2, AppendProperties
<1>4. QED
  BY <1>2, <1>3, HeadTailProperties DEF Put

\* What a turn of a request that is answered does, and that an agent which
\* declares its step is in the tick it observed.
Turned(a) ==
  /\ Record(a) /\ (EndStep(a) \/ UNCHANGED <<active, done, event>>)
  /\ \E then \in {"end", "observe"} : Answered(a, then)
  /\ lock \in {"none", a} /\ lock' = "none"
  /\ UNCHANGED <<current, pending, closed, moved, ran, cost, live, t, pc, open,
                 observed, taken, seen, kept, ahead, crashes, setting>>

\* A request that is answered records a turn and may end the step.
LEMMA TurnedFacts ==
  ASSUME NEW a \in Agents, Acknowledge(a) \/ Replay(a) \/ End(a)
  PROVE  Turned(a)
BY DEF Acknowledge, Replay, End, Turned

\* A recorded turn is a turn.
LEMMA RecordFacts ==
  ASSUME TypeOK, NEW a \in Agents, Record(a)
  PROVE  /\ turns' = [turns EXCEPT ![a] = @ + 1] /\ turns' \in Counts
         /\ turns' # NoTurns
         /\ trace' = [trace EXCEPT ![t] = turns']
         /\ said' = [said EXCEPT ![t][a] = @ + 1]
<1>1. turns \in Counts /\ turns[a] < setting.turns /\ setting.turns \in Nat
  BY TypeFacts DEF TypeOK, Record
<1>2. turns[a] + 1 \in 0 .. setting.turns
  BY <1>1 DEF Counts
<1>3. turns' = [turns EXCEPT ![a] = @ + 1]
  BY DEF Record
<1>4. turns' \in Counts
  BY <1>1, <1>2, <1>3 DEF Counts
<1>5. turns'[a] # 0
  BY <1>1, <1>3 DEF Counts
<1>6. QED
  BY <1>3, <1>4, <1>5 DEF Record, NoTurns


\* The worker's part of the boundary keeps every type.
LEMMA WorkTypes ==
  ASSUME TypeOK, Control, Work
  PROVE  TypeOK'
<1> USE DEF TypeOK, Lives, Counts
<1>1. CASE BeginTransition
  BY <1>1 DEF BeginTransition, durable, memory, clients, history, HookPart
<1>2. CASE CommitTransition
  <2>1. moved' = [moved EXCEPT ![t] = @ + 1] /\ live' \in SUBSET live
    BY <1>2 DEF CommitTransition
  <2>2. moved' \in [Ticks -> Nat]
    BY <2>1
  <2>3. /\ pending' = t /\ closed' = FALSE /\ pc' = "reset" /\ lock' = "none"
        /\ UNCHANGED <<current, ran, Files, t, HookPart, turns, observed, cache,
                       taken, clients, history>>
    BY <1>2 DEF CommitTransition
  <2>4. QED
    BY <2>1, <2>2, <2>3 DEF Files, HookPart, clients, history
<1>3. CASE ResumeTransition
  BY <1>3, TypeFacts DEF ResumeTransition, durable, clients, history, HookPart
<1>4. CASE ResetHook
  BY <1>4 DEF ResetHook, durable, clients, history
<1>5. CASE OpenHook
  BY <1>5 DEF OpenHook, durable, clients, history
<1>6. CASE ReleasedHook \/ GiveUpHook
  BY <1>6 DEF ReleasedHook, GiveUpHook, durable, clients, history, HookPart
<1>7. CASE CloseHook
  BY <1>7 DEF CloseHook, durable, clients, history
<1>8. CASE CopyTrace
  BY <1>8 DEF CopyTrace, Recorded, durable, clients, history, HookPart
<1>9. CASE WriteTrace
  BY <1>9 DEF WriteTrace, clients, history, HookPart
<1>10. CASE MarkClosed
  <2>1. Turns(taken) \in Counts
    BY TypeFacts DEF Turns
  <2>2. kept' = [kept EXCEPT ![t] = Turns(taken)] /\ kept' \in [Ticks -> Counts]
    BY <1>10, <2>1 DEF MarkClosed
  <2>3. QED
    BY <1>10, <2>2 DEF MarkClosed, Files, clients, HookPart
<1>11. CASE Finalize
  <2>1. PICK final \in Counts \cup {Missing} :
          IF final = Missing THEN UNCHANGED <<trace, cost>>
          ELSE /\ trace' = [trace EXCEPT ![t] = final]
               /\ cost' = [cost EXCEPT ![t] = final]
    BY <1>11 DEF Finalize, Recorded
  <2>2. trace' \in [Ticks -> Counts \cup {Missing}] /\ cost' \in [Ticks -> Counts]
    BY <2>1
  <2>3. QED
    BY <1>11, <2>2, TypeFacts DEF Finalize, clients, history
<1>12. CASE CommitClock
  <2>1. t < setting.last
    BY <1>12 DEF CommitClock, Control
  <2>2. t + 1 \in Ticks
    BY <2>1, NextTick
  <2>4. QED
    BY <1>12, <2>2 DEF CommitClock, Files, clients, history, HookPart
<1>13. QED
  BY <1>1, <1>2, <1>3, <1>4, <1>5, <1>6, <1>7, <1>8, <1>9, <1>10, <1>11, <1>12
     DEF Work

\* The agents' part of the boundary, and a crash, keep every type.
LEMMA RequestTypes ==
  ASSUME TypeOK, Control, NEW a \in Agents, Request(a)
  PROVE  TypeOK'
<1> USE DEF TypeOK, Counts
<1>1. CASE Observe(a)
  <2>1. PICK n \in {"call", "call and end", "end"} : next' = [next EXCEPT ![a] = n]
    BY <1>1 DEF Observe
  <2>2. next' \in [Agents -> Calling \cup {"observe", "compose", "end", "gone"}]
    BY <2>1 DEF Calling
  <2>3. seen' \in [Agents -> Ticks \cup {None}]
    BY <1>1 DEF Observe
  <2>4. QED
    BY <1>1, <2>2, <2>3 DEF Observe, durable, HookPart, history
<1>2. CASE Notice(a) \/ Leave(a) \/ Refuse(a)
  <2>1. next' \in [Agents -> Calling \cup {"observe", "compose", "end", "gone"}]
    BY <1>2 DEF Notice, Leave, Refuse
  <2>2. QED
    BY <1>2, <2>1 DEF Notice, Leave, Refuse, durable, memory, history
<1>3. CASE Execute(a)
  <2>1. Key(a) \in Keys
    BY <1>3, KeyFacts DEF Execute, Accepted
  <2>2. ran' = [ran EXCEPT ![Key(a)] = @ + 1] /\ ran' \in [Keys -> Nat]
    BY <1>3, <2>1 DEF Execute
  <2>3. QED
    BY <1>3, <2>2 DEF Execute, Files, HookPart, clients, history
<1>4. CASE Acknowledge(a) \/ Replay(a) \/ End(a)
  <2>1. Turned(a)
    BY <1>4, TurnedFacts
  <2>2. Record(a)
    BY <2>1 DEF Turned
  <2>3. /\ turns' \in Counts /\ trace' = [trace EXCEPT ![t] = turns']
        /\ said' = [said EXCEPT ![t][a] = @ + 1]
    BY <2>2, RecordFacts
  <2>4. trace' \in [Ticks -> Counts \cup {Missing}]
    BY <2>3
  <2>5. said' \in [Ticks -> [Agents -> Nat]]
    <3>1. said \in [Ticks -> [Agents -> Nat]] /\ t \in Ticks
      BY TypeFacts
    <3>2. [said[t] EXCEPT ![a] = @ + 1] \in [Agents -> Nat]
      BY <3>1
    <3>3. said' = [said EXCEPT ![t] = [said[t] EXCEPT ![a] = @ + 1]]
      BY <2>3
    <3>4. QED
      BY <3>1, <3>2, <3>3
  <2>6. active' \subseteq Agents /\ done' \subseteq Agents /\ event' \in BOOLEAN
    BY <2>1 DEF Turned, EndStep, Hooked
  <2>7. next' \in [Agents -> Calling \cup {"observe", "compose", "end", "gone"}]
    BY <2>1 DEF Turned, Answered
  <2>8. idem' \in Seq(Keys) /\ cache' \in Seq(Keys)
    <3>1. CASE Acknowledge(a)
      <4>1. cache' = Put(cache, Key(a)) /\ idem' = cache' /\ lock = a
        BY <3>1 DEF Acknowledge
      <4>2. Key(a) \in Keys
        BY <4>1, KeyFacts DEF Control
      <4>3. QED
        BY <4>1, <4>2, PutTypes
    <3>2. CASE Replay(a)
      <4>1. cache' = Put(cache, Key(a)) /\ idem' = idem /\ next[a] \in Calling
        BY <3>2 DEF Replay, Accepted
      <4>2. QED
        BY <4>1, KeyFacts, PutTypes
    <3>3. CASE End(a)
      BY <3>3 DEF End
    <3>4. QED
      BY <1>4, <3>1, <3>2, <3>3
  <2>9. QED
    BY <2>1, <2>3, <2>4, <2>5, <2>6, <2>7, <2>8 DEF Turned
<1>5. QED
  BY <1>1, <1>2, <1>3, <1>4 DEF Request

\* A restart keeps every type.
LEMMA CrashTypes ==
  ASSUME TypeOK, Crash
  PROVE  TypeOK'
<1>1. crashes' \in 0 .. setting.crashes /\ NoTurns \in Counts /\ current \in Ticks
  BY TypeFacts DEF Crash, TypeOK
<1>2. next' \in [Agents -> Calling \cup {"observe", "compose", "end", "gone"}]
  BY DEF Crash, TypeOK
<1>3. QED
  BY <1>1, <1>2 DEF Crash, TypeOK, Counts, Lives, durable

------------------------------------------------------------------------------
(* The lock and the marker                                                 *)

\* The stepping thread keeps the lock and the marker in step with its place.
LEMMA WorkControl ==
  ASSUME TypeOK, Control, Work
  PROVE  Control'
<1> USE BoundaryAssumption, TypeFacts DEF TypeOK, Control, HookPart, clients, history
<1>1. CASE BeginTransition
  BY <1>1 DEF BeginTransition, durable
<1>2. CASE CommitTransition
  BY <1>2 DEF CommitTransition
<1>3. CASE ResumeTransition
  BY <1>3 DEF ResumeTransition, durable
<1>4. CASE ResetHook
  BY <1>4 DEF ResetHook, durable
<1>5. CASE OpenHook
  BY <1>5 DEF OpenHook, durable
<1>6. CASE ReleasedHook \/ GiveUpHook
  <2>1. /\ pc = "waiting" /\ pc' = "shut"
        /\ UNCHANGED <<pending, closed, live, t, lock, open, next, seen, setting>>
    BY <1>6 DEF ReleasedHook, GiveUpHook, durable
  <2>2. QED
    BY <2>1
<1>7. CASE CloseHook
  BY <1>7 DEF CloseHook, durable
<1>8. CASE CopyTrace
  BY <1>8 DEF CopyTrace, durable
<1>9. CASE WriteTrace
  BY <1>9 DEF WriteTrace
<1>10. CASE MarkClosed
  BY <1>10 DEF MarkClosed
<1>11. CASE Finalize
  BY <1>11 DEF Finalize
<1>12. CASE CommitClock
  BY <1>12 DEF CommitClock
<1>13. QED
  BY <1>1, <1>2, <1>3, <1>4, <1>5, <1>6, <1>7, <1>8, <1>9, <1>10, <1>11, <1>12
     DEF Work

\* Requests run while the lock is free or theirs.
LEMMA RequestControl ==
  ASSUME TypeOK, Control, NEW a \in Agents, Request(a)
  PROVE  Control'
<1> USE BoundaryAssumption DEF TypeOK, Control, Calling
<1>1. CASE Observe(a)
  <2>1. t # None
    BY TypeFacts
  <2>2. PICK n \in {"call", "call and end", "end"} : next' = [next EXCEPT ![a] = n]
    BY <1>1 DEF Observe
  <2>3. lock # a
    BY <1>1 DEF Observe
  <2>4. QED
    BY <1>1, <2>1, <2>2, <2>3 DEF Observe, durable, HookPart, history
<1>2. CASE Notice(a) \/ Leave(a)
  <2>1. lock # a
    BY <1>2 DEF Notice, Leave
  <2>2. /\ next' = [next EXCEPT ![a] = "compose"] \/ next' = [next EXCEPT ![a] = "gone"]
        /\ UNCHANGED <<pending, closed, live, t, pc, lock, open, seen, setting>>
    BY <1>2 DEF Notice, Leave, durable, memory, history
  <2>3. \A b \in Agents : next'[b] \in Calling => next[b] \in Calling
    BY <2>2
  <2>4. lock \in Agents => next'[lock] = next[lock]
    BY <2>1, <2>2
  <2>5. QED
    BY <2>2, <2>3, <2>4
<1>3. CASE Refuse(a)
  BY <1>3 DEF Refuse, durable, memory, history
<1>4. CASE Execute(a)
  BY <1>4 DEF Execute, Accepted, HookPart, clients, history
<1>5. CASE Acknowledge(a) \/ Replay(a) \/ End(a)
  <2>1. Turned(a)
    BY <1>5, TurnedFacts
  <2>2. PICK then \in {"end", "observe"} : Answered(a, then)
    BY <2>1 DEF Turned
  <2>3. \A b \in Agents : next'[b] \in Calling => next[b] \in Calling
    BY <2>2 DEF Answered
  <2>4. lock = a => open
    OBVIOUS
  <2>5. pc \notin {"moving", "commit"} /\ lock' = "none"
    BY <2>1 DEF Turned
  <2>6. QED
    BY <2>1, <2>3, <2>4, <2>5 DEF Turned
<1>6. QED
  BY <1>1, <1>2, <1>3, <1>4, <1>5 DEF Request

\* After a restart the marker alone says how far the step came.
LEMMA CrashControl ==
  ASSUME TypeOK, Control, Crash
  PROVE  Control'
BY BoundaryAssumption DEF Crash, TypeOK, Control, Calling, durable

\* Types and control are an invariant of every run.
LEMMA ControlHolds == Spec => [](TypeOK /\ Control)
<1>1. ASSUME TypeOK, Control, [Next]_vars
      PROVE  TypeOK' /\ Control'
  <2>1. CASE Work
    BY <1>1, <2>1, WorkTypes, WorkControl
  <2>2. CASE Crash
    BY <1>1, <2>2, CrashTypes, CrashControl
  <2>3. ASSUME NEW a \in setting.team, Request(a)
        PROVE  TypeOK' /\ Control'
    <3>1. a \in Agents
      BY <1>1, SettingFacts DEF TypeOK
    <3>2. QED
      BY <1>1, <2>3, <3>1, RequestTypes, RequestControl
  <2>4. CASE UNCHANGED vars
    BY <1>1, <2>4
       DEF vars, durable, memory, clients, history, TypeOK, Control, Counts
  <2>5. QED
    BY <1>1, <2>1, <2>2, <2>3, <2>4 DEF Next
<1>2. QED
  BY InitTypes, <1>1, PTL DEF Spec

------------------------------------------------------------------------------
(* Costs and traces                                                        *)

\* How the clock, the books and the buffers stand is what Ledger speaks of.
LEMMA LedgerFrame ==
  ASSUME Ledger,
         UNCHANGED <<current, pending, closed, trace, cost, t, pc, turns, observed,
                     taken, said, crashes>>
  PROVE  Ledger'
BY DEF Ledger, Ahead, Charged, CostIsTraced, Whole, TraceComplete, Turns

\* Nothing is charged before the first step.
LEMMA InitLedger == Init => Ledger
<1> SUFFICES ASSUME Init PROVE Ledger
  OBVIOUS
<1>1. 0 \in Ticks /\ \A s \in Ticks : ~(s < 0)
  BY BoundaryAssumption DEF Ticks
<1>2. \A s \in Ticks : trace[s] = Missing /\ cost[s] = NoTurns /\ said[s] = NoTurns
  BY DEF Init
<1>3. QED
  BY <1>1, <1>2
     DEF Init, Ledger, Ahead, Charged, CostIsTraced, Whole, TraceComplete

\* The step is charged for what its final trace shows.
LEMMA FinalizeLedger ==
  ASSUME TypeOK, Control, Ledger, Finalize
  PROVE  Ledger'
<1>1. PICK final : final = IF taken # Missing THEN taken ELSE Recorded
  OBVIOUS
<1>2. final \in Counts \cup {Missing}
  BY <1>1 DEF Recorded, TypeOK
<1>3. /\ pc = "final" /\ pc' = "commit" /\ closed /\ turns' = NoTurns /\ ~observed'
      /\ taken' = Missing
      /\ IF final = Missing
         THEN UNCHANGED <<trace, cost>>
         ELSE /\ trace' = [trace EXCEPT ![t] = final]
              /\ cost' = [cost EXCEPT ![t] = final]
      /\ UNCHANGED <<current, pending, closed, t, said, crashes>>
  BY <1>1 DEF Finalize, Control, history
<1>4. t \in Ticks /\ t = current /\ t \in Nat /\ \A s \in Ticks : s \in Nat
  BY TypeFacts DEF TypeOK
<1>5. \A s \in Ticks : s # t => trace'[s] = trace[s] /\ cost'[s] = cost[s]
  BY <1>3, <1>4 DEF TypeOK
<1>6. final # Missing => trace'[t] = final /\ cost'[t] = final /\ Turns(final) = final
  BY <1>3, <1>4 DEF TypeOK, Turns
<1>7. Ahead'
  BY <1>3, <1>4, <1>5 DEF Ledger, Ahead
<1>8. Charged'
  <2>1. \A s \in Ticks : trace'[s] = Missing => cost'[s] = NoTurns
    BY <1>3, <1>5, <1>6 DEF Ledger, Charged
  <2>2. cost'[t] \in {NoTurns, Turns(trace'[t])}
    <3>1. CASE final = Missing
      BY <1>1, <1>3, <3>1 DEF Ledger, Charged
    <3>2. QED
      BY <1>6, <3>1
  <2>3. QED
    BY <1>3, <2>1, <2>2 DEF Charged, Turns
<1>9. CostIsTraced'
  BY <1>3, <1>4, <1>5 DEF Ledger, CostIsTraced, Turns
<1>10. TraceComplete'
  BY <1>3, <1>4, <1>5 DEF Ledger, TraceComplete, Turns
<1>11. Whole'
  <2>1. SUFFICES ASSUME crashes = 0
                 PROVE  said[t] = cost'[t] /\ said[t] = Turns(trace'[t])
    BY <1>3 DEF Whole, Turns
  <2>2. taken = Missing /\ said[t] = turns /\ cost[t] = NoTurns
    BY <1>3, <2>1 DEF Ledger, Whole
  <2>3. CASE final = Missing
    <3>1. turns = NoTurns /\ ~observed
      BY <1>1, <2>2, <2>3, TypeFacts DEF Recorded, TypeOK
    <3>2. trace[t] = Missing
      BY <1>3, <2>1, <3>1 DEF Ledger, Whole
    <3>3. QED
      BY <1>3, <2>2, <2>3, <3>1, <3>2 DEF Turns
  <2>4. CASE final # Missing
    BY <1>1, <1>6, <2>2, <2>4 DEF Recorded
  <2>5. QED
    BY <2>3, <2>4
<1>12. QED
  BY <1>7, <1>8, <1>9, <1>10, <1>11 DEF Ledger

\* The books of the step are closed when the clock advances.
LEMMA CommitClockLedger ==
  ASSUME TypeOK, Control, Ledger, CommitClock
  PROVE  Ledger'
<1>1. /\ pc = "commit" /\ pc' = "idle" /\ current' = t + 1 /\ t' = t + 1
      /\ pending' = None /\ closed' = FALSE
      /\ UNCHANGED <<trace, cost, turns, observed, taken, said, crashes>>
  BY DEF CommitClock, Files, history
<1>2. t \in Ticks /\ t = current /\ t \in Nat /\ \A s \in Ticks : s \in Nat
  BY TypeFacts DEF TypeOK
<1>3. t + 1 \in Ticks
  BY <1>1, NextTick DEF Control
<1>4. /\ trace[t + 1] = Missing /\ cost[t + 1] = NoTurns /\ said[t + 1] = NoTurns
      /\ \A s \in Ticks : s < t + 1 => s < t \/ s = t
      /\ \A s \in Ticks : s > t + 1 => s > t
  BY <1>2, <1>3 DEF Ledger, Ahead
<1>5. Ahead'
  BY <1>1, <1>4 DEF Ledger, Ahead
<1>6. Charged'
  BY <1>1, <1>4 DEF Ledger, Charged
<1>7. CostIsTraced'
  BY <1>1, <1>2, <1>4 DEF Ledger, CostIsTraced, Charged, Turns
<1>8. TraceComplete'
  <2>1. SUFFICES ASSUME crashes = 0, NEW s \in Ticks, s < t + 1
                 PROVE  Turns(trace[s]) = said[s] /\ cost[s] = said[s]
    BY <1>1 DEF TraceComplete, Turns
  <2>2. CASE s = t
    BY <1>1, <2>1, <2>2 DEF Ledger, Whole
  <2>3. CASE s < t
    BY <1>2, <2>1, <2>3 DEF Ledger, TraceComplete
  <2>4. QED
    BY <1>4, <2>1, <2>2, <2>3
<1>9. Whole'
  BY <1>1, <1>4 DEF Ledger, Whole
<1>10. QED
  BY <1>5, <1>6, <1>7, <1>8, <1>9 DEF Ledger

\* Nothing else the stepping thread writes falsifies the books.
LEMMA WorkLedger ==
  ASSUME TypeOK, Control, Ledger, Work
  PROVE  Ledger'
<1> USE TypeFacts DEF Ledger, Ahead, Charged, CostIsTraced, Whole, TraceComplete
<1>0. current = t /\ t \in Nat
  BY DEF TypeOK
<1>1. CASE BeginTransition
  BY <1>1 DEF BeginTransition, durable, history
<1>2. CASE CommitTransition
  <2>1. ~closed
    BY <1>2 DEF CommitTransition, Control
  <2>2. QED
    BY <1>2, <2>1 DEF CommitTransition, Files, history
<1>3. CASE ResumeTransition
  BY <1>3, <1>0 DEF ResumeTransition, Control, durable, history
<1>4. CASE ResetHook
  BY <1>4 DEF ResetHook, durable, history
<1>5. CASE OpenHook
  BY <1>5 DEF OpenHook, durable, history
<1>6. CASE ReleasedHook \/ GiveUpHook
  BY <1>6 DEF ReleasedHook, GiveUpHook, durable, history
<1>7. CASE CloseHook
  BY <1>7 DEF CloseHook, durable, history
<1>8. CASE CopyTrace
  BY <1>8 DEF CopyTrace, Recorded, durable, history
<1>9. CASE WriteTrace
  <2>1. cost[t] = NoTurns
    BY <1>9 DEF WriteTrace, Control
  <2>2. \A s \in Ticks : s # t => trace'[s] = trace[s]
    BY <1>9 DEF WriteTrace, TypeOK
  <2>3. QED
    BY <1>0, <1>9, <2>1, <2>2 DEF WriteTrace, TypeOK, history, Turns
<1>10. CASE MarkClosed
  <2>1. cost[t] = NoTurns
    BY <1>10 DEF MarkClosed, Control
  <2>2. QED
    BY <1>10, <2>1 DEF MarkClosed, Files
<1>11. CASE Finalize
  BY <1>11, FinalizeLedger
<1>12. CASE CommitClock
  BY <1>12, CommitClockLedger
<1>13. QED
  BY <1>1, <1>2, <1>3, <1>4, <1>5, <1>6, <1>7, <1>8, <1>9, <1>10, <1>11, <1>12
     DEF Work

\* A turn is traced in the step whose books are still open.
LEMMA RequestLedger ==
  ASSUME TypeOK, Control, Ledger, NEW a \in Agents, Request(a)
  PROVE  Ledger'
<1>1. CASE Observe(a)
  <2>1. observed'
    BY <1>1 DEF Observe
  <2>2. QED
    BY <1>1, <2>1
       DEF Observe, durable, HookPart, history, Ledger, Ahead, Charged,
                      CostIsTraced, Whole, TraceComplete, Turns
<1>2. CASE Notice(a) \/ Leave(a) \/ Refuse(a) \/ Execute(a)
  BY <1>2, LedgerFrame
     DEF Notice, Leave, Refuse, Execute, durable, memory, Files, HookPart,
                           history
<1>3. CASE Acknowledge(a) \/ Replay(a) \/ End(a)
  <2>1. Turned(a) /\ pc # "commit"
    BY <1>3, TurnedFacts, BoundaryAssumption DEF Turned, Control
  <2>2. /\ turns' = [turns EXCEPT ![a] = @ + 1] /\ turns' \in Counts
        /\ turns' # NoTurns /\ trace' = [trace EXCEPT ![t] = turns']
        /\ said' = [said EXCEPT ![t][a] = @ + 1]
    BY <2>1, RecordFacts DEF Turned
  <2>3. UNCHANGED <<current, pending, closed, cost, t, pc, observed, taken, crashes>>
    BY <2>1 DEF Turned
  <2>4. t \in Ticks /\ t = current /\ t \in Nat /\ \A s \in Ticks : s \in Nat
    BY TypeFacts DEF TypeOK
  <2>5. \A s \in Ticks : s # t => trace'[s] = trace[s] /\ said'[s] = said[s]
    BY <2>2, <2>4 DEF TypeOK
  <2>6. trace'[t] = turns' /\ trace'[t] # Missing
    BY <2>2, <2>4, TypeFacts DEF TypeOK
  <2>7. said[t] = turns => said'[t] = turns'
    BY <2>2, <2>4 DEF TypeOK
  <2>8. Ahead'
    <3>1. \A s \in Ticks : s > t => s # t /\ trace[s] = Missing /\ cost[s] = NoTurns
                                   /\ said[s] = NoTurns
      BY <2>4 DEF Ledger, Ahead
    <3>2. t' = t /\ cost' = cost
      BY <2>3
    <3>3. QED
      BY <2>5, <3>1, <3>2 DEF Ahead
  <2>9. Charged'
    BY <2>1, <2>3, <2>4, <2>5, <2>6 DEF Ledger, Charged
  <2>10. CostIsTraced' /\ TraceComplete'
    BY <2>3, <2>4, <2>5 DEF Ledger, CostIsTraced, TraceComplete, Turns
  <2>11. Whole'
    BY <2>1, <2>2, <2>3, <2>7 DEF Ledger, Whole
  <2>12. QED
    BY <2>8, <2>9, <2>10, <2>11 DEF Ledger
<1>4. QED
  BY <1>1, <1>2, <1>3 DEF Request

\* What a crash loses was not charged for.
LEMMA CrashLedger ==
  ASSUME TypeOK, Control, Ledger, Crash
  PROVE  Ledger'
<1>1. /\ t' = t /\ pc' = "idle" /\ crashes' # 0
      /\ UNCHANGED <<current, pending, closed, trace, cost, said>>
  BY DEF Crash, TypeOK, durable
<1>2. QED
  BY <1>1
     DEF Ledger, Ahead, Charged, CostIsTraced, Whole, TraceComplete, Turns

\* Through every crash an agent is charged for what its trace shows, and without
\* one for all it did (write_step_index, update_cost).
THEOREM AgentsAreChargedRight == Spec => []ChargesRight
<1>1. ASSUME TypeOK, Control, Ledger, [Next]_vars
      PROVE  Ledger'
  <2>1. ASSUME NEW a \in setting.team, Request(a)
        PROVE  Ledger'
    BY <1>1, <2>1, RequestLedger, SettingFacts DEF TypeOK
  <2>2. CASE UNCHANGED vars
    BY <1>1, <2>2, LedgerFrame DEF vars, durable, memory, history
  <2>3. QED
    BY <1>1, <2>1, <2>2, WorkLedger, CrashLedger DEF Next
<1>2. Ledger => ChargesRight
  BY DEF Ledger, ChargesRight
<1>3. QED
  BY InitLedger, ControlHolds, <1>1, <1>2, PTL DEF Spec

------------------------------------------------------------------------------
(* The hook                                                                *)

\* What Hook speaks of.
LEMMA HookFrame ==
  ASSUME Hook, UNCHANGED <<t, pc, lock, active, done, event, seen, live, ahead>>
  PROVE  Hook'
BY DEF Hook, ReleaseIsKept

\* Nobody has observed anything before the first hook.
LEMMA InitHook == Init => Hook
<1> SUFFICES ASSUME Init PROVE Hook
  OBVIOUS
<1>1. \A a \in Agents : seen[a] = None
  BY DEF Init
<1>2. QED
  BY <1>1, BoundaryAssumption DEF Init, Hook, ReleaseIsKept, None

\* A hook that opens knows who ended the step ahead of it, and of a new tick nobody
\* has ended anything.
LEMMA WorkHook ==
  ASSUME TypeOK, Control, Hook, Work
  PROVE  Hook'
<1>0. t \in Nat /\ \A a \in Agents : seen[a] \in Int
  BY TypeFacts DEF TypeOK, None
<1> USE BoundaryAssumption DEF Hook, ReleaseIsKept, HookPart, clients, history
<1>1. CASE BeginTransition
  BY <1>1 DEF BeginTransition, durable
<1>2. CASE CommitTransition
  BY <1>2 DEF CommitTransition
<1>3. CASE ResumeTransition
  <2>1. /\ pc' \in {"final", "reset"} /\ pc = "idle"
        /\ UNCHANGED <<t, lock, active, done, event, seen, live, ahead>>
    BY <1>3 DEF ResumeTransition, durable
  <2>2. QED
    BY <2>1
<1>4. CASE ResetHook
  <2>1. active' \subseteq live
    BY <1>4 DEF ResetHook
  <2>2. QED
    BY <1>4, <2>1 DEF ResetHook, durable
<1>5. CASE OpenHook
  BY <1>5 DEF OpenHook, durable
<1>6. CASE ReleasedHook \/ GiveUpHook
  <2>1. /\ pc' = "shut"
        /\ UNCHANGED <<t, lock, active, done, event, seen, live, ahead>>
    BY <1>6 DEF ReleasedHook, GiveUpHook, durable
  <2>2. QED
    BY <2>1
<1>7. CASE CloseHook
  BY <1>7 DEF CloseHook, durable
<1>8. CASE CopyTrace
  BY <1>8 DEF CopyTrace, durable
<1>9. CASE WriteTrace
  BY <1>9 DEF WriteTrace
<1>10. CASE MarkClosed
  BY <1>10 DEF MarkClosed
<1>11. CASE Finalize
  BY <1>11 DEF Finalize
<1>12. CASE CommitClock
  <2>1. done = {} /\ lock' = "none" /\ t' = t + 1 /\ pc' = "idle"
        /\ UNCHANGED <<done, active, event, live, seen, ahead>>
    BY <1>12 DEF CommitClock
  <2>2. \A a \in Agents : seen[a] <= t'
    BY <1>0, <2>1
  <2>3. QED
    BY <2>1, <2>2
<1>13. QED
  BY <1>1, <1>2, <1>3, <1>4, <1>5, <1>6, <1>7, <1>8, <1>9, <1>10, <1>11, <1>12
     DEF Work

\* Who answers a request of this step has observed it.
LEMMA FreshFacts ==
  ASSUME Declares, TypeOK, Control, Hook, NEW a \in Agents,
         Acknowledge(a) \/ Replay(a) \/ End(a) \/ Execute(a)
  PROVE  seen[a] = t /\ pc # "commit" /\ pc # "moving"
<1>1. CASE Acknowledge(a)
  BY <1>1, BoundaryAssumption DEF Acknowledge, Hook, Control
<1>2. CASE Replay(a) \/ End(a) \/ Execute(a)
  BY <1>2, BoundaryAssumption
     DEF Replay, End, Execute, Accepted, Stale, Control
<1>3. QED
  BY <1>1, <1>2

\* Who ends the step has observed it, and the last one releases the hook.
LEMMA RequestHook ==
  ASSUME Declares, TypeOK, Control, Hook, NEW a \in Agents, Request(a)
  PROVE  Hook'
<1>0. /\ t \in Nat /\ active \subseteq Agents /\ live \subseteq Agents
      /\ \A b \in Agents : seen[b] \in Int
      /\ \A b \in done : b \in Agents
  BY TypeFacts DEF TypeOK, None
<1>1. CASE Observe(a)
  <2>1. /\ seen' = [seen EXCEPT ![a] = t]
        /\ UNCHANGED <<t, pc, lock, active, done, event, live, ahead>>
    BY <1>1 DEF Observe, durable, HookPart, history
  <2>2. \A b \in Agents : seen'[b] = IF b = a THEN t ELSE seen[b]
    BY <2>1 DEF TypeOK
  <2>3. QED
    BY <1>0, <2>1, <2>2 DEF Hook, ReleaseIsKept
<1>2. CASE Notice(a) \/ Leave(a) \/ Refuse(a)
  BY <1>2, HookFrame DEF Notice, Leave, Refuse, durable, memory, history
<1>3. CASE Execute(a)
  <2>1. seen[a] = t
    BY <1>3, FreshFacts
  <2>2. QED
    BY <1>3, <2>1 DEF Execute, Hook, ReleaseIsKept, clients, history, HookPart
<1>4. CASE Acknowledge(a) \/ Replay(a) \/ End(a)
  <2>1. Turned(a) /\ seen[a] = t /\ pc # "commit"
    BY <1>4, TurnedFacts, FreshFacts
  <2>2. lock' = "none" /\ UNCHANGED <<t, pc, seen, live, ahead>>
    BY <2>1 DEF Turned
  <2>4. CASE UNCHANGED <<active, done, event>>
    BY <2>2, <2>4, BoundaryAssumption DEF Hook, ReleaseIsKept
  <2>5. CASE EndStep(a)
    <3>1. /\ active' = Hooked /\ done' \subseteq done \cup {a}
          /\ done \subseteq done'
          /\ event' <=> event \/ (active' # {} /\ active' \subseteq done')
      BY <2>5 DEF EndStep, TypeOK
    <3>2. pc \in {"open", "waiting"} => active' = active
      BY <3>1 DEF Hook, Hooked
    <3>3. \A b \in done' : seen'[b] = t'
      BY <2>1, <2>2, <3>1 DEF Hook
    <3>4. pc = "waiting" => active # {} /\ active \subseteq live
                            /\ (event => active \subseteq done)
      BY DEF Hook
    <3>5. (pc = "waiting" /\ event') => active' \subseteq done'
      BY <3>1, <3>2, <3>4
    <3>6. (pc = "waiting" /\ active' \subseteq done') => event'
      BY <3>1, <3>2, <3>4
    <3>7. QED
      BY <2>1, <2>2, <3>2, <3>3, <3>5, <3>6, BoundaryAssumption
         DEF Hook, ReleaseIsKept
  <2>6. QED
    BY <2>1, <2>4, <2>5 DEF Turned
<1>5. QED
  BY <1>1, <1>2, <1>3, <1>4 DEF Request

\* A restarted process knows of nobody who ended the step.
LEMMA CrashHook ==
  ASSUME TypeOK, Control, Hook, Crash
  PROVE  Hook'
<1>1. /\ t' = t /\ pc' = "idle" /\ lock' = "none" /\ done' = {} /\ seen' = seen
  BY DEF Crash, TypeOK
<1>2. QED
  BY <1>1, BoundaryAssumption DEF Hook, ReleaseIsKept

\* Hook is an invariant of runs whose agents declare their step.
LEMMA HookHolds == ASSUME Declares PROVE Spec => []Hook
<1>1. ASSUME TypeOK, Control, Hook, [Next]_vars
      PROVE  Hook'
  <2>1. ASSUME NEW a \in setting.team, Request(a)
        PROVE  Hook'
    BY <1>1, <2>1, RequestHook, SettingFacts DEF TypeOK
  <2>2. CASE UNCHANGED vars
    BY <1>1, <2>2, HookFrame DEF vars, durable, memory, clients, history
  <2>3. QED
    BY <1>1, <2>1, <2>2, WorkHook, CrashHook DEF Next
<1>2. QED
  BY InitHook, ControlHolds, <1>1, PTL DEF Spec

\* The hook of agents that declare their step is released exactly when everyone
\* who acts in it has ended this very step (mark_agent_step_done, hook_event).
THEOREM HookWaitsForAll == ASSUME Declares PROVE Spec => []HookWaits
<1>1. TypeOK /\ Hook => HookWaits
  BY DEF TypeOK, Hook, HookWaits, WaitsForAll
<1>2. QED
  BY HookHolds, ControlHolds, <1>1, PTL

------------------------------------------------------------------------------
(* Decisions                                                               *)

\* Putting a key of this tick keeps the keys of this tick, if the cache has room
\* for one of every agent.
LEMMA PutFacts ==
  ASSUME TypeOK, Cardinality(Agents) <= IdemCap,
         NEW c \in Seq(Keys), Recent(c, t), NEW k \in Keys, k[2] = t, k[3] = t
  PROVE  /\ Recent(Put(c, k), t) /\ Put(c, k) \in Seq(Keys)
         /\ \E i \in DOMAIN Put(c, k) : Put(c, k)[i] = k
         /\ \A i \in DOMAIN c : c[i][2] = t =>
              \E j \in DOMAIN Put(c, k) : Put(c, k)[j] = c[i]
<1>1. t \in Nat /\ IdemCap \in Nat /\ IdemCap >= 1
  BY TypeFacts, BoundaryAssumption
<1>2. /\ Len(c) \in Nat /\ DOMAIN c = 1 .. Len(c) /\ Len(c) <= IdemCap
      /\ \A i \in 1 .. Len(c) : c[i] \in Keys /\ c[i][2] <= t /\ c[i][3] = c[i][2]
      /\ \A i, j \in 1 .. Len(c) : i < j => c[i] # c[j] /\ c[i][2] <= c[j][2]
  BY DEF Recent
<1>3. \A x \in Keys : x[1] \in Agents /\ x[2] \in Nat /\ x[3] \in Nat
                      /\ x = <<x[1], x[2], x[3]>>
  BY TypeFacts DEF Keys
<1>4. PICK r : r = Without(c, k)
  OBVIOUS
<1>5. /\ r \in Seq(Keys) /\ Len(r) \in Nat /\ Len(r) <= Len(c)
      /\ \A i \in 1 .. Len(r) : r[i] # k /\ r[i][2] <= t /\ r[i][3] = r[i][2]
      /\ \A i, j \in 1 .. Len(r) : i < j => r[i] # r[j] /\ r[i][2] <= r[j][2]
      /\ \A i \in 1 .. Len(c) : c[i] # k => \E j \in 1 .. Len(r) : r[j] = c[i]
  <2>1. CASE r = c /\ \A i \in 1 .. Len(c) : c[i] # k
    BY <1>2, <2>1
  <2>2. CASE \E n \in 1 .. Len(c) :
               /\ c[n] = k /\ r \in Seq(Keys) /\ Len(r) = Len(c) - 1
               /\ \A j \in 1 .. Len(c) - 1 : r[j] = IF j < n THEN c[j] ELSE c[j + 1]
    <3>0. PICK n \in 1 .. Len(c) :
               /\ c[n] = k /\ r \in Seq(Keys) /\ Len(r) = Len(c) - 1
               /\ \A j \in 1 .. Len(c) - 1 : r[j] = IF j < n THEN c[j] ELSE c[j + 1]
      BY <2>2
    <3>1. \A j \in 1 .. Len(r) : \E i \in 1 .. Len(c) :
            /\ r[j] = c[i] /\ i # n /\ i = IF j < n THEN j ELSE j + 1
      BY <1>2, <3>0
    <3>2. \A i \in 1 .. Len(c) : i # n => c[i] # k
      BY <1>2, <3>0
    <3>3. \A i \in 1 .. Len(r) : r[i] # k /\ r[i][2] <= t /\ r[i][3] = r[i][2]
      BY <1>2, <3>1, <3>2
    <3>4. ASSUME NEW i \in 1 .. Len(r), NEW j \in 1 .. Len(r), i < j
          PROVE  r[i] # r[j] /\ r[i][2] <= r[j][2]
      <4>1. PICK x \in 1 .. Len(c) : r[i] = c[x] /\ x = IF i < n THEN i ELSE i + 1
        BY <3>1
      <4>2. PICK y \in 1 .. Len(c) : r[j] = c[y] /\ y = IF j < n THEN j ELSE j + 1
        BY <3>1
      <4>3. x < y
        BY <1>2, <3>0, <3>4, <4>1, <4>2
      <4>4. QED
        BY <1>2, <4>1, <4>2, <4>3
    <3>5. ASSUME NEW i \in 1 .. Len(c), c[i] # k
          PROVE  \E j \in 1 .. Len(r) : r[j] = c[i]
      <4>1. i # n
        BY <3>0, <3>5
      <4>2. CASE i < n
        BY <1>2, <3>0, <4>2
      <4>3. CASE i > n
        <5>1. i - 1 \in 1 .. Len(r) /\ ~(i - 1 < n) /\ (i - 1) + 1 = i
          BY <1>2, <3>0, <4>3
        <5>2. r[i - 1] = c[i]
          BY <3>0, <5>1
        <5>3. QED
          BY <5>1, <5>2
      <4>4. QED
        BY <1>2, <4>1, <4>2, <4>3
    <3>6. QED
      BY <1>2, <3>0, <3>3, <3>4, <3>5
  <2>3. QED
    BY <1>4, <2>1, <2>2, WithoutFacts
<1>6. PICK l : l = Append(r, k)
  OBVIOUS
<1>7. /\ l \in Seq(Keys) /\ Len(l) = Len(r) + 1 /\ DOMAIN l = 1 .. Len(l)
      /\ l[Len(l)] = k /\ \A i \in 1 .. Len(r) : l[i] = r[i]
  BY <1>5, <1>6, AppendProperties
<1>8. /\ Len(l) <= IdemCap + 1 /\ Len(l) \in Nat /\ Len(l) >= 1
      /\ \A i \in 1 .. Len(l) : l[i] \in Keys /\ l[i][2] <= t /\ l[i][3] = l[i][2]
      /\ \A i, j \in 1 .. Len(l) : i < j => l[i] # l[j] /\ l[i][2] <= l[j][2]
  <2>1. \A i \in 1 .. Len(l) : i \in 1 .. Len(r) \/ i = Len(l)
    BY <1>5, <1>7
  <2>2. \A i \in 1 .. Len(l) : l[i] \in Keys /\ l[i][2] <= t /\ l[i][3] = l[i][2]
    BY <1>1, <1>5, <1>7, <2>1
  <2>3. ASSUME NEW i \in 1 .. Len(l), NEW j \in 1 .. Len(l), i < j
        PROVE  l[i] # l[j] /\ l[i][2] <= l[j][2]
    <3>1. i \in 1 .. Len(r)
      BY <1>5, <1>7, <2>3
    <3>2. CASE j = Len(l)
      BY <1>5, <1>7, <3>1, <3>2
    <3>3. CASE j \in 1 .. Len(r)
      BY <1>5, <1>7, <2>3, <3>1, <3>3
    <3>4. QED
      BY <2>1, <3>2, <3>3
  <2>4. Len(l) <= IdemCap + 1 /\ Len(l) \in Nat /\ Len(l) >= 1
    BY <1>1, <1>2, <1>5, <1>7
  <2>5. QED
    BY <2>2, <2>3, <2>4
<1>9. \A i \in 1 .. Len(c) : \E j \in 1 .. Len(l) : l[j] = c[i]
  <2>1. ASSUME NEW i \in 1 .. Len(c)
        PROVE  \E j \in 1 .. Len(l) : l[j] = c[i]
    <3>1. CASE c[i] = k
      BY <1>7, <1>8, <3>1
    <3>2. CASE c[i] # k
      <4>1. PICK j \in 1 .. Len(r) : r[j] = c[i]
        BY <1>5, <3>2
      <4>2. j \in 1 .. Len(l) /\ l[j] = c[i]
        BY <1>5, <1>7, <4>1
      <4>3. QED
        BY <4>2
    <3>3. QED
      BY <3>1, <3>2
  <2>2. QED
    BY <2>1
<1>10. CASE Len(l) <= IdemCap
  <2>1. Put(c, k) = l
    BY <1>1, <1>4, <1>6, <1>8, <1>10 DEF Put
  <2>2. Recent(l, t)
    BY <1>7, <1>8, <1>10 DEF Recent
  <2>3. Len(l) \in DOMAIN l
    BY <1>7, <1>8
  <2>4. QED
    BY <1>2, <1>7, <1>9, <2>1, <2>2, <2>3
<1>11. CASE Len(l) > IdemCap
  <2>1. PICK p : p = Tail(l)
    OBVIOUS
  <2>2. Put(c, k) = p
    BY <1>4, <1>6, <1>11, <2>1 DEF Put
  <2>3. /\ p \in Seq(Keys) /\ Len(p) = Len(l) - 1 /\ DOMAIN p = 1 .. Len(p)
        /\ \A i \in 1 .. Len(p) : p[i] = l[i + 1]
    BY <1>7, <1>8, <2>1, HeadTailProperties
  <2>4. Len(l) = IdemCap + 1
    BY <1>1, <1>8, <1>11
  <2>5. l[1][2] < t
    <3>1. SUFFICES ASSUME l[1][2] = t PROVE FALSE
      <4>1. 1 \in 1 .. Len(l)
        BY <1>8
      <4>2. l[1][2] \in Nat /\ l[1][2] <= t
        BY <1>3, <1>8, <4>1
      <4>3. QED
        BY <1>1, <4>2
    <3>2. \A i \in 1 .. Len(l) : l[i] = <<l[i][1], t, t>>
      <4>1. ASSUME NEW i \in 1 .. Len(l) PROVE l[i][2] = t
        <5>1. i = 1 \/ l[1][2] <= l[i][2]
          BY <1>8
        <5>2. QED
          BY <1>1, <1>3, <1>8, <3>1, <5>1
      <4>2. QED
        BY <1>3, <1>8, <4>1
    <3>3. PICK f : f = [i \in 1 .. Len(l) |-> l[i][1]]
      OBVIOUS
    <3>4. f \in [1 .. Len(l) -> Agents]
      BY <1>3, <1>8, <3>3
    <3>5. \A i, j \in 1 .. Len(l) : i # j => f[i] # f[j]
      <4>1. \A i, j \in 1 .. Len(l) : i # j => l[i] # l[j]
        BY <1>8
      <4>2. QED
        BY <3>2, <3>3, <4>1
    <3>6. /\ IsFiniteSet(1 .. Len(l)) /\ Cardinality(1 .. Len(l)) = IdemCap + 1
      BY <1>1, <2>4, FS_Interval
    <3>7. IsFiniteSet(Agents) /\ Cardinality(Agents) \in Nat
      BY BoundaryAssumption, FS_CardinalityType
    <3>8. QED
      BY <1>1, <3>4, <3>5, <3>6, <3>7, FS_PigeonHole
  <2>6. ASSUME NEW x \in Keys, x[2] = t, NEW i \in 1 .. Len(l), l[i] = x
        PROVE  \E j \in 1 .. Len(p) : p[j] = x
    <3>1. i # 1
      BY <1>1, <2>5, <2>6
    <3>2. i - 1 \in 1 .. Len(p) /\ (i - 1) + 1 = i
      BY <1>8, <2>3, <3>1
    <3>3. p[i - 1] = x
      BY <2>3, <2>6, <3>2
    <3>4. QED
      BY <3>2, <3>3
  <2>7. Recent(p, t)
    <3>1. \A i \in 1 .. Len(p) : i + 1 \in 1 .. Len(l) /\ p[i] = l[i + 1]
      BY <1>8, <2>3
    <3>2. \A i, j \in 1 .. Len(p) : i < j => i + 1 < j + 1
      OBVIOUS
    <3>3. QED
      BY <1>1, <1>8, <2>3, <2>4, <3>1, <3>2 DEF Recent
  <2>8. \E j \in 1 .. Len(p) : p[j] = k
    BY <1>7, <1>8, <2>6
  <2>9. ASSUME NEW i \in 1 .. Len(c), c[i][2] = t
        PROVE  \E j \in 1 .. Len(p) : p[j] = c[i]
    <3>1. c[i] \in Keys /\ \E j \in 1 .. Len(l) : l[j] = c[i]
      BY <1>2, <1>9
    <3>2. QED
      BY <2>6, <2>9, <3>1
  <2>10. QED
    BY <1>2, <2>2, <2>3, <2>7, <2>8, <2>9
<1>12. QED
  BY <1>1, <1>8, <1>10, <1>11

Decisions == NoStaleAction /\ RanOncePerLife /\ Answerable

\* What Decisions speaks of.
LEMMA DecisionsFrame ==
  ASSUME Decisions, UNCHANGED <<t, ran, idem, cache, lock, crashes>>
  PROVE  Decisions'
BY DEF Decisions, NoStaleAction, RanOncePerLife, Answerable, Recent, Cached

\* Nothing has been executed before the first step.
LEMMA InitDecisions == Init => Decisions
<1> SUFFICES ASSUME Init PROVE Decisions
  OBVIOUS
<1>1. cache = <<>> /\ idem = <<>> /\ crashes = 0 /\ \A k \in Keys : ran[k] = 0
  BY DEF Init
<1>2. Recent(cache, t) /\ Recent(idem, t)
  BY <1>1, BoundaryAssumption DEF Recent
<1>3. QED
  BY <1>1, <1>2 DEF Decisions, NoStaleAction, RanOncePerLife, Answerable

\* When the clock advances no decision of the new tick has been executed.
LEMMA WorkDecisions ==
  ASSUME TypeOK, Control, Decisions, Work
  PROVE  Decisions'
<1>1. UNCHANGED <<ran, idem, cache, crashes>>
  BY DEF Work, BeginTransition, CommitTransition, ResumeTransition, ResetHook,
         OpenHook,
         ReleasedHook, GiveUpHook, CloseHook, CopyTrace, WriteTrace, MarkClosed,
         Finalize, CommitClock, durable, Files, history
<1>2. CASE CommitClock
  <2>1. t' = t + 1 /\ t \in Nat
    BY <1>2, TypeFacts DEF CommitClock
  <2>2. \A k \in Keys : k[2] \in Nat
    BY TypeFacts DEF Keys
  <2>3. ASSUME NEW c \in Seq(Keys), Recent(c, t) PROVE Recent(c, t + 1)
    <3>1. \A i \in DOMAIN c : c[i] \in Keys
      OBVIOUS
    <3>2. QED
      BY <2>1, <2>2, <2>3, <3>1 DEF Recent
  <2>4. Recent(cache', t') /\ Recent(idem', t')
    BY <1>1, <2>1, <2>3 DEF Decisions, Answerable, TypeOK
  <2>5. \A k \in Keys : k[2] > t' \/ k[2] = t' => ran'[k] = 0
    BY <1>1, <2>1, <2>2 DEF Decisions, Answerable
  <2>6. ~(0 > crashes')
    BY <1>1, TypeFacts DEF TypeOK
  <2>7. Answerable'
    BY <2>4, <2>5, <2>6 DEF Answerable
  <2>8. QED
    BY <1>1, <2>7 DEF Decisions, NoStaleAction, RanOncePerLife
<1>3. CASE ~CommitClock
  <2>1. t' = t /\ (lock' = lock \/ lock \notin Agents)
    BY <1>3, BoundaryAssumption
       DEF Work, BeginTransition, CommitTransition, ResumeTransition, ResetHook, OpenHook,
           ReleasedHook, GiveUpHook, CloseHook, CopyTrace, WriteTrace, MarkClosed,
           Finalize, Control
  <2>2. \A k \in Keys : k[1] \in Agents
    BY DEF Keys
  <2>3. QED
    BY <1>1, <2>1, <2>2
       DEF Decisions, NoStaleAction, RanOncePerLife, Answerable, Recent, Cached
<1>4. QED
  BY <1>2, <1>3

\* A decision that was executed is answered from the cache from then on.
LEMMA RequestDecisions ==
  ASSUME Declares, Cardinality(Agents) <= IdemCap,
         TypeOK, Control, Hook, Decisions, NEW a \in Agents, Request(a)
  PROVE  Decisions'
<1>0. crashes \in Nat /\ \A k \in Keys : k[1] \in Agents /\ ran[k] \in Nat
                                       /\ k = <<k[1], k[2], k[3]>>
  <2>1. crashes \in Nat /\ \A k \in Keys : ran[k] \in Nat
    BY TypeFacts DEF TypeOK
  <2>2. \A k \in Keys : k[1] \in Agents /\ k = <<k[1], k[2], k[3]>>
    BY DEF Keys
  <2>3. QED
    BY <2>1, <2>2
<1>1. CASE Notice(a) \/ Observe(a) \/ Leave(a) \/ Refuse(a) \/ End(a)
  <2>1. UNCHANGED <<t, ran, idem, cache, crashes>> /\ lock' = lock
    BY <1>1 DEF Notice, Observe, Leave, Refuse, End, durable, memory, history
  <2>2. QED
    BY <2>1, DecisionsFrame
<1>2. CASE Execute(a)
  <2>1. seen[a] = t /\ next[a] \in Calling
    BY <1>2, FreshFacts DEF Execute, Accepted
  <2>2. PICK k \in Keys : k = Key(a) /\ k[1] = a /\ k[2] = t /\ k[3] = t
    BY <2>1, KeyFacts
  <2>3. /\ ~Cached(k) /\ lock = "none" /\ lock' = a /\ ran' = [ran EXCEPT ![k] = @ + 1]
        /\ UNCHANGED <<t, idem, cache, crashes>>
    BY <1>2, <2>2 DEF Execute, Files, history
  <2>4. ran[k] <= crashes
    BY <1>0, <2>2, <2>3, BoundaryAssumption DEF Decisions, Answerable
  <2>5. \A x \in Keys : ran'[x] = IF x = k THEN ran[x] + 1 ELSE ran[x]
    BY <2>3 DEF TypeOK
  <2>6. NoStaleAction'
    BY <1>0, <2>2, <2>5 DEF Decisions, NoStaleAction
  <2>7. RanOncePerLife'
    BY <1>0, <2>3, <2>4, <2>5 DEF Decisions, RanOncePerLife
  <2>8. Answerable'
    <3>1. Recent(cache', t') /\ Recent(idem', t')
      BY <2>3 DEF Decisions, Answerable, Recent
    <3>2. \A x \in Keys : x[2] > t => ran'[x] = 0
      BY <2>2, <2>5, TypeFacts DEF Decisions, Answerable
    <3>3. \A x \in Keys : x[2] = t /\ ran'[x] > crashes => Cached(x) \/ a = x[1]
      BY <1>0, <2>2, <2>3, <2>5, BoundaryAssumption DEF Decisions, Answerable
    <3>4. QED
      BY <2>3, <3>1, <3>2, <3>3 DEF Answerable, Cached
  <2>9. QED
    BY <2>6, <2>7, <2>8 DEF Decisions
<1>3. CASE Acknowledge(a) \/ Replay(a)
  <2>1. seen[a] = t /\ next[a] \in Calling
    BY <1>3, FreshFacts DEF Acknowledge, Replay, Accepted, Control
  <2>2. PICK k \in Keys : k = Key(a) /\ k[1] = a /\ k[2] = t /\ k[3] = t
    BY <2>1, KeyFacts
  <2>3. /\ cache' = Put(cache, k) /\ (idem' = cache' \/ idem' = idem)
        /\ lock \in {"none", a} /\ lock' = "none" /\ UNCHANGED <<t, ran, crashes>>
    BY <1>3, <2>2 DEF Acknowledge, Replay
  <2>4. /\ Recent(Put(cache, k), t) /\ \E i \in DOMAIN Put(cache, k) : Put(cache, k)[i] = k
        /\ \A i \in DOMAIN cache : cache[i][2] = t =>
             \E j \in DOMAIN Put(cache, k) : Put(cache, k)[j] = cache[i]
    BY <2>2, PutFacts DEF TypeOK, Decisions, Answerable
  <2>5. Recent(cache', t') /\ Recent(idem', t')
    BY <2>3, <2>4 DEF Recent, Decisions, Answerable
  <2>6. ASSUME NEW x \in Keys, x[2] = t, ran[x] > crashes
        PROVE  \E j \in DOMAIN cache' : cache'[j] = x
    <3>1. CASE Cached(x)
      BY <2>3, <2>4, <2>6, <3>1 DEF Cached
    <3>2. CASE lock = x[1]
      <4>1. x[1] = a
        BY <1>0, <2>3, <3>2, BoundaryAssumption
      <4>2. x[3] = t
        BY <1>0, <2>6 DEF Decisions, NoStaleAction
      <4>3. x = k
        BY <1>0, <2>2, <2>6, <4>1, <4>2
      <4>4. QED
        BY <2>3, <2>4, <4>3
    <3>3. QED
      BY <2>6, <3>1, <3>2 DEF Decisions, Answerable
  <2>7. QED
    BY <2>3, <2>5, <2>6
       DEF Decisions, NoStaleAction, RanOncePerLife, Answerable, Cached
<1>4. QED
  BY <1>1, <1>2, <1>3 DEF Request

\* A restart may execute every decision once more.
LEMMA CrashDecisions ==
  ASSUME TypeOK, Decisions, Crash
  PROVE  Decisions'
<1>1. /\ t' = t /\ crashes' = crashes + 1 /\ cache' = idem
      /\ UNCHANGED <<ran, idem>>
  BY DEF Crash, TypeOK, durable
<1>2. crashes \in Nat /\ \A k \in Keys : ran[k] \in Nat /\ ran[k] <= crashes + 1
  BY TypeFacts DEF TypeOK, Decisions, RanOncePerLife
<1>3. QED
  BY <1>1, <1>2
     DEF Decisions, NoStaleAction, RanOncePerLife, Answerable, Recent

\* The decision of an agent that declares its step runs in the tick it was made
\* for, and once while the process lives, if the idempotency cache has room for one
\* call of every agent (check_stale_step, with_idempotency).
THEOREM DecisionsActOnce ==
  ASSUME Declares, Cardinality(Agents) <= IdemCap
  PROVE  Spec => []ActsOnce
<1>1. ASSUME TypeOK, Control, Hook, Decisions, [Next]_vars
      PROVE  Decisions'
  <2>1. ASSUME NEW a \in setting.team, Request(a)
        PROVE  Decisions'
    BY <1>1, <2>1, RequestDecisions, SettingFacts DEF TypeOK
  <2>2. CASE UNCHANGED vars
    BY <1>1, <2>2, DecisionsFrame DEF vars, durable, memory, history
  <2>3. QED
    BY <1>1, <2>1, <2>2, WorkDecisions, CrashDecisions DEF Next
<1>2. Decisions => ActsOnce
  BY DEF Decisions, ActsOnce
<1>3. QED
  BY InitDecisions, ControlHolds, HookHolds, <1>1, <1>2, PTL DEF Spec

------------------------------------------------------------------------------
(* The boundary implements the clock of the experiment                     *)

\* A step that leaves the clock, the marker, the transitions and the mutations
\* alone is not seen.
LEMMA TickFrame ==
  ASSUME UNCHANGED <<current, pending, closed, moved, ran>>
  PROVE  UNCHANGED Clock!vars
BY DEF Clock!vars, Stage, Deeds

\* An executed call is a deed of the tick whose hook is open.
LEMMA ExecuteDoes ==
  ASSUME TypeOK, Control, NEW a \in Agents, Execute(a)
  PROVE  Clock!Do(<<a, seen[a]>>) /\ <<a, seen[a]>> \in Agents \X Ticks
<1>1. next[a] \in Calling /\ open /\ lock = "none"
      /\ ran' = [ran EXCEPT ![Key(a)] = @ + 1]
      /\ UNCHANGED <<current, pending, closed, moved>>
  BY DEF Execute, Accepted
<1>2. Stage = "acting" /\ Stage' = Stage
  BY <1>1, TypeFacts DEF Stage, Control, TypeOK
<1>3. seen[a] \in Ticks /\ t \in Ticks /\ current = t /\ Key(a) = <<a, t, seen[a]>>
      /\ Key(a) \in Keys
  BY <1>1, KeyFacts DEF TypeOK, Control, Key
<1>4. ASSUME NEW s \in Ticks, NEW d \in Agents \X Ticks
      PROVE  ran'[<<d[1], s, d[2]>>]
               = IF s = t /\ d = <<a, seen[a]>> THEN ran[<<d[1], s, d[2]>>] + 1
                 ELSE ran[<<d[1], s, d[2]>>]
  <2>1. <<d[1], s, d[2]>> \in Keys /\ d = <<d[1], d[2]>>
    BY DEF Keys
  <2>2. <<d[1], s, d[2]>> = Key(a) <=> s = t /\ d = <<a, seen[a]>>
    BY <1>3, <2>1
  <2>3. QED
    BY <1>1, <1>3, <2>1, <2>2 DEF TypeOK
<1>5. Deeds' = [Deeds EXCEPT ![current][<<a, seen[a]>>] = @ + 1]
  <2>1. PICK deed : deed = <<a, seen[a]>>
    OBVIOUS
  <2>2. deed \in Agents \X Ticks
    BY <1>3, <2>1
  <2>3. \A s \in Ticks, d \in Agents \X Ticks :
          Deeds'[s][d] = IF s = t /\ d = deed THEN Deeds[s][d] + 1 ELSE Deeds[s][d]
    BY <1>4, <2>1 DEF Deeds
  <2>4. \A s \in Ticks : /\ Deeds[s] = [d \in Agents \X Ticks |-> Deeds[s][d]]
                         /\ Deeds'[s] = [d \in Agents \X Ticks |-> Deeds'[s][d]]
    BY DEF Deeds
  <2>5. \A s \in Ticks : Deeds'[s] = IF s = t THEN [Deeds[s] EXCEPT ![deed] = @ + 1]
                                    ELSE Deeds[s]
    <3>1. ASSUME NEW s \in Ticks, NEW f, NEW g, f = Deeds[s], g = Deeds'[s]
          PROVE  g = IF s = t THEN [f EXCEPT ![deed] = @ + 1] ELSE f
      <4>1. /\ f = [d \in Agents \X Ticks |-> f[d]]
            /\ g = [d \in Agents \X Ticks |-> g[d]]
            /\ \A d \in Agents \X Ticks :
                 g[d] = IF s = t /\ d = deed THEN f[d] + 1 ELSE f[d]
        BY <2>3, <2>4, <3>1
      <4>2. QED
        BY <2>2, <4>1
    <3>2. QED
      BY <3>1
  <2>6. Deeds = [s \in Ticks |-> Deeds[s]] /\ Deeds' = [s \in Ticks |-> Deeds'[s]]
    BY DEF Deeds
  <2>7. QED
    BY <1>3, <2>1, <2>5, <2>6
<1>6. QED
  BY <1>1, <1>2, <1>3, <1>5 DEF Clock!Do

\* Crash it where you like: every tick is transformed once, before its agents act,
\* and what they do falls into the tick whose hook is open (Environment.step).
THEOREM BoundaryIsTickCycle == Spec => ImplementsTickCycle
<1>1. Init => Clock!Init
  <2>1. SUFFICES ASSUME Init PROVE Clock!Init
    OBVIOUS
  <2>2. \A s \in Ticks, d \in Agents \X Ticks : <<d[1], s, d[2]>> \in Keys
    BY DEF Keys
  <2>3. \A k \in Keys : ran[k] = 0
    BY <2>1 DEF Init
  <2>4. Deeds = [s \in 0 .. LastTick |-> [d \in Agents \X Ticks |-> 0]]
    BY <2>2, <2>3 DEF Deeds, Ticks
  <2>5. QED
    BY <2>1, <2>4 DEF Init, Clock!Init, Stage, Ticks
<1>2. ASSUME TypeOK, Control, [Next]_vars
      PROVE  [Clock!Next]_(Clock!vars)
  <2>0. t \in Nat /\ current = t /\ t # None
    BY <1>2, TypeFacts DEF TypeOK
  <2>1. CASE CommitTransition
    <3>1. /\ pending = None /\ pending' = t /\ ~closed' /\ current' = current
          /\ moved' = [moved EXCEPT ![t] = @ + 1] /\ ran' = ran
      BY <1>2, <2>1 DEF CommitTransition, Control
    <3>2. Clock!Move
      BY <2>0, <3>1 DEF Clock!Move, Stage, Deeds
    <3>3. QED
      BY <3>2 DEF Clock!Next
  <2>2. CASE MarkClosed
    <3>1. /\ pending = t /\ ~closed /\ closed'
          /\ UNCHANGED <<current, pending, moved, ran>>
      BY <1>2, <2>2 DEF MarkClosed, Control
    <3>2. Clock!End
      BY <2>0, <3>1 DEF Clock!End, Stage, Deeds
    <3>3. QED
      BY <3>2 DEF Clock!Next
  <2>3. CASE CommitClock
    <3>1. /\ pending = t /\ closed /\ pending' = None /\ current' = current + 1
          /\ UNCHANGED <<moved, ran>>
      BY <1>2, <2>0, <2>3 DEF CommitClock, Control
    <3>2. Clock!Tick
      BY <2>0, <3>1 DEF Clock!Tick, Stage, Deeds
    <3>3. QED
      BY <3>2 DEF Clock!Next
  <2>4. ASSUME Work, ~CommitTransition, ~MarkClosed, ~CommitClock
        PROVE  UNCHANGED Clock!vars
    BY <2>4, TickFrame
       DEF Work, BeginTransition, ResumeTransition, ResetHook, OpenHook, ReleasedHook,
           GiveUpHook, CloseHook, CopyTrace, WriteTrace, Finalize, durable
  <2>5. ASSUME NEW a \in Agents, Execute(a)
        PROVE  Clock!Next
    BY <1>2, <2>5, ExecuteDoes DEF Clock!Next
  <2>6. ASSUME NEW a \in Agents, Request(a), ~Execute(a)
        PROVE  UNCHANGED Clock!vars
    BY <2>6, TickFrame
       DEF Request, Notice, Observe, Leave, Refuse, Acknowledge, Replay, End,
                           durable
  <2>7. CASE Crash \/ UNCHANGED vars
    BY <2>7, TickFrame DEF Crash, vars, durable
  <2>8. \A a \in setting.team : a \in Agents
    BY <1>2, SettingFacts DEF TypeOK
  <2>9. QED
    BY <1>2, <2>1, <2>2, <2>3, <2>4, <2>5, <2>6, <2>7, <2>8 DEF Next
<1>3. QED
  BY ControlHolds, <1>1, <1>2, PTL DEF Spec, ImplementsTickCycle, Clock!Spec

=============================================================================
