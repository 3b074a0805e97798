--------------------------- MODULE EvaluationProofs ---------------------------
(***************************************************************************)
(* What an evaluation keeps in every behaviour: every run of a batch is    *)
(* accounted for, the health agents report is what they faced, ledgers add *)
(* up, the history keeps its rows, shelves stay within their size and      *)
(* conversations are ones a provider takes.  The proofs are for every      *)
(* value of the constants.                                                 *)
(***************************************************************************)
EXTENDS Evaluation, FiniteSetTheorems, SequenceTheorems, TLAPS

-----------------------------------------------------------------------------
(* Finite sets.                                                            *)

\* Every nonempty set of subsets of a finite set has a minimal element.
LEMMA MinimalSubset ==
  ASSUME NEW S, IsFiniteSet(S), NEW C, C \subseteq SUBSET S, C # {}
  PROVE  \E T \in C : \A U \in C : ~(U \subseteq T /\ U # T)
<1>1. IsWellFoundedOn(StrictSubsetOrdering(S), FiniteSubsetsOf(S))
  BY FS_StrictSubsetOrderingWellFounded
<1>2. C \subseteq FiniteSubsetsOf(S)
  BY FS_Subset DEF FiniteSubsetsOf
<1>3. PICK T \in C : \A U \in C : ~(<<U, T>> \in StrictSubsetOrdering(S))
  BY <1>1, <1>2, WFMin
<1>4. \A U \in C : U \subseteq T /\ U # T => <<U, T>> \in StrictSubsetOrdering(S)
  <2>1. C \subseteq SUBSET S
    OBVIOUS
  <2>2. QED
    BY <2>1 DEF StrictSubsetOrdering
<1>5. \A U \in C : ~(U \subseteq T /\ U # T)
  BY <1>3, <1>4
<1>6. QED
  BY <1>5

\* A finite set of integers has a least element and a greatest one.
LEMMA HasLeastGreatest ==
  ASSUME NEW S, IsFiniteSet(S)
  PROVE  S \subseteq Int /\ S # {} => /\ \E x \in S : \A y \in S : x <= y
                                      /\ \E x \in S : \A y \in S : x >= y
<1> DEFINE Has(T) == /\ \E x \in T : \A y \in T : x <= y
                     /\ \E x \in T : \A y \in T : x >= y
           C == {T \in SUBSET S : T \subseteq Int /\ T # {} /\ ~Has(T)}
<1>1. S \subseteq Int /\ S # {} => Has(S)
  <2> SUFFICES ASSUME C # {} PROVE FALSE
    OBVIOUS
  <2>1. PICK T \in C : \A U \in C : ~(U \subseteq T /\ U # T)
    <3>1. C \subseteq SUBSET S
      OBVIOUS
    <3> HIDE DEF C
    <3>2. QED
      BY <3>1, MinimalSubset
  <2>2. PICK x \in T : TRUE
    OBVIOUS
  <2>3. CASE T \ {x} = {}
    <3>1. T = {x} /\ x \in Int
      BY <2>3
    <3>2. QED
      BY <3>1, <2>1
  <2>4. CASE T \ {x} # {}
    <3>1. Has(T \ {x})
      <4>1. T \ {x} \in SUBSET S /\ T \ {x} \subseteq T /\ T \ {x} # T
        BY <2>1, <2>2
      <4> HIDE DEF Has
      <4>2. QED
        BY <2>1, <2>4, <4>1
    <3>2. Has(T)
      <4>1. PICK a \in T \ {x}, b \in T \ {x} : \A y \in T \ {x} : a <= y /\ b >= y
        BY <3>1
      <4>2. \A y \in T : y \in Int
        BY <2>1
      <4>3. \E z \in T : \A y \in T : z <= y
        <5>1. CASE a <= x
          BY <4>1, <5>1
        <5>2. CASE x <= a
          BY <4>1, <4>2, <5>2
        <5>3. QED
          BY <5>1, <5>2, <4>2
      <4>4. \E z \in T : \A y \in T : z >= y
        <5>1. CASE b >= x
          BY <4>1, <5>1
        <5>2. CASE x >= b
          BY <4>1, <4>2, <5>2
        <5>3. QED
          BY <5>1, <5>2, <4>2
      <4>5. QED
        BY <4>3, <4>4
    <3>3. QED
      BY <2>1, <3>2
  <2>5. QED
    BY <2>3, <2>4
<1>2. QED
  BY <1>1

\* Min gives the least, and Max the greatest.
LEMMA LeastGreatest ==
  ASSUME NEW S, IsFiniteSet(S), S \subseteq Int, S # {}
  PROVE  /\ Min(S) \in S /\ \A y \in S : Min(S) <= y
         /\ Max(S) \in S /\ \A y \in S : Max(S) >= y
BY HasLeastGreatest DEF Min, Max

\* The same of two numbers.
LEMMA MaxOfTwo ==
  ASSUME NEW a \in Int, NEW b \in Int
  PROVE  Max({a, b}) = IF a >= b THEN a ELSE b
<1>1. IsFiniteSet({a, b})
  <2>1. IsFiniteSet({a}) /\ {a, b} = {a} \cup {b}
    BY FS_Singleton
  <2>2. QED
    BY <2>1, FS_AddElement, Zenon
<1>2. Max({a, b}) \in {a, b} /\ \A y \in {a, b} : Max({a, b}) >= y
  BY <1>1, LeastGreatest
<1>3. QED
  BY <1>2

\* Minimum of two numbers.
LEMMA MinOfTwo ==
  ASSUME NEW a \in Int, NEW b \in Int
  PROVE  Min({a, b}) = IF a <= b THEN a ELSE b
<1>1. IsFiniteSet({a, b})
  <2>1. IsFiniteSet({a}) /\ {a, b} = {a} \cup {b}
    BY FS_Singleton
  <2>2. QED
    BY <2>1, FS_AddElement, Zenon
<1>2. Min({a, b}) \in {a, b} /\ \A y \in {a, b} : Min({a, b}) <= y
  BY <1>1, LeastGreatest
<1>3. QED
  BY <1>2

\* s enumerates S in increasing order.
Enumerates(s, S) == /\ s \in [1 .. Cardinality(S) -> S]
                    /\ \A i, j \in DOMAIN s : i < j => s[i] < s[j]
                    /\ \A x \in S : \E i \in DOMAIN s : s[i] = x

\* A finite set of integers can be put in increasing order.
LEMMA HasOrder ==
  ASSUME NEW S, IsFiniteSet(S)
  PROVE  S \subseteq Int => \E s \in [1 .. Cardinality(S) -> S] :
                             \A i, j \in DOMAIN s : i < j => s[i] < s[j]
<1> DEFINE Rises(s) == \A i, j \in DOMAIN s : i < j => s[i] < s[j]
           Has(T) == \E s \in [1 .. Cardinality(T) -> T] : Rises(s)
           C == {T \in SUBSET S : T \subseteq Int /\ ~Has(T)}
<1>1. S \subseteq Int => Has(S)
  <2> SUFFICES ASSUME C # {} PROVE FALSE
    OBVIOUS
  <2>1. PICK T \in C : \A U \in C : ~(U \subseteq T /\ U # T)
    <3>1. C \subseteq SUBSET S
      OBVIOUS
    <3> HIDE DEF C
    <3>2. QED
      BY <3>1, MinimalSubset
  <2>2. IsFiniteSet(T) /\ T \subseteq Int
    BY FS_Subset
  <2>3. CASE T = {}
    <3>1. Cardinality(T) = 0
      BY <2>3, FS_EmptySet
    <3>2. [i \in 1 .. 0 |-> 0] \in [1 .. 0 -> T] /\ Rises([i \in 1 .. 0 |-> 0])
      OBVIOUS
    <3>3. Has(T)
      BY <3>1, <3>2
    <3>4. QED
      BY <2>1, <3>3
  <2>4. CASE T # {}
    <3>1. PICK m \in T : \A y \in T : m >= y
      BY <2>2, <2>4, LeastGreatest
    <3> DEFINE R == T \ {m}
               n == Cardinality(R)
    <3>2. IsFiniteSet(R) /\ n \in Nat /\ Cardinality(T) = n + 1
      <4>1. IsFiniteSet(R) /\ Cardinality(R) = Cardinality(T) - 1 /\ Cardinality(T) \in Nat
        BY <2>2, FS_RemoveElement, FS_CardinalityType
      <4>2. Cardinality(R) \in Nat
        BY <4>1, FS_CardinalityType
      <4>3. QED
        BY <4>1, <4>2
    <3>3. Has(R)
      <4>1. R \in SUBSET S /\ R \subseteq T /\ R # T
        BY <2>1, <3>1
      <4> HIDE DEF Has
      <4>2. QED
        BY <2>1, <4>1
    <3>4. PICK s \in [1 .. n -> R] : Rises(s)
      BY <3>3
    <3> DEFINE e == [i \in 1 .. n + 1 |-> IF i = n + 1 THEN m ELSE s[i]]
    <3> HIDE DEF n
    <3>5. e \in [1 .. n + 1 -> T]
      BY <3>1, <3>2, <3>4
    <3>6. ASSUME NEW i \in 1 .. n + 1, NEW j \in 1 .. n + 1, i < j
          PROVE  e[i] < e[j]
      <4>1. i \in 1 .. n /\ e[i] = s[i] /\ s[i] \in R
        BY <3>2, <3>4, <3>6
      <4>2. CASE j = n + 1
        <5>1. e[j] = m /\ m >= s[i] /\ s[i] # m /\ s[i] \in Int /\ m \in Int
          BY <4>1, <4>2, <3>1, <2>2
        <5>2. QED
          BY <4>1, <5>1
      <4>3. CASE j # n + 1
        BY <4>1, <4>3, <3>2, <3>4, <3>6
      <4>4. QED
        BY <4>2, <4>3
    <3>7. Has(T)
      <4>1. Rises(e)
        BY <3>5, <3>6
      <4>2. QED
        BY <3>2, <3>5, <4>1
    <3>8. QED
      BY <2>1, <3>7
  <2>5. QED
    BY <2>3, <2>4
<1>2. QED
  BY <1>1

\* Sorted enumerates it.
LEMMA SortedEnumerates ==
  ASSUME NEW S, IsFiniteSet(S), S \subseteq Int
  PROVE  Enumerates(Sorted(S), S)
<1> DEFINE s == Sorted(S)
<1>3. s \in [1 .. Cardinality(S) -> S] /\ \A i, j \in DOMAIN s : i < j => s[i] < s[j]
  BY HasOrder DEF Sorted
<1> HIDE DEF s
<1>4. Cardinality(S) \in Nat
  BY FS_CardinalityType
<1>5. ASSUME NEW x \in S, \A i \in DOMAIN s : s[i] # x PROVE FALSE
  <2>1. IsFiniteSet(1 .. Cardinality(S)) /\ Cardinality(1 .. Cardinality(S)) = Cardinality(S)
    BY <1>4, FS_Interval
  <2>2. IsFiniteSet(S \ {x}) /\ Cardinality(S \ {x}) = Cardinality(S) - 1
    BY FS_RemoveElement
  <2>3. s \in [1 .. Cardinality(S) -> S \ {x}]
    BY <1>3, <1>5
  <2>4. PICK i \in 1 .. Cardinality(S), j \in 1 .. Cardinality(S) : i # j /\ s[i] = s[j]
    BY <2>1, <2>2, <2>3, <1>4, FS_PigeonHole
  <2>5. s[i] \in Int /\ s[j] \in Int /\ DOMAIN s = 1 .. Cardinality(S)
    BY <1>3, <2>4
  <2>6. i < j \/ j < i
    BY <1>4, <2>4
  <2>7. s[i] < s[j] \/ s[j] < s[i]
    BY <1>3, <2>4, <2>5, <2>6
  <2>8. QED
    BY <2>4, <2>5, <2>7
<1>6. QED
  BY <1>3, <1>5 DEF Enumerates, s

\* A set that Sorted enumerates, as a sequence.
LEMMA SortedSeq ==
  ASSUME NEW S, IsFiniteSet(S), S \subseteq Int
  PROVE  /\ Sorted(S) \in Seq(S) /\ Len(Sorted(S)) = Cardinality(S)
         /\ \A i, j \in DOMAIN Sorted(S) : Sorted(S)[i] = Sorted(S)[j] => i = j
         /\ \A x \in S : \E i \in DOMAIN Sorted(S) : Sorted(S)[i] = x
<1> DEFINE s == Sorted(S)
<1>1. Enumerates(s, S) /\ Cardinality(S) \in Nat
  BY SortedEnumerates, FS_CardinalityType
<1> HIDE DEF s
<1>2. s \in Seq(S) /\ Len(s) = Cardinality(S) /\ DOMAIN s = 1 .. Cardinality(S)
  BY <1>1 DEF Enumerates
<1>3. \A i, j \in DOMAIN s : s[i] = s[j] => i = j
  <2>1. SUFFICES ASSUME NEW i \in DOMAIN s, NEW j \in DOMAIN s, i < j PROVE s[i] # s[j]
    BY <1>2
  <2>2. s[i] < s[j] /\ s[i] \in Int
    BY <1>1, <1>2, <2>1 DEF Enumerates
  <2>3. s[i] = s[j] => s[i] < s[i]
    BY <2>2
  <2>4. QED
    BY <2>2, <2>3
<1>4. QED
  BY <1>1, <1>2, <1>3 DEF Enumerates, s

\* A function on 1 .. n is a sequence of that length.
LEMMA FunctionSeq ==
  ASSUME NEW S, NEW n \in Nat, NEW f \in [1 .. n -> S]
  PROVE  f \in Seq(S) /\ Len(f) = n /\ DOMAIN f = 1 .. n
<1>1. f \in Seq(S)
  BY SeqDef
<1>2. DOMAIN f = 1 .. Len(f) /\ Len(f) \in Nat
  BY <1>1, LenProperties
<1>3. QED
  BY <1>1, <1>2

-----------------------------------------------------------------------------
(* What steps leave alone.                                                 *)

\* A request for an observation, or the end of an agent whose run is over.
LEMMA ObserverKeeps ==
  ASSUME NEW p, Observe(p) \/ Leave(p)
  PROVE  UNCHANGED <<phase, t, hook, turns, trace, cost, shelves, child, history, health, batch, crowded, bounds>>
BY DEF Observe, Leave, runs

\* A step of a ReAct agent.
LEMMA ReactKeeps ==
  ASSUME NEW p, ReactStep(p)
  PROVE  UNCHANGED <<phase, t, looked, trace, cost, shelves, child, history, batch, crowded, limit>>
<1> DEFINE Kept == UNCHANGED <<phase, t, looked, trace, cost, shelves, child, history, batch, crowded, limit>>
<1>1. ASSUME NEW kind, ModelFails(p, kind) PROVE Kept
  BY <1>1 DEF ModelFails, runs, Use
<1>2. ASSUME NEW said, NEW ends, NEW usage, ModelReplies(p, said, ends, usage) PROVE Kept
  BY <1>2 DEF ModelReplies, runs, Use
<1>3. ASSUME ActTaken(p) PROVE Kept
  BY <1>3 DEF ActTaken, Take, Use, bounds
<1>4. ASSUME ActLost(p) \/ ActRefused(p) PROVE Kept
  BY <1>4 DEF ActLost, ActRefused, runs, Use, bounds
<1>5. QED
  BY <1>1, <1>2, <1>3, <1>4 DEF ReactStep

\* A step of a rule based agent.
LEMMA RuleKeeps ==
  ASSUME NEW p, RuleStep(p)
  PROVE  UNCHANGED <<phase, t, looked, trace, cost, child, history, health, batch, crowded, limit>>
<1> DEFINE Kept == UNCHANGED <<phase, t, looked, trace, cost, child, history, health, batch, crowded, limit>>
<1>1. ASSUME NEW b, Act(p, b) PROVE Kept
  BY <1>1 DEF Act, Take, Use, bounds
<1>2. ASSUME AskBalance(p) \/ AskShelf(p) \/ Clear(p) \/ AskRisks(p) \/ Drop(p) \/ Review(p) \/ DropUnsold(p)
             \/ Search(p) \/ List(p) \/ End(p)
      PROVE  Kept
  BY <1>1, <1>2 DEF AskBalance, AskShelf, Clear, AskRisks, Drop, Review, DropUnsold, Search, List, End
<1>3. ASSUME Adjust(p) PROVE Kept
  BY <1>1, <1>3 DEF Adjust, runs, bounds
<1>4. ASSUME RuleRefused(p) \/ RuleLost(p) PROVE Kept
  BY <1>4 DEF RuleRefused, RuleLost, runs, Use, bounds
<1>5. QED
  BY <1>2, <1>3, <1>4 DEF RuleStep

\* A step of the batch.
LEMMA ModelsKeep ==
  ASSUME RunModels
  PROVE  UNCHANGED <<t, hook, looked, turns, trace, cost, shelves, health, limit>>
BY DEF RunModels, CreateRun, CreateFails, Created, Round, Ask, AskFails, Asked, ReadSummaries, BatchLoad, BatchWrite,
       BatchEnds, Use, bounds, runs

\* The bounds of a behaviour are fixed when it begins.
LEMMA LimitFixed == ASSUME Next PROVE limit' = limit
<1>1. ASSUME Service PROVE limit' = limit
  BY <1>1 DEF Service, StartAgain, Stop, Stopped, OpenHook, GiveUp, FinishStep, Over, Mark, Summarize, LoadHistory,
              WriteHistory, Report, OtherTurn, Crash, RebuildScan, RebuildWrite, Use, bounds
<1>2. QED
  BY <1>1, ObserverKeeps, ReactKeeps, RuleKeeps, ModelsKeep DEF Next, bounds

\* The batch is changed by its own steps alone.
LEMMA BatchFrame == ASSUME Next PROVE (RunModels /\ ~BatchLoad) \/ UNCHANGED batch
<1>1. ASSUME Service PROVE UNCHANGED batch
  BY <1>1 DEF Service, StartAgain, Stop, Stopped, OpenHook, GiveUp, FinishStep, Over, Mark, Summarize, LoadHistory,
              WriteHistory, Report, OtherTurn, Crash, RebuildScan, RebuildWrite
<1>2. ASSUME BatchLoad PROVE UNCHANGED batch
  BY <1>2 DEF BatchLoad
<1>3. QED
  BY <1>1, <1>2, ObserverKeeps, ReactKeeps, RuleKeeps DEF Next

\* The history is changed by its writers alone.
LEMMA HistoryFrame ==
  ASSUME Next
  PROVE  \/ UNCHANGED history
         \/ \E r \in Jobs : Summarize(r) \/ LoadHistory(r) \/ WriteHistory(r)
         \/ Crash \/ RebuildScan \/ RebuildWrite \/ BatchLoad \/ BatchWrite
<1>1. ASSUME NEW r \in Jobs,
             \/ StartAgain(r) \/ Stop(r) \/ Stopped(r) \/ OpenHook(r) \/ GiveUp(r) \/ FinishStep(r) \/ Over(r)
             \/ Mark(r) \/ (\E report, step : Report(r, report, step)) \/ (\E ends : OtherTurn(r, ends))
      PROVE  UNCHANGED history
  BY <1>1 DEF StartAgain, Stop, Stopped, OpenHook, GiveUp, FinishStep, Over, Mark, Report, OtherTurn
<1>2. ASSUME CreateRun \/ CreateFails \/ Round \/ Ask \/ AskFails \/ Asked \/ ReadSummaries \/ BatchEnds
      PROVE  UNCHANGED history
  BY <1>2 DEF CreateRun, CreateFails, Created, Round, Ask, AskFails, Asked, ReadSummaries, BatchEnds
<1>3. QED
  BY <1>1, <1>2, ObserverKeeps, ReactKeeps, RuleKeeps DEF Next, Service, RunModels

\* Processes are started and killed by the service, and change by steps of their own.
LEMMA AgentFrame ==
  ASSUME Next
  PROVE  \/ UNCHANGED <<agents, health>>
         \/ \E r \in Jobs : (Spawn(r) \/ Kill(r)) /\ UNCHANGED <<t, shop, health>>
         \/ Crash
         \/ \E p \in Procs : Observe(p) \/ Leave(p) \/ ReactStep(p) \/ RuleStep(p)
<1>1. ASSUME NEW r \in Jobs, StartAgain(r) \/ Stop(r) \/ WriteHistory(r)
      PROVE  (Spawn(r) \/ Kill(r)) /\ UNCHANGED <<t, shop, health>>
  BY <1>1 DEF StartAgain, Stop, WriteHistory, shelves
<1>2. ASSUME NEW r \in Jobs,
             \/ Stopped(r) \/ OpenHook(r) \/ GiveUp(r) \/ FinishStep(r) \/ Over(r) \/ Mark(r) \/ Summarize(r)
             \/ LoadHistory(r) \/ (\E report, step : Report(r, report, step)) \/ (\E ends : OtherTurn(r, ends))
      PROVE  UNCHANGED <<agents, health>>
  BY <1>2 DEF Stopped, OpenHook, GiveUp, FinishStep, Over, Mark, Summarize, LoadHistory, Report, OtherTurn
<1>3. ASSUME RebuildScan \/ RebuildWrite PROVE UNCHANGED <<agents, health>>
  BY <1>3 DEF RebuildScan, RebuildWrite
<1>4. ASSUME RunModels
      PROVE  \/ UNCHANGED <<agents, health>>
             \/ \E r \in Jobs : Spawn(r) /\ UNCHANGED <<t, shop, health>>
  BY <1>4 DEF RunModels, CreateRun, CreateFails, Created, Round, Ask, AskFails, Asked, ReadSummaries, BatchLoad,
              BatchWrite, BatchEnds, shelves
<1>5. QED
  BY <1>1, <1>2, <1>3, <1>4 DEF Next, Service

\* The clock of a run moves when a step is finished, and the shelves change then or
\* by an act.
LEMMA ClockFrame == ASSUME Next PROVE UNCHANGED t \/ \E r \in Jobs : FinishStep(r)
<1>1. ASSUME Service, ~\E r \in Jobs : FinishStep(r) PROVE UNCHANGED t
  BY <1>1 DEF Service, StartAgain, Stop, Stopped, OpenHook, GiveUp, Over, Mark, Summarize, LoadHistory,
              WriteHistory, Report, OtherTurn, Take, Crash, RebuildScan, RebuildWrite, runs
<1>2. QED
  BY <1>1, ObserverKeeps, ReactKeeps, RuleKeeps, ModelsKeep DEF Next

\* The shelves change when a step is finished, or by a step of the rule based agent.
LEMMA ShopFrame ==
  ASSUME Next
  PROVE  \/ UNCHANGED shop
         \/ \E r \in Jobs : FinishStep(r)
         \/ \E p \in Procs : RuleStep(p)
<1>1. ASSUME Service, ~\E r \in Jobs : FinishStep(r) PROVE UNCHANGED shop
  BY <1>1 DEF Service, StartAgain, Stop, Stopped, OpenHook, GiveUp, Over, Mark, Summarize, LoadHistory,
              WriteHistory, Report, OtherTurn, Crash, RebuildScan, RebuildWrite, shelves
<1>2. QED
  BY <1>1, ObserverKeeps, ReactKeeps, ModelsKeep DEF Next, shelves

-----------------------------------------------------------------------------
(* The batch accounts for its runs.                                        *)

FailureType == [index : Nat, tracked : BOOLEAN]

\* No job fails twice.
OnceEach(failures) == \A i, j \in DOMAIN failures : failures[i].index = failures[j].index => i = j

Before(next) == 1 .. next - 1
Settled(b) == b.results \cup FailedJobs(b.failures)
Asking(b) == {b.todo[k] : k \in DOMAIN b.todo}

BatchType(b) ==
  [pc : {"fill", "poll", "sum", "upsert", "end"}, next : Nat, active : SUBSET Nat, todo : Seq(Nat),
   completed : SUBSET Nat, results : SUBSET Nat, failures : Seq(FailureType), read : {b.read}]

\* What is in the batch of n jobs.
BatchShape(b, n) ==
  /\ b \in BatchType(b)
  /\ b.next \in 1 .. n + 1
  /\ b.active \subseteq Before(b.next) /\ b.results \subseteq Before(b.next)
  /\ Cardinality(b.active) <= MaxParallel

\* Every job it began is active or settled, and none is settled twice.
BatchSettles(b) ==
  /\ OnceEach(b.failures) /\ b.results \cap FailedJobs(b.failures) = {}
  /\ Before(b.next) \subseteq Settled(b) \cup b.active

\* While it polls, what is active and settled is what it has found ended in this
\* round, and it asks for none of that again; once it is done no job is left.
BatchRound(b) ==
  /\ b.pc \in {"fill", "poll"} => /\ FailedJobs(b.failures) \subseteq Before(b.next)
                                  /\ b.active \cap Settled(b) = b.completed
  /\ b.pc = "fill" => b.completed = {}
  /\ b.pc = "poll" => /\ \A i, j \in DOMAIN b.todo : b.todo[i] = b.todo[j] => i = j
                      /\ Asking(b) \subseteq b.active \ b.completed
  /\ b.pc \in {"sum", "upsert", "end"} => Before(b.next) \subseteq Settled(b)

BatchInv == BatchShape(batch, Len(limit.jobs)) /\ BatchSettles(batch) /\ BatchRound(batch)

\* It has loaded the history only for a row it is to write.
BatchHolds == Batch \in DOMAIN held => batch.pc = "upsert" /\ batch.todo # <<>>

\* There are finitely many jobs.
LEMMA BeforeFinite ==
  ASSUME NEW n \in Nat, NEW S, S \subseteq Before(n)
  PROVE  IsFiniteSet(S) /\ S \subseteq Int
<1>1. IsFiniteSet(1 .. n)
  BY FS_Interval
<1>2. S \subseteq 1 .. n
  BY DEF Before
<1>3. IsFiniteSet(S)
  BY <1>1, <1>2, FS_Subset, Zenon
<1>4. S \subseteq Int
  BY <1>2
<1>5. QED
  BY <1>3, <1>4

\* The failures with one more.
LEMMA FailedOneMore ==
  ASSUME NEW failures \in Seq(FailureType), OnceEach(failures),
         NEW i \in Nat, NEW tracked \in BOOLEAN, i \notin FailedJobs(failures)
  PROVE  LET more == Append(failures, Failure(i, tracked))
         IN /\ more \in Seq(FailureType) /\ OnceEach(more)
            /\ FailedJobs(more) = FailedJobs(failures) \cup {i}
<1> DEFINE more == Append(failures, Failure(i, tracked))
           n == Len(failures)
<1>1. Failure(i, tracked) \in FailureType /\ Failure(i, tracked).index = i
  BY DEF Failure, FailureType
<1>2. /\ more \in Seq(FailureType) /\ n \in Nat /\ DOMAIN more = 1 .. n + 1 /\ DOMAIN failures = 1 .. n
      /\ \A k \in 1 .. n : more[k] = failures[k]
      /\ more[n + 1] = Failure(i, tracked)
  BY <1>1, AppendProperties, LenProperties
<1> HIDE DEF more, n
<1>3. FailedJobs(more) = FailedJobs(failures) \cup {i}
  BY <1>1, <1>2 DEF FailedJobs
<1>4. OnceEach(more)
  <2> SUFFICES ASSUME NEW j \in 1 .. n + 1, NEW k \in 1 .. n + 1, more[j].index = more[k].index PROVE j = k
    BY <1>2 DEF OnceEach
  <2>1. CASE j \in 1 .. n /\ k \in 1 .. n
    BY <2>1, <1>2 DEF OnceEach
  <2>2. CASE j = n + 1 /\ k \in 1 .. n
    BY <2>2, <1>1, <1>2 DEF FailedJobs
  <2>3. CASE j \in 1 .. n /\ k = n + 1
    BY <2>3, <1>1, <1>2 DEF FailedJobs
  <2>4. QED
    BY <2>1, <2>2, <2>3, <1>2
<1>5. QED
  BY <1>2, <1>3, <1>4 DEF more

\* Giving up, every job that is active and not settled is added.
LEMMA OrphanedAdds ==
  ASSUME NEW results, NEW failures \in Seq(FailureType), OnceEach(failures), NEW except,
         NEW n \in Nat, batch.active \subseteq Before(n)
  PROVE  LET left == batch.active \ (results \cup FailedJobs(failures) \cup {except})
             all == Orphaned(results, failures, except)
         IN /\ all \in Seq(FailureType) /\ OnceEach(all)
            /\ FailedJobs(all) = FailedJobs(failures) \cup left
<1> DEFINE left == batch.active \ (results \cup FailedJobs(failures) \cup {except})
           s == Sorted(left)
           c == Cardinality(left)
           more == [i \in 1 .. c |-> Failure(s[i], TRUE)]
           all == failures \o more
           m == Len(failures)
<1>1. /\ s \in Seq(left) /\ Len(s) = c
      /\ \A i, j \in DOMAIN s : s[i] = s[j] => i = j
      /\ \A x \in left : \E i \in DOMAIN s : s[i] = x
  <2>1. IsFiniteSet(left) /\ left \subseteq Int
    BY BeforeFinite
  <2> HIDE DEF left
  <2>2. QED
    BY <2>1, SortedSeq
<1>2. left \subseteq Nat /\ left \cap FailedJobs(failures) = {}
  BY DEF Before
<1>3. Orphaned(results, failures, except) = all
  BY DEF Orphaned
<1> HIDE DEF left, s, c
<1>4. DOMAIN s = 1 .. c /\ c \in Nat /\ \A i \in 1 .. c : s[i] \in left /\ s[i] \in Nat
  <2>1. DOMAIN s = 1 .. c /\ c \in Nat
    BY <1>1, LenProperties
  <2>2. \A i \in 1 .. Len(s) : s[i] \in left
    BY <1>1, ElementOfSeq
  <2>3. QED
    BY <1>1, <1>2, <2>1, <2>2
<1>5. \A i \in 1 .. c : more[i] \in FailureType /\ more[i].index = s[i]
  BY <1>4 DEF Failure, FailureType
<1>6. more \in Seq(FailureType) /\ Len(more) = c
  <2>1. c \in Nat /\ more \in [1 .. c -> FailureType]
    BY <1>4, <1>5
  <2> HIDE DEF more
  <2>2. QED
    BY <2>1, FunctionSeq
<1> HIDE DEF more
<1>7. /\ all \in Seq(FailureType) /\ m \in Nat /\ DOMAIN all = 1 .. m + c /\ DOMAIN failures = 1 .. m
      /\ \A k \in 1 .. m : all[k] = failures[k]
      /\ \A k \in m + 1 .. m + c : all[k] = more[k - m]
  BY <1>4, <1>6
<1> HIDE DEF all, m
<1>8. \A k \in m + 1 .. m + c : k - m \in 1 .. c /\ all[k].index = s[k - m]
  <2>1. TAKE k \in m + 1 .. m + c
  <2>2. k - m \in 1 .. c
    BY <1>4, <1>7
  <2>3. all[k] = more[k - m]
    BY <1>7
  <2>4. QED
    BY <1>5, <2>2, <2>3
<1>9. FailedJobs(all) = FailedJobs(failures) \cup left
  <2>1. ASSUME NEW x \in FailedJobs(all) PROVE x \in FailedJobs(failures) \cup left
    <3>1. PICK k \in 1 .. m + c : x = all[k].index
      BY <1>7 DEF FailedJobs
    <3>2. CASE k \in 1 .. m
      BY <3>1, <3>2, <1>7 DEF FailedJobs
    <3>3. CASE k \in m + 1 .. m + c
      BY <3>1, <3>3, <1>4, <1>8
    <3>4. QED
      BY <3>2, <3>3, <1>4, <1>7
  <2>2. ASSUME NEW x \in FailedJobs(failures) PROVE x \in FailedJobs(all)
    <3>1. PICK k \in 1 .. m : x = failures[k].index
      BY <1>7 DEF FailedJobs
    <3>2. k \in 1 .. m + c /\ x = all[k].index
      BY <3>1, <1>4, <1>7
    <3>3. QED
      BY <3>2, <1>7 DEF FailedJobs
  <2>3. ASSUME NEW x \in left PROVE x \in FailedJobs(all)
    <3>1. PICK i \in 1 .. c : x = s[i]
      BY <1>1, <1>4
    <3>2. m + i \in m + 1 .. m + c /\ m + i \in 1 .. m + c /\ (m + i) - m = i
      BY <3>1, <1>4, <1>7
    <3>3. x = all[m + i].index
      BY <3>1, <3>2, <1>8
    <3>4. QED
      BY <3>2, <3>3, <1>7 DEF FailedJobs
  <2>4. QED
    BY <2>1, <2>2, <2>3
<1>10. OnceEach(all)
  <2> SUFFICES ASSUME NEW j \in 1 .. m + c, NEW k \in 1 .. m + c, all[j].index = all[k].index PROVE j = k
    BY <1>7 DEF OnceEach
  <2>1. CASE j \in 1 .. m /\ k \in 1 .. m
    BY <2>1, <1>7 DEF OnceEach
  <2>2. CASE j \in m + 1 .. m + c /\ k \in m + 1 .. m + c
    <3>1. s[j - m] = s[k - m] /\ j - m \in DOMAIN s /\ k - m \in DOMAIN s
      BY <2>2, <1>4, <1>8
    <3>2. j - m = k - m
      BY <3>1, <1>1
    <3>3. QED
      BY <2>2, <3>2, <1>4, <1>7
  <2>3. ASSUME NEW x \in 1 .. m, NEW y \in m + 1 .. m + c, all[x].index = all[y].index PROVE FALSE
    <3>1. all[x].index \in FailedJobs(failures)
      BY <1>7 DEF FailedJobs
    <3>2. all[y].index \in left
      BY <1>4, <1>8
    <3>3. QED
      BY <2>3, <3>1, <3>2, <1>2
  <2>4. j \in 1 .. m \/ j \in m + 1 .. m + c
    BY <1>4, <1>7
  <2>5. k \in 1 .. m \/ k \in m + 1 .. m + c
    BY <1>4, <1>7
  <2>6. QED
    BY <2>1, <2>2, <2>3, <2>4, <2>5
<1>11. QED
  BY <1>3, <1>7, <1>9, <1>10 DEF left

\* Giving up settles every job.
LEMMA GivingUpSettles ==
  ASSUME BatchInv, limit' = limit, batch.pc \in {"fill", "poll"},
         NEW i \in Nat, i \notin Settled(batch), NEW tracked \in BOOLEAN, NEW except \in {None, i},
         GivesUp(Append(batch.failures, Failure(i, tracked)), except)
  PROVE  BatchInv'
<1> DEFINE b == batch
           more == Append(b.failures, Failure(i, tracked))
           all == Orphaned(b.results, more, except)
           left == b.active \ (b.results \cup FailedJobs(more) \cup {except})
<1>1. /\ b.failures \in Seq(FailureType) /\ OnceEach(b.failures) /\ b.next \in Nat
      /\ b.active \subseteq Before(b.next) /\ b.results \subseteq Before(b.next)
      /\ b.results \cap FailedJobs(b.failures) = {}
      /\ Before(b.next) \subseteq b.results \cup FailedJobs(b.failures) \cup b.active
  BY DEF BatchInv, BatchShape, BatchType, BatchSettles, Settled
<1>2. more \in Seq(FailureType) /\ OnceEach(more) /\ FailedJobs(more) = FailedJobs(b.failures) \cup {i}
  BY <1>1, FailedOneMore DEF Settled
<1>3. all \in Seq(FailureType) /\ OnceEach(all) /\ FailedJobs(all) = FailedJobs(more) \cup left
  <2>1. more \in Seq(FailureType) /\ OnceEach(more) /\ b.next \in Nat /\ batch.active \subseteq Before(b.next)
    BY <1>1, <1>2
  <2> HIDE DEF more
  <2>2. QED
    BY <2>1, OrphanedAdds
<1>4. /\ b \in BatchType(b)
      /\ b.next \in 1 .. Len(limit.jobs) + 1 /\ Cardinality(b.active) <= MaxParallel
  BY DEF BatchInv, BatchShape
<1>5. batch' = AfterRuns([b EXCEPT !.failures = all])
  BY DEF GivesUp
<1> DEFINE c == [b EXCEPT !.failures = all]
<1> HIDE DEF b, more, all
<1>6. /\ batch' \in BatchType(batch') /\ batch'.pc \in {"sum", "end"}
      /\ batch'.next = b.next /\ batch'.active = b.active /\ batch'.results = b.results
      /\ batch'.failures = all
  <2>1. /\ c \in BatchType(b) /\ c.failures = all
        /\ c.next = b.next /\ c.active = b.active /\ c.results = b.results
    BY <1>3, <1>4 DEF BatchType
  <2> HIDE DEF c
  <2>2. PICK pc \in {"sum", "end"} : batch' = [c EXCEPT !.pc = pc, !.todo = <<>>, !.completed = {}]
    BY <1>5 DEF AfterRuns, c
  <2>3. <<>> \in Seq(Nat)
    OBVIOUS
  <2>4. QED
    BY <2>1, <2>2, <2>3 DEF BatchType
<1>7. Before(b.next) \subseteq b.results \cup FailedJobs(all)
  <2>1. None \notin Before(b.next)
    BY <1>1 DEF None, Before
  <2>2. QED
    BY <1>1, <1>2, <1>3, <2>1
<1>8. b.results \cap FailedJobs(all) = {}
  <2>1. i \notin b.results
    BY DEF Settled, b
  <2>2. QED
    BY <1>1, <1>2, <1>3, <2>1
<1>9. BatchShape(batch', Len(limit'.jobs))
  BY <1>1, <1>4, <1>6 DEF BatchShape
<1>10. BatchSettles(batch') /\ BatchRound(batch')
  BY <1>3, <1>6, <1>7, <1>8 DEF BatchSettles, BatchRound, Settled
<1>11. QED
  BY <1>9, <1>10 DEF BatchInv

\* A job that is created is active.
LEMMA BatchCreates == ASSUME BatchInv, limit' = limit, CreateRun PROVE BatchInv'
<1> DEFINE b == batch
           i == b.next
<1>1. /\ batch' = [b EXCEPT !.active = @ \cup {i}, !.next = @ + 1]
      /\ b.pc = "fill" /\ i \in 1 .. Len(limit.jobs) /\ Cardinality(b.active) < MaxParallel
  BY DEF CreateRun, Jobs
<1>2. b \in BatchType(b) /\ b.active \subseteq Before(i) /\ b.results \subseteq Before(i) /\ i \in Nat
  BY DEF BatchInv, BatchShape, BatchType
<1> HIDE DEF b
<1>3. /\ batch' \in BatchType(batch') /\ batch'.pc = "fill" /\ batch'.next = i + 1
      /\ batch'.active = b.active \cup {i} /\ batch'.results = b.results /\ batch'.failures = b.failures
      /\ batch'.completed = b.completed
  <2>1. b.active \cup {i} \in SUBSET Nat /\ i + 1 \in Nat
    BY <1>2 DEF BatchType
  <2>2. batch' = [b EXCEPT !.active = b.active \cup {i}, !.next = i + 1]
    BY <1>1
  <2>3. QED
    BY <1>1, <1>2, <2>1, <2>2 DEF BatchType
<1>4. Before(i + 1) = Before(i) \cup {i} /\ i \notin Before(i)
  BY <1>1, <1>2 DEF Before
<1>5. Cardinality(batch'.active) <= MaxParallel
  <2>1. IsFiniteSet(b.active) /\ i \notin b.active
    BY <1>2, <1>4, BeforeFinite
  <2>2. Cardinality(b.active \cup {i}) = Cardinality(b.active) + 1 /\ Cardinality(b.active) \in Nat
    BY <2>1, FS_AddElement, FS_CardinalityType
  <2>3. QED
    BY <1>1, <1>3, <2>2, EvaluationAssumption
<1>6. BatchShape(batch', Len(limit'.jobs))
  BY <1>1, <1>2, <1>3, <1>4, <1>5 DEF BatchShape
<1>7. BatchSettles(b) /\ BatchRound(b)
  BY DEF BatchInv, b
<1>8. BatchSettles(batch')
  BY <1>3, <1>4, <1>7 DEF BatchSettles, Settled
<1>9. BatchRound(batch')
  <2>1. Settled(batch') = Settled(b) /\ i \notin Settled(b)
    BY <1>1, <1>2, <1>3, <1>4, <1>7 DEF BatchRound, Settled
  <2>2. QED
    BY <1>1, <1>3, <1>4, <1>7, <2>1 DEF BatchRound
<1>10. QED
  BY <1>6, <1>8, <1>9 DEF BatchInv

\* A creation that fails settles its job and every active one.
LEMMA BatchCreateFails == ASSUME BatchInv, limit' = limit, CreateFails PROVE BatchInv'
<1> DEFINE i == batch.next
<1>1. batch.pc = "fill" /\ GivesUp(Append(batch.failures, Failure(i, FALSE)), None)
  BY DEF CreateFails
<1>2. i \in Nat /\ i \notin Before(i)
  BY DEF BatchInv, BatchShape, BatchType, Before
<1>3. i \notin Settled(batch)
  BY <1>1, <1>2 DEF BatchInv, BatchShape, BatchRound, Settled
<1> HIDE DEF i
<1>4. QED
  BY <1>1, <1>2, <1>3, GivingUpSettles

\* So does a request that fails.
LEMMA BatchAskFails == ASSUME BatchInv, limit' = limit, AskFails PROVE BatchInv'
<1> DEFINE i == Head(batch.todo)
<1>1. batch.pc = "poll" /\ GivesUp(Append(batch.failures, Failure(i, TRUE)), i) /\ batch.todo # <<>>
  BY DEF AskFails
<1>2. i \in Nat /\ i \in Asking(batch)
  <2>1. batch.todo \in Seq(Nat)
    BY DEF BatchInv, BatchShape, BatchType
  <2>2. 1 \in DOMAIN batch.todo /\ i = batch.todo[1]
    BY <1>1, <2>1
  <2>3. QED
    BY <2>1, <2>2 DEF Asking
<1>3. i \notin Settled(batch)
  BY <1>1, <1>2 DEF BatchInv, BatchRound
<1> HIDE DEF i
<1>4. QED
  BY <1>1, <1>2, <1>3, GivingUpSettles

\* A round begins with every active run, or the batch ends.
LEMMA BatchRounds == ASSUME BatchInv, limit' = limit, Round PROVE BatchInv'
<1> DEFINE b == batch
<1>1. /\ batch' = IF b.active = {} THEN AfterRuns(b)
                  ELSE [b EXCEPT !.pc = "poll", !.todo = Sorted(b.active), !.completed = {}]
      /\ b.pc = "fill"
  BY DEF Round
<1>2. b \in BatchType(b) /\ BatchShape(b, Len(limit.jobs)) /\ BatchSettles(b) /\ BatchRound(b)
  BY DEF BatchInv, BatchShape
<1> HIDE DEF b
<1>3. CASE b.active = {}
  <2>1. PICK pc \in {"sum", "end"} : batch' = [b EXCEPT !.pc = pc, !.todo = <<>>, !.completed = {}]
    BY <1>1, <1>3 DEF AfterRuns
  <2>2. <<>> \in Seq(Nat)
    OBVIOUS
  <2>3. /\ batch' \in BatchType(batch') /\ batch'.pc = pc /\ batch'.next = b.next /\ batch'.active = b.active
        /\ batch'.results = b.results /\ batch'.failures = b.failures
    BY <1>2, <2>1, <2>2 DEF BatchType
  <2>4. BatchShape(batch', Len(limit'.jobs)) /\ BatchSettles(batch')
    BY <1>2, <2>3 DEF BatchShape, BatchSettles, Settled
  <2>5. BatchRound(batch')
    BY <1>2, <1>3, <2>3 DEF BatchSettles, BatchRound, Settled
  <2>6. QED
    BY <2>4, <2>5 DEF BatchInv
<1>4. CASE b.active # {}
  <2> DEFINE s == Sorted(b.active)
  <2>1. b.active \subseteq Before(b.next) /\ b.next \in Nat /\ b.active \subseteq Nat
    BY <1>2 DEF BatchShape, BatchType
  <2>2. IsFiniteSet(b.active) /\ b.active \subseteq Int
    BY <2>1, BeforeFinite
  <2>3. s \in Seq(b.active) /\ \A i, j \in DOMAIN s : s[i] = s[j] => i = j
    BY <2>2, SortedSeq
  <2> HIDE DEF s
  <2>4. s \in Seq(Nat) /\ \A i \in DOMAIN s : s[i] \in b.active
    BY <2>1, <2>3
  <2>5. batch' = [b EXCEPT !.pc = "poll", !.todo = s, !.completed = {}]
    BY <1>1, <1>4 DEF s
  <2>6. /\ batch' \in BatchType(batch') /\ batch'.pc = "poll" /\ batch'.next = b.next /\ batch'.active = b.active
        /\ batch'.results = b.results /\ batch'.failures = b.failures /\ batch'.todo = s /\ batch'.completed = {}
    BY <1>2, <2>4, <2>5 DEF BatchType
  <2>7. BatchShape(batch', Len(limit'.jobs)) /\ BatchSettles(batch')
    BY <1>2, <2>6 DEF BatchShape, BatchSettles, Settled
  <2>8. BatchRound(batch')
    BY <1>1, <1>2, <2>3, <2>4, <2>6 DEF BatchRound, Settled, Asking
  <2>9. QED
    BY <2>7, <2>8 DEF BatchInv
<1>5. QED
  BY <1>3, <1>4

\* What is left to ask for, without its head.
LEMMA TodoTail ==
  ASSUME NEW s \in Seq(Nat), s # <<>>, \A i, j \in DOMAIN s : s[i] = s[j] => i = j
  PROVE  LET rest == Tail(s)
         IN /\ rest \in Seq(Nat) /\ Head(s) \in Nat
            /\ \A i, j \in DOMAIN rest : rest[i] = rest[j] => i = j
            /\ {rest[k] : k \in DOMAIN rest} \subseteq {s[k] : k \in DOMAIN s} \ {Head(s)}
            /\ Head(s) \in {s[k] : k \in DOMAIN s}
<1> DEFINE rest == Tail(s)
           n == Len(s)
<1>1. /\ n \in Nat \ {0} /\ DOMAIN s = 1 .. n /\ Head(s) = s[1] /\ Head(s) \in Nat
      /\ rest \in Seq(Nat) /\ DOMAIN rest = 1 .. n - 1
      /\ \A k \in 1 .. n - 1 : rest[k] = s[k + 1] /\ k + 1 \in 1 .. n /\ k + 1 # 1
  BY HeadTailProperties, LenProperties, EmptySeq
<1> HIDE DEF rest, n
<1>2. ASSUME NEW i \in 1 .. n - 1, NEW j \in 1 .. n - 1, rest[i] = rest[j] PROVE i = j
  <2>1. i + 1 \in DOMAIN s /\ j + 1 \in DOMAIN s /\ s[i + 1] = s[j + 1]
    BY <1>1, <1>2
  <2>2. i + 1 = j + 1
    BY <2>1
  <2>3. QED
    BY <1>1, <2>2
<1>3. ASSUME NEW x \in {rest[k] : k \in DOMAIN rest} PROVE x \in {s[k] : k \in DOMAIN s} \ {Head(s)}
  <2>1. PICK k \in 1 .. n - 1 : x = rest[k]
    BY <1>1, <1>3
  <2>2. k + 1 \in DOMAIN s /\ x = s[k + 1] /\ k + 1 # 1 /\ 1 \in DOMAIN s
    <3>1. x = s[k + 1] /\ k + 1 \in 1 .. n /\ k + 1 # 1
      BY <1>1, <2>1
    <3>2. 1 \in 1 .. n
      BY <1>1
    <3>3. QED
      BY <1>1, <3>1, <3>2
  <2>3. s[k + 1] # s[1]
    BY <2>2
  <2>4. QED
    BY <1>1, <2>2, <2>3
<1>4. 1 \in 1 .. n
  BY <1>1
<1>5. Head(s) \in {s[k] : k \in DOMAIN s}
  BY <1>1, <1>4
<1>6. {rest[k] : k \in DOMAIN rest} \subseteq {s[k] : k \in DOMAIN s} \ {Head(s)}
  BY <1>3
<1>7. QED
  BY <1>1, <1>2, <1>5, <1>6 DEF rest

\* A run that is asked for is settled if it has ended.
LEMMA BatchAsks == ASSUME BatchInv, limit' = limit, Ask PROVE BatchInv'
<1> DEFINE b == batch
           i == Head(b.todo)
           asked == [b EXCEPT !.todo = Tail(@)]
<1>1. /\ b.pc = "poll" /\ b.todo # <<>>
      /\ \/ batch' = [asked EXCEPT !.failures = Append(@, Failure(i, TRUE)), !.completed = @ \cup {i}]
         \/ batch' = [asked EXCEPT !.results = @ \cup {i}, !.completed = @ \cup {i}]
         \/ batch' = asked
  <2>1. batch' = CASE phase[i] \in {"stopping", "stopped"} ->
                        [asked EXCEPT !.failures = Append(@, Failure(i, TRUE)), !.completed = @ \cup {i}]
                   [] phase[i] \in {"over", "marked", "summed", "loading", "done"} ->
                        [asked EXCEPT !.results = @ \cup {i}, !.completed = @ \cup {i}]
                   [] OTHER -> asked
    BY DEF Ask
  <2> HIDE DEF asked
  <2>2. QED
    BY <2>1 DEF Ask
<1>2. b \in BatchType(b) /\ BatchShape(b, Len(limit.jobs)) /\ BatchSettles(b) /\ BatchRound(b)
  BY DEF BatchInv, BatchShape
<1> HIDE DEF b
<1>3. /\ b.todo \in Seq(Nat) /\ \A j, k \in DOMAIN b.todo : b.todo[j] = b.todo[k] => j = k
      /\ Asking(b) \subseteq b.active \ b.completed
  BY <1>1, <1>2 DEF BatchType, BatchRound
<1> DEFINE rest == Tail(b.todo)
<1>4. /\ rest \in Seq(Nat) /\ i \in Nat
      /\ \A j, k \in DOMAIN rest : rest[j] = rest[k] => j = k
      /\ {rest[k] : k \in DOMAIN rest} \subseteq Asking(b) \ {i} /\ i \in Asking(b)
  BY <1>1, <1>3, TodoTail DEF Asking
<1> HIDE DEF rest, i
<1>5. i \in b.active /\ i \notin b.completed /\ i \notin Settled(b) /\ i \in Before(b.next)
  BY <1>1, <1>2, <1>3, <1>4 DEF BatchRound, BatchShape
<1>6. asked \in BatchType(b) /\ asked = [b EXCEPT !.todo = rest]
  BY <1>2, <1>4 DEF BatchType, rest
<1>7. CASE batch' = asked
  <2>1. /\ batch' \in BatchType(batch') /\ batch'.pc = "poll" /\ batch'.next = b.next /\ batch'.active = b.active
        /\ batch'.results = b.results /\ batch'.failures = b.failures /\ batch'.todo = rest
        /\ batch'.completed = b.completed
    BY <1>1, <1>2, <1>6, <1>7 DEF BatchType
  <2>2. BatchShape(batch', Len(limit'.jobs)) /\ BatchSettles(batch')
    BY <1>2, <2>1 DEF BatchShape, BatchSettles, Settled
  <2>3. BatchRound(batch')
    BY <1>1, <1>2, <1>3, <1>4, <2>1 DEF BatchRound, Settled, Asking
  <2>4. QED
    BY <2>2, <2>3 DEF BatchInv
<1>8. CASE batch' = [asked EXCEPT !.results = @ \cup {i}, !.completed = @ \cup {i}]
  <2>1. /\ batch' \in BatchType(batch') /\ batch'.pc = "poll" /\ batch'.next = b.next /\ batch'.active = b.active
        /\ batch'.results = b.results \cup {i} /\ batch'.failures = b.failures /\ batch'.todo = rest
        /\ batch'.completed = b.completed \cup {i}
    BY <1>1, <1>2, <1>4, <1>6, <1>8 DEF BatchType
  <2>2. Settled(batch') = Settled(b) \cup {i}
    BY <2>1 DEF Settled
  <2>3. BatchShape(batch', Len(limit'.jobs))
    BY <1>2, <1>5, <2>1 DEF BatchShape
  <2>4. BatchSettles(batch')
    BY <1>2, <1>5, <2>1, <2>2 DEF BatchSettles, Settled
  <2>5. BatchRound(batch')
    <3>1. b.active \cap Settled(b) = b.completed /\ FailedJobs(b.failures) \subseteq Before(b.next)
      BY <1>1, <1>2 DEF BatchRound
    <3>2. batch'.active \cap Settled(batch') = batch'.completed
      BY <1>5, <2>1, <2>2, <3>1
    <3>3. Asking(batch') \subseteq batch'.active \ batch'.completed
      BY <1>3, <1>4, <2>1 DEF Asking
    <3>4. QED
      BY <1>4, <2>1, <3>1, <3>2, <3>3 DEF BatchRound
  <2>6. QED
    BY <2>3, <2>4, <2>5 DEF BatchInv
<1>9. CASE batch' = [asked EXCEPT !.failures = Append(@, Failure(i, TRUE)), !.completed = @ \cup {i}]
  <2> DEFINE more == Append(b.failures, Failure(i, TRUE))
  <2>1. b.failures \in Seq(FailureType) /\ OnceEach(b.failures) /\ i \notin FailedJobs(b.failures)
    BY <1>2, <1>5 DEF BatchType, BatchSettles, Settled
  <2>2. more \in Seq(FailureType) /\ OnceEach(more) /\ FailedJobs(more) = FailedJobs(b.failures) \cup {i}
    BY <1>4, <2>1, FailedOneMore
  <2>3. /\ batch' \in BatchType(batch') /\ batch'.pc = "poll" /\ batch'.next = b.next /\ batch'.active = b.active
        /\ batch'.results = b.results /\ batch'.failures = more /\ batch'.todo = rest
        /\ batch'.completed = b.completed \cup {i}
    <3>1. asked.failures = b.failures
      BY <1>2, <1>6 DEF BatchType
    <3>2. batch' = [asked EXCEPT !.failures = more, !.completed = @ \cup {i}]
      BY <1>9, <3>1
    <3> HIDE DEF asked, more
    <3>3. QED
      BY <1>1, <1>2, <1>4, <1>6, <2>2, <3>2 DEF BatchType
  <2> HIDE DEF more
  <2>4. Settled(batch') = Settled(b) \cup {i}
    BY <2>2, <2>3 DEF Settled
  <2>5. BatchShape(batch', Len(limit'.jobs))
    BY <1>2, <2>3 DEF BatchShape
  <2>6. BatchSettles(batch')
    BY <1>2, <1>5, <2>2, <2>3, <2>4 DEF BatchSettles, Settled
  <2>7. BatchRound(batch')
    <3>1. b.active \cap Settled(b) = b.completed /\ FailedJobs(b.failures) \subseteq Before(b.next)
      BY <1>1, <1>2 DEF BatchRound
    <3>2. batch'.active \cap Settled(batch') = batch'.completed
      BY <1>5, <2>3, <2>4, <3>1
    <3>3. Asking(batch') \subseteq batch'.active \ batch'.completed
      BY <1>3, <1>4, <2>3 DEF Asking
    <3>4. FailedJobs(batch'.failures) \subseteq Before(batch'.next)
      BY <1>5, <2>2, <2>3, <3>1
    <3>5. QED
      BY <1>4, <2>3, <3>2, <3>3, <3>4 DEF BatchRound
  <2>8. QED
    BY <2>5, <2>6, <2>7 DEF BatchInv
<1>10. QED
  BY <1>1, <1>7, <1>8, <1>9

\* What has ended in a round is no longer active.
LEMMA BatchAsked == ASSUME BatchInv, limit' = limit, Asked PROVE BatchInv'
<1> DEFINE b == batch
<1>1. /\ b.pc = "poll" /\ batch' = [b EXCEPT !.pc = "fill", !.active = b.active \ b.completed, !.completed = {}]
  BY DEF Asked
<1>2. b \in BatchType(b) /\ BatchShape(b, Len(limit.jobs)) /\ BatchSettles(b) /\ BatchRound(b)
  BY DEF BatchInv, BatchShape
<1> HIDE DEF b
<1>3. /\ b.active \in SUBSET Nat /\ b.next \in Nat
      /\ b.active \subseteq Before(b.next)
      /\ b.active \cap Settled(b) = b.completed
  BY <1>1, <1>2 DEF BatchShape, BatchType, BatchRound
<1>4. /\ batch' \in BatchType(batch') /\ batch'.pc = "fill" /\ batch'.next = b.next
      /\ batch'.active = b.active \ b.completed /\ batch'.completed = {}
      /\ batch'.results = b.results /\ batch'.failures = b.failures
  <2>1. b.active \ b.completed \in SUBSET Nat
    BY <1>3
  <2>2. QED
    BY <1>1, <1>2, <2>1 DEF BatchType
<1>5. Settled(batch') = Settled(b)
  BY <1>4 DEF Settled
<1>6. Cardinality(batch'.active) <= MaxParallel
  <2>1. IsFiniteSet(b.active)
    BY <1>3, BeforeFinite
  <2>2. Cardinality(b.active \ b.completed) <= Cardinality(b.active)
    BY <2>1, FS_Subset
  <2>3. IsFiniteSet(b.active \ b.completed)
    BY <2>1, FS_Subset
  <2>4. Cardinality(b.active \ b.completed) \in Nat /\ Cardinality(b.active) \in Nat
    BY <2>1, <2>3, FS_CardinalityType
  <2>5. Cardinality(b.active) <= MaxParallel
    BY <1>2 DEF BatchShape
  <2>6. QED
    BY <1>4, <2>2, <2>4, <2>5, EvaluationAssumption
<1>7. BatchShape(batch', Len(limit'.jobs))
  BY <1>2, <1>3, <1>4, <1>6 DEF BatchShape
<1>8. BatchSettles(batch')
  BY <1>2, <1>3, <1>4, <1>5 DEF BatchSettles
<1>9. BatchRound(batch')
  BY <1>1, <1>2, <1>3, <1>4, <1>5 DEF BatchRound
<1>10. QED
  BY <1>7, <1>8, <1>9 DEF BatchInv

\* Writing the summary of the batch changes no account.
LEMMA BatchSums ==
  ASSUME BatchInv, limit' = limit, batch.pc \in {"sum", "upsert"},
         NEW pc \in {"upsert", "end"}, NEW todo \in Seq(Nat), NEW read,
         batch' = [batch EXCEPT !.pc = pc, !.read = read, !.todo = todo]
  PROVE  BatchInv'
<1> DEFINE b == batch
<1>1. b \in BatchType(b) /\ BatchShape(b, Len(limit.jobs)) /\ BatchSettles(b) /\ BatchRound(b)
  BY DEF BatchInv, BatchShape
<1>2. batch' = [b EXCEPT !.pc = pc, !.read = read, !.todo = todo] /\ b.pc \in {"sum", "upsert"}
  OBVIOUS
<1> HIDE DEF b
<1>3. /\ batch' \in BatchType(batch') /\ batch'.pc = pc /\ batch'.next = b.next
      /\ batch'.active = b.active /\ batch'.completed = b.completed
      /\ batch'.results = b.results /\ batch'.failures = b.failures
  BY <1>1, <1>2 DEF BatchType
<1>4. Settled(batch') = Settled(b)
  BY <1>3 DEF Settled
<1>5. BatchShape(batch', Len(limit'.jobs)) /\ BatchSettles(batch') /\ BatchRound(batch')
  BY <1>1, <1>2, <1>3, <1>4 DEF BatchShape, BatchSettles, BatchRound
<1>6. QED
  BY <1>5 DEF BatchInv

\* Reading the summaries keeps what the batch has settled.
LEMMA BatchReads == ASSUME BatchInv, limit' = limit, ReadSummaries PROVE BatchInv'
<1> DEFINE some == {r \in batch.results : summary[r] # Nothing}
           todo == Sorted(some)
           read == [r \in batch.results |-> summary[r]]
<1>1. /\ batch.pc = "sum"
      /\ batch' = [batch EXCEPT !.pc = "upsert", !.read = read, !.todo = todo]
  BY DEF ReadSummaries
<1>2. batch.results \subseteq Before(batch.next) /\ batch.next \in Nat /\ batch.results \subseteq Nat
  BY DEF BatchInv, BatchShape, BatchType
<1>3. some \subseteq Before(batch.next) /\ some \subseteq Nat
  BY <1>2
<1> HIDE DEF some
<1>4. IsFiniteSet(some) /\ some \subseteq Int
  BY <1>2, <1>3, BeforeFinite
<1>5. todo \in Seq(some)
  BY <1>4, SortedSeq
<1> HIDE DEF todo, read
<1>6. todo \in Seq(Nat)
  <2>1. DOMAIN todo = 1 .. Len(todo) /\ Len(todo) \in Nat /\ \A i \in 1 .. Len(todo) : todo[i] \in some
    BY <1>5, LenProperties, ElementOfSeq
  <2>2. todo \in [1 .. Len(todo) -> Nat]
    BY <1>3, <1>5, <2>1, LenProperties
  <2>3. QED
    BY <2>1, <2>2, FunctionSeq
<1>7. QED
  BY <1>1, <1>6, BatchSums

\* Writing the rows of the batch keeps what it has settled.
LEMMA BatchWrites == ASSUME BatchInv, BatchHolds, limit' = limit, BatchWrite \/ BatchEnds PROVE BatchInv'
<1>1. batch \in BatchType(batch) /\ batch.todo \in Seq(Nat)
  BY DEF BatchInv, BatchShape, BatchType
<1>2. CASE BatchWrite /\ batch.todo # <<>>
  <2>1. batch.pc = "upsert" /\ batch' = [batch EXCEPT !.todo = Tail(batch.todo)]
    BY <1>2 DEF BatchWrite
  <2>2. Tail(batch.todo) \in Seq(Nat)
    BY <1>1, <1>2, HeadTailProperties
  <2>3. batch' = [batch EXCEPT !.pc = "upsert", !.read = batch.read, !.todo = Tail(batch.todo)]
    BY <1>1, <2>1 DEF BatchType
  <2>4. QED
    BY <2>1, <2>2, <2>3, BatchSums
<1>3. CASE BatchEnds
  <2>1. batch.pc = "upsert" /\ batch' = [batch EXCEPT !.pc = "end"]
    BY <1>3 DEF BatchEnds
  <2>2. batch' = [batch EXCEPT !.pc = "end", !.read = batch.read, !.todo = batch.todo]
    BY <1>1, <2>1 DEF BatchType
  <2>3. QED
    BY <1>1, <2>1, <2>2, BatchSums
<1>4. BatchWrite => batch.todo # <<>>
  BY DEF BatchWrite, BatchHolds
<1>5. QED
  BY <1>2, <1>3, <1>4

\* Jobs are numbered from one.
LEMMA JobNumbers ==
  ASSUME limit \in Limits
  PROVE  /\ AllJobs \subseteq Nat \ {0} /\ Jobs \subseteq AllJobs
         /\ limit.jobs \in Seq({"react", "random", "report", "other"}) /\ Len(limit.jobs) \in Nat
<1>1. \A l \in Limits : l.jobs \in Seq({"react", "random", "report", "other"})
  BY EvaluationAssumption
<1>2. \A l \in Limits : DOMAIN l.jobs = 1 .. Len(l.jobs) /\ Len(l.jobs) \in Nat
  BY <1>1, LenProperties
<1>3. \A l \in Limits : DOMAIN l.jobs \subseteq Nat \ {0}
  BY <1>2
<1>4. QED
  BY <1>1, <1>2, <1>3 DEF AllJobs, Jobs

\* The batch keeps a copy of the history only while it has rows to write.
LEMMA BatchHoldsStep == ASSUME BatchInv, BatchHolds, limit \in Limits, limit' = limit, Next PROVE BatchHolds'
<1>1. Batch \notin AllJobs /\ Batch # Rebuild /\ Jobs \subseteq AllJobs
  BY JobNumbers DEF Batch, Rebuild
<1>2. CASE BatchLoad
  <2>1. batch.pc = "upsert" /\ batch.todo # <<>> /\ batch' = batch
    BY <1>2 DEF BatchLoad
  <2>2. QED
    BY <2>1 DEF BatchHolds
<1>3. CASE BatchWrite
  <2>1. held' = [x \in DOMAIN held \ {Batch} |-> held[x]]
    BY <1>3 DEF BatchWrite, Writes
  <2>2. Batch \notin DOMAIN held'
    BY <2>1
  <2>3. QED
    BY <2>2 DEF BatchHolds
<1>4. CASE ~BatchLoad /\ ~BatchWrite
  <2>1. Batch \in DOMAIN held' => Batch \in DOMAIN held
    <3>1. CASE UNCHANGED history
      BY <3>1 DEF history
    <3>2. ASSUME NEW r \in Jobs, Summarize(r) \/ LoadHistory(r) \/ WriteHistory(r)
          PROVE  Batch \in DOMAIN held' => Batch \in DOMAIN held
      BY <1>1, <3>2 DEF Summarize, LoadHistory, WriteHistory, Reads, Writes, With
    <3>3. CASE Crash \/ RebuildScan \/ RebuildWrite
      BY <1>1, <3>3 DEF Crash, RebuildScan, RebuildWrite, Writes, With
    <3>4. QED
      BY <1>4, <3>1, <3>2, <3>3, HistoryFrame
  <2>2. CASE UNCHANGED batch
    BY <2>1, <2>2 DEF BatchHolds
  <2>3. CASE RunModels
    <3>1. CASE batch.pc = "upsert" /\ batch.todo # <<>>
      <4>1. ~CreateRun /\ ~CreateFails /\ ~Round /\ ~Ask /\ ~AskFails /\ ~Asked /\ ~ReadSummaries /\ ~BatchEnds
        BY <3>1 DEF CreateRun, CreateFails, Round, Ask, AskFails, Asked, ReadSummaries, BatchEnds
      <4>2. QED
        BY <1>4, <2>3, <4>1 DEF RunModels
    <3>2. QED
      BY <2>1, <3>1 DEF BatchHolds
  <2>4. QED
    BY <2>2, <2>3, BatchFrame
<1>5. QED
  BY <1>2, <1>3, <1>4

\* The batch accounts for every run it started, once: as active, as a result or
\* as a failure (scripts/run_batch.py, run_models and _collect_orphaned_runs).
LEMMA BatchInit == Init => limit \in Limits /\ BatchInv /\ BatchHolds
<1> SUFFICES ASSUME Init PROVE limit \in Limits /\ BatchInv /\ BatchHolds
  OBVIOUS
<1>1. /\ limit \in Limits /\ held = <<>>
      /\ batch = [pc |-> "fill", next |-> 1, active |-> {}, todo |-> <<>>, completed |-> {}, results |-> {},
                  failures |-> <<>>, read |-> <<>>]
  BY DEF Init
<1>2. Len(limit.jobs) \in Nat /\ Cardinality({}) = 0 /\ MaxParallel \in Nat
  BY <1>1, JobNumbers, FS_EmptySet, EvaluationAssumption
<1>3. <<>> \in Seq(Nat) /\ <<>> \in Seq(FailureType)
  BY EmptySeq
<1>4. BatchShape(batch, Len(limit.jobs))
  BY <1>1, <1>2, <1>3 DEF BatchShape, BatchType
<1>5. FailedJobs(<<>>) = {} /\ Before(1) = {}
  BY DEF FailedJobs, Before
<1>6. BatchSettles(batch) /\ BatchRound(batch)
  BY <1>1, <1>5 DEF BatchSettles, BatchRound, OnceEach, Settled
<1>7. DOMAIN held = {}
  BY <1>1
<1>8. QED
  BY <1>1, <1>4, <1>6, <1>7 DEF BatchInv, BatchHolds

\* Every step keeps the invariant of the batch.
LEMMA BatchStep ==
  limit \in Limits /\ BatchInv /\ BatchHolds /\ [Next]_vars => (limit \in Limits /\ BatchInv /\ BatchHolds)'
<1> SUFFICES ASSUME limit \in Limits, BatchInv, BatchHolds, [Next]_vars
             PROVE  (limit \in Limits /\ BatchInv /\ BatchHolds)'
  OBVIOUS
<1>1. CASE UNCHANGED vars
  <2>1. UNCHANGED <<limit, batch, held>>
    BY <1>1 DEF vars, history, bounds
  <2>2. QED
    BY <2>1 DEF BatchInv, BatchHolds
<1>2. CASE Next
  <2>1. limit' = limit
    BY <1>2, LimitFixed
  <2>2. BatchHolds'
    BY <1>2, <2>1, BatchHoldsStep
  <2>3. CASE UNCHANGED batch
    <3>1. BatchShape(batch', Len(limit'.jobs)) /\ BatchSettles(batch') /\ BatchRound(batch')
      BY <2>1, <2>3 DEF BatchInv
    <3>2. BatchInv'
      BY <3>1 DEF BatchInv
    <3>3. QED
      BY <2>1, <2>2, <3>2
  <2>4. CASE RunModels /\ ~BatchLoad
    <3>1. BatchInv'
      BY <2>1, <2>4, BatchCreates, BatchCreateFails, BatchRounds, BatchAsks, BatchAskFails, BatchAsked, BatchReads,
         BatchWrites DEF RunModels
    <3>2. QED
      BY <2>1, <2>2, <3>1
  <2>5. QED
    BY <1>2, <2>3, <2>4, BatchFrame
<1>3. QED
  BY <1>1, <1>2

\* The invariant of the batch says that every run is accounted for once.
LEMMA BatchCounted == ASSUME limit \in Limits, BatchInv PROVE BatchAccounts
<1> DEFINE b == batch
           failed == FailedJobs(b.failures)
<1>1. b \in BatchType(b) /\ BatchShape(b, Len(limit.jobs)) /\ BatchSettles(b) /\ BatchRound(b)
  BY DEF BatchInv, BatchShape
<1>2. b.next \in Nat /\ {i \in Jobs : i < b.next} \subseteq Before(b.next)
  <2>1. b.next \in Nat
    BY <1>1 DEF BatchType
  <2>2. QED
    BY <2>1, JobNumbers DEF Before
<1>3. Cardinality(failed) = Len(b.failures)
  <2> DEFINE n == Len(b.failures)
             f == [k \in 1 .. n |-> b.failures[k].index]
  <2>1. n \in Nat /\ DOMAIN b.failures = 1 .. n
    BY <1>1, LenProperties DEF BatchType
  <2>2. IsFiniteSet(1 .. n) /\ Cardinality(1 .. n) = n
    BY <2>1, FS_Interval
  <2>3. f \in [1 .. n -> failed]
    BY <2>1 DEF FailedJobs
  <2>4. f \in Surjection(1 .. n, failed)
    BY <2>1, <2>3 DEF FailedJobs, Surjection
  <2>5. \A i, j \in 1 .. n : f[i] = f[j] => i = j
    BY <1>1, <2>1 DEF BatchSettles, OnceEach
  <2>6. f \in Injection(1 .. n, failed)
    BY <2>3, <2>5 DEF Injection, IsInjective
  <2> HIDE DEF f, n
  <2>7. Cardinality(failed) = Cardinality(1 .. n)
    BY <2>2, <2>4, <2>6, FS_Surjection
  <2>8. QED
    BY <2>2, <2>7 DEF n
<1>4. /\ b.results \cap failed = {}
      /\ {i \in Jobs : i < b.next} \subseteq b.results \cup failed \cup b.active
      /\ b.pc \in {"sum", "upsert", "end"} => {i \in Jobs : i < b.next} \subseteq b.results \cup failed
      /\ b.pc \in {"fill", "poll"} => b.active \cap (b.results \cup failed) \subseteq b.completed
      /\ Cardinality(b.active) <= MaxParallel
  BY <1>1, <1>2 DEF BatchSettles, BatchRound, BatchShape, Settled
<1>5. QED
  BY <1>3, <1>4 DEF BatchAccounts

\* Every job the batch began is active, a result or a failure, and never two of
\* them for long; a batch that gives up or ends leaves none of them out.
THEOREM TheBatchAccounts == Spec => []BatchAccounts
<1>1. limit \in Limits /\ BatchInv /\ BatchHolds => BatchAccounts
  BY BatchCounted
<1>2. QED
  BY <1>1, BatchInit, BatchStep, PTL DEF Spec

-----------------------------------------------------------------------------
(* The processes of the agents.                                            *)

MessageType == [role : {"observation", "note", "says", "calls", "result", "redacted"}, step : Int]

ReactType ==
  [kind : {"react"}, run : AllJobs, pc : {"observe", "think", "act", "force", "gone"}, step : Int,
   history : Seq(MessageType), before : Nat, pending : BOOLEAN, note : BOOLEAN, prompt : Nat, hops : Nat,
   retries : Nat, forbidden : BOOLEAN, failed : Nat, spent : Nat, said : {"calls", "says", "nothing"},
   ends : BOOLEAN, last : BOOLEAN, cut : BOOLEAN, back : SUBSET Int, odd : BOOLEAN]

RuleType ==
  [kind : {"rule"}, run : AllJobs,
   pc : {"observe", "balance", "shelf", "clear", "risks", "drop", "price", "review", "unsold", "search", "list",
         "end", "gone"},
   step : Int, mode : {"random", "report"}, shelf : SUBSET Products, seen : SUBSET Products,
   listed : SUBSET Products, picks : SUBSET Products, poor : BOOLEAN, day : Int]

AgentType == {Nothing} \cup ReactType \cup RuleType

\* An agent is of one of the two kinds, and neither is nothing.
LEMMA AgentKinds ==
  /\ \A a \in ReactType : a # Nothing /\ a.kind = "react"
  /\ \A a \in RuleType : a # Nothing /\ a.kind = "rule"
  /\ \A a \in AgentType : a # Nothing /\ a.kind = "react" => a \in ReactType
  /\ \A a \in AgentType : a # Nothing /\ a.kind = "rule" => a \in RuleType
<1>1. \A a \in ReactType : "kind" \in DOMAIN a /\ a.kind = "react"
  BY DEF ReactType
<1>2. \A a \in RuleType : "kind" \in DOMAIN a /\ a.kind = "rule"
  BY DEF RuleType
<1>3. DOMAIN Nothing = {}
  BY DEF Nothing
<1>4. \A a : "kind" \in DOMAIN a => a # Nothing
  BY <1>3
<1>5. QED
  BY <1>1, <1>2, <1>4 DEF AgentType

\* The newest messages of a conversation.
LEMMA TrimmedTyped ==
  ASSUME NEW h \in Seq(MessageType)
  PROVE  Trimmed(h) \in Seq(MessageType)
<1> DEFINE first == Max({1, Len(h) - Keep + 1})
           kept == SubSeq(h, first, Len(h))
           heads == {i \in DOMAIN kept : ~OfTool(kept[i])}
<1>1. Len(h) \in Nat /\ Keep \in Nat
  BY LenProperties, BaselinesAssumption
<1>2. first \in Nat \ {0}
  <2>1. Len(h) - Keep + 1 \in Int
    BY <1>1
  <2>2. QED
    BY <2>1, MaxOfTwo
<1> HIDE DEF first
<1>3. kept \in Seq(MessageType)
  BY <1>1, <1>2, SubSeqProperties
<1> HIDE DEF kept
<1>4. CASE heads # {}
  <2>1. heads \subseteq 1 .. Len(kept) /\ Len(kept) \in Nat
    BY <1>3, LenProperties
  <2>2. IsFiniteSet(1 .. Len(kept))
    BY <2>1, FS_Interval
  <2> HIDE DEF heads
  <2>3. IsFiniteSet(heads)
    BY <2>1, <2>2, FS_Subset, Zenon
  <2>4. heads \subseteq Int
    BY <2>1
  <2>5. Min(heads) \in heads
    BY <1>4, <2>3, <2>4, LeastGreatest
  <2>6. Min(heads) \in 1 .. Len(kept)
    BY <2>1, <2>5
  <2>7. SubSeq(kept, Min(heads), Len(kept)) \in Seq(MessageType)
    BY <1>3, <2>1, <2>6, SubSeqProperties
  <2>8. QED
    BY <1>4, <2>7 DEF Trimmed, kept, heads, first
<1>5. CASE heads = {}
  BY <1>5, EmptySeq DEF Trimmed, kept, heads, first
<1>6. QED
  BY <1>4, <1>5

\* b is the same process of the same run as a, with the same health to report.
SameHealth(a, b) == b.run = a.run /\ b.failed = a.failed /\ b.spent = a.spent

\* Every kind of message is a message.
LEMMA MessageTyped ==
  ASSUME NEW step \in Int
  PROVE  /\ Observation(step) \in MessageType /\ Note(step) \in MessageType /\ Says(step) \in MessageType
         /\ Calls(step) \in MessageType /\ Result(step) \in MessageType /\ Redacted(step) \in MessageType
BY DEF Observation, Note, Says, Calls, Result, Redacted, Message, MessageType

\* A reminder and a hop keep the type of the agent and its health.
LEMMA HopTyped ==
  ASSUME NEW a \in ReactType, NEW memory \in BOOLEAN
  PROVE  /\ Reminded(a, memory) \in ReactType /\ SameHealth(a, Reminded(a, memory))
         /\ Hop(a, memory) \in ReactType /\ SameHealth(a, Hop(a, memory))
<1> DEFINE b == Reminded(a, memory)
           h == IF memory THEN a.history ELSE Trimmed(a.history)
           new == Append(h, Note(a.step))
<1>1. new \in Seq(MessageType)
  <2>1. h \in Seq(MessageType) /\ Note(a.step) \in MessageType
    BY TrimmedTyped, MessageTyped DEF ReactType
  <2> HIDE DEF h
  <2>2. QED
    BY <2>1, AppendProperties
<1>2. b = a \/ b = [a EXCEPT !.history = new, !.note = TRUE, !.pending = TRUE, !.cut = a.cut \/ ~memory]
  BY DEF Reminded
<1> HIDE DEF b, new
<1>3. b \in ReactType /\ SameHealth(a, b)
  <2>1. (a.cut \/ ~memory) \in BOOLEAN
    OBVIOUS
  <2>2. QED
    BY <1>1, <1>2, <2>1 DEF ReactType, SameHealth
<1>4. Hop(a, memory) = [b EXCEPT !.pc = "think", !.retries = 0, !.forbidden = FALSE]
  BY DEF Hop, b
<1> DEFINE c == [b EXCEPT !.pc = "think", !.retries = 0, !.forbidden = FALSE]
<1>5. c \in ReactType /\ SameHealth(b, c)
  BY <1>3 DEF ReactType, SameHealth
<1> HIDE DEF c
<1>6. Hop(a, memory) = c
  BY <1>4 DEF c
<1>7. QED
  BY <1>3, <1>5, <1>6 DEF b, SameHealth

\* So does an observation,
LEMMA ObservedTyped ==
  ASSUME NEW a \in ReactType, NEW memory \in BOOLEAN, NEW step \in Int
  PROVE  Observed(a, step, memory) \in ReactType /\ SameHealth(a, Observed(a, step, memory))
<1> DEFINE new == Append(a.history, Observation(step))
           b == [a EXCEPT !.step = step, !.before = Len(a.history), !.history = new, !.hops = 0, !.cut = FALSE]
<1>1. a.history \in Seq(MessageType) /\ Observation(step) \in MessageType
  BY MessageTyped DEF ReactType
<1>2. new \in Seq(MessageType) /\ Len(a.history) \in Nat
  BY <1>1, AppendProperties, LenProperties
<1>3. Observed(a, step, memory) = Hop(b, memory)
  BY DEF Observed
<1> HIDE DEF new
<1>4. b \in ReactType /\ SameHealth(a, b)
  BY <1>2 DEF ReactType, SameHealth
<1> HIDE DEF b
<1>5. QED
  BY <1>3, <1>4, HopTyped DEF SameHealth

\* what is taken out of the results,
LEMMA RedactTyped ==
  ASSUME NEW a \in ReactType
  PROVE  RedactLast(a) \in ReactType /\ SameHealth(a, RedactLast(a))
<1> DEFINE last == IF \E i \in DOMAIN a.history : OfTool(a.history[i])
                   THEN Max({i \in DOMAIN a.history : OfTool(a.history[i])}) ELSE 0
           first == Min({i \in 1 .. last : \A j \in i .. last : OfTool(a.history[j])})
           new == [i \in DOMAIN a.history |-> IF i \in first .. last THEN Redacted(a.history[i].step) ELSE a.history[i]]
<1>1. RedactLast(a) = IF last = 0 THEN a ELSE [a EXCEPT !.history = new]
  BY DEF RedactLast
<1>2. a.history \in Seq(MessageType)
  BY DEF ReactType
<1>3. /\ Len(a.history) \in Nat /\ DOMAIN a.history = 1 .. Len(a.history)
      /\ \A i \in 1 .. Len(a.history) : a.history[i] \in MessageType
  BY <1>2, LenProperties, ElementOfSeq
<1> HIDE DEF first, last
<1>4. \A i \in 1 .. Len(a.history) : Redacted(a.history[i].step) \in MessageType
  BY <1>3, MessageTyped DEF MessageType
<1>5. new \in [1 .. Len(a.history) -> MessageType]
  BY <1>3, <1>4
<1> HIDE DEF new
<1>6. new \in Seq(MessageType)
  BY <1>3, <1>5, FunctionSeq
<1>7. QED
  BY <1>1, <1>6 DEF ReactType, SameHealth

\* a turn that is given up, a crash and the end of the process,
LEMMA ForcedTyped ==
  ASSUME NEW a \in ReactType, NEW said \in {"calls", "says", "nothing"}
  PROVE  /\ Forced(a, said) \in ReactType /\ SameHealth(a, Forced(a, said))
         /\ Crashed(a) \in ReactType /\ SameHealth(a, Crashed(a))
         /\ Gone(a) \in ReactType /\ SameHealth(a, Gone(a))
BY DEF Forced, Crashed, Gone, ReactType, SameHealth

\* A call that fails is one more failure to report.
LEMMA FailedTyped ==
  ASSUME NEW a \in ReactType, NEW kind
  PROVE  LET b == Failed(a, kind)
         IN b \in ReactType /\ b.run = a.run /\ b.failed = a.failed + 1 /\ b.spent \in Nat
<1> DEFINE noted == [a EXCEPT !.failed = @ + 1]
           b == Failed(a, kind)
<1>1. noted \in ReactType /\ noted.run = a.run /\ noted.failed = a.failed + 1
  BY DEF ReactType
<1>2. \/ b = [RedactLast(noted) EXCEPT !.forbidden = TRUE]
      \/ b = [noted EXCEPT !.retries = @ + 1]
      \/ b = Forced([noted EXCEPT !.spent = @ + 1], "nothing")
      \/ b = Forced([noted EXCEPT !.spent = @ + IF a.retries > 0 \/ a.forbidden THEN 1 ELSE 0], "nothing")
  BY DEF Failed
<1> HIDE DEF b, noted
<1>3. CASE b = [RedactLast(noted) EXCEPT !.forbidden = TRUE]
  <2>1. RedactLast(noted) \in ReactType /\ SameHealth(noted, RedactLast(noted))
    BY <1>1, RedactTyped
  <2>2. QED
    BY <1>1, <1>3, <2>1 DEF ReactType, SameHealth, b
<1>4. CASE b = [noted EXCEPT !.retries = @ + 1]
  <2>1. noted.retries + 1 \in Nat
    BY <1>1 DEF ReactType
  <2>2. b = [noted EXCEPT !.retries = noted.retries + 1]
    BY <1>4
  <2>3. QED
    BY <1>1, <2>1, <2>2 DEF ReactType, b
<1>5. ASSUME NEW n \in Nat, b = Forced([noted EXCEPT !.spent = @ + n], "nothing")
      PROVE  b \in ReactType /\ b.run = a.run /\ b.failed = a.failed + 1 /\ b.spent \in Nat
  <2>0. noted.spent + n \in Nat
    <3>1. noted.spent \in Nat
      BY <1>1 DEF ReactType
    <3>2. QED
      BY <3>1
  <2> DEFINE c == [noted EXCEPT !.spent = noted.spent + n]
  <2>1. c \in ReactType /\ c.run = a.run /\ c.failed = a.failed + 1
    BY <1>1, <2>0 DEF ReactType
  <2>2. b = Forced(c, "nothing")
    BY <1>5
  <2> HIDE DEF c
  <2>3. b \in ReactType /\ SameHealth(c, b)
    BY <2>1, <2>2, ForcedTyped
  <2>4. QED
    BY <2>1, <2>3 DEF SameHealth, ReactType, b
<1>6. QED
  BY <1>2, <1>3, <1>4, <1>5 DEF b

\* and an answer of the model.
LEMMA RepliedTyped ==
  ASSUME NEW a \in ReactType, NEW said \in {"calls", "says", "nothing"}, NEW ends \in BOOLEAN, NEW usage \in BOOLEAN
  PROVE  Replied(a, said, ends, usage) \in ReactType /\ SameHealth(a, Replied(a, said, ends, usage))
<1>1. a.history \in Seq(MessageType)
  BY DEF ReactType
<1>2. Len(a.history) \in Nat
  BY <1>1, LenProperties
<1>3. QED
  BY <1>2 DEF Replied, ReactType, SameHealth

\* An answer acknowledges what was reported.
LEMMA AnsweredTyped ==
  ASSUME NEW a \in ReactType, NEW memory \in BOOLEAN
  PROVE  LET b == Answered(a, memory)
         IN b \in ReactType /\ b.run = a.run /\ b.failed = 0 /\ b.spent = 0
<1> DEFINE c == Remembered(Acknowledged(a))
           d == Compacted(c)
           b == Answered(a, memory)
<1>1. Acknowledged(a) \in ReactType /\ Acknowledged(a).run = a.run /\ Acknowledged(a).failed = 0
      /\ Acknowledged(a).spent = 0 /\ Acknowledged(a).step = a.step
  BY DEF Acknowledged, ReactType
<1>2. c \in ReactType /\ SameHealth(Acknowledged(a), c)
  <2> DEFINE e == Acknowledged(a)
             more == CASE e.said = "calls" -> <<Calls(e.step), Result(e.step)>>
                       [] e.said = "says" -> <<Says(e.step)>>
                       [] OTHER -> <<>>
  <2>1. e \in ReactType /\ e.history \in Seq(MessageType) /\ e.step \in Int
    BY <1>1 DEF ReactType
  <2>2. c = [e EXCEPT !.history = e.history \o more]
    BY DEF Remembered
  <2> HIDE DEF e
  <2>3. more \in Seq(MessageType)
    BY <2>1, MessageTyped
  <2> HIDE DEF more
  <2>4. e.history \o more \in Seq(MessageType)
    BY <2>1, <2>3, ConcatProperties
  <2> HIDE DEF c
  <2>5. QED
    BY <2>1, <2>2, <2>4 DEF ReactType, SameHealth, e
<1> HIDE DEF c
<1>3. d \in ReactType /\ SameHealth(c, d)
  <2>1. Trimmed(c.history) \in Seq(MessageType)
    BY <1>2, TrimmedTyped DEF ReactType
  <2>2. d = c \/ d = [c EXCEPT !.history = Trimmed(c.history), !.prompt = 0, !.pending = FALSE, !.note = FALSE,
                              !.cut = TRUE]
    BY DEF Compacted
  <2> DEFINE e == [c EXCEPT !.history = Trimmed(c.history), !.prompt = 0, !.pending = FALSE, !.note = FALSE,
                            !.cut = TRUE]
  <2>3. e \in ReactType /\ SameHealth(c, e)
    BY <1>2, <2>1 DEF ReactType, SameHealth
  <2> HIDE DEF e
  <2>4. d = c \/ d = e
    BY <2>2 DEF e
  <2> HIDE DEF d
  <2>5. QED
    BY <1>2, <2>3, <2>4 DEF SameHealth
<1>4. \/ b = [d EXCEPT !.pc = "observe"]
      \/ b = Hop([d EXCEPT !.hops = @ + 1], memory)
      \/ b = Forced(d, "says")
  BY DEF Answered, c
<1> HIDE DEF d, b
<1>5. b \in ReactType /\ SameHealth(d, b)
  <2>1. CASE b = [d EXCEPT !.pc = "observe"]
    BY <1>3, <2>1 DEF ReactType, SameHealth
  <2>2. CASE b = Hop([d EXCEPT !.hops = @ + 1], memory)
    <3>0. d.hops + 1 \in Nat
      BY <1>3 DEF ReactType
    <3> DEFINE e == [d EXCEPT !.hops = d.hops + 1]
    <3>1. e \in ReactType /\ SameHealth(d, e)
      BY <1>3, <3>0 DEF ReactType, SameHealth
    <3>2. b = Hop(e, memory)
      BY <2>2
    <3> HIDE DEF e
    <3>3. QED
      BY <3>1, <3>2, HopTyped DEF SameHealth
  <2>3. CASE b = Forced(d, "says")
    BY <1>3, <2>3, ForcedTyped
  <2>4. QED
    BY <1>4, <2>1, <2>2, <2>3
<1>6. QED
  BY <1>1, <1>2, <1>3, <1>5 DEF SameHealth, b

\* A refused act keeps the type of the agent and its health.
LEMMA RefusedTyped ==
  ASSUME NEW a \in ReactType
  PROVE  /\ TakenBack(a) \in ReactType /\ SameHealth(a, TakenBack(a))
         /\ Refused(a) \in ReactType /\ SameHealth(a, Refused(a))
<1>1. a.history \in Seq(MessageType) /\ a.before \in Nat /\ a.step \in Int
  BY DEF ReactType
<1>2. Len(a.history) \in Nat
  BY <1>1, LenProperties
<1> DEFINE n == Min({a.before, Len(a.history)})
           new == SubSeq(a.history, 1, n)
<1>3. n \in Nat /\ n <= Len(a.history)
  BY <1>1, <1>2, MinOfTwo
<1> HIDE DEF n
<1>4. new \in Seq(MessageType)
  <2>1. \A i \in 1 .. n : a.history[i] \in MessageType
    BY <1>1, <1>2, <1>3, ElementOfSeq
  <2>2. QED
    BY <1>3, <2>1, SubSeqProperties
<1> HIDE DEF new
<1>5. TakenBack(a) = [a EXCEPT !.history = new, !.pc = "observe", !.back = a.back \cup {a.step}, !.odd = a.odd \/ a.cut]
  BY DEF TakenBack, new, n
<1>6. TakenBack(a) \in ReactType /\ SameHealth(a, TakenBack(a))
  <2>1. a.back \cup {a.step} \in SUBSET Int /\ (a.odd \/ a.cut) \in BOOLEAN
    BY <1>1 DEF ReactType
  <2>2. QED
    BY <1>4, <1>5, <2>1 DEF ReactType, SameHealth
<1>7. Refused(a) \in ReactType /\ SameHealth(a, Refused(a))
  BY DEF Refused, ReactType, SameHealth
<1>8. QED
  BY <1>6, <1>7

\* A new process, of either kind.
LEMMA ProcessTyped ==
  ASSUME limit \in Limits, NEW r \in Jobs, limit.jobs[r] \in Kinds
  PROVE  Process(r) \in AgentType /\ (limit.jobs[r] = "react" => Process(r) = React(r) /\ React(r) \in ReactType)
         /\ (limit.jobs[r] # "react" => Process(r) = Rule(r, limit.jobs[r]) /\ Process(r) \in RuleType)
<1>1. r \in AllJobs
  BY JobNumbers
<1>2. React(r) \in ReactType
  <2>1. <<>> \in Seq(MessageType)
    BY EmptySeq
  <2>2. QED
    BY <1>1, <2>1 DEF React, ReactType, Never
<1>3. ASSUME NEW mode \in {"random", "report"} PROVE Rule(r, mode) \in RuleType
  BY <1>1, <1>3 DEF Rule, RuleType, Never
<1>4. CASE limit.jobs[r] = "react"
  BY <1>2, <1>4 DEF Process, AgentType
<1>5. CASE limit.jobs[r] # "react"
  BY <1>3, <1>5 DEF Process, AgentType, Kinds
<1>6. QED
  BY <1>4, <1>5

\* What the rule based agent does next is again a process of the same run.
LEMMA SeedsTyped ==
  ASSUME NEW a \in RuleType, NEW day \in Int
  PROVE  /\ Ends(a, day) \in RuleType /\ Ends(a, day).run = a.run
         /\ Seeds(a, day) \in RuleType /\ Seeds(a, day).run = a.run
<1>1. Ends(a, day) \in RuleType /\ Ends(a, day).run = a.run
  BY DEF Ends, RuleType
<1> DEFINE b == [a EXCEPT !.pc = "search", !.picks = {}]
<1>2. b \in RuleType /\ b.run = a.run
  BY DEF RuleType
<1>3. Seeds(a, day) = b \/ Seeds(a, day) = Ends(a, day)
  BY DEF Seeds
<1> HIDE DEF b
<1>4. QED
  BY <1>1, <1>2, <1>3

\* The steps of the rule based agent keep its type and its run.
LEMMA RuleTyped ==
  ASSUME NEW a \in RuleType, NEW day \in Int, NEW step \in Int,
         NEW products \in SUBSET Products
  PROVE  /\ Starts(a, step) \in RuleType /\ Starts(a, step).run = a.run
         /\ Shelved(a, products) \in RuleType /\ Shelved(a, products).run = a.run
         /\ Risked(a, products) \in RuleType /\ Risked(a, products).run = a.run
         /\ Dropped(a) \in RuleType /\ Dropped(a).run = a.run
         /\ Priced(a, day) \in RuleType /\ Priced(a, day).run = a.run
         /\ Reviewed(a, products, day) \in RuleType /\ Reviewed(a, products, day).run = a.run
         /\ Picked(a, products, day) \in RuleType /\ Picked(a, products, day).run = a.run
         /\ Listed(a, day) \in RuleType /\ Listed(a, day).run = a.run
<1>1. Starts(a, step) \in RuleType /\ Starts(a, step).run = a.run
  BY DEF Starts, RuleType
<1>2. Shelved(a, products) \in RuleType /\ Shelved(a, products).run = a.run
  BY DEF Shelved, RuleType
<1>3. Risked(a, products) \in RuleType /\ Risked(a, products).run = a.run
  BY DEF Risked, RuleType
<1>4. Dropped(a) \in RuleType /\ Dropped(a).run = a.run
  BY DEF Dropped, RuleType
<1>5. Priced(a, day) \in RuleType /\ Priced(a, day).run = a.run
  <2>1. CASE Reviews(a, day)
    BY <2>1 DEF Priced, RuleType
  <2>2. CASE ~Reviews(a, day)
    <3>1. Priced(a, day) = Seeds(a, day)
      BY <2>2 DEF Priced
    <3>2. QED
      BY <3>1, SeedsTyped
  <2>3. QED
    BY <2>1, <2>2
<1>6. Reviewed(a, products, day) \in RuleType /\ Reviewed(a, products, day).run = a.run
  <2>1. CASE products # {}
    BY <2>1 DEF Reviewed, RuleType
  <2>2. CASE products = {}
    <3>1. Reviewed(a, products, day) = Seeds(a, day)
      BY <2>2 DEF Reviewed
    <3>2. QED
      BY <3>1, SeedsTyped
  <2>3. QED
    BY <2>1, <2>2
<1>7. Picked(a, products, day) \in RuleType /\ Picked(a, products, day).run = a.run
  <2>1. CASE products # {}
    BY <2>1 DEF Picked, RuleType
  <2>2. CASE products = {}
    <3>1. Picked(a, products, day) = Ends(a, day)
      BY <2>2 DEF Picked
    <3>2. QED
      BY <3>1, SeedsTyped
  <2>3. QED
    BY <2>1, <2>2
<1>8. Listed(a, day) \in RuleType /\ Listed(a, day).run = a.run
  <2> DEFINE b == [a EXCEPT !.listed = @ \cup a.picks]
  <2>1. b \in RuleType /\ b.run = a.run
    BY DEF RuleType
  <2>2. Listed(a, day) = Ends(b, day)
    BY DEF Listed
  <2> HIDE DEF b
  <2>3. QED
    BY <2>1, <2>2, SeedsTyped
<1>9. QED
  BY <1>1, <1>2, <1>3, <1>4, <1>5, <1>6, <1>7, <1>8

\* What the processes keep is of its kind, and a run's child is a process.
AgentInv ==
  /\ limit \in Limits
  /\ t \in [AllJobs -> Nat]
  /\ shop \in [AllJobs -> [shelf : SUBSET Products, risky : SUBSET Products]]
  /\ proc \in [Procs -> AgentType]
  /\ child \in [AllJobs -> Procs \cup {None}]
  /\ \A r \in AllJobs : child[r] # None => proc[child[r]] # Nothing

\* What was reported, and what was faced.
HealthType == [failed : Int, spent : Int]
HealthInv ==
  /\ told \in [Procs -> HealthType] /\ faced \in [Procs -> HealthType]
  /\ \A p \in Procs :
       /\ proc[p] = Nothing => p \notin lossy /\ \A k \in {"failed", "spent"} : told[p][k] = 0 /\ faced[p][k] = 0
       /\ proc[p] \in ReactType => \A k \in {"failed", "spent"} :
            /\ told[p][k] + proc[p][k] >= faced[p][k]
            /\ p \notin lossy => told[p][k] + proc[p][k] = faced[p][k]

\* A process takes a step of its own.
LEMMA OwnStepTyped ==
  ASSUME AgentInv, NEW p \in Procs, proc[p] # Nothing, NEW b \in AgentType, b # Nothing,
         proc' = [proc EXCEPT ![p] = b], UNCHANGED <<t, child, limit>>,
         shop' \in [AllJobs -> [shelf : SUBSET Products, risky : SUBSET Products]]
  PROVE  AgentInv'
<1>1. proc' \in [Procs -> AgentType]
  BY DEF AgentInv
<1>2. \A r \in AllJobs : child'[r] # None => proc'[child'[r]] # Nothing
  BY DEF AgentInv
<1>3. QED
  BY <1>1, <1>2 DEF AgentInv

\* The step of an observer.
LEMMA ObserverTyped ==
  ASSUME AgentInv, NEW p \in Procs, Observe(p) \/ Leave(p)
  PROVE  /\ proc[p] # Nothing /\ proc[p] \in AgentType
         /\ \E b \in AgentType :
              /\ b # Nothing /\ proc' = [proc EXCEPT ![p] = b]
              /\ proc[p] \in ReactType => b \in ReactType /\ SameHealth(proc[p], b)
              /\ proc[p] \in RuleType => b \in RuleType
<1> DEFINE a == proc[p]
           r == a.run
<1>1. a \in AgentType /\ a # Nothing
  BY DEF AgentInv, Observe, Leave, Alive
<1>2. CASE Observe(p)
  <2> DEFINE b == IF a.kind = "react" THEN Observed(a, t[r], limit.memory) ELSE Starts(a, t[r])
  <2>1. proc' = [proc EXCEPT ![p] = b]
    BY <1>2 DEF Observe
  <2>2. a \in ReactType \/ a \in RuleType
    BY <1>1 DEF AgentType
  <2>3. limit.memory \in BOOLEAN
    BY EvaluationAssumption DEF AgentInv
  <2>4. r \in AllJobs => t[r] \in Int
    BY DEF AgentInv
  <2>5. CASE a \in ReactType
    <3>1. a.kind = "react" /\ r \in AllJobs
      BY <2>5 DEF ReactType
    <3>2. b = Observed(a, t[r], limit.memory)
      BY <3>1
    <3>3. b \in ReactType /\ SameHealth(a, b)
      BY <2>3, <2>4, <2>5, <3>1, <3>2, ObservedTyped
    <3> HIDE DEF a, b
    <3>4. b \in AgentType /\ b # Nothing /\ a \notin RuleType
      BY <2>5, <3>3, AgentKinds DEF AgentType
    <3>5. QED
      BY <1>1, <2>1, <3>3, <3>4 DEF a
  <2>6. CASE a \in RuleType
    <3>1. a.kind = "rule" /\ r \in AllJobs
      BY <2>6 DEF RuleType
    <3>2. b = Starts(a, t[r])
      BY <3>1
    <3>3. b \in RuleType
      BY <2>4, <2>6, <3>1, <3>2, RuleTyped
    <3> HIDE DEF a, b
    <3>4. b \in AgentType /\ b # Nothing /\ a \notin ReactType
      BY <2>6, <3>3, AgentKinds DEF AgentType
    <3>5. QED
      BY <1>1, <2>1, <3>3, <3>4 DEF a
  <2>7. QED
    BY <2>2, <2>5, <2>6
<1>3. CASE Leave(p)
  <2>1. proc' = [proc EXCEPT ![p] = Gone(a)]
    BY <1>3 DEF Leave
  <2>2. CASE a \in ReactType
    <3>1. Gone(a) \in ReactType /\ SameHealth(a, Gone(a))
      BY <2>2, ForcedTyped
    <3> HIDE DEF a
    <3>2. Gone(a) \in AgentType /\ Gone(a) # Nothing /\ a \notin RuleType
      BY <2>2, <3>1, AgentKinds DEF AgentType
    <3>3. QED
      BY <1>1, <2>1, <3>1, <3>2 DEF a
  <2>3. CASE a \in RuleType
    <3>1. Gone(a) \in RuleType
      BY <2>3 DEF Gone, RuleType
    <3> HIDE DEF a
    <3>2. Gone(a) \in AgentType /\ Gone(a) # Nothing /\ a \notin ReactType
      BY <2>3, <3>1, AgentKinds DEF AgentType
    <3>3. QED
      BY <1>1, <2>1, <3>1, <3>2 DEF a
  <2>4. QED
    BY <1>1, <2>2, <2>3 DEF AgentType
<1>4. QED
  BY <1>2, <1>3

\* The step of a ReAct agent, act by act.
LEMMA ReactTyped ==
  ASSUME AgentInv, NEW p \in Procs
  PROVE  /\ \A kind : ModelFails(p, kind) =>
              /\ proc[p] \in ReactType /\ Failed(proc[p], kind) \in ReactType
              /\ proc' = [proc EXCEPT ![p] = Failed(proc[p], kind)]
         /\ \A said \in {"calls", "says", "nothing"}, ends, usage \in BOOLEAN : ModelReplies(p, said, ends, usage) =>
              /\ proc[p] \in ReactType
              /\ \E b \in ReactType : SameHealth(proc[p], b) /\ proc' = [proc EXCEPT ![p] = b]
         /\ ActTaken(p) =>
              /\ proc[p] \in ReactType
              /\ \E b \in ReactType :
                   /\ proc' = [proc EXCEPT ![p] = b]
                   /\ \/ b.failed = 0 /\ b.spent = 0 /\ UNCHANGED lossy
                      \/ SameHealth(proc[p], b) /\ lossy' = lossy \cup {p}
         /\ ActLost(p) \/ ActRefused(p) =>
              /\ proc[p] \in ReactType
              /\ \E b \in ReactType : SameHealth(proc[p], b) /\ proc' = [proc EXCEPT ![p] = b]
<1> DEFINE a == proc[p]
<1>1. a \in AgentType /\ limit.memory \in BOOLEAN
  BY EvaluationAssumption DEF AgentInv
<1>2. Alive(p) /\ (a.pc = "think" \/ a.kind = "react") => a \in ReactType
  BY <1>1, AgentKinds DEF Alive, AgentType, RuleType
<1>3. ASSUME NEW kind, ModelFails(p, kind)
      PROVE  a \in ReactType /\ Failed(a, kind) \in ReactType /\ proc' = [proc EXCEPT ![p] = Failed(a, kind)]
  <2>1. a \in ReactType
    BY <1>2, <1>3 DEF ModelFails
  <2>2. Failed(a, kind) \in ReactType
    BY <2>1, FailedTyped
  <2>3. QED
    BY <1>3, <2>1, <2>2 DEF ModelFails
<1>4. ASSUME NEW said \in {"calls", "says", "nothing"}, NEW ends \in BOOLEAN, NEW usage \in BOOLEAN,
             ModelReplies(p, said, ends, usage)
      PROVE  a \in ReactType /\ \E b \in ReactType : SameHealth(a, b) /\ proc' = [proc EXCEPT ![p] = b]
  <2>1. a \in ReactType
    BY <1>2, <1>4 DEF ModelReplies
  <2>2. proc' = [proc EXCEPT ![p] = Replied(a, said, ends, usage)]
    BY <1>4 DEF ModelReplies
  <2>3. QED
    BY <2>1, <2>2, RepliedTyped
<1>5. ASSUME ActTaken(p)
      PROVE  a \in ReactType /\ \E b \in ReactType :
                   /\ proc' = [proc EXCEPT ![p] = b]
                   /\ \/ b.failed = 0 /\ b.spent = 0 /\ UNCHANGED lossy
                      \/ SameHealth(a, b) /\ lossy' = lossy \cup {p}
  <2>1. a \in ReactType
    BY <1>2, <1>5 DEF ActTaken, Sends
  <2>2. \/ proc' = [proc EXCEPT ![p] = Answered(a, limit.memory)] /\ UNCHANGED lossy
        \/ lossy' = lossy \cup {p} /\ proc' = [proc EXCEPT ![p] = IF a.last THEN Gone(a) ELSE Crashed(a)]
    BY <1>5 DEF ActTaken
  <2>3. CASE proc' = [proc EXCEPT ![p] = Answered(a, limit.memory)] /\ UNCHANGED lossy
    BY <1>1, <2>1, <2>3, AnsweredTyped
  <2>4. CASE lossy' = lossy \cup {p} /\ proc' = [proc EXCEPT ![p] = IF a.last THEN Gone(a) ELSE Crashed(a)]
    BY <2>1, <2>4, ForcedTyped
  <2>5. QED
    BY <2>1, <2>2, <2>3, <2>4
<1>6. ASSUME ActLost(p) \/ ActRefused(p)
      PROVE  a \in ReactType /\ \E b \in ReactType : SameHealth(a, b) /\ proc' = [proc EXCEPT ![p] = b]
  <2>1. a \in ReactType
    BY <1>2, <1>6 DEF ActLost, ActRefused, Sends
  <2>2. \E b \in {Gone(a), Crashed(a), Refused(a), TakenBack(a), Forced(a, "says")} : proc' = [proc EXCEPT ![p] = b]
    BY <1>6 DEF ActLost, ActRefused
  <2>3. \A b \in {Gone(a), Crashed(a), Refused(a), TakenBack(a), Forced(a, "says")} : b \in ReactType /\ SameHealth(a, b)
    BY <2>1, ForcedTyped, RefusedTyped
  <2>4. QED
    BY <2>1, <2>2, <2>3
<1>7. QED
  BY <1>3, <1>4, <1>5, <1>6

\* The step of a rule based agent.
LEMMA RuleStepTyped ==
  ASSUME AgentInv, NEW p \in Procs, RuleStep(p)
  PROVE  /\ proc[p] \in RuleType
         /\ \E b \in RuleType : b.run = proc[p].run /\ proc' = [proc EXCEPT ![p] = b]
         /\ shop' \in [AllJobs -> [shelf : SUBSET Products, risky : SUBSET Products]]
<1> DEFINE a == proc[p]
           r == a.run
           Shops == [AllJobs -> [shelf : SUBSET Products, risky : SUBSET Products]]
<1>1. a \in RuleType
  <2>1. Alive(p) /\ a.kind = "rule"
    BY DEF RuleStep, AskBalance, AskShelf, Clear, AskRisks, Drop, Adjust, Review, DropUnsold, Search, List, End,
           RuleRefused, RuleLost, Is, Sends
  <2>2. a \in AgentType
    BY DEF AgentInv
  <2>3. QED
    BY <2>1, <2>2, AgentKinds DEF Alive
<1>2. /\ r \in AllJobs /\ t[r] \in Nat /\ shop \in Shops /\ shop[r].shelf \in SUBSET Products
      /\ shop[r].risky \in SUBSET Products /\ Day(r) \in Int
  <2>1. r \in AllJobs /\ t[r] \in Nat /\ shop \in Shops
    BY <1>1 DEF AgentInv, RuleType
  <2>2. t[r] \div PerDay \in Int
    BY <2>1, EvaluationAssumption
  <2>3. QED
    BY <2>1, <2>2 DEF Day
<1>3. ASSUME NEW b, Act(p, b) PROVE proc' = [proc EXCEPT ![p] = b] \/ proc' = [proc EXCEPT ![p] = Gone(b)]
  BY <1>3 DEF Act
<1>4. ASSUME NEW b \in RuleType, b.run = r
      PROVE  Gone(b) \in RuleType /\ Gone(b).run = r
  BY <1>4 DEF Gone, RuleType
<1> DEFINE Done == \E b \in RuleType : b.run = r /\ proc' = [proc EXCEPT ![p] = b]
<1>5. ASSUME NEW b \in RuleType, b.run = r, Act(p, b) PROVE Done
  BY <1>3, <1>4, <1>5
<1>6. ASSUME NEW products \in SUBSET Products, Takes(r, products) PROVE shop' \in Shops
  BY <1>2, <1>6 DEF Takes
<1>7. ASSUME UNCHANGED shelves PROVE shop' \in Shops
  BY <1>2, <1>7 DEF shelves
<1>8. a.picks \in SUBSET Products /\ a.shelf \in SUBSET Products
  BY <1>1 DEF RuleType
<1>9. ASSUME AskBalance(p) PROVE Done /\ shop' \in Shops
  <2>1. PICK poor \in BOOLEAN : Act(p, [a EXCEPT !.poor = poor, !.pc = "shelf"])
    BY <1>9 DEF AskBalance
  <2>2. [a EXCEPT !.poor = poor, !.pc = "shelf"] \in RuleType /\ [a EXCEPT !.poor = poor, !.pc = "shelf"].run = r
    BY <1>1 DEF RuleType
  <2>3. QED
    BY <1>5, <1>7, <1>9, <2>1, <2>2 DEF AskBalance
<1>10. ASSUME AskShelf(p) PROVE Done /\ shop' \in Shops
  BY <1>1, <1>2, <1>5, <1>7, <1>10, RuleTyped DEF AskShelf, Shelf
<1>11. ASSUME Clear(p) \/ End(p) PROVE Done /\ shop' \in Shops
  <2> DEFINE b(pc) == [a EXCEPT !.pc = pc]
  <2>1. \A pc \in {"end", "observe"} : b(pc) \in RuleType /\ b(pc).run = r
    BY <1>1 DEF RuleType
  <2>2. Act(p, b("end")) \/ Act(p, b("observe"))
    BY <1>11 DEF Clear, End
  <2>3. Done
    BY <1>5, <2>1, <2>2
  <2>4. QED
    BY <1>6, <1>7, <1>8, <1>11, <2>3 DEF Clear, End
<1>12. ASSUME AskRisks(p) PROVE Done /\ shop' \in Shops
  BY <1>1, <1>2, <1>5, <1>7, <1>12, RuleTyped DEF AskRisks
<1>13. ASSUME Drop(p) PROVE Done /\ shop' \in Shops
  BY <1>1, <1>5, <1>6, <1>8, <1>13, RuleTyped DEF Drop
<1>14. ASSUME Adjust(p) PROVE Done /\ shop' \in Shops
  <2>1. Priced(a, Day(r)) \in RuleType /\ Priced(a, Day(r)).run = r
    BY <1>1, <1>2, RuleTyped
  <2>2. Act(p, Priced(a, Day(r))) \/ proc' = [proc EXCEPT ![p] = Priced(a, Day(r))]
    BY <1>14 DEF Adjust
  <2>3. Done
    BY <1>5, <2>1, <2>2
  <2>4. QED
    BY <1>7, <1>14, <2>3 DEF Adjust
<1>15. ASSUME Review(p) PROVE Done /\ shop' \in Shops
  <2>1. PICK stale \in SUBSET a.shelf : Act(p, Reviewed(a, stale, Day(r)))
    BY <1>15 DEF Review
  <2>2. stale \in SUBSET Products
    BY <1>8
  <2>3. Reviewed(a, stale, Day(r)) \in RuleType /\ Reviewed(a, stale, Day(r)).run = r
    BY <1>1, <1>2, <2>2, RuleTyped
  <2>4. QED
    BY <1>5, <1>7, <1>15, <2>1, <2>3 DEF Review
<1>16. ASSUME DropUnsold(p) PROVE Done /\ shop' \in Shops
  <2> DEFINE b == [a EXCEPT !.shelf = @ \ a.picks]
  <2>1. b \in RuleType /\ b.run = r
    BY <1>1 DEF RuleType
  <2>2. Act(p, Seeds(b, Day(r)))
    BY <1>16 DEF DropUnsold
  <2> HIDE DEF b
  <2>3. Seeds(b, Day(r)) \in RuleType /\ Seeds(b, Day(r)).run = r
    BY <1>2, <2>1, SeedsTyped
  <2>4. QED
    BY <1>5, <1>6, <1>8, <1>16, <2>2, <2>3 DEF DropUnsold
<1>17. ASSUME Search(p) PROVE Done /\ shop' \in Shops
  <2>1. PICK picks \in SUBSET Candidates(a) : Act(p, Picked(a, picks, Day(r)))
    BY <1>17 DEF Search
  <2>2. picks \in SUBSET Products
    BY DEF Candidates
  <2>3. Picked(a, picks, Day(r)) \in RuleType /\ Picked(a, picks, Day(r)).run = r
    BY <1>1, <1>2, <2>2, RuleTyped
  <2>4. QED
    BY <1>5, <1>7, <1>17, <2>1, <2>3 DEF Search
<1>18. ASSUME List(p) PROVE Done /\ shop' \in Shops
  <2>1. Listed(a, Day(r)) \in RuleType /\ Listed(a, Day(r)).run = r
    BY <1>1, <1>2, RuleTyped, \A x : x \in SUBSET Products => x \in SUBSET Products
  <2>2. PICK new \in SUBSET a.picks : shop' = [shop EXCEPT ![r].shelf = @ \cup new]
    BY <1>18 DEF List
  <2>3. shop' \in Shops
    BY <1>2, <1>8, <2>2
  <2>4. QED
    BY <1>5, <1>18, <2>1, <2>3 DEF List
<1>19. ASSUME RuleRefused(p) \/ RuleLost(p) PROVE Done /\ shop' \in Shops
  <2>1. \E b \in {Gone(a), [a EXCEPT !.pc = "observe"]} : proc' = [proc EXCEPT ![p] = b]
    BY <1>19 DEF RuleRefused, RuleLost
  <2>2. \A b \in {Gone(a), [a EXCEPT !.pc = "observe"]} : b \in RuleType /\ b.run = r
    BY <1>1 DEF RuleType, Gone
  <2>3. QED
    BY <1>7, <1>19, <2>1, <2>2 DEF RuleRefused, RuleLost
<1>20. QED
  BY <1>1, <1>9, <1>10, <1>11, <1>12, <1>13, <1>14, <1>15, <1>16, <1>17, <1>18, <1>19 DEF RuleStep

\* Every job of the batch is one of the jobs there can be.
LEMMA JobsAmongAll == ASSUME limit \in Limits PROVE Jobs \subseteq AllJobs
BY JobNumbers

\* A process is started, if any, or ended, if any.
LEMMA SpawnKillTyped ==
  ASSUME AgentInv, NEW r \in Jobs, Spawn(r) \/ Kill(r), UNCHANGED <<t, shop, limit>>
  PROVE  /\ AgentInv'
         /\ \/ proc' = proc
            \/ \E p \in Procs : proc[p] = Nothing /\ proc' = [proc EXCEPT ![p] = Process(r)] /\ limit.jobs[r] \in Kinds
            \/ \E p \in Procs : proc[p] # Nothing /\ proc' = [proc EXCEPT ![p] = Gone(proc[p])]
<1>1. r \in AllJobs
  BY JobsAmongAll DEF AgentInv
<1>2. CASE UNCHANGED agents
  BY <1>2 DEF AgentInv, agents
<1>3. ASSUME NEW p \in Procs, proc[p] = Nothing, proc' = [proc EXCEPT ![p] = Process(r)],
             child' = [child EXCEPT ![r] = p], limit.jobs[r] \in Kinds
      PROVE  AgentInv'
  <2>1. Process(r) \in AgentType /\ Process(r) # Nothing
    BY <1>3, ProcessTyped, AgentKinds DEF AgentInv
  <2>2. proc' \in [Procs -> AgentType] /\ child' \in [AllJobs -> Procs \cup {None}]
    BY <1>3, <2>1 DEF AgentInv
  <2>3. \A s \in AllJobs : child'[s] # None => proc'[child'[s]] # Nothing
    BY <1>1, <1>3, <2>1 DEF AgentInv
  <2>4. QED
    BY <2>2, <2>3 DEF AgentInv
<1>4. ASSUME Kill(r), child[r] = None PROVE AgentInv' /\ proc' = proc
  BY <1>1, <1>4 DEF AgentInv, Kill
<1>5. ASSUME Kill(r), child[r] # None
      PROVE  AgentInv' /\ proc[child[r]] # Nothing /\ child[r] \in Procs
             /\ proc' = [proc EXCEPT ![child[r]] = Gone(proc[child[r]])]
  <2> DEFINE p == child[r]
             a == proc[p]
  <2>1. p \in Procs /\ a # Nothing /\ a \in AgentType
    BY <1>1, <1>5 DEF AgentInv
  <2>2. proc' = [proc EXCEPT ![p] = Gone(a)] /\ child' = [child EXCEPT ![r] = None]
    BY <1>5 DEF Kill
  <2>3. Gone(a) \in AgentType /\ Gone(a) # Nothing
    <3>1. CASE a \in ReactType
      BY <3>1, ForcedTyped, AgentKinds DEF AgentType
    <3>2. CASE a \in RuleType
      <4>1. Gone(a) \in RuleType
        BY <3>2 DEF Gone, RuleType
      <4>2. QED
        BY <4>1, AgentKinds DEF AgentType
    <3>3. QED
      BY <2>1, <3>1, <3>2 DEF AgentType
  <2> HIDE DEF a, p
  <2>4. proc' \in [Procs -> AgentType] /\ child' \in [AllJobs -> Procs \cup {None}]
    BY <2>1, <2>2, <2>3 DEF AgentInv
  <2>5. \A s \in AllJobs : child'[s] # None => proc'[child'[s]] # Nothing
    BY <1>1, <2>1, <2>2, <2>3 DEF AgentInv
  <2>6. AgentInv'
    BY <2>4, <2>5 DEF AgentInv
  <2>7. QED
    BY <2>1, <2>2, <2>6 DEF a, p
<1>6. CASE Spawn(r)
  <2>1. UNCHANGED agents
        \/ \E p \in Procs : /\ proc[p] = Nothing /\ proc' = [proc EXCEPT ![p] = Process(r)]
                            /\ child' = [child EXCEPT ![r] = p] /\ limit.jobs[r] \in Kinds
    BY <1>6 DEF Spawn
  <2>2. QED
    BY <1>2, <1>3, <2>1 DEF agents
<1>7. QED
  BY <1>4, <1>5, <1>6

\* Every step keeps what the processes are of their kind.
LEMMA AgentStep == ASSUME AgentInv, Next PROVE AgentInv'
<1> DEFINE Shops == [AllJobs -> [shelf : SUBSET Products, risky : SUBSET Products]]
<1>1. limit' = limit /\ limit' \in Limits
  BY LimitFixed DEF AgentInv
<1>2. t' \in [AllJobs -> Nat]
  <2>1. CASE UNCHANGED t
    BY <2>1 DEF AgentInv
  <2>2. ASSUME NEW r \in Jobs, FinishStep(r) PROVE t' \in [AllJobs -> Nat]
    BY <2>2, JobsAmongAll DEF FinishStep, AgentInv
  <2>3. QED
    BY <2>1, <2>2, ClockFrame
<1>3. shop' \in Shops
  <2>1. CASE UNCHANGED shop
    BY <2>1 DEF AgentInv
  <2>2. ASSUME NEW r \in Jobs, FinishStep(r) PROVE shop' \in Shops
    <3>1. r \in AllJobs /\ shop \in Shops
      BY JobsAmongAll DEF AgentInv
    <3>2. CASE UNCHANGED shop
      BY <3>1, <3>2
    <3>3. ASSUME NEW product \in Products, shop' = [shop EXCEPT ![r].risky = SymDiff(@, {product})]
          PROVE  shop' \in Shops
      <4>1. SymDiff(shop[r].risky, {product}) \in SUBSET Products
        BY <3>1, <3>3 DEF SymDiff
      <4>2. QED
        BY <3>1, <3>3, <4>1
    <3>4. QED
      BY <2>2, <3>2, <3>3 DEF FinishStep
  <2>3. QED
    BY <2>1, <2>2, ShopFrame, RuleStepTyped
<1>4. CASE UNCHANGED <<agents, health>>
  BY <1>1, <1>2, <1>3, <1>4 DEF AgentInv, agents
<1>5. ASSUME NEW r \in Jobs, Spawn(r) \/ Kill(r), UNCHANGED <<t, shop, health>> PROVE AgentInv'
  BY <1>1, <1>5, SpawnKillTyped
<1>6. CASE Crash
  BY <1>1, <1>2, <1>3, <1>6 DEF AgentInv, Crash
<1>7. ASSUME NEW p \in Procs, NEW b \in AgentType, b # Nothing, proc[p] # Nothing, proc' = [proc EXCEPT ![p] = b],
             UNCHANGED <<t, child>>
      PROVE  AgentInv'
  BY <1>1, <1>3, <1>7, OwnStepTyped
<1>8. ASSUME NEW p \in Procs, Observe(p) \/ Leave(p) PROVE AgentInv'
  BY <1>7, <1>8, ObserverKeeps, ObserverTyped
<1>9. ASSUME NEW p \in Procs, RuleStep(p) PROVE AgentInv'
  <2>1. PICK b \in RuleType : proc' = [proc EXCEPT ![p] = b]
    BY <1>9, RuleStepTyped
  <2>2. b \in AgentType /\ b # Nothing /\ proc[p] # Nothing
    BY <1>9, <2>1, RuleStepTyped, AgentKinds DEF AgentType
  <2>3. QED
    BY <1>7, <1>9, <2>1, <2>2, RuleKeeps
<1>10. ASSUME NEW p \in Procs, ReactStep(p) PROVE AgentInv'
  <2>1. proc[p] \in ReactType /\ \E b \in ReactType : proc' = [proc EXCEPT ![p] = b]
    <3>1. CASE \E kind \in {"transient", "forbidden", "fatal"} : ModelFails(p, kind)
      BY <3>1, ReactTyped
    <3>2. CASE \E said \in {"calls", "says", "nothing"}, ends, usage \in BOOLEAN : ModelReplies(p, said, ends, usage)
      BY <3>2, ReactTyped
    <3>3. CASE ActTaken(p) \/ ActLost(p) \/ ActRefused(p)
      BY <3>3, ReactTyped
    <3>4. QED
      BY <1>10, <3>1, <3>2, <3>3 DEF ReactStep
  <2>2. PICK b \in ReactType : proc' = [proc EXCEPT ![p] = b]
    BY <2>1
  <2>3. b \in AgentType /\ b # Nothing /\ proc[p] # Nothing
    BY <2>1, <2>2, AgentKinds DEF AgentType
  <2>4. QED
    BY <1>7, <1>10, <2>2, <2>3, ReactKeeps
<1>11. QED
  BY <1>4, <1>5, <1>6, <1>8, <1>9, <1>10, AgentFrame

\* The first state.
LEMMA AgentInit == ASSUME Init PROVE AgentInv
<1>1. limit \in Limits /\ t \in [AllJobs -> Nat] /\ child = [r \in AllJobs |-> None]
  BY DEF Init
<1>2. shop \in [AllJobs -> [shelf : SUBSET Products, risky : SUBSET Products]]
  BY DEF Init
<1>3. proc \in [Procs -> AgentType]
  BY DEF Init, AgentType
<1>4. QED
  BY <1>1, <1>2, <1>3 DEF AgentInv

\* What every process is stays of its kind.
LEMMA AgentHolds == Spec => []AgentInv
<1>1. AgentInv /\ [Next]_vars => AgentInv'
  <2>1. AgentInv /\ UNCHANGED vars => AgentInv'
    BY DEF AgentInv, vars, runs, shelves, agents, bounds
  <2>2. QED
    BY <2>1, AgentStep
<1>2. QED
  BY <1>1, AgentInit, PTL DEF Spec

-----------------------------------------------------------------------------
(* The health an agent reports.                                            *)

\* What a process faced, was heard to tell, and will tell.
Balanced(mine, heard, met, lost) ==
  \A k \in {"failed", "spent"} :
    /\ heard[k] + mine[k] >= met[k]
    /\ ~lost => heard[k] + mine[k] = met[k]

\* The invariant, with its parts as they are used.
LEMMA HealthOf ==
  HealthInv <=>
    /\ told \in [Procs -> HealthType] /\ faced \in [Procs -> HealthType]
    /\ \A p \in Procs :
         /\ proc[p] = Nothing => p \notin lossy /\ \A k \in {"failed", "spent"} : told[p][k] = 0 /\ faced[p][k] = 0
         /\ proc[p] \in ReactType => Balanced(proc[p], told[p], faced[p], p \in lossy)
BY DEF HealthInv, Balanced

\* A step of one process after which it has as much to tell as before.
LEMMA SameKeepsHealth ==
  ASSUME AgentInv, HealthInv, NEW p \in Procs, NEW b \in AgentType, proc[p] # Nothing, b # Nothing,
         proc' = [proc EXCEPT ![p] = b], UNCHANGED health,
         b \in ReactType => proc[p] \in ReactType /\ SameHealth(proc[p], b)
  PROVE  HealthInv'
<1>1. told' = told /\ faced' = faced /\ lossy' = lossy
  BY DEF health
<1>2. proc'[p] = b /\ \A q \in Procs : q # p => proc'[q] = proc[q]
  BY DEF AgentInv
<1>3. b \in ReactType => Balanced(b, told[p], faced[p], p \in lossy)
  BY DEF HealthInv, Balanced, SameHealth
<1>4. \A q \in Procs : proc'[q] \in ReactType => Balanced(proc'[q], told[q], faced[q], q \in lossy)
  BY <1>2, <1>3, HealthOf
<1>5. \A q \in Procs : proc'[q] = Nothing =>
        q \notin lossy /\ \A k \in {"failed", "spent"} : told[q][k] = 0 /\ faced[q][k] = 0
  BY <1>2, HealthOf
<1>6. QED
  BY <1>1, <1>4, <1>5 DEF HealthInv, Balanced

\* A process that is started has nothing to tell.
LEMMA StartKeepsHealth ==
  ASSUME AgentInv, HealthInv, NEW r \in Jobs, NEW p \in Procs, proc[p] = Nothing, limit.jobs[r] \in Kinds,
         proc' = [proc EXCEPT ![p] = Process(r)], UNCHANGED health
  PROVE  HealthInv'
<1> DEFINE b == Process(r)
<1>1. told' = told /\ faced' = faced /\ lossy' = lossy
  BY DEF health
<1>2. b \in AgentType /\ b # Nothing
  BY ProcessTyped, AgentKinds DEF AgentInv
<1>3. b \in ReactType => b.failed = 0 /\ b.spent = 0
  <2>1. React(r).failed = 0 /\ React(r).spent = 0
    BY DEF React
  <2>2. b = React(r) \/ b \in RuleType
    BY ProcessTyped DEF AgentInv
  <2> HIDE DEF b
  <2>3. QED
    BY <2>1, <2>2, AgentKinds
<1> HIDE DEF b
<1>4. proc'[p] = b /\ \A q \in Procs : q # p => proc'[q] = proc[q]
  BY DEF AgentInv, b
<1>5. b \in ReactType => Balanced(b, told[p], faced[p], p \in lossy)
  BY <1>3 DEF HealthInv, Balanced, HealthType
<1>6. \A q \in Procs : proc'[q] \in ReactType => Balanced(proc'[q], told[q], faced[q], q \in lossy)
  BY <1>4, <1>5, HealthOf
<1>7. \A q \in Procs : proc'[q] = Nothing =>
        q \notin lossy /\ \A k \in {"failed", "spent"} : told[q][k] = 0 /\ faced[q][k] = 0
  BY <1>2, <1>4, HealthOf
<1>8. QED
  BY <1>1, <1>6, <1>7 DEF HealthInv, Balanced

\* A call of the model fails: it is faced, and will be told.
LEMMA FailureKeepsHealth ==
  ASSUME AgentInv, HealthInv, NEW p \in Procs, NEW kind, ModelFails(p, kind)
  PROVE  HealthInv'
<1> DEFINE a == proc[p]
           b == Failed(a, kind)
<1>1. a \in ReactType /\ b \in ReactType /\ proc' = [proc EXCEPT ![p] = b]
  BY ReactTyped
<1>2. told' = told /\ lossy' = lossy
      /\ faced' = [faced EXCEPT ![p] = [failed |-> faced[p].failed + 1, spent |-> faced[p].spent + b.spent - a.spent]]
  BY DEF ModelFails
<1>3. b.failed = a.failed + 1
  BY <1>1, FailedTyped
<1> HIDE DEF b
<1>4. proc'[p] = b /\ \A q \in Procs : q # p => proc'[q] = proc[q]
  BY <1>1 DEF AgentInv
<1>5. told[p] \in HealthType /\ faced[p] \in HealthType /\ a.failed \in Nat /\ b.failed \in Nat /\ a.spent \in Nat
      /\ b.spent \in Nat
  BY <1>1 DEF HealthInv, ReactType
<1>6. Balanced(a, told[p], faced[p], p \in lossy)
  BY <1>1, HealthOf
<1> DEFINE met == [failed |-> faced[p].failed + 1, spent |-> faced[p].spent + b.spent - a.spent]
<1>7. met \in HealthType /\ Balanced(b, told[p], met, p \in lossy)
  BY <1>3, <1>5, <1>6 DEF Balanced, HealthType
<1>8. faced' = [faced EXCEPT ![p] = met]
  BY <1>2
<1> HIDE DEF met
<1>9. faced' \in [Procs -> HealthType] /\ faced'[p] = met /\ \A q \in Procs : q # p => faced'[q] = faced[q]
  BY <1>7, <1>8 DEF HealthInv
<1>10. a # Nothing /\ b # Nothing
  BY <1>1, AgentKinds
<1>11. \A q \in Procs : proc'[q] \in ReactType => Balanced(proc'[q], told[q], faced'[q], q \in lossy)
  BY <1>4, <1>7, <1>9, HealthOf
<1>12. \A q \in Procs : proc'[q] = Nothing =>
        q \notin lossy /\ \A k \in {"failed", "spent"} : told[q][k] = 0 /\ faced'[q][k] = 0
  BY <1>4, <1>9, <1>10, HealthOf
<1>13. QED
  BY <1>2, <1>9, <1>11, <1>12 DEF HealthInv, Balanced

\* An act is taken: it tells, and its answer may be lost.
LEMMA ActKeepsHealth ==
  ASSUME AgentInv, HealthInv, NEW p \in Procs, ActTaken(p)
  PROVE  HealthInv'
<1> DEFINE a == proc[p]
<1>1. PICK b \in ReactType : /\ a \in ReactType
                             /\ proc' = [proc EXCEPT ![p] = b]
                             /\ \/ b.failed = 0 /\ b.spent = 0 /\ UNCHANGED lossy
                                \/ SameHealth(a, b) /\ lossy' = lossy \cup {p}
  BY ReactTyped
<1> DEFINE heard == [failed |-> told[p].failed + a.failed, spent |-> told[p].spent + a.spent]
<1>2. faced' = faced /\ told' = [told EXCEPT ![p] = heard]
  BY DEF ActTaken, Told
<1>3. proc'[p] = b /\ \A q \in Procs : q # p => proc'[q] = proc[q]
  BY <1>1 DEF AgentInv
<1>4. told[p] \in HealthType /\ faced[p] \in HealthType /\ a.failed \in Nat /\ b.failed \in Nat /\ a.spent \in Nat
      /\ b.spent \in Nat
  BY <1>1 DEF HealthInv, ReactType
<1>5. Balanced(a, told[p], faced[p], p \in lossy)
  BY <1>1, HealthOf
<1>6. heard \in HealthType /\ Balanced(b, heard, faced[p], p \in lossy')
  BY <1>1, <1>4, <1>5 DEF Balanced, HealthType, SameHealth
<1> HIDE DEF heard
<1>7. told' \in [Procs -> HealthType] /\ told'[p] = heard /\ \A q \in Procs : q # p => told'[q] = told[q]
  BY <1>2, <1>6 DEF HealthInv
<1>8. a # Nothing /\ b # Nothing
  BY <1>1, AgentKinds
<1>9. \A q \in Procs : q # p => (q \in lossy' <=> q \in lossy)
  BY <1>1
<1>10. \A q \in Procs : proc'[q] \in ReactType => Balanced(proc'[q], told'[q], faced[q], q \in lossy')
  <2> TAKE q \in Procs
  <2>1. CASE q = p
    BY <1>3, <1>6, <1>7, <2>1
  <2>2. CASE q # p
    BY <1>3, <1>7, <1>9, <2>2, HealthOf DEF Balanced
  <2>3. QED
    BY <2>1, <2>2
<1>11. \A q \in Procs : proc'[q] = Nothing =>
        q \notin lossy' /\ \A k \in {"failed", "spent"} : told'[q][k] = 0 /\ faced[q][k] = 0
  BY <1>3, <1>7, <1>8, <1>9, HealthOf
<1>12. QED
  BY <1>2, <1>7, <1>10, <1>11 DEF HealthInv, Balanced

\* Every step keeps the balance.
LEMMA HealthStep == ASSUME AgentInv, HealthInv, Next PROVE HealthInv'
<1>1. CASE UNCHANGED <<proc, health>>
  BY <1>1 DEF HealthInv, health
<1>2. ASSUME NEW r \in Jobs, Spawn(r) \/ Kill(r), UNCHANGED <<t, shop, health>> PROVE HealthInv'
  <2>1. UNCHANGED limit
    BY LimitFixed
  <2>2. \/ proc' = proc
        \/ \E p \in Procs : proc[p] = Nothing /\ proc' = [proc EXCEPT ![p] = Process(r)] /\ limit.jobs[r] \in Kinds
        \/ \E p \in Procs : proc[p] # Nothing /\ proc' = [proc EXCEPT ![p] = Gone(proc[p])]
    BY <1>2, <2>1, SpawnKillTyped
  <2>3. ASSUME NEW p \in Procs, proc[p] # Nothing, proc' = [proc EXCEPT ![p] = Gone(proc[p])] PROVE HealthInv'
    <3> DEFINE a == proc[p]
    <3>1. a \in AgentType /\ AgentInv'
      BY AgentStep DEF AgentInv
    <3>2. CASE a \in ReactType
      <4>1. Gone(a) \in ReactType /\ SameHealth(a, Gone(a))
        BY <3>2, ForcedTyped
      <4>2. Gone(a) \in AgentType /\ Gone(a) # Nothing
        BY <4>1, AgentKinds DEF AgentType
      <4>3. QED
        BY <1>2, <2>3, <3>2, <4>1, <4>2, SameKeepsHealth
    <3>3. CASE a \in RuleType
      <4>1. Gone(a) \in RuleType
        BY <3>3 DEF Gone, RuleType
      <4>2. Gone(a) \in AgentType /\ Gone(a) # Nothing /\ Gone(a) \notin ReactType
        BY <4>1, AgentKinds DEF AgentType
      <4>3. QED
        BY <1>2, <2>3, <4>2, SameKeepsHealth
    <3>4. QED
      BY <2>3, <3>1, <3>2, <3>3 DEF AgentType
  <2>4. QED
    BY <1>1, <1>2, <2>2, <2>3, StartKeepsHealth
<1>3. CASE Crash
  BY <1>1, <1>3 DEF Crash
<1>4. ASSUME NEW p \in Procs, Observe(p) \/ Leave(p) PROVE HealthInv'
  <2>1. UNCHANGED health
    BY <1>4, ObserverKeeps
  <2>2. PICK b \in AgentType : /\ b # Nothing /\ proc' = [proc EXCEPT ![p] = b]
                               /\ proc[p] \in ReactType => b \in ReactType /\ SameHealth(proc[p], b)
                               /\ proc[p] \in RuleType => b \in RuleType
    BY <1>4, ObserverTyped
  <2>3. proc[p] # Nothing /\ proc[p] \in AgentType
    BY <1>4, ObserverTyped
  <2>4. b \in ReactType => proc[p] \in ReactType /\ SameHealth(proc[p], b)
    BY <2>2, <2>3, AgentKinds DEF AgentType
  <2>5. QED
    BY <2>1, <2>2, <2>3, <2>4, SameKeepsHealth
<1>5. ASSUME NEW p \in Procs, RuleStep(p) PROVE HealthInv'
  <2>1. UNCHANGED health /\ proc[p] \in RuleType
    BY <1>5, RuleKeeps, RuleStepTyped
  <2>2. PICK b \in RuleType : proc' = [proc EXCEPT ![p] = b]
    BY <1>5, RuleStepTyped
  <2>3. b \in AgentType /\ b # Nothing /\ proc[p] # Nothing /\ b \notin ReactType
    BY <2>1, <2>2, AgentKinds DEF AgentType
  <2>4. QED
    BY <2>1, <2>2, <2>3, SameKeepsHealth
<1>6. ASSUME NEW p \in Procs, ReactStep(p) PROVE HealthInv'
  <2>1. CASE \E kind \in {"transient", "forbidden", "fatal"} : ModelFails(p, kind)
    BY <2>1, FailureKeepsHealth
  <2>2. CASE ActTaken(p)
    BY <2>2, ActKeepsHealth
  <2>3. ASSUME UNCHANGED health, proc[p] \in ReactType,
               \E b \in ReactType : SameHealth(proc[p], b) /\ proc' = [proc EXCEPT ![p] = b]
        PROVE  HealthInv'
    <3>1. PICK b \in ReactType : SameHealth(proc[p], b) /\ proc' = [proc EXCEPT ![p] = b]
      BY <2>3
    <3>2. b \in AgentType /\ b # Nothing /\ proc[p] # Nothing
      BY <2>3, <3>1, AgentKinds DEF AgentType
    <3>3. QED
      BY <2>3, <3>1, <3>2, SameKeepsHealth
  <2>4. CASE \E said \in {"calls", "says", "nothing"}, ends, usage \in BOOLEAN : ModelReplies(p, said, ends, usage)
    <3>1. UNCHANGED health
      BY <2>4 DEF ModelReplies
    <3>2. QED
      BY <2>3, <2>4, <3>1, ReactTyped
  <2>5. CASE ActLost(p) \/ ActRefused(p)
    <3>1. UNCHANGED health
      BY <2>5 DEF ActLost, ActRefused
    <3>2. QED
      BY <2>3, <2>5, <3>1, ReactTyped
  <2>6. QED
    BY <1>6, <2>1, <2>2, <2>4, <2>5 DEF ReactStep
<1>7. QED
  BY <1>1, <1>2, <1>3, <1>4, <1>5, <1>6, AgentFrame DEF agents

\* The first state.
LEMMA HealthInit == ASSUME Init PROVE HealthInv
<1>1. told = [p \in Procs |-> [failed |-> 0, spent |-> 0]] /\ faced = told /\ lossy = {}
      /\ proc = [p \in Procs |-> Nothing]
  BY DEF Init
<1>2. \A p \in Procs : proc[p] = Nothing /\ proc[p] \notin ReactType
  BY <1>1, AgentKinds
<1>3. told \in [Procs -> HealthType]
  BY <1>1 DEF HealthType
<1>4. \A p \in Procs, k \in {"failed", "spent"} : told[p][k] = 0
  BY <1>1
<1>5. QED
  BY <1>1, <1>2, <1>3, <1>4 DEF HealthInv

\* What an agent faced is what it told and will tell, or less if an answer was
\* lost: nothing is forgotten when a turn is given up, taken back or compacted.
THEOREM TheHealthIsReported == Spec => []HealthReported
<1>1. AgentInv /\ HealthInv /\ [Next]_vars => HealthInv'
  <2>1. HealthInv /\ UNCHANGED vars => HealthInv'
    BY DEF HealthInv, vars, agents, health
  <2>2. QED
    BY <2>1, HealthStep
<1>2. AgentInv /\ HealthInv => HealthReported
  BY AgentKinds DEF AgentInv, HealthInv, HealthReported, Alive
<1>3. QED
  BY <1>1, <1>2, AgentHolds, HealthInit, PTL DEF Spec

-----------------------------------------------------------------------------
(* The history keeps its rows.                                             *)

\* Before its summary is written.
Early == {"active", "stopping", "stopped", "over", "marked"}

\* What can be done with a run, its summary and the history: the phases tell who
\* has one, and who is writing.
PhaseInv ==
  /\ limit \in Limits
  /\ phase \in [AllJobs -> {"none", "summed", "loading", "done"} \cup Early] /\ DOMAIN summary = AllJobs
  /\ \A r \in AllJobs : /\ phase[r] # "none" => r \in Jobs
                        /\ phase[r] \in {"none"} \cup Early => summary[r] = Nothing
                        /\ phase[r] = "loading" => r \in DOMAIN held
                        /\ phase[r] = "loading" <=> lock = r
                        /\ r \in DOMAIN held => phase[r] = "loading"
  /\ batch.pc \in {"fill", "poll"} => \A r \in Jobs : r >= batch.next => phase[r] = "none"

\* Rows of the history.
IsRows(rs) == rs \in Seq({rs[i] : i \in DOMAIN rs})

\* The run has its row, and all its rows tell what its summary s says it cost.
Tells(row, r, s) == row.run = r => row.turns = s.total.turns /\ row.usd = s.total.usd
Shows(rs, r, s) == (\E i \in DOMAIN rs : rs[i].run = r) /\ \A i \in DOMAIN rs : Tells(rs[i], r, s)

\* Runs whose row is there to stay.
Entered(r) == phase[r] = "done" /\ summary[r] # Nothing /\ r \notin excused

\* The file shows these runs, and so does what every writer is about to write;
\* the batch writes the rows of the summaries as they are.
RowsInv ==
  /\ IsRows(rows) /\ \A w \in DOMAIN held : IsRows(held[w])
  /\ \A r \in AllJobs : Entered(r) => Shows(rows, r, summary[r]) /\ \A w \in DOMAIN held : Shows(held[w], r, summary[r])
  /\ batch.pc = "upsert" =>
       \A i \in DOMAIN batch.todo : /\ batch.todo[i] \in Jobs
                                    /\ batch.read[batch.todo[i]] = summary[batch.todo[i]]
                                    /\ summary[batch.todo[i]] # Nothing

\* Which steps change the phase of a run.
LEMMA PhaseFrame ==
  ASSUME Next
  PROVE  \/ UNCHANGED phase
         \/ \E r \in Jobs, x \in Early : /\ phase[r] \in Early /\ phase' = [phase EXCEPT ![r] = x]
                                         /\ UNCHANGED <<history, batch>>
         \/ CreateRun \/ CreateFails
         \/ \E r \in Jobs : Summarize(r) \/ LoadHistory(r) \/ WriteHistory(r)
         \/ Crash
<1>1. ASSUME NEW r \in Jobs, StartAgain(r) \/ Stop(r) \/ Stopped(r) \/ Over(r) \/ Mark(r)
      PROVE  \E x \in Early : /\ phase[r] \in Early /\ phase' = [phase EXCEPT ![r] = x]
                              /\ UNCHANGED <<history, batch>>
  BY <1>1 DEF StartAgain, Stop, Stopped, Over, Mark, Early
<1>2. ASSUME NEW r \in Jobs,
             \/ OpenHook(r) \/ GiveUp(r) \/ FinishStep(r) \/ (\E report, step : Report(r, report, step))
             \/ (\E ends : OtherTurn(r, ends))
      PROVE  UNCHANGED phase
  BY <1>2 DEF OpenHook, GiveUp, FinishStep, Report, OtherTurn, Take
<1>3. ASSUME RebuildScan \/ RebuildWrite PROVE UNCHANGED phase
  BY <1>3 DEF RebuildScan, RebuildWrite, runs
<1>4. ASSUME RunModels, ~CreateRun, ~CreateFails PROVE UNCHANGED phase
  BY <1>4 DEF RunModels, Round, Ask, AskFails, Asked, ReadSummaries, BatchLoad, BatchWrite, BatchEnds, runs
<1>5. QED
  BY <1>1, <1>2, <1>3, <1>4, ObserverKeeps, ReactKeeps, RuleKeeps DEF Next, Service

\* Which steps of the batch begin what: it is filling up or polling only until it
\* ends, and writes rows only of the summaries it has read.
LEMMA BatchMoves ==
  ASSUME BatchInv, Next
  PROVE  /\ batch'.pc \in {"fill", "poll"} =>
              /\ batch.pc \in {"fill", "poll"} /\ ~CreateFails
              /\ (CreateRun /\ batch'.next = batch.next + 1) \/ (~CreateRun /\ batch'.next = batch.next)
         /\ batch'.pc = "upsert" => \/ UNCHANGED batch
                                    \/ ReadSummaries
                                    \/ BatchWrite
<1> DEFINE Goal == /\ batch'.pc \in {"fill", "poll"} =>
                        /\ batch.pc \in {"fill", "poll"} /\ ~CreateFails
                        /\ (CreateRun /\ batch'.next = batch.next + 1) \/ (~CreateRun /\ batch'.next = batch.next)
                   /\ batch'.pc = "upsert" => \/ UNCHANGED batch
                                              \/ ReadSummaries
                                              \/ BatchWrite
<1>1. batch \in BatchType(batch)
  BY DEF BatchInv, BatchShape
<1>2. ASSUME NEW F PROVE AfterRuns([batch EXCEPT !.failures = F]).pc \in {"sum", "end"}
  BY <1>1 DEF AfterRuns, BatchType
<1>3. CASE CreateFails \/ AskFails
  BY <1>2, <1>3 DEF CreateFails, AskFails, GivesUp
<1>4. CASE CreateRun
  <2>1. batch' = [batch EXCEPT !.active = batch.active \cup {batch.next}, !.next = batch.next + 1] /\ batch.pc = "fill"
    BY <1>4 DEF CreateRun
  <2>2. batch'.pc = "fill" /\ batch'.next = batch.next + 1
    BY <1>1, <2>1 DEF BatchType
  <2>3. ~CreateFails
    <3>1. CreateFails => batch'.pc \in {"sum", "end"}
      BY <1>2 DEF CreateFails, GivesUp
    <3>2. QED
      BY <2>2, <3>1
  <2>4. QED
    BY <1>4, <2>1, <2>2, <2>3
<1>5. ASSUME batch' # batch, batch'.pc \in {"fill", "poll"}, batch'.next = batch.next, batch.pc \in {"fill", "poll"} PROVE Goal
  <2>1. ~CreateFails
    BY <1>2, <1>5 DEF CreateFails, GivesUp
  <2>2. CreateRun => batch'.next = batch.next + 1
    BY <1>1 DEF CreateRun, BatchType
  <2>3. batch.next \in Nat
    BY <1>1 DEF BatchType
  <2>4. ~CreateRun
    BY <1>5, <2>2, <2>3
  <2>5. QED
    BY <1>5, <2>1, <2>4
<1>6. CASE UNCHANGED batch
  <2>1. batch.next \in Nat
    BY <1>1 DEF BatchType
  <2>2. CreateRun => batch'.next = batch.next + 1
    BY <1>1 DEF CreateRun, BatchType
  <2>3. ~CreateRun
    BY <1>6, <2>1, <2>2
  <2>4. CreateFails => batch'.pc \in {"sum", "end"}
    BY <1>2 DEF CreateFails, GivesUp
  <2>5. QED
    BY <1>6, <2>3, <2>4
<1>7. CASE Round
  <2>1. CASE batch.active = {}
    <3>1. batch'.pc \in {"sum", "end"}
      BY <1>1, <1>7, <2>1 DEF Round, AfterRuns, BatchType
    <3>2. QED
      BY <3>1
  <2>2. CASE batch.active # {}
    <3>1. batch'.pc = "poll" /\ batch'.next = batch.next /\ batch.pc = "fill"
      BY <1>1, <1>7, <2>2 DEF Round, BatchType
    <3>2. QED
      BY <1>5, <3>1
  <2>3. QED
    BY <2>1, <2>2
<1>8. CASE Ask
  <2>1. batch.pc = "poll" /\ batch'.pc = "poll" /\ batch'.next = batch.next
    BY <1>1, <1>8 DEF Ask, BatchType
  <2>2. QED
    BY <1>5, <1>6, <2>1
<1>9. CASE Asked
  <2>1. batch.pc = "poll" /\ batch'.pc = "fill" /\ batch'.next = batch.next
    BY <1>1, <1>9 DEF Asked, BatchType
  <2>2. QED
    BY <1>5, <2>1
<1>10. CASE ReadSummaries
  <2>1. batch'.pc = "upsert"
    BY <1>1, <1>10 DEF ReadSummaries, BatchType
  <2>2. QED
    BY <1>10, <2>1
<1>11. CASE BatchWrite
  <2>1. batch'.pc = "upsert"
    BY <1>1, <1>11 DEF BatchWrite, BatchType
  <2>2. QED
    BY <1>11, <2>1
<1>12. CASE BatchEnds
  <2>1. batch'.pc = "end"
    BY <1>1, <1>12 DEF BatchEnds, BatchType
  <2>2. QED
    BY <2>1
<1>13. QED
  BY <1>3, <1>4, <1>6, <1>7, <1>8, <1>9, <1>10, <1>11, <1>12, BatchFrame DEF RunModels

\* Who is writing the history.
LEMMA PhaseStep == ASSUME PhaseInv, BatchInv, Next PROVE PhaseInv'
<1> DEFINE Phases == {"none", "summed", "loading", "done"} \cup Early
           Fresh(ph, b) == b.pc \in {"fill", "poll"} => \A r \in Jobs : r >= b.next => ph[r] = "none"
           Each(ph, su, he, lo) ==
             \A r \in AllJobs : /\ ph[r] # "none" => r \in Jobs
                                /\ ph[r] \in {"none"} \cup Early => su[r] = Nothing
                                /\ ph[r] = "loading" => r \in DOMAIN he
                                /\ ph[r] = "loading" <=> lo = r
                                /\ r \in DOMAIN he => ph[r] = "loading"
<1>1. limit' = limit /\ limit \in Limits /\ Jobs \subseteq AllJobs /\ AllJobs \subseteq Nat \ {0} /\ Jobs' = Jobs
  BY LimitFixed, JobNumbers DEF PhaseInv, Jobs
<1>2. phase \in [AllJobs -> Phases] /\ DOMAIN summary = AllJobs /\ Each(phase, summary, held, lock) /\ Fresh(phase, batch)
  BY DEF PhaseInv
<1>3. ASSUME phase' \in [AllJobs -> Phases], DOMAIN summary' = AllJobs, Each(phase', summary', held', lock'),
             Fresh(phase', batch')
      PROVE  PhaseInv'
  BY <1>1, <1>3 DEF PhaseInv
<1>4. None \notin AllJobs /\ Batch \notin AllJobs /\ Rebuild \notin AllJobs
  BY <1>1 DEF None, Batch, Rebuild
<1>5. batch.next \in Nat /\ batch.next \in 1 .. Len(limit.jobs) + 1
  BY DEF BatchInv, BatchShape, BatchType
<1>6. Fresh(phase', batch')
  <2>1. SUFFICES ASSUME batch'.pc \in {"fill", "poll"}, NEW r \in Jobs, r >= batch'.next PROVE phase'[r] = "none"
    OBVIOUS
  <2>2. batch.pc \in {"fill", "poll"} /\ ~CreateFails /\ r \in AllJobs /\ r \in Nat
    BY <1>1, <2>1, BatchMoves
  <2>3. CASE CreateRun
    <3>1. batch'.next = batch.next + 1 /\ phase' = [phase EXCEPT ![batch.next] = "active"]
      BY <2>1, <2>3, BatchMoves DEF CreateRun, Created
    <3>2. r >= batch.next /\ r # batch.next
      BY <1>5, <2>1, <2>2, <3>1
    <3>3. QED
      BY <1>2, <2>2, <3>1, <3>2
  <2>4. CASE ~CreateRun
    <3>1. batch'.next = batch.next
      BY <2>1, <2>4, BatchMoves
    <3>2. phase[r] = "none"
      BY <1>2, <2>1, <2>2, <3>1
    <3>3. ASSUME NEW s \in Jobs, NEW x, phase[s] # "none", phase' = [phase EXCEPT ![s] = x] PROVE phase'[r] = "none"
      BY <1>2, <2>2, <3>2, <3>3
    <3>4. ASSUME NEW s \in Jobs, Summarize(s) \/ LoadHistory(s) \/ WriteHistory(s) PROVE phase'[r] = "none"
      BY <3>3, <3>4 DEF Summarize, LoadHistory, WriteHistory
    <3>5. Crash => phase'[r] = "none"
      BY <2>2, <3>2 DEF Crash
    <3>6. QED
      BY <2>2, <2>4, <3>2, <3>3, <3>4, <3>5, PhaseFrame DEF Early
  <2>5. QED
    BY <2>3, <2>4
<1>7. CASE UNCHANGED <<phase, history>>
  BY <1>2, <1>3, <1>6, <1>7 DEF history
<1>8. ASSUME NEW r \in Jobs, NEW x \in Early, phase' = [phase EXCEPT ![r] = x], UNCHANGED history,
             phase[r] \in {"none"} \cup Early
      PROVE  PhaseInv'
  <2>1. phase' \in [AllJobs -> Phases] /\ x \notin {"none", "loading"}
    BY <1>1, <1>2, <1>8 DEF Early
  <2>2. summary' = summary /\ held' = held /\ lock' = lock /\ phase[r] # "loading"
    BY <1>8 DEF history, Early
  <2>3. Each(phase', summary', held', lock')
    BY <1>1, <1>2, <1>8, <2>1, <2>2
  <2>4. QED
    BY <1>2, <1>3, <1>6, <2>1, <2>2, <2>3
<1>9. CASE CreateRun \/ CreateFails
  <2>1. batch.next \in Jobs /\ batch.pc = "fill"
    BY <1>9 DEF CreateRun, CreateFails
  <2>2. phase[batch.next] = "none"
    BY <1>2, <1>5, <2>1
  <2>3. UNCHANGED history /\ (UNCHANGED phase \/ phase' = [phase EXCEPT ![batch.next] = "active"])
    BY <1>9 DEF CreateRun, CreateFails, Created, runs
  <2>4. QED
    BY <1>7, <1>8, <2>1, <2>2, <2>3 DEF Early
<1>10. ASSUME NEW r \in Jobs, Summarize(r) PROVE PhaseInv'
  <2>1. phase[r] = "marked" /\ phase' = [phase EXCEPT ![r] = "summed"] /\ held' = held /\ lock' = lock
        /\ \E v : summary' = [summary EXCEPT ![r] = v]
    BY <1>10 DEF Summarize
  <2>2. phase' \in [AllJobs -> Phases] /\ DOMAIN summary' = AllJobs
    BY <1>1, <1>2, <2>1
  <2>3. Each(phase', summary', held', lock')
    BY <1>1, <1>2, <2>1 DEF Early
  <2>4. QED
    BY <1>3, <1>6, <2>2, <2>3
<1>11. ASSUME NEW r \in Jobs, LoadHistory(r) PROVE PhaseInv'
  <2>1. phase[r] = "summed" /\ phase' = [phase EXCEPT ![r] = "loading"] /\ lock' = r /\ summary' = summary /\ lock = None
        /\ held' = With(held, r, rows)
    BY <1>11 DEF LoadHistory, Reads
  <2>2. phase' \in [AllJobs -> Phases] /\ DOMAIN held' = DOMAIN held \cup {r}
    BY <1>1, <1>2, <2>1 DEF With
  <2>3. Each(phase', summary', held', lock')
    BY <1>1, <1>2, <1>4, <2>1, <2>2 DEF Early
  <2>4. QED
    BY <1>2, <1>3, <1>6, <2>1, <2>2, <2>3
<1>12. ASSUME NEW r \in Jobs, WriteHistory(r) PROVE PhaseInv'
  <2>1. phase[r] = "loading" /\ phase' = [phase EXCEPT ![r] = "done"] /\ lock' = None /\ summary' = summary
        /\ held' = [x \in DOMAIN held \ {r} |-> held[x]]
    BY <1>12 DEF WriteHistory, Writes
  <2>2. phase' \in [AllJobs -> Phases] /\ DOMAIN held' = DOMAIN held \ {r}
    BY <1>1, <1>2, <2>1
  <2>3. Each(phase', summary', held', lock')
    BY <1>1, <1>2, <1>4, <2>1, <2>2 DEF Early
  <2>4. QED
    BY <1>2, <1>3, <1>6, <2>1, <2>2, <2>3
<1>13. CASE Crash
  <2>1. phase' = [r \in AllJobs |-> CASE phase[r] \in {"active", "stopping", "over"} -> "stopped"
                                   [] phase[r] \in {"marked", "summed", "loading"} -> "done"
                                   [] OTHER -> phase[r]]
        /\ lock' = None /\ summary' = summary /\ held' = [x \in DOMAIN held \ AllJobs |-> held[x]]
    BY <1>13 DEF Crash
  <2>2. phase' \in [AllJobs -> Phases] /\ DOMAIN held' = DOMAIN held \ AllJobs
    BY <1>2, <2>1 DEF Early
  <2>3. Each(phase', summary', held', lock')
    BY <1>2, <1>4, <2>1, <2>2 DEF Early
  <2>4. QED
    BY <1>2, <1>3, <1>6, <2>1, <2>2, <2>3
<1>14. ASSUME phase' = phase, summary' = summary, lock' = lock, \A r \in AllJobs : r \in DOMAIN held' <=> r \in DOMAIN held
       PROVE  PhaseInv'
  BY <1>2, <1>3, <1>6, <1>14
<1>15. CASE UNCHANGED phase
  <2>1. CASE RebuildScan \/ BatchLoad
    BY <1>4, <1>14, <1>15, <2>1 DEF RebuildScan, BatchLoad, Reads, With
  <2>2. CASE RebuildWrite \/ BatchWrite
    BY <1>4, <1>14, <1>15, <2>2 DEF RebuildWrite, BatchWrite, Writes
  <2>3. QED
    BY <1>7, <1>10, <1>11, <1>12, <1>13, <1>15, <2>1, <2>2, HistoryFrame
<1>16. QED
  BY <1>8, <1>9, <1>10, <1>11, <1>12, <1>13, <1>15, PhaseFrame

\* Rows are rows of what is in them.
LEMMA RowsOf ==
  ASSUME NEW S, NEW rs \in Seq(S)
  PROVE  IsRows(rs) /\ DOMAIN rs = 1 .. Len(rs) /\ Len(rs) \in Nat
<1>1. DOMAIN rs = 1 .. Len(rs) /\ Len(rs) \in Nat
  BY LenProperties
<1>2. rs \in [1 .. Len(rs) -> {rs[i] : i \in DOMAIN rs}]
  BY <1>1
<1>3. QED
  BY <1>1, <1>2, FunctionSeq DEF IsRows

\* new are the rows rs with this row in place of those of its run.
Replaces(new, rs, row) ==
  /\ \A i \in DOMAIN new : new[i] = row \/ \E j \in DOMAIN rs : rs[j].run # row.run /\ new[i] = rs[j]
  /\ \E i \in DOMAIN new : new[i] = row
  /\ \A j \in DOMAIN rs : rs[j].run # row.run => \E i \in DOMAIN new : new[i] = rs[j]

\* A row that is entered replaces those of its run, and no other.
LEMMA UpsertedRows ==
  ASSUME NEW rs, IsRows(rs), NEW row
  PROVE  IsRows(Upserted(rs, row)) /\ Replaces(Upserted(rs, row), rs, row)
<1> DEFINE S == {rs[i] : i \in DOMAIN rs}
           T == S \cup {row}
           left == {i \in DOMAIN rs : rs[i].run # row.run}
           others == Sorted(left)
           kept == [i \in DOMAIN others |-> rs[others[i]]]
           new == Upserted(rs, row)
<1>1. DOMAIN rs = 1 .. Len(rs) /\ Len(rs) \in Nat
  BY RowsOf DEF IsRows
<1>2. IsFiniteSet(left) /\ left \subseteq Int
  <2>1. IsFiniteSet(1 .. Len(rs)) /\ left \subseteq 1 .. Len(rs)
    BY <1>1, FS_Interval
  <2> HIDE DEF left
  <2>2. IsFiniteSet(left)
    BY <2>1, FS_Subset, Zenon
  <2>3. left \subseteq Int
    BY <2>1
  <2>4. QED
    BY <2>2, <2>3
<1>3. Cardinality(left) \in Nat /\ others \in [1 .. Cardinality(left) -> left] /\ \A x \in left : \E i \in DOMAIN others : others[i] = x
  <2> HIDE DEF left
  <2>1. QED
    BY <1>2, SortedEnumerates, FS_CardinalityType DEF Enumerates
<1> DEFINE n == Cardinality(left)
<1>4. kept \in [1 .. n -> T] /\ \A i \in 1 .. n : kept[i] = rs[others[i]] /\ others[i] \in left
  BY <1>3
<1>5. new = Append(kept, row)
  BY DEF Upserted
<1> HIDE DEF others, kept, new, n
<1>6. n \in Nat /\ DOMAIN others = 1 .. n
  BY <1>3 DEF n
<1>7. kept \in Seq(T) /\ Len(kept) = n
  <2> HIDE DEF T, left
  <2>1. QED
    BY <1>4, <1>6, FunctionSeq
<1>8. /\ new \in Seq(T) /\ Len(new) = n + 1 /\ new[n + 1] = row
      /\ \A i \in 1 .. n : new[i] = kept[i]
  <2>1. row \in T
    OBVIOUS
  <2> HIDE DEF T
  <2>2. QED
    BY <1>5, <1>6, <1>7, <2>1, AppendProperties
<1>9. IsRows(new) /\ DOMAIN new = 1 .. n + 1
  BY <1>8, RowsOf
<1>10. \A i \in DOMAIN new : new[i] = row \/ \E j \in DOMAIN rs : rs[j].run # row.run /\ new[i] = rs[j]
  <2> TAKE i \in DOMAIN new
  <2>1. CASE i = n + 1
    BY <1>8, <2>1
  <2>2. CASE i # n + 1
    <3>1. i \in 1 .. n
      BY <1>6, <1>9, <2>2
    <3>2. new[i] = rs[others[i]] /\ others[i] \in left
      BY <1>4, <1>8, <3>1
    <3>3. QED
      BY <3>2
  <2>3. QED
    BY <2>1, <2>2
<1>11. n + 1 \in DOMAIN new
  BY <1>6, <1>9
<1>12. \A j \in DOMAIN rs : rs[j].run # row.run => \E i \in DOMAIN new : new[i] = rs[j]
  <2> SUFFICES ASSUME NEW j \in DOMAIN rs, rs[j].run # row.run PROVE \E i \in DOMAIN new : new[i] = rs[j]
    OBVIOUS
  <2>1. j \in left
    OBVIOUS
  <2>2. PICK i \in DOMAIN others : others[i] = j
    BY <1>3, <2>1
  <2>3. i \in 1 .. n
    BY <1>6, <2>2
  <2>4. i \in DOMAIN new /\ new[i] = rs[j]
    BY <1>4, <1>6, <1>8, <1>9, <2>2, <2>3
  <2>5. QED
    BY <2>4
<1>13. QED
  BY <1>8, <1>9, <1>10, <1>11, <1>12 DEF new, Replaces

\* A run is still shown after a row was entered, and the run of the row if the row
\* tells what it cost.
LEMMA UpsertedShows ==
  ASSUME NEW rs, IsRows(rs), NEW row, NEW r, NEW s, Tells(row, r, s), Shows(rs, r, s) \/ row.run = r
  PROVE  Shows(Upserted(rs, row), r, s)
<1> DEFINE new == Upserted(rs, row)
<1>1. Replaces(new, rs, row)
  BY UpsertedRows
<1> HIDE DEF new
<1>2. CASE row.run = r
  <2>1. \A i \in DOMAIN new : Tells(new[i], r, s)
    <3> TAKE i \in DOMAIN new
    <3>1. CASE new[i] = row
      BY <3>1
    <3>2. ASSUME NEW j \in DOMAIN rs, rs[j].run # row.run, new[i] = rs[j] PROVE Tells(new[i], r, s)
      BY <1>2, <3>2 DEF Tells
    <3>3. QED
      BY <1>1, <3>1, <3>2 DEF Replaces
  <2>2. QED
    BY <1>1, <1>2, <2>1 DEF Shows, Replaces, new
<1>3. CASE row.run # r
  <2>1. Shows(rs, r, s)
    BY <1>3
  <2>2. \A i \in DOMAIN new : Tells(new[i], r, s)
    BY <1>1, <2>1 DEF Shows, Replaces
  <2>3. \E i \in DOMAIN new : new[i].run = r
    <3>1. PICK j \in DOMAIN rs : rs[j].run = r
      BY <2>1 DEF Shows
    <3>2. QED
      BY <1>1, <1>3, <3>1 DEF Replaces
  <2>4. QED
    BY <2>2, <2>3 DEF Shows, new
<1>4. QED
  BY <1>2, <1>3

\* A rebuild shows every run that has a summary.
LEMMA RebuiltShows ==
  ASSUME NEW S, IsFiniteSet(S), S \subseteq Int
  PROVE  /\ IsRows(Rebuilt(S, summary, cost))
         /\ \A r \in S : summary[r] # Nothing => Shows(Rebuilt(S, summary, cost), r, summary[r])
<1> DEFINE some == {r \in S : summary[r] # <<>> \/ cost[r].total.turns > 0}
           kept == Sorted(some)
           Of(r) == IF summary[r] # <<>> THEN Row(r, summary[r], NoLabel, NoLabel) ELSE Unknown(r, cost[r])
           new == [i \in DOMAIN kept |-> Of(kept[i])]
           T == {Of(r) : r \in some}
<1>1. new = Rebuilt(S, summary, cost)
  BY DEF Rebuilt
<1>2. some \subseteq S
  OBVIOUS
<1>3. IsFiniteSet(some) /\ some \subseteq Int
  <2> HIDE DEF some
  <2>1. IsFiniteSet(some)
    BY <1>2, FS_Subset, Zenon
  <2>2. QED
    BY <1>2, <2>1
<1>4. Cardinality(some) \in Nat /\ kept \in [1 .. Cardinality(some) -> some] /\ \A x \in some : \E i \in DOMAIN kept : kept[i] = x
  <2> HIDE DEF some
  <2>1. QED
    BY <1>3, SortedEnumerates, FS_CardinalityType DEF Enumerates
<1>5. \A r \in some : Of(r).run = r /\ (summary[r] # Nothing => Tells(Of(r), r, summary[r]))
  BY DEF Row, Unknown, Tells, Nothing
<1>6. \A r \in S : summary[r] # Nothing => r \in some
  BY DEF Nothing
<1> HIDE DEF Of, kept, some
<1>7. new \in [1 .. Cardinality(some) -> T]
  BY <1>4
<1>8. IsRows(new)
  <2> HIDE DEF T, new
  <2>1. new \in Seq(T)
    BY <1>4, <1>7, FunctionSeq
  <2>2. QED
    BY <2>1, RowsOf
<1>9. ASSUME NEW r \in S, summary[r] # Nothing PROVE Shows(new, r, summary[r])
  <2>1. r \in some
    BY <1>6, <1>9
  <2>2. PICK i \in DOMAIN kept : kept[i] = r
    BY <1>4, <2>1
  <2>3. i \in DOMAIN new /\ new[i].run = r
    BY <1>5, <2>1, <2>2
  <2>4. ASSUME NEW j \in DOMAIN new PROVE Tells(new[j], r, summary[r])
    <3>1. new[j] = Of(kept[j]) /\ kept[j] \in some
      BY <1>4, <2>4
    <3>2. new[j].run = kept[j]
      BY <1>5, <3>1
    <3>3. CASE kept[j] = r
      BY <1>5, <1>9, <3>1, <3>3
    <3>4. CASE kept[j] # r
      BY <3>2, <3>4 DEF Tells
    <3>5. QED
      BY <3>3, <3>4
  <2> HIDE DEF new
  <2>5. QED
    BY <2>3, <2>4 DEF Shows
<1> HIDE DEF new
<1>10. QED
  BY <1>1, <1>8, <1>9

\* A run whose row is there to stay has just been entered, or was so before.
LEMMA EnteredBefore ==
  ASSUME PhaseInv, Next, NEW r \in AllJobs, Entered(r)'
  PROVE  summary'[r] = summary[r] /\ (Entered(r) \/ (r \in Jobs /\ WriteHistory(r)))
<1>1. phase'[r] = "done" /\ summary'[r] # Nothing /\ r \notin excused'
  BY DEF Entered
<1>2. Jobs \subseteq AllJobs /\ phase \in [AllJobs -> {"none", "summed", "loading", "done"} \cup Early]
  BY JobNumbers DEF PhaseInv
<1>3. CASE UNCHANGED history
  <2>1. summary' = summary /\ r \notin excused
    BY <1>1, <1>3 DEF history
  <2>2. ASSUME NEW s \in Jobs, NEW x, x # "done", phase' = [phase EXCEPT ![s] = x] PROVE phase[r] = "done"
    BY <1>1, <1>2, <2>2
  <2>3. CASE \E s \in Jobs : Summarize(s) \/ LoadHistory(s) \/ WriteHistory(s)
    <3>1. PICK s \in Jobs : Summarize(s) \/ LoadHistory(s) \/ WriteHistory(s)
      BY <2>3
    <3>2. WriteHistory(s) => s = r \/ phase[r] = "done"
      BY <1>1, <1>2 DEF WriteHistory
    <3>3. Summarize(s) \/ LoadHistory(s) => phase[r] = "done"
      BY <2>2 DEF Summarize, LoadHistory
    <3>4. QED
      BY <1>1, <2>1, <3>1, <3>2, <3>3 DEF Entered
  <2>4. Crash => phase[r] = "done"
    BY <1>1, <2>1, <1>2 DEF Crash, Early
  <2>5. CreateRun \/ CreateFails => phase[r] = "done"
    <3>1. CreateRun \/ CreateFails => batch.next \in Jobs /\ (phase' = phase \/ phase' = [phase EXCEPT ![batch.next] = "active"])
      BY DEF CreateRun, CreateFails, Created, runs
    <3>2. QED
      BY <1>1, <2>2, <3>1
  <2>6. QED
    BY <1>1, <2>1, <2>2, <2>3, <2>4, <2>5, PhaseFrame DEF Entered, Early
<1>4. ASSUME NEW s \in Jobs, Summarize(s) PROVE summary'[r] = summary[r] /\ Entered(r)
  <2>1. /\ phase[s] = "marked" /\ phase' = [phase EXCEPT ![s] = "summed"] /\ excused' = excused
        /\ \E v : summary' = [summary EXCEPT ![s] = v]
    BY <1>4 DEF Summarize
  <2>2. s # r /\ phase[r] = "done"
    BY <1>1, <1>2, <2>1
  <2>3. QED
    BY <1>1, <2>1, <2>2 DEF Entered
<1>5. ASSUME NEW s \in Jobs, LoadHistory(s) PROVE summary'[r] = summary[r] /\ Entered(r)
  BY <1>1, <1>2, <1>5 DEF LoadHistory, Entered
<1>6. ASSUME NEW w, NEW some, Noted(w, some) PROVE r \notin excused
  BY <1>1, <1>6 DEF Noted
<1>7. ASSUME NEW s \in Jobs, WriteHistory(s) PROVE summary'[r] = summary[r] /\ (Entered(r) \/ s = r)
  <2>1. r \notin excused /\ summary' = summary /\ phase' = [phase EXCEPT ![s] = "done"]
    BY <1>6, <1>7 DEF WriteHistory
  <2>2. QED
    BY <1>1, <1>2, <2>1 DEF Entered
<1>8. CASE Crash
  <2>1. /\ summary' = summary /\ excused' = excused \cup {x \in AllJobs : phase[x] \in {"marked", "summed", "loading"}}
        /\ phase' = [x \in AllJobs |-> CASE phase[x] \in {"active", "stopping", "over"} -> "stopped"
                                   [] phase[x] \in {"marked", "summed", "loading"} -> "done"
                                   [] OTHER -> phase[x]]
    BY <1>8 DEF Crash
  <2>2. phase[r] \notin {"marked", "summed", "loading"} /\ r \notin excused
    BY <1>1, <2>1
  <2>3. phase[r] = "done"
    BY <1>1, <2>1, <2>2
  <2>4. QED
    BY <1>1, <2>1, <2>2, <2>3 DEF Entered
<1>9. CASE RebuildScan \/ RebuildWrite \/ BatchLoad \/ BatchWrite
  <2>1. phase' = phase /\ summary' = summary
    BY <1>9 DEF RebuildScan, RebuildWrite, BatchLoad, BatchWrite, runs
  <2>2. r \notin excused
    BY <1>1, <1>6, <1>9 DEF RebuildScan, RebuildWrite, BatchLoad, BatchWrite
  <2>3. QED
    BY <1>1, <2>1, <2>2 DEF Entered
<1>10. QED
  BY <1>3, <1>4, <1>5, <1>7, <1>8, <1>9, HistoryFrame

\* What the batch is to write stays the summaries that were there.
LEMMA TodoStep ==
  ASSUME PhaseInv, BatchInv, BatchHolds, RowsInv, Next, batch'.pc = "upsert"
  PROVE  \A i \in DOMAIN batch'.todo : /\ batch'.todo[i] \in Jobs
                                       /\ batch'.read[batch'.todo[i]] = summary'[batch'.todo[i]]
                                       /\ summary'[batch'.todo[i]] # Nothing
<1> DEFINE Good(b, s) == \A i \in DOMAIN b.todo : b.todo[i] \in Jobs /\ b.read[b.todo[i]] = s[b.todo[i]] /\ s[b.todo[i]] # Nothing
<1>1. batch \in BatchType(batch) /\ batch.results \subseteq Before(batch.next) /\ batch.next \in 1 .. Len(limit.jobs) + 1
      /\ batch.todo \in Seq(Nat)
  BY DEF BatchInv, BatchShape, BatchType
<1>2. Jobs \subseteq AllJobs /\ Len(limit.jobs) \in Nat
  BY JobNumbers DEF PhaseInv
<1>3. ASSUME NEW b, Good(b, summary) PROVE Good(b, summary')
  <2>1. ASSUME NEW r \in Jobs, summary[r] # Nothing PROVE summary'[r] = summary[r]
    <3>1. ASSUME NEW s \in Jobs, Summarize(s) PROVE summary'[r] = summary[r]
      <4>1. phase[s] = "marked" /\ \E v : summary' = [summary EXCEPT ![s] = v]
        BY <3>1 DEF Summarize
      <4>2. summary[s] = Nothing
        BY <1>2, <4>1 DEF PhaseInv, Early
      <4>3. QED
        BY <2>1, <4>1, <4>2
    <3>2. QED
      BY <3>1, HistoryFrame DEF history, LoadHistory, WriteHistory, Crash, RebuildScan, RebuildWrite, BatchLoad, BatchWrite
  <2>2. QED
    BY <1>3, <2>1
<1>4. CASE UNCHANGED batch
  <2>1. Good(batch, summary)
    BY <1>4 DEF RowsInv
  <2>2. Good(batch, summary')
    BY <1>3, <2>1
  <2>3. QED
    BY <1>4, <2>2
<1>5. CASE ReadSummaries
  <2> DEFINE some == {r \in batch.results : summary[r] # Nothing}
             todo == Sorted(some)
             read == [r \in batch.results |-> summary[r]]
  <2>1. batch' = [batch EXCEPT !.pc = "upsert", !.read = read, !.todo = todo] /\ summary' = summary
    BY <1>5 DEF ReadSummaries, history
  <2>2. batch.next \in Nat /\ some \subseteq Before(batch.next)
    BY <1>1
  <2>3. IsFiniteSet(some) /\ some \subseteq Int
    <3> HIDE DEF some
    <3>1. QED
      BY <2>2, BeforeFinite
  <2>4. todo \in Seq(some)
    <3> HIDE DEF some
    <3>1. QED
      BY <2>3, SortedSeq
  <2>5. \A i \in DOMAIN todo : todo[i] \in some
    <3> HIDE DEF some, todo
    <3>1. QED
      BY <2>4, LenProperties, ElementOfSeq
  <2>6. \A r \in some : r \in Jobs /\ read[r] = summary[r] /\ summary[r] # Nothing
    BY <1>1, <1>2 DEF Before, Jobs
  <2> HIDE DEF some, todo, read
  <2>7. batch'.todo = todo /\ batch'.read = read
    BY <1>1, <2>1 DEF BatchType
  <2>8. QED
    BY <2>1, <2>5, <2>6, <2>7
<1>6. CASE BatchWrite
  <2>1. batch' = [batch EXCEPT !.todo = Tail(batch.todo)] /\ summary' = summary /\ batch.pc = "upsert" /\ batch.todo # <<>>
    BY <1>6 DEF BatchWrite, BatchHolds
  <2>2. batch'.todo = Tail(batch.todo) /\ batch'.read = batch.read
    BY <1>1, <2>1 DEF BatchType
  <2>3. Good(batch, summary)
    BY <2>1 DEF RowsInv
  <2>4. \A i \in DOMAIN Tail(batch.todo) : i + 1 \in DOMAIN batch.todo /\ Tail(batch.todo)[i] = batch.todo[i + 1]
    BY <1>1, <2>1
  <2>5. QED
    BY <2>1, <2>2, <2>3, <2>4
<1>7. QED
  BY <1>4, <1>5, <1>6, BatchMoves

\* Every step keeps the rows of the runs that have been entered.
LEMMA RowsStep == ASSUME PhaseInv, BatchInv, BatchHolds, RowsInv, Next PROVE RowsInv'
<1> DEFINE All(rs, he) == IsRows(rs) /\ \A w \in DOMAIN he : IsRows(he[w])
           Kept(r, rs, he, s) == Shows(rs, r, s) /\ \A w \in DOMAIN he : Shows(he[w], r, s)
<1>1. /\ Jobs \subseteq AllJobs /\ AllJobs \subseteq Nat \ {0} /\ All(rows, held) /\ Len(limit.jobs) \in Nat
      /\ Jobs = 1 .. Len(limit.jobs)
      /\ \A r \in AllJobs : Entered(r) => Kept(r, rows, held, summary[r])
      /\ \A r \in AllJobs : r \in DOMAIN held <=> lock = r
  BY JobNumbers DEF PhaseInv, RowsInv, Jobs
<1>2. ASSUME All(rows', held'), \A r \in AllJobs : Entered(r)' => Kept(r, rows', held', summary'[r])
      PROVE  RowsInv'
  <2>1. Jobs' = Jobs
    BY LimitFixed DEF Jobs
  <2> HIDE DEF All, Kept
  <2>2. batch'.pc = "upsert" =>
          \A i \in DOMAIN batch'.todo : /\ batch'.todo[i] \in Jobs'
                                        /\ batch'.read[batch'.todo[i]] = summary'[batch'.todo[i]]
                                        /\ summary'[batch'.todo[i]] # Nothing
    BY <2>1, TodoStep
  <2>3. QED
    BY <1>2, <2>2 DEF RowsInv, All, Kept
<1>3. ASSUME NEW r \in AllJobs, Entered(r)', ~WriteHistory(r)
      PROVE  summary'[r] = summary[r] /\ Entered(r) /\ Kept(r, rows, held, summary'[r])
  BY <1>1, <1>3, EnteredBefore
\* Nothing is read or written.
<1>4. ASSUME rows' = rows, \A w \in DOMAIN held' : w \in DOMAIN held /\ held'[w] = held[w],
             \A r \in AllJobs : Entered(r)' => ~WriteHistory(r)
      PROVE  RowsInv'
  <2>1. All(rows', held')
    BY <1>1, <1>4
  <2>2. \A r \in AllJobs : Entered(r)' => Kept(r, rows', held', summary'[r])
    BY <1>3, <1>4
  <2>3. QED
    BY <1>2, <2>1, <2>2
\* A writer reads rows that show what has been entered.
<1>5. ASSUME NEW w, NEW rs, rows' = rows, held' = With(held, w, rs), IsRows(rs),
             \A r \in AllJobs : Entered(r)' => ~WriteHistory(r),
             \A r \in AllJobs : Entered(r) => Shows(rs, r, summary[r])
      PROVE  RowsInv'
  <2>1. \A x \in DOMAIN held' : held'[x] = rs \/ (x \in DOMAIN held /\ held'[x] = held[x])
    BY <1>5 DEF With
  <2>2. All(rows', held')
    BY <1>1, <1>5, <2>1
  <2>3. ASSUME NEW r \in AllJobs, Entered(r)' PROVE Kept(r, rows', held', summary'[r])
    BY <1>3, <1>5, <2>1, <2>3
  <2>4. QED
    BY <1>2, <2>2, <2>3
<1>6. ASSUME NEW s \in Jobs, LoadHistory(s) PROVE RowsInv'
  <2>1. rows' = rows /\ held' = With(held, s, rows) /\ phase' = [phase EXCEPT ![s] = "loading"] /\ phase[s] = "summed"
    BY <1>6 DEF LoadHistory, Reads
  <2>2. \A r \in AllJobs : Entered(r)' => ~WriteHistory(r)
    BY <2>1 DEF Entered, WriteHistory, PhaseInv
  <2>3. \A r \in AllJobs : Entered(r) => Shows(rows, r, summary[r])
    BY <1>1
  <2>4. IsRows(rows)
    BY <1>1
  <2>5. QED
    BY <1>5, <2>1, <2>2, <2>3, <2>4
<1>7. CASE BatchLoad
  <2>1. rows' = rows /\ held' = With(held, Batch, rows) /\ phase' = phase
    BY <1>7 DEF BatchLoad, Reads, runs
  <2>2. \A r \in AllJobs : Entered(r)' => ~WriteHistory(r)
    BY <2>1 DEF Entered, WriteHistory
  <2>3. \A r \in AllJobs : Entered(r) => Shows(rows, r, summary[r])
    BY <1>1
  <2>4. IsRows(rows)
    BY <1>1
  <2>5. QED
    BY <1>5, <2>1, <2>2, <2>3, <2>4
<1>8. CASE RebuildScan
  <2> DEFINE S == {r \in AllJobs : phase[r] # "none"}
             rs == Rebuilt(S, summary, cost)
  <2>1. rows' = rows /\ held' = With(held, Rebuild, rs) /\ phase' = phase
    BY <1>8 DEF RebuildScan, runs
  <2>2. \A r \in AllJobs : Entered(r)' => ~WriteHistory(r)
    BY <2>1 DEF Entered, WriteHistory
  <2>3. S \subseteq 1 .. Len(limit.jobs)
    BY <1>1 DEF PhaseInv
  <2>4. IsFiniteSet(1 .. Len(limit.jobs))
    BY <1>1, FS_Interval
  <2>5. IsFiniteSet(S)
    <3> HIDE DEF S
    <3>1. QED
      BY <2>3, <2>4, FS_Subset, Zenon
  <2>6. S \subseteq Int
    BY <2>3
  <2>7. \A r \in AllJobs : Entered(r) => r \in S /\ summary[r] # Nothing
    BY DEF Entered
  <2> HIDE DEF S
  <2>8. IsRows(rs) /\ \A r \in S : summary[r] # Nothing => Shows(rs, r, summary[r])
    BY <2>5, <2>6, RebuiltShows
  <2> HIDE DEF rs
  <2>9. QED
    BY <1>5, <2>1, <2>2, <2>7, <2>8
\* A writer writes what it has read, with a row that tells the cost of its run.
<1>9. ASSUME NEW w \in DOMAIN held, NEW rs, IsRows(rs), Writes(w, rs),
             \A r \in AllJobs : Entered(r)' => ~WriteHistory(r) /\ Shows(rs, r, summary[r])
      PROVE  RowsInv'
  <2>1. rows' = rs /\ \A x \in DOMAIN held' : x \in DOMAIN held /\ held'[x] = held[x]
    BY <1>9 DEF Writes
  <2>2. All(rows', held')
    BY <1>1, <1>9, <2>1
  <2>3. ASSUME NEW r \in AllJobs, Entered(r)' PROVE Kept(r, rows', held', summary'[r])
    BY <1>3, <1>9, <2>1, <2>3
  <2>4. QED
    BY <1>2, <2>2, <2>3
<1>10. CASE RebuildWrite
  <2>1. Rebuild \in DOMAIN held /\ Writes(Rebuild, held[Rebuild]) /\ phase' = phase
    BY <1>10 DEF RebuildWrite, runs
  <2>2. \A r \in AllJobs : Entered(r)' => ~WriteHistory(r)
    BY <2>1 DEF Entered, WriteHistory
  <2>3. \A r \in AllJobs : Entered(r)' => Shows(held[Rebuild], r, summary[r])
    BY <1>3, <2>1, <2>2
  <2>4. QED
    BY <1>1, <1>9, <2>1, <2>2, <2>3
<1>11. CASE BatchWrite
  <2> DEFINE s == Head(batch.todo)
             row == Row(s, batch.read[s], "model", "batch")
             rs == Upserted(held[Batch], row)
  <2>1. Batch \in DOMAIN held /\ Writes(Batch, rs) /\ phase' = phase /\ batch.pc = "upsert"
    BY <1>11 DEF BatchWrite, runs
  <2>2. \A r \in AllJobs : Entered(r)' => ~WriteHistory(r)
    BY <2>1 DEF Entered, WriteHistory
  <2>3. batch.todo \in Seq(Nat) /\ batch.todo # <<>>
    BY <2>1 DEF BatchInv, BatchShape, BatchType, BatchHolds
  <2>4. 1 \in DOMAIN batch.todo /\ s = batch.todo[1]
    BY <2>3
  <2>5. batch.read[s] = summary[s]
    BY <2>1, <2>4 DEF RowsInv
  <2>6. \A r \in AllJobs : Tells(row, r, summary[r])
    BY <2>5 DEF Row, Tells
  <2> HIDE DEF row
  <2>7. IsRows(held[Batch])
    BY <1>1, <2>1
  <2>8. ASSUME NEW r \in AllJobs, Entered(r)' PROVE Shows(rs, r, summary[r])
    <3>1. Shows(held[Batch], r, summary[r]) /\ Tells(row, r, summary[r])
      BY <1>3, <2>1, <2>2, <2>6, <2>8
    <3>2. QED
      BY <2>7, <3>1, UpsertedShows
  <2>9. IsRows(rs)
    BY <2>7, UpsertedRows
  <2> HIDE DEF rs
  <2>10. QED
    BY <1>9, <2>1, <2>2, <2>8, <2>9
<1>12. ASSUME NEW s \in Jobs, WriteHistory(s) PROVE RowsInv'
  <2> DEFINE row == Row(s, summary[s], NoLabel, NoLabel)
             rs == Upserted(held[s], row)
  <2>1. /\ phase[s] = "loading" /\ Writes(s, rs) /\ Noted(s, {s}) /\ summary' = summary
        /\ phase' = [phase EXCEPT ![s] = "done"]
    BY <1>12 DEF WriteHistory
  <2>2. s \in DOMAIN held /\ s \in AllJobs /\ lock = s
    BY <1>1, <2>1 DEF PhaseInv
  <2>3. \A r \in AllJobs : Tells(row, r, summary[r])
    BY DEF Row, Tells
  <2>4. row.run = s
    BY DEF Row
  <2> HIDE DEF row
  <2>5. IsRows(held[s])
    BY <1>1, <2>2
  <2>6. ASSUME NEW r \in AllJobs, Entered(r)', r # s PROVE Entered(r) /\ Kept(r, rows, held, summary[r])
    <3>1. ~WriteHistory(r)
      <4>1. WriteHistory(r) => phase[r] = "loading"
        BY DEF WriteHistory
      <4>2. phase[r] = "loading" => lock = r
        BY DEF PhaseInv
      <4>3. QED
        BY <2>2, <2>6, <4>1, <4>2
    <3>2. QED
      BY <1>3, <2>1, <2>6, <3>1
  <2>7. ASSUME NEW r \in AllJobs, Entered(r)' PROVE Shows(rs, r, summary[r])
    <3>1. CASE r = s
      BY <2>3, <2>4, <2>5, <3>1, UpsertedShows
    <3>2. CASE r # s
      <4>1. Shows(held[s], r, summary[r]) /\ Tells(row, r, summary[r])
        BY <2>2, <2>3, <2>6, <2>7, <3>2
      <4>2. QED
        BY <2>5, <4>1, UpsertedShows
    <3>3. QED
      BY <3>1, <3>2
  <2>8. IsRows(rs)
    BY <2>5, UpsertedRows
  <2> HIDE DEF rs
  <2>9. rows' = rs /\ held' = [x \in DOMAIN held \ {s} |-> held[x]]
    BY <2>1 DEF Writes
  <2>10. All(rows', held')
    BY <1>1, <2>8, <2>9
  \* Another writer that has read before would lose the row of s: it is excused.
  <2>11. ASSUME NEW r \in AllJobs, Entered(r)', NEW x \in DOMAIN held' PROVE Shows(held'[x], r, summary[r])
    <3>1. x \in DOMAIN held /\ x # s /\ held'[x] = held[x]
      BY <2>9, <2>11
    <3>2. CASE r = s
      <4>1. s \notin excused'
        BY <2>11, <3>2 DEF Entered
      <4>2. Foreign(s) = {}
        BY <2>1, <4>1 DEF Noted
      <4>3. x \in AllJobs
        BY <3>1, <4>2 DEF Foreign
      <4>4. lock = x
        BY <1>1, <3>1, <4>3
      <4>5. QED
        BY <2>2, <3>1, <4>4
    <3>3. CASE r # s
      BY <2>6, <2>11, <3>1, <3>3
    <3>4. QED
      BY <3>2, <3>3
  <2>12. \A r \in AllJobs : Entered(r)' => Kept(r, rows', held', summary'[r])
    BY <2>1, <2>7, <2>9, <2>11
  <2>13. QED
    BY <1>2, <2>10, <2>12
<1>13. ASSUME NEW s \in Jobs, Summarize(s) PROVE RowsInv'
  <2>1. rows' = rows /\ held' = held /\ phase' = [phase EXCEPT ![s] = "summed"] /\ phase[s] = "marked"
    BY <1>13 DEF Summarize
  <2>2. \A r \in AllJobs : Entered(r)' => ~WriteHistory(r)
    BY <2>1 DEF Entered, WriteHistory, PhaseInv
  <2>3. QED
    BY <1>4, <2>1, <2>2
<1>14. CASE Crash
  <2>1. /\ rows' = rows /\ \A w \in DOMAIN held' : w \in DOMAIN held /\ held'[w] = held[w]
        /\ excused' = excused \cup {r \in AllJobs : phase[r] \in {"marked", "summed", "loading"}}
    BY <1>14 DEF Crash
  <2>2. \A r \in AllJobs : Entered(r)' => ~WriteHistory(r)
    BY <2>1 DEF Entered, WriteHistory
  <2>3. QED
    BY <1>4, <2>1, <2>2
<1>15. CASE UNCHANGED history
  <2>1. CASE \E s \in Jobs : WriteHistory(s)
    BY <1>12, <2>1
  <2>2. CASE ~\E s \in Jobs : WriteHistory(s)
    <3>1. rows' = rows /\ held' = held
      BY <1>15 DEF history
    <3>2. \A r \in AllJobs : WriteHistory(r) => r \in Jobs
      BY DEF WriteHistory, PhaseInv
    <3>3. QED
      BY <1>4, <2>2, <3>1, <3>2
  <2>3. QED
    BY <2>1, <2>2
<1>16. QED
  BY <1>6, <1>7, <1>8, <1>10, <1>11, <1>12, <1>13, <1>14, <1>15, HistoryFrame

\* The first state.
LEMMA RowsInit == ASSUME Init PROVE PhaseInv /\ RowsInv
<1>1. /\ phase = [r \in AllJobs |-> "none"] /\ summary = [r \in AllJobs |-> Nothing] /\ rows = <<>> /\ held = <<>>
      /\ lock = None /\ limit \in Limits
      /\ batch = [pc |-> "fill", next |-> 1, active |-> {}, todo |-> <<>>, completed |-> {}, results |-> {},
                  failures |-> <<>>, read |-> <<>>]
  BY DEF Init
<1>2. AllJobs \subseteq Nat \ {0} /\ Jobs \subseteq AllJobs
  BY <1>1, JobNumbers
<1>3. DOMAIN held = {}
  BY <1>1
<1>4. PhaseInv
  BY <1>1, <1>2, <1>3 DEF PhaseInv, None
<1>5. \A r \in AllJobs : ~Entered(r)
  BY <1>1 DEF Entered
<1>6. IsRows(rows)
  BY <1>1, EmptySeq DEF IsRows
<1>7. RowsInv
  BY <1>1, <1>3, <1>5, <1>6 DEF RowsInv
<1>8. QED
  BY <1>4, <1>7

\* The index has the last row of a run that is shown.
LEMMA IndexShows ==
  ASSUME NEW rs, IsRows(rs), NEW r, NEW s, Shows(rs, r, s)
  PROVE  r \in DOMAIN Index(rs) /\ Index(rs)[r].turns = s.total.turns /\ Index(rs)[r].usd = s.total.usd
<1> DEFINE some == {i \in DOMAIN rs : rs[i].run = r}
<1>1. DOMAIN rs = 1 .. Len(rs) /\ Len(rs) \in Nat
  BY RowsOf DEF IsRows
<1>2. some # {}
  BY DEF Shows
<1>3. some \subseteq 1 .. Len(rs) /\ IsFiniteSet(1 .. Len(rs))
  BY <1>1, FS_Interval
<1>4. IsFiniteSet(some)
  <2> HIDE DEF some
  <2>1. QED
    BY <1>3, FS_Subset, Zenon
<1>5. some \subseteq Int
  BY <1>3
<1>6. Max(some) \in some
  <2> HIDE DEF some
  <2>1. QED
    BY <1>2, <1>4, <1>5, LeastGreatest
<1>7. r \in {rs[i].run : i \in DOMAIN rs}
  BY DEF Shows
<1>8. r \in DOMAIN Index(rs) /\ Index(rs)[r] = rs[Max(some)]
  BY <1>7 DEF Index
<1>9. QED
  BY <1>6, <1>8 DEF Shows, Tells

\* A run that ended, and was not raced by a writer that had read before, keeps its
\* row with what it cost (storage/agent_log.py, the upserts and the rebuild).
THEOREM TheHistoryKeepsItsRows == Spec => []HistoryKeeps
<1>1. PhaseInv /\ RowsInv /\ limit \in Limits /\ BatchInv /\ BatchHolds /\ [Next]_vars => (PhaseInv /\ RowsInv)'
  <2>1. PhaseInv /\ RowsInv /\ UNCHANGED vars => (PhaseInv /\ RowsInv)'
    <3> SUFFICES ASSUME PhaseInv, RowsInv, UNCHANGED vars PROVE (PhaseInv /\ RowsInv)'
      OBVIOUS
    <3>1. UNCHANGED <<limit, phase, summary, rows, held, lock, excused, batch>>
      BY DEF vars, runs, history, bounds
    <3>2. PhaseInv'
      BY <3>1 DEF PhaseInv, Jobs
    <3>3. RowsInv'
      BY <3>1 DEF RowsInv, Jobs, Entered
    <3>4. QED
      BY <3>2, <3>3
  <2>2. QED
    BY <2>1, PhaseStep, RowsStep
<1>2. PhaseInv /\ RowsInv => HistoryKeeps
  <2> SUFFICES ASSUME PhaseInv, RowsInv, NEW r \in Jobs, phase[r] = "done", summary[r] # Nothing, r \notin excused
               PROVE  /\ r \in DOMAIN Index(rows)
                      /\ Index(rows)[r].turns = summary[r].total.turns /\ Index(rows)[r].usd = summary[r].total.usd
    BY DEF HistoryKeeps
  <2>1. r \in AllJobs /\ Entered(r)
    BY JobNumbers DEF PhaseInv, Entered
  <2>2. IsRows(rows) /\ Shows(rows, r, summary[r])
    BY <2>1 DEF RowsInv
  <2>3. QED
    BY <2>2, IndexShows
<1>3. Spec => [](limit \in Limits /\ BatchInv /\ BatchHolds)
  BY BatchInit, BatchStep, PTL DEF Spec
<1>4. QED
  BY <1>1, <1>2, <1>3, RowsInit, PTL DEF Spec

-----------------------------------------------------------------------------
(* Sums of amounts.                                                        *)

Amounts == [DOMAIN Zero -> Int]

\* The sum of f over S, in the terms of the library.
Total(f, S) == FoldFunctionOnSet(Plus, Zero, f, S)

\* Amounts are added in any order.
LEMMA PlusLaws ==
  /\ Zero \in Amounts
  /\ \A a, b \in Amounts : Plus(a, b) \in Amounts /\ Minus(a, b) \in Amounts /\ Plus(a, b) = Plus(b, a)
  /\ \A a \in Amounts : Plus(Zero, a) = a
  /\ \A a, b, c \in Amounts : Plus(a, Plus(b, c)) = Plus(b, Plus(a, c))
  /\ \A a, b, c \in Amounts : Plus(Minus(Plus(a, b), a), c) = Plus(c, b)
<1>1. Zero = [k \in DOMAIN Zero |-> 0]
  BY DEF Zero
<1>2. \A k \in DOMAIN Zero : Zero[k] = 0
  BY DEF Zero
<1> HIDE DEF Zero
<1> DEFINE D == DOMAIN Zero
<1>3. Zero \in Amounts
  BY <1>1 DEF Amounts
<1>4. ASSUME NEW a \in Amounts, NEW b \in Amounts, NEW c \in Amounts
      PROVE  /\ Plus(a, b) \in Amounts /\ Minus(a, b) \in Amounts /\ Plus(a, b) = Plus(b, a)
             /\ Plus(Zero, a) = a /\ Plus(a, Plus(b, c)) = Plus(b, Plus(a, c))
             /\ Plus(Minus(Plus(a, b), a), c) = Plus(c, b)
  <2>1. \A k \in D : a[k] \in Int /\ b[k] \in Int /\ c[k] \in Int
    BY DEF Amounts
  <2>2. Plus(a, b) \in Amounts /\ Minus(a, b) \in Amounts /\ Plus(a, b) = Plus(b, a)
    BY <2>1 DEF Plus, Minus, Amounts
  <2>3. Plus(Zero, a) = a
    <3>1. a = [k \in D |-> a[k]]
      BY DEF Amounts
    <3>2. [k \in D |-> Zero[k] + a[k]] = [k \in D |-> a[k]]
      BY <1>2, <2>1
    <3>3. QED
      BY <3>1, <3>2 DEF Plus
  <2>4. Plus(a, Plus(b, c)) = Plus(b, Plus(a, c))
    BY <2>1 DEF Plus
  <2>5. Plus(Minus(Plus(a, b), a), c) = Plus(c, b)
    BY <2>1 DEF Plus, Minus
  <2>6. QED
    BY <2>2, <2>3, <2>4, <2>5
<1>5. QED
  BY <1>3, <1>4

\* Two amounts that are added to a third, in either order.
LEMMA PlusSwap ==
  ASSUME NEW a \in Amounts, NEW b \in Amounts, NEW c \in Amounts
  PROVE  Plus(a, Plus(b, c)) = Plus(b, Plus(a, c))
BY PlusLaws

\* The element that the fold of the library takes next.
First(S) == CHOOSE x \in S : TRUE

\* g gives the partial sums of f over the subsets of A.
PartialSums(f, A, g) ==
  g = [s \in SUBSET A |->
         IF s = {} THEN Zero ELSE Plus(f[First(s)], g[s \ {First(s)}])]

\* The element taken is an element.
LEMMA FirstIn == \A S : S # {} => First(S) \in S
BY DEF First

\* The fold of the library, in the terms of this module.
LEMMA SumUnfold ==
  \A f, S : Total(f, S) = (CHOOSE g : PartialSums(f, S, g))[S]
BY DEF Total, FoldFunctionOnSet, MapThenFoldSet, PartialSums, First

\* The partial sums over a set depend only on the values in that set.
LEMMA PartialSumsAgree ==
  ASSUME NEW f, NEW g, NEW A, NEW B, NEW h, NEW k,
         PartialSums(f, A, h), PartialSums(g, B, k),
         NEW S, IsFiniteSet(S), S \subseteq A, S \subseteq B,
         \A x \in S : f[x] = g[x]
  PROVE  h[S] = k[S]
<1> DEFINE C == {T \in SUBSET S : h[T] # k[T]}
<1> SUFFICES ASSUME C # {} PROVE FALSE
  OBVIOUS
<1>1. PICK T \in C : \A U \in C : ~(U \subseteq T /\ U # T)
  <2>1. C \subseteq SUBSET S
    OBVIOUS
  <2> HIDE DEF C
  <2>2. QED
    BY <2>1, MinimalSubset
<1>2. \A s \in SUBSET S :
        /\ h[s] = IF s = {} THEN Zero ELSE Plus(f[First(s)], h[s \ {First(s)}])
        /\ k[s] = IF s = {} THEN Zero ELSE Plus(g[First(s)], k[s \ {First(s)}])
  BY DEF PartialSums
<1>3. T # {}
  BY <1>2
<1>4. First(T) \in T
  BY <1>3, FirstIn
<1>5. h[T \ {First(T)}] = k[T \ {First(T)}]
  BY <1>1, <1>4
<1>6. f[First(T)] = g[First(T)]
  BY <1>4
<1>7. QED
  BY <1>1, <1>2, <1>3, <1>5, <1>6

\* A finite set has partial sums.
LEMMA PartialSumsExist ==
  ASSUME NEW f, NEW S, IsFiniteSet(S)
  PROVE  \E g : PartialSums(f, S, g)
<1> DEFINE C == {T \in SUBSET S : ~\E g : PartialSums(f, T, g)}
<1> SUFFICES ASSUME C # {} PROVE FALSE
  OBVIOUS
<1>1. PICK T \in C : \A U \in C : ~(U \subseteq T /\ U # T)
  <2>1. C \subseteq SUBSET S
    OBVIOUS
  <2> HIDE DEF C
  <2>2. QED
    BY <2>1, MinimalSubset
<1> DEFINE P(U) == CHOOSE g : PartialSums(f, U, g)
           Rest(s) == s \ {First(s)}
           h == [s \in SUBSET T |->
                   IF s = {} THEN Zero ELSE Plus(f[First(s)], P(Rest(s))[Rest(s)])]
<1>2. \A s \in SUBSET T : s # {} => Rest(s) \in SUBSET T /\ Rest(s) # T
  BY FirstIn
<1>3. \A U \in SUBSET T : U # T => PartialSums(f, U, P(U))
  <2>1. ASSUME NEW U \in SUBSET T, U # T PROVE \E g : PartialSums(f, U, g)
    BY <1>1, <2>1
  <2>2. QED
    BY <2>1
<1>4. ASSUME NEW s \in SUBSET T, s # T PROVE h[s] = P(s)[s]
  <2>1. PartialSums(f, s, P(s)) /\ s \in SUBSET s
    BY <1>3, <1>4
  <2> HIDE DEF P
  <2>2. P(s)[s] = IF s = {} THEN Zero ELSE Plus(f[First(s)], P(s)[Rest(s)])
    BY <2>1 DEF PartialSums
  <2>3. h[s] = IF s = {} THEN Zero ELSE Plus(f[First(s)], P(Rest(s))[Rest(s)])
    OBVIOUS
  <2>4. ASSUME s # {} PROVE P(s)[Rest(s)] = P(Rest(s))[Rest(s)]
    <3>1. PartialSums(f, Rest(s), P(Rest(s)))
      BY <1>2, <1>3, <2>4
    <3>2. IsFiniteSet(Rest(s))
      BY FS_Subset
    <3>3. QED
      BY <2>1, <3>1, <3>2, PartialSumsAgree
  <2>5. QED
    BY <2>2, <2>3, <2>4
<1>5. PartialSums(f, T, h)
  <2> HIDE DEF P
  <2>1. h = [s \in SUBSET T |-> IF s = {} THEN Zero ELSE Plus(f[First(s)], h[Rest(s)])]
    BY <1>2, <1>4
  <2>2. QED
    BY <2>1 DEF PartialSums
<1>6. QED
  BY <1>1, <1>5

\* The sum over a finite set is the value of the element taken first, plus the
\* sum over the others.
LEMMA SumFirst ==
  ASSUME NEW f, NEW S, IsFiniteSet(S)
  PROVE  Total(f, S) =
           IF S = {} THEN Zero
           ELSE Plus(f[First(S)], Total(f, S \ {First(S)}))
<1> DEFINE R == S \ {First(S)}
           P(U) == CHOOSE g : PartialSums(f, U, g)
<1>1. IsFiniteSet(R)
  BY FS_RemoveElement
<1>2. PartialSums(f, S, P(S)) /\ PartialSums(f, R, P(R))
  BY <1>1, PartialSumsExist
<1>3. Total(f, S) = P(S)[S] /\ Total(f, R) = P(R)[R]
  BY SumUnfold
<1> HIDE DEF P
<1>4. P(S)[S] = IF S = {} THEN Zero ELSE Plus(f[First(S)], P(S)[R])
  BY <1>2 DEF PartialSums
<1>5. P(S)[R] = P(R)[R]
  BY <1>1, <1>2, PartialSumsAgree
<1>6. QED
  BY <1>3, <1>4, <1>5

\* The sum over no element.
LEMMA SumEmpty == \A f : Total(f, {}) = Zero
BY SumFirst, FS_EmptySet

\* A sum of amounts is an amount.
LEMMA SumTyped ==
  ASSUME NEW S, IsFiniteSet(S), NEW f, \A x \in S : f[x] \in Amounts
  PROVE  Total(f, S) \in Amounts
<1> DEFINE C == {T \in SUBSET S : Total(f, T) \notin Amounts}
<1> SUFFICES ASSUME C # {} PROVE FALSE
  OBVIOUS
<1>1. PICK T \in C : \A U \in C : ~(U \subseteq T /\ U # T)
  <2>1. C \subseteq SUBSET S
    OBVIOUS
  <2> HIDE DEF C
  <2>2. QED
    BY <2>1, MinimalSubset
<1>2. IsFiniteSet(T)
  BY FS_Subset
<1>3. T # {}
  <2>1. Total(f, T) # Zero
    BY PlusLaws
  <2>2. QED
    BY <2>1, SumEmpty, Zenon
<1>4. First(T) \in T
  BY <1>3, FirstIn
<1>5. Total(f, T \ {First(T)}) \in Amounts /\ f[First(T)] \in Amounts
  BY <1>1, <1>4
<1>6. Total(f, T) = Plus(f[First(T)], Total(f, T \ {First(T)}))
  BY <1>2, <1>3, SumFirst
<1>7. Plus(f[First(T)], Total(f, T \ {First(T)})) \in Amounts
  BY <1>5, PlusLaws
<1>8. QED
  BY <1>1, <1>6, <1>7

\* A sum depends only on the values in the set.
LEMMA SumAgree ==
  ASSUME NEW S, IsFiniteSet(S), NEW f, NEW g, \A x \in S : f[x] = g[x]
  PROVE  Total(f, S) = Total(g, S)
<1> DEFINE P(h) == CHOOSE k : PartialSums(h, S, k)
<1>1. PartialSums(f, S, P(f)) /\ PartialSums(g, S, P(g))
  BY PartialSumsExist
<1>2. Total(f, S) = P(f)[S] /\ Total(g, S) = P(g)[S]
  BY SumUnfold
<1> HIDE DEF P
<1>3. QED
  BY <1>1, <1>2, PartialSumsAgree

\* A sum is the value of any one of its elements, plus the sum over the others.
LEMMA SumRemove ==
  ASSUME NEW S, IsFiniteSet(S), NEW f, \A y \in S : f[y] \in Amounts, NEW x \in S
  PROVE  Total(f, S) = Plus(f[x], Total(f, S \ {x}))
<1> DEFINE Whole(T) == Total(f, T)
           Splits(T, y) == Whole(T) = Plus(f[y], Whole(T \ {y}))
           C == {T \in SUBSET S : \E y \in T : ~Splits(T, y)}
<1>1. \A T \in SUBSET S : /\ IsFiniteSet(T) /\ Whole(T) \in Amounts
                          /\ T # {} => Splits(T, First(T))
  <2> SUFFICES ASSUME NEW T \in SUBSET S
               PROVE  /\ IsFiniteSet(T) /\ Whole(T) \in Amounts
                      /\ T # {} => Splits(T, First(T))
    OBVIOUS
  <2>1. IsFiniteSet(T)
    BY FS_Subset
  <2>2. Whole(T) \in Amounts
    BY <2>1, SumTyped
  <2>3. QED
    BY <2>1, <2>2, SumFirst
<1>2. SUFFICES ASSUME C # {} PROVE FALSE
  OBVIOUS
<1>3. PICK T \in C : \A U \in C : ~(U \subseteq T /\ U # T)
  <2>1. C \subseteq SUBSET S
    OBVIOUS
  <2> HIDE DEF C
  <2>2. QED
    BY <1>2, <2>1, MinimalSubset
<1>4. PICK y \in T : ~Splits(T, y)
  OBVIOUS
<1>5. \A U \in SUBSET T : U # T => \A z \in U : Splits(U, z)
  BY <1>3
<1>6. PICK p \in T : p = First(T)
  BY <1>4, FirstIn
<1>7. p # y /\ Splits(T, p)
  BY <1>1, <1>3, <1>4, <1>6
<1>8. Splits(T \ {p}, y) /\ Splits(T \ {y}, p)
  BY <1>4, <1>5, <1>7
<1>9. (T \ {p}) \ {y} = (T \ {y}) \ {p}
  OBVIOUS
<1>10. /\ f[p] \in Amounts /\ f[y] \in Amounts
       /\ Whole((T \ {y}) \ {p}) \in Amounts
  <2>1. (T \ {y}) \ {p} \in SUBSET S
    BY <1>3
  <2>2. QED
    BY <1>1, <2>1
<1>11. PICK n \in Amounts : n = Whole((T \ {y}) \ {p}) /\ n = Whole((T \ {p}) \ {y})
  BY <1>9, <1>10
<1>12. /\ Whole(T) # Plus(f[y], Whole(T \ {y}))
       /\ Whole(T) = Plus(f[p], Whole(T \ {p}))
       /\ Whole(T \ {p}) = Plus(f[y], n)
       /\ Whole(T \ {y}) = Plus(f[p], n)
  BY <1>4, <1>7, <1>8, <1>11
<1>13. Plus(f[y], Plus(f[p], n)) = Plus(f[p], Plus(f[y], n))
  <2>1. f[p] \in Amounts /\ f[y] \in Amounts /\ n \in Amounts
    BY <1>10, <1>11
  <2>2. QED
    BY <2>1, PlusSwap
<1> HIDE DEF Whole
<1>14. QED
  BY <1>12, <1>13

\* A function with another value has that value instead in its sum.
LEMMA SumWith ==
  ASSUME NEW f, IsFiniteSet(DOMAIN f), \A x \in DOMAIN f : f[x] \in Amounts, NEW k, NEW v \in Amounts
  PROVE  /\ DOMAIN With(f, k, v) = DOMAIN f \cup {k} /\ IsFiniteSet(DOMAIN f \cup {k})
         /\ \A x \in DOMAIN f \cup {k} : With(f, k, v)[x] \in Amounts
         /\ Total(f, DOMAIN f \ {k}) \in Amounts
         /\ Total(With(f, k, v), DOMAIN f \cup {k}) = Plus(v, Total(f, DOMAIN f \ {k}))
         /\ Total(f, DOMAIN f) = Plus(IF k \in DOMAIN f THEN f[k] ELSE Zero, Total(f, DOMAIN f \ {k}))
<1> DEFINE D == DOMAIN f \cup {k}
           R == DOMAIN f \ {k}
           g == With(f, k, v)
<1>1. IsFiniteSet(R) /\ IsFiniteSet(D)
  BY FS_AddElement, FS_RemoveElement
<1>2. DOMAIN g = D /\ g[k] = v /\ \A x \in R : g[x] = f[x] /\ x \in DOMAIN f
  BY DEF With
<1>3. \A x \in D : g[x] \in Amounts
  BY <1>2
<1>4. D \ {k} = R /\ k \in D
  OBVIOUS
<1> HIDE DEF g
<1>5. Total(g, D) = Plus(v, Total(g, R))
  <2> HIDE DEF D, R
  <2>1. QED
    BY <1>1, <1>2, <1>3, <1>4, SumRemove
<1>6. Total(g, R) = Total(f, R) /\ Total(f, R) \in Amounts
  <2>1. \A x \in R : f[x] \in Amounts /\ g[x] = f[x]
    BY <1>2
  <2> HIDE DEF R
  <2>2. QED
    BY <1>1, <2>1, SumAgree, SumTyped
<1>7. Total(f, DOMAIN f) = Plus(IF k \in DOMAIN f THEN f[k] ELSE Zero, Total(f, R))
  <2>1. CASE k \in DOMAIN f
    BY <2>1, SumRemove
  <2>2. CASE k \notin DOMAIN f
    <3>1. R = DOMAIN f
      BY <2>2
    <3>2. Total(f, R) = Plus(Zero, Total(f, R))
      BY <1>6, PlusLaws
    <3> HIDE DEF R
    <3>3. QED
      BY <2>2, <3>1, <3>2
  <2>3. QED
    BY <2>1, <2>2
<1>8. QED
  BY <1>1, <1>2, <1>3, <1>5, <1>6, <1>7 DEF g

-----------------------------------------------------------------------------
(* The ledger.                                                             *)

UsageType == [input : Nat, cache : Nat, output : Nat, reasoning : Nat, total : Int, legacy : BOOLEAN]

\* Amounts of a finite set, and what they come to.
AmountsOf(f) == IsFiniteSet(DOMAIN f) /\ \A x \in DOMAIN f : f[x] \in Amounts
EntryAmounts(entries) == [id \in DOMAIN entries |-> entries[id].amount]
Written(notes, step) == IF step \in DOMAIN notes THEN notes[step] ELSE <<>>

\* The ledger c of a run whose steps are written down in notes.
Ledger(c, notes) ==
  /\ c = [by |-> c.by, total |-> c.total, entries |-> c.entries]
  /\ AmountsOf(c.by) /\ AmountsOf(EntryAmounts(c.entries)) /\ c.total \in Amounts
  /\ c.total = Total(c.by, DOMAIN c.by)
  /\ \A s \in Nat : At(c, s) = Plus(StepAmount(Written(notes, s)), Lines(c.entries, s))

LedgerInv ==
  /\ DOMAIN cost = AllJobs /\ DOMAIN trace = AllJobs /\ turns \in [AllJobs -> Seq(UsageType)]
  /\ \A r \in AllJobs : Ledger(cost[r], trace[r]) /\ \A s \in DOMAIN trace[r] : trace[r][s] \in Seq(UsageType)

\* What a turn and a step cost are amounts.
LEMMA NormalizedTyped ==
  ASSUME NEW u \in UsageType
  PROVE  Normalized(u) \in [input : Nat, cache : Nat, output : Nat, reasoning : Nat, total : Int]
<1>1. u.input \in Nat /\ u.cache \in Nat /\ u.output \in Nat /\ u.reasoning \in Nat /\ u.total \in Int
  BY DEF UsageType
<1> DEFINE input == IF u.legacy THEN Max({0, u.input - u.cache}) ELSE u.input
<1>2. Max({0, u.input - u.cache}) \in Nat
  <2>1. u.input - u.cache \in Int
    BY <1>1
  <2>2. Max({0, u.input - u.cache}) = IF 0 >= u.input - u.cache THEN 0 ELSE u.input - u.cache
    BY <2>1, MaxOfTwo
  <2>3. QED
    BY <2>1, <2>2
<1>3. input \in Nat
  BY <1>1, <1>2
<1>4. Normalized(u) = [input |-> input, cache |-> u.cache, output |-> u.output, reasoning |-> u.reasoning,
                       total |-> IF u.total = NoTotal THEN input + u.output + u.cache ELSE u.total]
  BY DEF Normalized
<1> HIDE DEF input
<1>5. (IF u.total = NoTotal THEN input + u.output + u.cache ELSE u.total) \in Int
  BY <1>1, <1>3
<1>6. QED
  BY <1>1, <1>3, <1>4, <1>5

\* Tokens and their price are amounts.
LEMMA TokensTyped ==
  ASSUME NEW n \in [input : Nat, cache : Nat, output : Nat, reasoning : Nat, total : Int], NEW output \in Nat
  PROVE  Tokens(n) \in Amounts /\ Price(n, output) \in Nat /\ Separate(n) \in Nat
<1>1. \A k \in DOMAIN Zero : k \in DOMAIN n => n[k] \in Int
  OBVIOUS
<1>2. Tokens(n) \in Amounts
  BY <1>1 DEF Tokens, Amounts
<1>3. Prices.input \in Nat /\ Prices.cache \in Nat /\ Prices.output \in Nat /\ n.input \in Nat /\ n.cache \in Nat
  BY LedgerAssumption
<1>4. \A x, y \in Nat : x * y \in Nat
  OBVIOUS
<1>5. Prices.input * n.input \in Nat /\ Prices.cache * n.cache \in Nat /\ Prices.output * output \in Nat
  BY <1>3, <1>4
<1>6. Price(n, output) \in Nat
  BY <1>5 DEF Price
<1>7. QED
  BY <1>2, <1>6 DEF Separate

\* What a turn costs is an amount,
LEMMA TurnTyped == ASSUME NEW u \in UsageType PROVE TurnAmount(u) \in Amounts
<1> DEFINE n == Normalized(u)
<1>1. n \in [input : Nat, cache : Nat, output : Nat, reasoning : Nat, total : Int]
  BY NormalizedTyped
<1>2. TurnAmount(u) = [Tokens(n) EXCEPT !.usd = Price(n, n.output), !.turns = 1]
  BY DEF TurnAmount
<1> HIDE DEF n
<1>3. n.output \in Nat
  BY <1>1
<1>4. Tokens(n) \in Amounts /\ Price(n, n.output) \in Int
  BY <1>1, <1>3, TokensTyped
<1>5. PICK a \in Amounts, v \in Int : a = Tokens(n) /\ v = Price(n, n.output)
  BY <1>4
<1>6. [a EXCEPT !.usd = v, !.turns = 1] \in Amounts
  <2>1. [a EXCEPT !.usd = v] \in Amounts
    BY DEF Amounts
  <2>2. PICK b \in Amounts : b = [a EXCEPT !.usd = v]
    BY <2>1
  <2>3. [b EXCEPT !.turns = 1] \in Amounts
    BY DEF Amounts
  <2>4. QED
    BY <2>2, <2>3
<1>7. QED
  BY <1>2, <1>5, <1>6

\* and so is what the turns of a step cost.
LEMMA StepTyped ==
  /\ StepAmount(<<>>) = Zero
  /\ \A us \in Seq(UsageType) : StepAmount(us) \in Amounts
<1> DEFINE Each(us) == [i \in DOMAIN us |-> TurnAmount(us[i])]
<1>1. ASSUME NEW us PROVE StepAmount(us) = Total(Each(us), DOMAIN us)
  BY DEF StepAmount, Sum, FoldSeq, FoldFunction, Total
<1>2. StepAmount(<<>>) = Zero
  <2>1. DOMAIN <<>> = {}
    OBVIOUS
  <2>2. StepAmount(<<>>) = Total(Each(<<>>), {})
    BY <1>1, <2>1
  <2> HIDE DEF Each
  <2>3. QED
    BY <2>2, SumEmpty
<1>3. ASSUME NEW us \in Seq(UsageType) PROVE StepAmount(us) \in Amounts
  <2>1. DOMAIN us = 1 .. Len(us) /\ Len(us) \in Nat /\ \A i \in 1 .. Len(us) : us[i] \in UsageType
    BY LenProperties, ElementOfSeq
  <2>2. IsFiniteSet(DOMAIN us)
    BY <2>1, FS_Interval
  <2>3. \A i \in DOMAIN us : Each(us)[i] \in Amounts
    BY <2>1, TurnTyped
  <2> HIDE DEF Each
  <2>4. Total(Each(us), DOMAIN us) \in Amounts
    BY <2>2, <2>3, SumTyped
  <2>5. QED
    BY <1>1, <2>4
<1>4. QED
  BY <1>2, <1>3

\* A late entry has an amount.
LEMMA EntryTyped ==
  ASSUME NEW report \in Reports, NEW step
  PROVE  LET e == Entry(step, report.usage, report.own, report.reported) IN
         e.step = step /\ e.amount \in Amounts
<1> DEFINE u == report.usage
           n == Normalized(u)
           usd == IF report.own THEN Price(n, n.output + Separate(n)) ELSE report.reported
<1>1. u \in UsageType /\ report.reported \in Int
  BY EvaluationAssumption DEF UsageType
<1>2. n \in [input : Nat, cache : Nat, output : Nat, reasoning : Nat, total : Int]
  <2> HIDE DEF u
  <2>1. QED
    BY <1>1, NormalizedTyped
<1>3. Entry(step, u, report.own, report.reported) =
        [step |-> step,
         amount |-> IF usd = Unreported THEN [Tokens(n) EXCEPT !.unpriced = 1] ELSE [Tokens(n) EXCEPT !.usd = usd]]
  BY DEF Entry
<1> HIDE DEF n
<1>4. n.output \in Nat /\ Separate(n) \in Nat
  BY <1>2, TokensTyped
<1>5. n.output + Separate(n) \in Nat
  BY <1>4
<1>6. Price(n, n.output + Separate(n)) \in Int /\ Tokens(n) \in Amounts
  BY <1>2, <1>5, TokensTyped
<1>7. usd \in Int
  BY <1>1, <1>6
<1> HIDE DEF usd
<1>8. [Tokens(n) EXCEPT !.unpriced = 1] \in Amounts /\ [Tokens(n) EXCEPT !.usd = usd] \in Amounts
  <2>1. PICK a \in Amounts : a = Tokens(n)
    BY <1>6
  <2>2. [a EXCEPT !.unpriced = 1] \in Amounts /\ [a EXCEPT !.usd = usd] \in Amounts
    BY <1>7 DEF Amounts
  <2>3. QED
    BY <2>1, <2>2
<1>9. QED
  BY <1>3, <1>8

\* The lines of a step are the amounts of its entries.
LEMMA LinesTyped ==
  ASSUME NEW entries, AmountsOf(EntryAmounts(entries)), NEW s
  PROVE  Lines(entries, s) \in Amounts
<1> DEFINE S == {id \in DOMAIN entries : entries[id].step = s}
           f == EntryAmounts(entries)
<1>1. IsFiniteSet(DOMAIN entries) /\ S \subseteq DOMAIN entries /\ DOMAIN f = DOMAIN entries
  BY DEF AmountsOf, EntryAmounts
<1>2. \A id \in S : f[id] \in Amounts
  BY DEF AmountsOf, EntryAmounts
<1>3. Lines(entries, s) = Total(f, S)
  BY DEF Lines, Total, EntryAmounts
<1> HIDE DEF S, f
<1>4. IsFiniteSet(S)
  BY <1>1, FS_Subset, Zenon
<1>5. QED
  BY <1>2, <1>3, <1>4, SumTyped

\* A new entry counts for the step it names only.
LEMMA LinesMore ==
  ASSUME NEW entries, AmountsOf(EntryAmounts(entries)), NEW id, id \notin DOMAIN entries, NEW e, e.amount \in Amounts
  PROVE  /\ AmountsOf(EntryAmounts(With(entries, id, e)))
         /\ \A s : Lines(With(entries, id, e), s) = IF s = e.step THEN Plus(e.amount, Lines(entries, s)) ELSE Lines(entries, s)
<1> DEFINE more == With(entries, id, e)
           f == EntryAmounts(entries)
           g == EntryAmounts(more)
           Of(es, s) == {x \in DOMAIN es : es[x].step = s}
<1>1. DOMAIN more = DOMAIN entries \cup {id} /\ more[id] = e /\ \A x \in DOMAIN entries : more[x] = entries[x]
  BY DEF With
<1>2. DOMAIN f = DOMAIN entries /\ DOMAIN g = DOMAIN entries \cup {id} /\ g[id] = e.amount
      /\ \A x \in DOMAIN entries : g[x] = f[x] /\ f[x] \in Amounts /\ g[x] \in Amounts
  BY <1>1 DEF EntryAmounts, AmountsOf
<1>3. IsFiniteSet(DOMAIN entries) /\ IsFiniteSet(DOMAIN entries \cup {id})
  BY <1>2, FS_AddElement DEF AmountsOf
<1>4. AmountsOf(g)
  BY <1>2, <1>3 DEF AmountsOf
<1>5. \A s : Lines(entries, s) = Total(f, Of(entries, s)) /\ Lines(more, s) = Total(g, Of(more, s))
  BY DEF Lines, Total, EntryAmounts
<1>6. ASSUME NEW s PROVE Lines(more, s) = IF s = e.step THEN Plus(e.amount, Lines(entries, s)) ELSE Lines(entries, s)
  <2> DEFINE S == Of(entries, s)
             T == Of(more, s)
  <2>1. S \subseteq DOMAIN entries /\ T \subseteq DOMAIN entries \cup {id} /\ id \notin S
    BY <1>1
  <2>2. CASE s = e.step
    <3>1. T = S \cup {id} /\ T \ {id} = S /\ id \in T
      BY <1>1, <2>2
    <3>2. \A x \in T : g[x] \in Amounts
      BY <1>2, <2>1
    <3>3. \A x \in S : g[x] = f[x]
      BY <1>2, <2>1
    <3> HIDE DEF S, T, f, g, Of
    <3>4. IsFiniteSet(S) /\ IsFiniteSet(T)
      BY <1>3, <2>1, FS_Subset, Zenon
    <3>5. Total(g, T) = Plus(g[id], Total(g, S))
      BY <3>1, <3>2, <3>4, SumRemove
    <3>6. Total(g, S) = Total(f, S)
      BY <3>3, <3>4, SumAgree
    <3>7. QED
      BY <1>2, <1>5, <2>2, <3>5, <3>6 DEF S, T
  <2>3. CASE s # e.step
    <3>1. T = S
      BY <1>1, <2>3
    <3>2. \A x \in S : g[x] = f[x]
      BY <1>2, <2>1
    <3> HIDE DEF S, T, f, g, Of
    <3>3. IsFiniteSet(S)
      BY <1>3, <2>1, FS_Subset, Zenon
    <3>4. Total(g, S) = Total(f, S)
      BY <3>2, <3>3, SumAgree
    <3>5. QED
      BY <1>5, <2>3, <3>1, <3>4 DEF S, T
  <2>4. QED
    BY <2>2, <2>3
<1>7. QED
  BY <1>4, <1>6

\* Which steps change what is written down and what is counted.
TurnsMove == \/ UNCHANGED turns
             \/ turns' = [r \in AllJobs |-> <<>>]
             \/ \E r, u : u \in {TurnUsage, NoUsage} /\ turns' = [turns EXCEPT ![r] = Append(@, u)]
\* The notes and the ledgers change when a step is finished or late usage comes.
LEMMA LedgerFrame ==
  ASSUME Next
  PROVE  \/ UNCHANGED <<trace, cost>> /\ TurnsMove
         \/ \E r \in Jobs : FinishStep(r)
         \/ \E r \in Jobs, report \in Reports, step \in 0 .. limit.ticks : Report(r, report, step)
<1> DEFINE Quiet == UNCHANGED <<trace, cost>> /\ TurnsMove
<1>1. ASSUME NEW r, NEW u \in {TurnUsage, NoUsage}, NEW ends, Take(r, u, ends) PROVE Quiet
  BY <1>1 DEF Take, TurnsMove
<1>2. ASSUME UNCHANGED <<trace, cost, turns>> PROVE Quiet
  BY <1>2 DEF TurnsMove
<1>3. ASSUME UNCHANGED runs PROVE Quiet
  BY <1>3 DEF runs, TurnsMove
<1> HIDE DEF Quiet
<1>4. ASSUME NEW r \in Jobs,
             \/ StartAgain(r) \/ Stop(r) \/ Stopped(r) \/ OpenHook(r) \/ GiveUp(r) \/ Over(r) \/ Mark(r) \/ Summarize(r)
             \/ LoadHistory(r) \/ WriteHistory(r)
      PROVE  Quiet
  <2>1. UNCHANGED <<trace, cost, turns>>
    BY <1>4 DEF StartAgain, Stop, Stopped, OpenHook, GiveUp, Over, Mark, Summarize, LoadHistory, WriteHistory, runs
  <2>2. QED
    BY <1>2, <2>1
<1>5. ASSUME NEW r \in Jobs, NEW ends \in BOOLEAN, OtherTurn(r, ends) PROVE Quiet
  BY <1>1, <1>5 DEF OtherTurn
<1>6. ASSUME Crash PROVE Quiet
  BY <1>6 DEF Crash, Quiet, TurnsMove
<1>7. ASSUME RebuildScan \/ RebuildWrite PROVE UNCHANGED runs
  BY <1>7 DEF RebuildScan, RebuildWrite
<1>8. ASSUME RunModels PROVE Quiet
  BY <1>2, <1>8, ModelsKeep
<1>9. ASSUME NEW p \in Procs, Observe(p) \/ Leave(p) PROVE Quiet
  <2>1. UNCHANGED <<trace, cost, turns>>
    BY <1>9 DEF Observe, Leave, runs
  <2>2. QED
    BY <1>2, <2>1
<1>10. ASSUME NEW p \in Procs, ReactStep(p) PROVE Quiet
  <2>1. CASE ActTaken(p)
    BY <1>1, <2>1 DEF ActTaken
  <2>2. CASE ~ActTaken(p)
    BY <1>3, <1>10, <2>2 DEF ReactStep, ModelFails, ModelReplies, ActLost, ActRefused
  <2>3. QED
    BY <2>1, <2>2
<1>11. ASSUME NEW p \in Procs, RuleStep(p) PROVE Quiet
  <2>1. ASSUME NEW b, Act(p, b) PROVE Quiet
    BY <1>1, <2>1 DEF Act
  <2>2. CASE AskBalance(p) \/ AskShelf(p) \/ Clear(p) \/ AskRisks(p) \/ Drop(p) \/ Review(p) \/ DropUnsold(p) \/ Search(p)
             \/ List(p) \/ End(p)
    BY <2>1, <2>2 DEF AskBalance, AskShelf, Clear, AskRisks, Drop, Review, DropUnsold, Search, List, End
  <2>3. CASE Adjust(p)
    BY <1>3, <2>1, <2>3 DEF Adjust
  <2>4. CASE RuleRefused(p) \/ RuleLost(p)
    BY <1>3, <2>4 DEF RuleRefused, RuleLost
  <2>5. QED
    BY <1>11, <2>2, <2>3, <2>4 DEF RuleStep
<1> DEFINE Steps == \E r \in Jobs : FinishStep(r)
           Reported == \E r \in Jobs, report \in Reports, step \in 0 .. limit.ticks : Report(r, report, step)
<1>12. ASSUME Service PROVE Quiet \/ Steps \/ Reported
  <2>1. CASE Crash \/ RebuildScan \/ RebuildWrite
    <3>1. CASE Crash
      BY <1>6, <3>1
    <3>2. CASE RebuildScan \/ RebuildWrite
      BY <1>3, <1>7, <3>2
    <3>3. QED
      BY <2>1, <3>1, <3>2
  <2>2. ASSUME NEW r \in Jobs,
               \/ StartAgain(r) \/ Stop(r) \/ Stopped(r) \/ OpenHook(r) \/ GiveUp(r) \/ FinishStep(r) \/ Over(r)
               \/ Mark(r) \/ Summarize(r) \/ LoadHistory(r) \/ WriteHistory(r)
               \/ \E report \in Reports, step \in 0 .. limit.ticks : Report(r, report, step)
               \/ \E ends \in BOOLEAN : OtherTurn(r, ends)
        PROVE  Quiet \/ Steps \/ Reported
    <3>1. CASE FinishStep(r) \/ \E report \in Reports, step \in 0 .. limit.ticks : Report(r, report, step)
      BY <3>1
    <3>2. CASE \E ends \in BOOLEAN : OtherTurn(r, ends)
      BY <1>5, <3>2
    <3> HIDE DEF Steps, Reported
    <3>3. QED
      BY <1>4, <2>2, <3>1, <3>2
  <2> HIDE DEF Steps, Reported
  <2>3. QED
    BY <1>12, <2>1, <2>2 DEF Service
<1> HIDE DEF Steps, Reported
<1>13. Quiet \/ Steps \/ Reported
  BY <1>8, <1>9, <1>10, <1>11, <1>12 DEF Next
<1>14. QED
  BY <1>13 DEF Quiet, Steps, Reported

\* The sum of a ledger with another value for a step.
LEMMA ByWith ==
  ASSUME NEW by, AmountsOf(by), NEW step, NEW new \in Amounts
  PROVE  /\ DOMAIN With(by, step, new) = DOMAIN by \cup {step} /\ AmountsOf(With(by, step, new))
         /\ Total(by, DOMAIN by \ {step}) \in Amounts
         /\ Total(With(by, step, new), DOMAIN by \cup {step}) = Plus(new, Total(by, DOMAIN by \ {step}))
         /\ Total(by, DOMAIN by) = Plus(IF step \in DOMAIN by THEN by[step] ELSE Zero, Total(by, DOMAIN by \ {step}))
<1>1. IsFiniteSet(DOMAIN by) /\ \A x \in DOMAIN by : by[x] \in Amounts
  BY DEF AmountsOf
<1>2. /\ DOMAIN With(by, step, new) = DOMAIN by \cup {step} /\ IsFiniteSet(DOMAIN by \cup {step})
      /\ \A x \in DOMAIN by \cup {step} : With(by, step, new)[x] \in Amounts
      /\ Total(by, DOMAIN by \ {step}) \in Amounts
      /\ Total(With(by, step, new), DOMAIN by \cup {step}) = Plus(new, Total(by, DOMAIN by \ {step}))
      /\ Total(by, DOMAIN by) = Plus(IF step \in DOMAIN by THEN by[step] ELSE Zero, Total(by, DOMAIN by \ {step}))
  BY <1>1, SumWith
<1>3. QED
  BY <1>2 DEF AmountsOf

\* A step that is counted has its turns and the entries that name it.
LEMMA RecomputedAddsUp ==
  ASSUME NEW c, NEW notes, Ledger(c, notes), NEW step, NEW us \in Seq(UsageType)
  PROVE  Ledger(Recomputed(c, step, us), With(notes, step, us))
<1> DEFINE new == Plus(StepAmount(us), Lines(c.entries, step))
           d == Recomputed(c, step, us)
           more == With(notes, step, us)
           R == DOMAIN c.by \ {step}
<1>1. /\ c = [by |-> c.by, total |-> c.total, entries |-> c.entries] /\ AmountsOf(c.by)
      /\ AmountsOf(EntryAmounts(c.entries)) /\ c.total \in Amounts /\ c.total = Total(c.by, DOMAIN c.by)
      /\ \A s \in Nat : At(c, s) = Plus(StepAmount(Written(notes, s)), Lines(c.entries, s))
  BY DEF Ledger
<1>2. d = [by |-> With(c.by, step, new), total |-> Plus(Minus(c.total, At(c, step)), new), entries |-> c.entries]
  BY DEF Recomputed
<1>3. new \in Amounts
  BY <1>1, StepTyped, LinesTyped, PlusLaws
<1> HIDE DEF new, d
<1>4. At(c, step) \in Amounts
  BY <1>1, PlusLaws DEF At, AmountsOf
<1>5. /\ DOMAIN d.by = DOMAIN c.by \cup {step} /\ AmountsOf(d.by) /\ Total(c.by, R) \in Amounts
      /\ Total(d.by, DOMAIN d.by) = Plus(new, Total(c.by, R))
      /\ c.total = Plus(At(c, step), Total(c.by, R))
  <2>1. d.by = With(c.by, step, new)
    BY <1>2
  <2>2. PICK by : by = c.by
    OBVIOUS
  <2>3. AmountsOf(by) /\ c.total = Total(by, DOMAIN by)
    BY <1>1, <2>2
  <2>4. /\ DOMAIN With(by, step, new) = DOMAIN by \cup {step} /\ AmountsOf(With(by, step, new))
        /\ Total(by, DOMAIN by \ {step}) \in Amounts
        /\ Total(With(by, step, new), DOMAIN by \cup {step}) = Plus(new, Total(by, DOMAIN by \ {step}))
        /\ Total(by, DOMAIN by) = Plus(IF step \in DOMAIN by THEN by[step] ELSE Zero, Total(by, DOMAIN by \ {step}))
    BY <1>3, <2>3, ByWith
  <2>5. At(c, step) = IF step \in DOMAIN by THEN by[step] ELSE Zero
    BY <2>2 DEF At
  <2>6. QED
    BY <2>1, <2>2, <2>3, <2>4, <2>5
<1>6. d.total = Plus(new, Total(c.by, R)) /\ d.total \in Amounts
  <2>1. PICK a \in Amounts, b \in Amounts : a = At(c, step) /\ b = Total(c.by, R)
    BY <1>4, <1>5
  <2>2. Plus(Minus(Plus(a, b), a), new) = Plus(new, b) /\ Plus(new, b) \in Amounts
    BY <1>3, PlusLaws
  <2>3. QED
    BY <1>2, <1>5, <2>1, <2>2
<1>7. ASSUME NEW s \in Nat PROVE At(d, s) = Plus(StepAmount(Written(more, s)), Lines(d.entries, s))
  <2>1. CASE s = step
    BY <1>2, <2>1 DEF At, With, Written, new
  <2>2. CASE s # step
    <3>1. At(d, s) = At(c, s)
      BY <1>2, <2>2 DEF At, With
    <3>2. Written(more, s) = Written(notes, s)
      BY <2>2 DEF Written, With
    <3>3. QED
      BY <1>1, <1>2, <3>1, <3>2
  <2>3. QED
    BY <2>1, <2>2
<1>8. d = [by |-> d.by, total |-> d.total, entries |-> d.entries]
  BY <1>2
<1>9. QED
  BY <1>1, <1>2, <1>5, <1>6, <1>7, <1>8 DEF Ledger, d

\* A late entry is counted for its step and in the total.
LEMMA RecordedAddsUp ==
  ASSUME NEW c, NEW notes, Ledger(c, notes), \A us \in {Written(notes, s) : s \in Nat} : StepAmount(us) \in Amounts,
         NEW id, NEW e, e.amount \in Amounts, e.step \in Nat
  PROVE  Ledger(Recorded(c, id, e), notes)
<1> DEFINE d == Recorded(c, id, e)
           step == e.step
           new == Plus(At(c, step), e.amount)
           R == DOMAIN c.by \ {step}
<1>1. /\ c = [by |-> c.by, total |-> c.total, entries |-> c.entries] /\ AmountsOf(c.by)
      /\ AmountsOf(EntryAmounts(c.entries)) /\ c.total \in Amounts /\ c.total = Total(c.by, DOMAIN c.by)
      /\ \A s \in Nat : At(c, s) = Plus(StepAmount(Written(notes, s)), Lines(c.entries, s))
  BY DEF Ledger
<1>2. CASE id \in DOMAIN c.entries
  BY <1>2 DEF Recorded
<1>3. CASE id \notin DOMAIN c.entries
  <2>1. d = [by |-> With(c.by, step, new), total |-> Plus(c.total, e.amount), entries |-> With(c.entries, id, e)]
    BY <1>3 DEF Recorded
  <2>2. At(c, step) \in Amounts
    BY <1>1, PlusLaws DEF At, AmountsOf
  <2>3. new \in Amounts
    BY <2>2, PlusLaws
  <2> HIDE DEF new, d
  <2>4. /\ DOMAIN d.by = DOMAIN c.by \cup {step} /\ AmountsOf(d.by) /\ Total(c.by, R) \in Amounts
        /\ Total(d.by, DOMAIN d.by) = Plus(new, Total(c.by, R))
        /\ c.total = Plus(At(c, step), Total(c.by, R))
    <3>1. d.by = With(c.by, step, new)
      BY <2>1
    <3>2. PICK by : by = c.by
      OBVIOUS
    <3>3. AmountsOf(by) /\ c.total = Total(by, DOMAIN by)
      BY <1>1, <3>2
    <3>4. /\ DOMAIN With(by, step, new) = DOMAIN by \cup {step} /\ AmountsOf(With(by, step, new))
          /\ Total(by, DOMAIN by \ {step}) \in Amounts
          /\ Total(With(by, step, new), DOMAIN by \cup {step}) = Plus(new, Total(by, DOMAIN by \ {step}))
          /\ Total(by, DOMAIN by) = Plus(IF step \in DOMAIN by THEN by[step] ELSE Zero, Total(by, DOMAIN by \ {step}))
      BY <2>3, <3>3, ByWith
    <3>5. At(c, step) = IF step \in DOMAIN by THEN by[step] ELSE Zero
      BY <3>2 DEF At
    <3>6. QED
      BY <3>1, <3>2, <3>3, <3>4, <3>5
  <2>5. d.total = Plus(new, Total(c.by, R)) /\ d.total \in Amounts
    <3>1. PICK a \in Amounts, b \in Amounts, x \in Amounts : a = At(c, step) /\ b = Total(c.by, R) /\ x = e.amount
      BY <2>2, <2>4
    <3>2. Plus(a, b) \in Amounts /\ Plus(a, x) \in Amounts /\ Plus(Plus(a, b), x) = Plus(x, Plus(a, b)) /\ Plus(a, x) = Plus(x, a)
          /\ Plus(Plus(a, x), b) = Plus(b, Plus(a, x))
      BY PlusLaws
    <3>3. Plus(b, Plus(x, a)) = Plus(x, Plus(b, a)) /\ Plus(b, a) = Plus(a, b)
      BY PlusSwap, PlusLaws
    <3>4. Plus(x, Plus(a, b)) \in Amounts
      BY <3>2, PlusLaws
    <3>5. QED
      BY <2>1, <2>4, <3>1, <3>2, <3>3, <3>4 DEF new
  <2>6. /\ AmountsOf(EntryAmounts(d.entries))
        /\ \A s : Lines(d.entries, s) = IF s = step THEN Plus(e.amount, Lines(c.entries, s)) ELSE Lines(c.entries, s)
    BY <1>1, <1>3, <2>1, LinesMore
  <2>7. ASSUME NEW s \in Nat PROVE At(d, s) = Plus(StepAmount(Written(notes, s)), Lines(d.entries, s))
    <3>1. CASE s = step
      <4>1. At(d, s) = new
        BY <2>1, <3>1 DEF At, With
      <4>2. PICK a \in Amounts, b \in Amounts, x \in Amounts :
              a = StepAmount(Written(notes, s)) /\ b = Lines(c.entries, s) /\ x = e.amount
        BY <1>1, LinesTyped
      <4>3. new = Plus(Plus(a, b), x)
        BY <1>1, <3>1, <4>2 DEF new
      <4>4. Plus(a, b) \in Amounts /\ Plus(Plus(a, b), x) = Plus(x, Plus(a, b)) /\ Plus(a, Plus(x, b)) = Plus(x, Plus(a, b))
        <5>1. Plus(a, b) \in Amounts
          BY PlusLaws
        <5>2. Plus(Plus(a, b), x) = Plus(x, Plus(a, b))
          BY <5>1, PlusLaws
        <5>3. QED
          BY <5>1, <5>2, PlusSwap
      <4>5. Lines(d.entries, s) = Plus(x, b)
        BY <2>6, <3>1, <4>2
      <4>6. QED
        BY <4>1, <4>2, <4>3, <4>4, <4>5
    <3>2. CASE s # step
      <4>1. At(d, s) = At(c, s)
        BY <2>1, <3>2 DEF At, With
      <4>2. QED
        BY <1>1, <2>6, <3>2, <4>1
    <3>3. QED
      BY <3>1, <3>2
  <2>8. d = [by |-> d.by, total |-> d.total, entries |-> d.entries]
    BY <2>1
  <2>9. QED
    BY <2>4, <2>5, <2>6, <2>7, <2>8 DEF Ledger, d
<1>4. QED
  BY <1>2, <1>3

\* What is written down for a step are turns, and their cost an amount.
LEMMA WrittenTyped ==
  ASSUME NEW notes, \A s \in DOMAIN notes : notes[s] \in Seq(UsageType), NEW s
  PROVE  Written(notes, s) \in Seq(UsageType) /\ StepAmount(Written(notes, s)) \in Amounts
<1>1. Written(notes, s) \in Seq(UsageType)
  BY EmptySeq DEF Written
<1>2. QED
  BY <1>1, StepTyped

\* The turns in memory stay turns.
LEMMA TurnsTyped == ASSUME turns \in [AllJobs -> Seq(UsageType)], TurnsMove PROVE turns' \in [AllJobs -> Seq(UsageType)]
<1>1. CASE UNCHANGED turns
  BY <1>1
<1>2. CASE turns' = [r \in AllJobs |-> <<>>]
  BY <1>2, EmptySeq
<1>3. ASSUME NEW r, NEW u \in {TurnUsage, NoUsage}, turns' = [turns EXCEPT ![r] = Append(@, u)]
      PROVE  turns' \in [AllJobs -> Seq(UsageType)]
  <2>1. u \in UsageType
    <3>1. NoUsage = [input |-> 0, cache |-> 0, output |-> 0, reasoning |-> 0, total |-> 0, legacy |-> FALSE]
      BY DEF NoUsage, Usage
    <3>2. TurnUsage = [input |-> 1, cache |-> 1, output |-> 1, reasoning |-> 0, total |-> 3, legacy |-> FALSE]
      BY DEF TurnUsage, Usage
    <3>3. NoUsage \in UsageType /\ TurnUsage \in UsageType
      BY <3>1, <3>2 DEF UsageType
    <3>4. QED
      BY <3>3
  <2>2. \A us \in Seq(UsageType) : Append(us, u) \in Seq(UsageType)
    BY <2>1, AppendProperties
  <2> DEFINE more == Append(turns[r], u)
  <2>3. r \in AllJobs => more \in Seq(UsageType)
    BY <2>2
  <2>4. turns' = [turns EXCEPT ![r] = more]
    BY <1>3
  <2> HIDE DEF more
  <2>5. QED
    BY <2>3, <2>4
<1>4. QED
  BY <1>1, <1>2, <1>3 DEF TurnsMove

\* Every step keeps every ledger: one that is finished counts it, and late usage is
\* counted when it comes.
LEMMA LedgerStep == ASSUME AgentInv, LedgerInv, Next PROVE LedgerInv'
<1> DEFINE Kept(r) == Ledger(cost'[r], trace'[r]) /\ \A s \in DOMAIN trace'[r] : trace'[r][s] \in Seq(UsageType)
<1>1. /\ DOMAIN cost = AllJobs /\ DOMAIN trace = AllJobs /\ turns \in [AllJobs -> Seq(UsageType)]
      /\ \A r \in AllJobs : Ledger(cost[r], trace[r]) /\ \A s \in DOMAIN trace[r] : trace[r][s] \in Seq(UsageType)
      /\ t \in [AllJobs -> Nat] /\ Jobs \subseteq AllJobs
  BY JobsAmongAll DEF LedgerInv, AgentInv
<1>2. CASE UNCHANGED <<trace, cost>> /\ TurnsMove
  BY <1>1, <1>2, TurnsTyped DEF LedgerInv
<1>3. ASSUME NEW r \in Jobs, FinishStep(r) PROVE LedgerInv'
  <2>1. turns' = [turns EXCEPT ![r] = <<>>]
    BY <1>3 DEF FinishStep
  <2>2. turns' \in [AllJobs -> Seq(UsageType)]
    BY <1>1, <2>1, EmptySeq
  <2>3. CASE UNCHANGED <<trace, cost>>
    BY <1>1, <2>2, <2>3 DEF LedgerInv
  <2>4. CASE ~UNCHANGED <<trace, cost>>
    <3> DEFINE c == Recomputed(cost[r], t[r], turns[r])
               notes == With(trace[r], t[r], turns[r])
    <3>1. trace' = [trace EXCEPT ![r] = notes] /\ cost' = [cost EXCEPT ![r] = c]
      BY <1>3, <2>4 DEF FinishStep
    <3>2. turns[r] \in Seq(UsageType) /\ Ledger(cost[r], trace[r])
      BY <1>1
    <3>3. Ledger(c, notes)
      BY <3>2, RecomputedAddsUp
    <3>4. \A s \in DOMAIN notes : notes[s] \in Seq(UsageType)
      BY <1>1, <3>2 DEF With
    <3> HIDE DEF c, notes
    <3>5. \A x \in AllJobs : /\ cost'[x] = IF x = r THEN c ELSE cost[x]
                             /\ trace'[x] = IF x = r THEN notes ELSE trace[x]
      BY <1>1, <3>1
    <3>6. \A x \in AllJobs : Kept(x)
      BY <1>1, <3>3, <3>4, <3>5
    <3>7. DOMAIN cost' = AllJobs /\ DOMAIN trace' = AllJobs
      BY <1>1, <3>1
    <3>8. QED
      BY <2>2, <3>6, <3>7 DEF LedgerInv
  <2>5. QED
    BY <2>3, <2>4
<1>4. ASSUME NEW r \in Jobs, NEW report \in Reports, NEW step \in 0 .. limit.ticks, Report(r, report, step)
      PROVE  LedgerInv'
  <2> DEFINE e == Entry(step, report.usage, report.own, report.reported)
             c == Recorded(cost[r], report.id, e)
  <2>1. cost' = [cost EXCEPT ![r] = c] /\ UNCHANGED <<trace, turns>> /\ step \in 0 .. t[r]
    BY <1>4 DEF Report
  <2>2. e.step = step /\ e.amount \in Amounts
    BY EntryTyped
  <2>3. step \in Nat
    BY <1>1, <2>1
  <2>4. Ledger(cost[r], trace[r]) /\ \A us \in {Written(trace[r], s) : s \in Nat} : StepAmount(us) \in Amounts
    BY <1>1, WrittenTyped
  <2> HIDE DEF e
  <2>5. Ledger(c, trace[r])
    BY <2>2, <2>3, <2>4, RecordedAddsUp
  <2> HIDE DEF c
  <2>6. \A x \in AllJobs : cost'[x] = IF x = r THEN c ELSE cost[x]
    BY <1>1, <2>1
  <2>7. \A x \in AllJobs : Kept(x)
    BY <1>1, <2>1, <2>5, <2>6
  <2>8. DOMAIN cost' = AllJobs
    BY <1>1, <2>1
  <2>9. QED
    BY <1>1, <2>1, <2>7, <2>8 DEF LedgerInv
<1>5. QED
  BY <1>2, <1>3, <1>4, LedgerFrame

\* No run has cost anything.
LEMMA LedgerInit == ASSUME Init PROVE LedgerInv
<1>1. /\ turns = [r \in AllJobs |-> <<>>] /\ trace = [r \in AllJobs |-> <<>>] /\ cost = [r \in AllJobs |-> NoCost]
  BY DEF Init
<1>2. /\ DOMAIN NoCost.by = {} /\ DOMAIN NoCost.entries = {} /\ NoCost.total = Zero
      /\ NoCost = [by |-> NoCost.by, total |-> NoCost.total, entries |-> NoCost.entries]
  BY DEF NoCost
<1>3. AmountsOf(NoCost.by) /\ AmountsOf(EntryAmounts(NoCost.entries)) /\ NoCost.total = Total(NoCost.by, DOMAIN NoCost.by)
  BY <1>2, FS_EmptySet, SumEmpty DEF AmountsOf, EntryAmounts
<1>4. ASSUME NEW s \in Nat PROVE At(NoCost, s) = Plus(StepAmount(Written(<<>>, s)), Lines(NoCost.entries, s))
  <2>1. At(NoCost, s) = Zero
    BY <1>2 DEF At
  <2>2. StepAmount(Written(<<>>, s)) = Zero
    BY StepTyped DEF Written
  <2>3. {id \in DOMAIN NoCost.entries : NoCost.entries[id].step = s} = {}
    BY <1>2
  <2>4. Lines(NoCost.entries, s) = Zero
    BY <2>3, SumEmpty DEF Lines, Total
  <2>5. QED
    BY <2>1, <2>2, <2>4, PlusLaws
<1>5. Ledger(NoCost, <<>>)
  BY <1>2, <1>3, <1>4, PlusLaws DEF Ledger
<1>6. turns \in [AllJobs -> Seq(UsageType)]
  BY <1>1, EmptySeq
<1>7. QED
  BY <1>1, <1>5, <1>6 DEF LedgerInv

\* The ledger of every run adds up, in whatever order its turns and its late usage
\* are counted.
THEOREM TheLedgerAddsUp == Spec => []LedgerAddsUp
<1>1. AgentInv /\ LedgerInv /\ [Next]_vars => LedgerInv'
  <2>1. LedgerInv /\ UNCHANGED vars => LedgerInv'
    BY DEF LedgerInv, vars, runs
  <2>2. QED
    BY <2>1, LedgerStep
<1>2. AgentInv /\ LedgerInv => LedgerAddsUp
  <2> SUFFICES ASSUME AgentInv, LedgerInv, NEW r \in Jobs
               PROVE  /\ cost[r].total = FoldFunction(Plus, Zero, cost[r].by)
                      /\ \A s \in 0 .. limit.ticks :
                           At(cost[r], s) = Plus(StepAmount(IF s \in DOMAIN trace[r] THEN trace[r][s] ELSE <<>>),
                                                 Lines(cost[r].entries, s))
    BY DEF LedgerAddsUp
  <2>1. Ledger(cost[r], trace[r]) /\ r \in AllJobs
    BY JobsAmongAll DEF LedgerInv, AgentInv
  <2>2. \A s \in Nat : At(cost[r], s) = Plus(StepAmount(Written(trace[r], s)), Lines(cost[r].entries, s))
    BY <2>1 DEF Ledger
  <2>3. \A s \in 0 .. limit.ticks : s \in Nat
    OBVIOUS
  <2>4. cost[r].total = FoldFunction(Plus, Zero, cost[r].by)
    BY <2>1 DEF Ledger, Total, FoldFunction
  <2>5. QED
    BY <2>2, <2>3, <2>4 DEF Written
<1>3. QED
  BY <1>1, <1>2, AgentHolds, LedgerInit, PTL DEF Spec

-----------------------------------------------------------------------------
(* The turns of the agents.                                                *)

\* A process of a run plays its hooks one after the other: what it observed is not
\* later than the run, it has not observed the hook that opens next, and in an open
\* hook it waits for an observation only if it had none.
InTurn(a, ph, now, hk) ==
  /\ ph = "active" /\ hk = "closed" => a.step < now
  /\ ph = "active" /\ hk = "open" /\ a.pc = "observe" => a.step # now

\* A run has hooks while it is active, and no process before; it is crowded as soon as
\* a second process may play it, which it takes a second start to do.
TurnInv ==
  /\ hook \in [AllJobs -> {"closed", "open", "shut"}] /\ used \in [Bounds -> Nat]
  /\ \A r \in AllJobs : /\ hook[r] = "open" => phase[r] = "active"
                        /\ phase[r] \notin {"active", "stopping"} => hook[r] = "closed"
                        /\ phase[r] \in {"none", "stopping", "stopped"} => child[r] = None
  /\ \A p \in Procs : proc[p] # Nothing =>
       LET r == proc[p].run
       IN /\ phase[r] # "none" /\ proc[p].step <= t[r] /\ r \in Jobs /\ limit.jobs[r] \in Kinds
          /\ Alive(p) /\ r \notin crowded =>
               /\ InTurn(proc[p], phase[r], t[r], hook[r])
               /\ \A q \in Procs : Alive(q) /\ proc[q].run = r => q = p
  /\ used.starts = 0 => crowded = {}

\* What a rule based agent knows of its shelf in the hook it observed.
Knows(a, shelf, gone) ==
  /\ a.pc \in {"balance", "shelf"} => gone = {}
  /\ a.pc \in {"risks", "drop", "price", "review", "unsold", "search", "list"} =>
       /\ shelf = a.shelf /\ shelf \subseteq a.seen /\ gone \subseteq a.seen
  /\ a.pc = "list" => a.picks \cap a.seen = {} /\ Cardinality(a.picks) <= Target(a)

ShelfInv ==
  /\ ~relisted /\ dropped \in [AllJobs -> SUBSET Products]
  /\ \A r \in AllJobs : r \notin crowded => Cardinality(shop[r].shelf) <= SeedCount
  /\ \A p \in Procs : (Alive(p) /\ proc[p].kind = "rule" /\ proc[p].run \notin crowded /\ hook[proc[p].run] = "open") =>
       IF proc[p].step = t[proc[p].run] THEN Knows(proc[p], shop[proc[p].run].shelf, dropped[proc[p].run])
       ELSE dropped[proc[p].run] = {}

\* b plays the same turn of the same run as a.
SameTurn(a, b) == b.run = a.run /\ b.step = a.step

\* Whatever a ReAct agent does in a turn is done in that turn, and it observes again
\* only when the turn has ended.
LEMMA HopTurn ==
  ASSUME NEW a \in ReactType, NEW memory \in BOOLEAN
  PROVE  SameTurn(a, Hop(a, memory)) /\ Hop(a, memory).pc = "think"
<1> DEFINE b == Reminded(a, memory)
           new == Append(IF memory THEN a.history ELSE Trimmed(a.history), Note(a.step))
           c == [b EXCEPT !.pc = "think", !.retries = 0, !.forbidden = FALSE]
<1>1. b = a \/ b = [a EXCEPT !.history = new, !.note = TRUE, !.pending = TRUE, !.cut = a.cut \/ ~memory]
  BY DEF Reminded
<1>2. b \in ReactType
  BY HopTyped
<1>3. Hop(a, memory) = c
  BY DEF Hop
<1> HIDE DEF b, new
<1>4. SameTurn(a, b)
  BY <1>1 DEF SameTurn, ReactType
<1>5. SameTurn(b, c) /\ c.pc = "think"
  BY <1>2 DEF SameTurn, ReactType
<1> HIDE DEF c
<1>6. QED
  BY <1>3, <1>4, <1>5 DEF SameTurn

\* An observation begins the turn of its step.
LEMMA ObservedTurn ==
  ASSUME NEW a \in ReactType, NEW memory \in BOOLEAN, NEW step \in Int
  PROVE  LET b == Observed(a, step, memory)
         IN b.run = a.run /\ b.step = step /\ b.pc = "think"
<1> DEFINE new == Append(a.history, Observation(step))
           c == [a EXCEPT !.step = step, !.before = Len(a.history), !.history = new, !.hops = 0, !.cut = FALSE]
<1>1. a.history \in Seq(MessageType) /\ Observation(step) \in MessageType
  BY MessageTyped DEF ReactType
<1>2. new \in Seq(MessageType) /\ Len(a.history) \in Nat
  BY <1>1, AppendProperties, LenProperties
<1>3. Observed(a, step, memory) = Hop(c, memory)
  BY DEF Observed
<1> HIDE DEF new
<1>4. c \in ReactType /\ c.step = step /\ c.run = a.run
  BY <1>2 DEF ReactType
<1> HIDE DEF c
<1>5. QED
  BY <1>3, <1>4, HopTurn DEF SameTurn

\* A call that fails is tried again or ends the turn by force.
LEMMA FailedTurn ==
  ASSUME NEW a \in ReactType, NEW kind
  PROVE  SameTurn(a, Failed(a, kind)) /\ Failed(a, kind).pc \in {a.pc, "force"}
<1> DEFINE noted == [a EXCEPT !.failed = @ + 1]
           b == Failed(a, kind)
<1>1. noted \in ReactType /\ SameTurn(a, noted) /\ noted.pc = a.pc
  BY DEF ReactType, SameTurn
<1>2. \/ b = [RedactLast(noted) EXCEPT !.forbidden = TRUE]
      \/ b = [noted EXCEPT !.retries = @ + 1]
      \/ b = Forced([noted EXCEPT !.spent = @ + 1], "nothing")
      \/ b = Forced([noted EXCEPT !.spent = @ + IF a.retries > 0 \/ a.forbidden THEN 1 ELSE 0], "nothing")
  BY DEF Failed
<1> HIDE DEF noted, b
<1>3. CASE b = [RedactLast(noted) EXCEPT !.forbidden = TRUE]
  <2>1. RedactLast(noted) = noted \/ \E h : RedactLast(noted) = [noted EXCEPT !.history = h]
    BY DEF RedactLast
  <2>2. SameTurn(noted, RedactLast(noted)) /\ RedactLast(noted).pc = noted.pc
    BY <1>1, <2>1 DEF SameTurn, ReactType
  <2>3. RedactLast(noted) \in ReactType
    BY <1>1, RedactTyped
  <2>4. QED
    BY <1>1, <1>3, <2>2, <2>3 DEF SameTurn, ReactType, b
<1>4. CASE b = [noted EXCEPT !.retries = @ + 1]
  BY <1>1, <1>4 DEF SameTurn, ReactType, b
<1>5. ASSUME NEW n, b = Forced([noted EXCEPT !.spent = @ + n], "nothing")
      PROVE  SameTurn(a, b) /\ b.pc = "force"
  BY <1>1, <1>5 DEF SameTurn, ReactType, Forced
<1>6. QED
  BY <1>2, <1>3, <1>4, <1>5 DEF b

\* An answer ends the turn, unless it goes on.
LEMMA AnsweredTurn ==
  ASSUME NEW a \in ReactType, NEW memory \in BOOLEAN
  PROVE  LET b == Answered(a, memory)
         IN SameTurn(a, b) /\ (b.pc = "observe" => a.ends)
<1> DEFINE e == Acknowledged(a)
           c == Remembered(e)
           d == Compacted(c)
           b == Answered(a, memory)
<1>1. e \in ReactType /\ SameTurn(a, e)
  BY DEF Acknowledged, ReactType, SameTurn
<1>2. c \in ReactType /\ SameTurn(e, c)
  <2> DEFINE more == CASE e.said = "calls" -> <<Calls(e.step), Result(e.step)>>
                       [] e.said = "says" -> <<Says(e.step)>>
                       [] OTHER -> <<>>
             h == e.history \o more
  <2>1. e \in ReactType /\ e.history \in Seq(MessageType) /\ e.step \in Int
    BY <1>1 DEF ReactType
  <2>2. c = [e EXCEPT !.history = h]
    BY DEF Remembered
  <2> HIDE DEF e
  <2>3. more \in Seq(MessageType)
    BY <2>1, MessageTyped
  <2> HIDE DEF more
  <2>4. h \in Seq(MessageType)
    BY <2>1, <2>3, ConcatProperties
  <2> HIDE DEF c, h
  <2>5. QED
    BY <2>1, <2>2, <2>4 DEF ReactType, SameTurn
<1> HIDE DEF c
<1>3. d \in ReactType /\ SameTurn(c, d)
  <2> DEFINE new == [c EXCEPT !.history = Trimmed(c.history), !.prompt = 0, !.pending = FALSE, !.note = FALSE,
                              !.cut = TRUE]
  <2>1. Trimmed(c.history) \in Seq(MessageType)
    BY <1>2, TrimmedTyped DEF ReactType
  <2>2. d = c \/ d = new
    BY DEF Compacted
  <2>3. new \in ReactType /\ SameTurn(c, new)
    BY <1>2, <2>1 DEF ReactType, SameTurn
  <2> HIDE DEF new, d
  <2>4. QED
    BY <1>2, <2>2, <2>3 DEF SameTurn
<1>4. \/ b = [d EXCEPT !.pc = "observe"] /\ a.ends
      \/ b = Hop([d EXCEPT !.hops = @ + 1], memory)
      \/ b = Forced(d, "says")
  BY DEF Answered, c
<1> HIDE DEF d, b
<1>5. SameTurn(d, b) /\ (b.pc = "observe" => a.ends)
  <2>1. CASE b = [d EXCEPT !.pc = "observe"] /\ a.ends
    BY <1>3, <2>1 DEF ReactType, SameTurn
  <2>2. CASE b = Hop([d EXCEPT !.hops = @ + 1], memory)
    <3>0. d.hops + 1 \in Nat
      BY <1>3 DEF ReactType
    <3> DEFINE f == [d EXCEPT !.hops = d.hops + 1]
    <3>1. f \in ReactType /\ SameTurn(d, f)
      BY <1>3, <3>0 DEF ReactType, SameTurn
    <3>2. b = Hop(f, memory)
      BY <2>2
    <3> HIDE DEF f
    <3>3. QED
      BY <3>1, <3>2, HopTurn DEF SameTurn
  <2>3. CASE b = Forced(d, "says")
    BY <1>3, <2>3 DEF Forced, ReactType, SameTurn
  <2>4. QED
    BY <1>4, <2>1, <2>2, <2>3
<1>6. QED
  BY <1>1, <1>2, <1>3, <1>5 DEF SameTurn, b

\* What is refused or lost ends the turn or goes on by force.
LEMMA RefusedTurn ==
  ASSUME NEW a \in ReactType
  PROVE  /\ SameTurn(a, TakenBack(a)) /\ SameTurn(a, Refused(a))
         /\ SameTurn(a, Crashed(a)) /\ Crashed(a).pc = "force"
         /\ SameTurn(a, Forced(a, "says")) /\ Forced(a, "says").pc = "force"
         /\ SameTurn(a, Gone(a)) /\ Gone(a).pc = "gone"
<1>1. SameTurn(a, TakenBack(a))
  <2> DEFINE h == SubSeq(a.history, 1, Min({a.before, Len(a.history)}))
  <2>1. TakenBack(a) = [a EXCEPT !.history = h, !.pc = "observe", !.back = a.back \cup {a.step}, !.odd = a.odd \/ a.cut]
    BY DEF TakenBack
  <2> HIDE DEF h
  <2>2. QED
    BY <2>1 DEF SameTurn, ReactType
<1>2. QED
  BY <1>1 DEF Refused, Crashed, Forced, Gone, SameTurn, ReactType

\* What a behaviour has had is counted.
LEMMA UsedGrows ==
  ASSUME used \in [Bounds -> Nat], Next
  PROVE  used' \in [Bounds -> Nat] /\ used'.starts >= used.starts
<1> DEFINE Counts == used' = used \/ \E what \in Bounds : used' = [used EXCEPT ![what] = @ + 1]
<1>1. ASSUME NEW what \in Bounds, Use(what) PROVE Counts
  BY <1>1 DEF Use
<1>2. {"replies", "fails", "losses", "gives", "acts", "reports", "risks", "faults", "stops", "crashes", "starts", "rebuilds", "rounds"}
        \subseteq Bounds
  BY DEF Bounds
<1>3. ASSUME UNCHANGED bounds PROVE Counts
  BY <1>3 DEF bounds
<1> HIDE DEF Counts
<1>4. ASSUME NEW r, \/ StartAgain(r) \/ Stop(r) \/ Stopped(r) \/ OpenHook(r) \/ GiveUp(r) \/ Over(r)
                    \/ Mark(r) \/ Summarize(r) \/ LoadHistory(r) \/ WriteHistory(r)
      PROVE  Counts
  BY <1>1, <1>2, <1>3, <1>4 DEF StartAgain, Stop, Stopped, OpenHook, GiveUp, Over, Mark, Summarize,
                                LoadHistory, WriteHistory
<1>5. ASSUME NEW r, \/ FinishStep(r) \/ (\E report, step : Report(r, report, step)) \/ (\E ends : OtherTurn(r, ends))
      PROVE  Counts
  BY <1>1, <1>2, <1>3, <1>5 DEF FinishStep, Report, OtherTurn
<1>6. ASSUME Crash \/ RebuildScan \/ RebuildWrite PROVE Counts
  BY <1>1, <1>2, <1>3, <1>6 DEF Crash, RebuildScan, RebuildWrite
<1>7. ASSUME RunModels PROVE Counts
  BY <1>1, <1>2, <1>3, <1>7 DEF RunModels, CreateRun, CreateFails, Round, Ask, AskFails, Asked, ReadSummaries, BatchLoad,
                                BatchWrite, BatchEnds
<1>8. ASSUME NEW p, Observe(p) \/ Leave(p) \/ ReactStep(p) PROVE Counts
  BY <1>1, <1>2, <1>3, <1>8 DEF Observe, Leave, ReactStep, ModelFails, ModelReplies, ActTaken, ActLost, ActRefused
<1>9. ASSUME NEW p, RuleStep(p) PROVE Counts
  <2>1. ASSUME NEW b, Act(p, b) PROVE Counts
    BY <1>1, <1>2, <1>3, <2>1 DEF Act
  <2>2. QED
    BY <1>1, <1>2, <1>3, <1>9, <2>1 DEF RuleStep, AskBalance, AskShelf, Clear, AskRisks, Drop, Adjust, Review, DropUnsold,
                                        Search, List, End, RuleRefused, RuleLost
<1>10. Counts
  BY <1>4, <1>5, <1>6, <1>7, <1>8, <1>9 DEF Next, Service
<1>11. "starts" \in Bounds
  BY DEF Bounds
<1>12. CASE used' = used
  BY <1>11, <1>12
<1>13. ASSUME NEW what \in Bounds, used' = [used EXCEPT ![what] = @ + 1]
       PROVE  used' \in [Bounds -> Nat] /\ used'.starts >= used.starts
  BY <1>11, <1>13
<1>14. QED
  BY <1>10, <1>12, <1>13 DEF Counts

\* A process that goes on with its turn, ends it, or observes.
LEMMA OwnTurn ==
  ASSUME AgentInv, TurnInv, NEW p \in Procs, Alive(p), NEW b \in AgentType, b # Nothing, b.run = proc[p].run,
         proc' = [proc EXCEPT ![p] = b], UNCHANGED <<phase, t, child, crowded, limit>>,
         used' \in [Bounds -> Nat], used'.starts = 0 => used.starts = 0,
         \/ hook' = hook
         \/ hook[proc[p].run] = "open" /\ hook' = [hook EXCEPT ![proc[p].run] = "shut"],
         \/ b.step = proc[p].step /\ (b.pc = "observe" => hook'[b.run] # "open" \/ b.step # t[b.run])
         \/ b.step = t[b.run] /\ b.pc # "observe" /\ hook[b.run] = "open"
  PROVE  TurnInv'
<1> DEFINE a == proc[p]
           r == b.run
<1>1. /\ hook \in [AllJobs -> {"closed", "open", "shut"}] /\ proc \in [Procs -> AgentType] /\ a # Nothing
      /\ t \in [AllJobs -> Nat] /\ a.run = r /\ r \in Jobs /\ Jobs \subseteq AllJobs
  BY JobsAmongAll DEF TurnInv, AgentInv, Alive
<1>2. \A s \in AllJobs : /\ hook[s] = "open" => phase[s] = "active"
                         /\ phase[s] \notin {"active", "stopping"} => hook[s] = "closed"
                         /\ phase[s] \in {"none", "stopping", "stopped"} => child[s] = None
  BY DEF TurnInv
<1>3. \A q \in Procs : proc[q] # Nothing =>
         /\ phase[proc[q].run] # "none" /\ proc[q].step <= t[proc[q].run] /\ proc[q].run \in Jobs
         /\ limit.jobs[proc[q].run] \in Kinds
         /\ Alive(q) /\ proc[q].run \notin crowded =>
              /\ InTurn(proc[q], phase[proc[q].run], t[proc[q].run], hook[proc[q].run])
              /\ \A x \in Procs : Alive(x) /\ proc[x].run = proc[q].run => x = q
  BY DEF TurnInv
<1>4. used.starts = 0 => crowded = {}
  BY DEF TurnInv
<1>5. \A q \in Procs : proc'[q] = IF q = p THEN b ELSE proc[q]
  BY <1>1
<1>6. hook' \in [AllJobs -> {"closed", "open", "shut"}]
  BY <1>1
<1>7. \A s \in AllJobs : hook'[s] = hook[s] \/ (s = r /\ hook[s] = "open" /\ hook'[s] = "shut")
  <2>1. CASE hook' = hook
    BY <2>1
  <2>2. CASE hook[r] = "open" /\ hook' = [hook EXCEPT ![r] = "shut"]
    BY <1>1, <2>2
  <2>3. QED
    BY <1>1, <2>1, <2>2
<1>8. \A s \in AllJobs : /\ hook'[s] = "open" => phase'[s] = "active"
                         /\ phase'[s] \notin {"active", "stopping"} => hook'[s] = "closed"
                         /\ phase'[s] \in {"none", "stopping", "stopped"} => child'[s] = None
  BY <1>2, <1>7
<1>9. ASSUME NEW q \in Procs, proc'[q] # Nothing
      PROVE  /\ phase'[proc'[q].run] # "none" /\ proc'[q].step <= t'[proc'[q].run] /\ proc'[q].run \in Jobs
             /\ limit'.jobs[proc'[q].run] \in Kinds
             /\ Alive(q)' /\ proc'[q].run \notin crowded' =>
                  /\ InTurn(proc'[q], phase'[proc'[q].run], t'[proc'[q].run], hook'[proc'[q].run])
                  /\ \A x \in Procs : Alive(x)' /\ proc'[x].run = proc'[q].run => x = q
  <2>1. proc[q] # Nothing /\ proc'[q].run = proc[q].run /\ (Alive(q)' => Alive(q))
    BY <1>1, <1>5, <1>9 DEF Alive
  <2>2. proc'[q].step <= t'[proc'[q].run]
    <3>1. CASE q # p
      BY <1>3, <1>5, <2>1, <3>1
    <3>2. CASE q = p
      <4>1. t[r] \in Nat
        BY <1>1
      <4>2. b.step = a.step \/ b.step = t[r]
        OBVIOUS
      <4>3. QED
        BY <1>1, <1>3, <1>5, <3>2, <4>1, <4>2
    <3>3. QED
      BY <3>1, <3>2
  <2>3. \A x \in Procs : Alive(x)' => Alive(x) /\ proc'[x].run = proc[x].run
    BY <1>1, <1>5 DEF Alive
  <2>4. ASSUME Alive(q)', proc'[q].run \notin crowded'
        PROVE  /\ InTurn(proc'[q], phase'[proc'[q].run], t'[proc'[q].run], hook'[proc'[q].run])
               /\ \A x \in Procs : Alive(x)' /\ proc'[x].run = proc'[q].run => x = q
    <3>1. /\ InTurn(proc[q], phase[proc[q].run], t[proc[q].run], hook[proc[q].run])
          /\ \A x \in Procs : Alive(x) /\ proc[x].run = proc[q].run => x = q
      BY <1>3, <2>1, <2>4
    <3>2. ASSUME q = p
          PROVE  InTurn(proc'[q], phase'[proc'[q].run], t'[proc'[q].run], hook'[proc'[q].run])
      <4>1. proc'[q] = b /\ r \in AllJobs /\ t[r] \in Nat
        BY <1>1, <1>5, <3>2
      <4>2. InTurn(a, phase[r], t[r], hook[r])
        BY <1>1, <3>1, <3>2
      <4>3. hook'[r] = hook[r] \/ (hook[r] = "open" /\ hook'[r] = "shut")
        BY <1>7, <4>1
      <4>4. InTurn(b, phase[r], t[r], hook'[r])
        BY <4>1, <4>2, <4>3 DEF InTurn
      <4>5. QED
        BY <3>1, <4>1, <4>4, <1>5, <3>2 DEF InTurn
    <3>3. ASSUME q # p
          PROVE  InTurn(proc'[q], phase'[proc'[q].run], t'[proc'[q].run], hook'[proc'[q].run])
      <4>1. proc[q].run # r /\ proc[q].run \in AllJobs
        BY <1>1, <1>3, <2>1, <3>1, <3>3
      <4>2. hook'[proc[q].run] = hook[proc[q].run] /\ proc'[q] = proc[q]
        BY <1>5, <1>7, <3>3, <4>1
      <4>3. QED
        BY <3>1, <4>2 DEF InTurn
    <3>4. /\ InTurn(proc'[q], phase'[proc'[q].run], t'[proc'[q].run], hook'[proc'[q].run])
      BY <3>2, <3>3
    <3>5. QED
      BY <2>1, <2>3, <3>1, <3>4
  <2>5. QED
    BY <1>3, <2>1, <2>2, <2>4
<1>10. Jobs' = Jobs
  BY DEF Jobs
<1>11. QED
  BY <1>4, <1>6, <1>8, <1>9, <1>10 DEF TurnInv

\* A run with its hook and its child.
Hooked(ph, hk, ch) ==
  /\ hk = "open" => ph = "active"
  /\ ph \notin {"active", "stopping"} => hk = "closed"
  /\ ph \in {"none", "stopping", "stopped"} => ch = None

\* The service moves runs on, and processes may end.
LEMMA RunMoves ==
  ASSUME AgentInv, TurnInv, UNCHANGED <<crowded, limit>>,
         used' \in [Bounds -> Nat], used'.starts = 0 => used.starts = 0,
         hook' \in [AllJobs -> {"closed", "open", "shut"}], t' \in [AllJobs -> Nat],
         \A q \in Procs : proc'[q] = proc[q] \/ (proc[q] # Nothing /\ proc'[q] = Gone(proc[q])),
         \A s \in AllJobs : /\ Hooked(phase'[s], hook'[s], child'[s])
                            /\ phase[s] # "none" => phase'[s] # "none"
                            /\ t'[s] >= t[s]
                            /\ \A a \in ReactType \cup RuleType : a.step <= t[s] /\ InTurn(a, phase[s], t[s], hook[s]) =>
                                 InTurn(a, phase'[s], t'[s], hook'[s])
  PROVE  TurnInv'
<1>1. \A q \in Procs : proc[q] # Nothing =>
         /\ phase[proc[q].run] # "none" /\ proc[q].step <= t[proc[q].run] /\ proc[q].run \in Jobs
         /\ limit.jobs[proc[q].run] \in Kinds
         /\ Alive(q) /\ proc[q].run \notin crowded =>
              /\ InTurn(proc[q], phase[proc[q].run], t[proc[q].run], hook[proc[q].run])
              /\ \A x \in Procs : Alive(x) /\ proc[x].run = proc[q].run => x = q
  BY DEF TurnInv
<1>2. \A q \in Procs : proc[q] # Nothing => proc[q] \in ReactType \cup RuleType /\ proc[q].step \in Int
  BY DEF AgentInv, AgentType, ReactType, RuleType
<1>3. ASSUME NEW a \in ReactType \cup RuleType
      PROVE  Gone(a).run = a.run /\ Gone(a).step = a.step /\ Gone(a).pc = "gone" /\ a # Nothing
  <2>1. a # Nothing
    BY AgentKinds
  <2>2. CASE a \in ReactType
    BY <2>1, <2>2 DEF Gone, ReactType
  <2>3. CASE a \in RuleType
    BY <2>1, <2>3 DEF Gone, RuleType
  <2>4. QED
    BY <2>2, <2>3
<1>4. ASSUME NEW q \in Procs, proc'[q] # Nothing
      PROVE  /\ proc[q] # Nothing /\ proc'[q].run = proc[q].run /\ proc'[q].step = proc[q].step
             /\ Alive(q)' => Alive(q) /\ proc'[q] = proc[q]
  BY <1>2, <1>3, <1>4 DEF Alive
<1>5. Jobs' = Jobs /\ Jobs \subseteq AllJobs /\ t \in [AllJobs -> Nat]
  BY JobsAmongAll DEF Jobs, AgentInv
<1>6. ASSUME NEW q \in Procs, proc'[q] # Nothing
      PROVE  /\ phase'[proc'[q].run] # "none" /\ proc'[q].step <= t'[proc'[q].run] /\ proc'[q].run \in Jobs'
             /\ limit'.jobs[proc'[q].run] \in Kinds
             /\ Alive(q)' /\ proc'[q].run \notin crowded' =>
                  /\ InTurn(proc'[q], phase'[proc'[q].run], t'[proc'[q].run], hook'[proc'[q].run])
                  /\ \A x \in Procs : Alive(x)' /\ proc'[x].run = proc'[q].run => x = q
  <2>1. proc[q] # Nothing /\ proc'[q].run = proc[q].run /\ proc'[q].step = proc[q].step
    BY <1>4, <1>6
  <2> DEFINE r == proc[q].run
  <2>2. /\ phase[r] # "none" /\ proc[q].step <= t[r] /\ r \in Jobs /\ limit.jobs[r] \in Kinds /\ r \in AllJobs
        /\ t[r] \in Nat /\ t'[r] \in Nat /\ proc[q].step \in Int
    BY <1>1, <1>2, <1>5, <2>1
  <2>3. t'[r] >= t[r] /\ phase'[r] # "none"
    BY <2>2
  <2>4. proc[q].step <= t'[r]
    BY <2>2, <2>3
  <2>5. ASSUME Alive(q)', r \notin crowded
        PROVE  /\ InTurn(proc'[q], phase'[r], t'[r], hook'[r])
               /\ \A x \in Procs : Alive(x)' /\ proc'[x].run = r => x = q
    <3>1. Alive(q) /\ proc'[q] = proc[q]
      BY <1>4, <1>6, <2>5
    <3>2. /\ InTurn(proc[q], phase[r], t[r], hook[r])
          /\ \A x \in Procs : Alive(x) /\ proc[x].run = r => x = q
      BY <1>1, <2>1, <2>5, <3>1
    <3>3. InTurn(proc[q], phase'[r], t'[r], hook'[r])
      BY <1>2, <2>1, <2>2, <3>2
    <3>4. \A x \in Procs : Alive(x)' => Alive(x) /\ proc'[x] = proc[x]
      BY <1>4 DEF Alive
    <3>5. QED
      BY <3>1, <3>2, <3>3, <3>4
  <2> HIDE DEF r
  <2>6. proc'[q].run = r
    BY <2>1 DEF r
  <2>7. QED
    BY <1>5, <2>1, <2>2, <2>3, <2>4, <2>5, <2>6
<1>7. used'.starts = 0 => crowded' = {}
  BY DEF TurnInv
<1>8. \A s \in AllJobs : /\ hook'[s] = "open" => phase'[s] = "active"
                         /\ phase'[s] \notin {"active", "stopping"} => hook'[s] = "closed"
                         /\ phase'[s] \in {"none", "stopping", "stopped"} => child'[s] = None
  BY DEF Hooked
<1>9. QED
  BY <1>6, <1>7, <1>8 DEF TurnInv

\* A run that starts has a new process, if any, and is crowded if an old one is left.
LEMMA StartTurn ==
  ASSUME AgentInv, TurnInv, phase \in [AllJobs -> {"none", "summed", "loading", "done"} \cup Early],
         NEW r \in Jobs, phase[r] \in {"none", "stopped"}, Spawn(r), phase' = [phase EXCEPT ![r] = "active"],
         UNCHANGED <<t, hook, limit>>, used' \in [Bounds -> Nat], used'.starts = 0 => used.starts = 0,
         phase[r] = "none" \/ used'.starts # 0
  PROVE  TurnInv'
<1>1. \A q \in Procs : proc[q] # Nothing =>
         /\ phase[proc[q].run] # "none" /\ proc[q].step <= t[proc[q].run] /\ proc[q].run \in Jobs
         /\ limit.jobs[proc[q].run] \in Kinds
         /\ Alive(q) /\ proc[q].run \notin crowded =>
              /\ InTurn(proc[q], phase[proc[q].run], t[proc[q].run], hook[proc[q].run])
              /\ \A x \in Procs : Alive(x) /\ proc[x].run = proc[q].run => x = q
  BY DEF TurnInv
<1>2. /\ Jobs' = Jobs /\ Jobs \subseteq AllJobs /\ r \in AllJobs /\ t \in [AllJobs -> Nat] /\ proc \in [Procs -> AgentType]
      /\ hook \in [AllJobs -> {"closed", "open", "shut"}] /\ hook[r] = "closed" /\ child[r] = None
      /\ child \in [AllJobs -> Procs \cup {None}]
  BY JobsAmongAll DEF Jobs, AgentInv, TurnInv
<1>3. \A s \in AllJobs : phase'[s] = IF s = r THEN "active" ELSE phase[s]
  BY <1>2
<1>4. \/ UNCHANGED <<agents, crowded>> /\ limit.jobs[r] \notin Kinds
      \/ \E p \in Procs :
           /\ proc[p] = Nothing /\ limit.jobs[r] \in Kinds
           /\ proc' = [proc EXCEPT ![p] = Process(r)] /\ child' = [child EXCEPT ![r] = p]
           /\ crowded' = IF \E q \in Procs : Alive(q) /\ proc[q].run = r THEN crowded \cup {r} ELSE crowded
  BY <1>2 DEF Spawn
<1>5. used'.starts = 0 => crowded' = {}
  <2>1. used.starts = 0 => crowded = {}
    BY DEF TurnInv
  <2>2. phase[r] = "none" => \A q \in Procs : ~(Alive(q) /\ proc[q].run = r)
    BY <1>1 DEF Alive
  <2>3. QED
    BY <1>4, <2>1, <2>2
<1>6. \A s \in AllJobs : /\ hook'[s] = "open" => phase'[s] = "active"
                         /\ phase'[s] \notin {"active", "stopping"} => hook'[s] = "closed"
                         /\ phase'[s] \in {"none", "stopping", "stopped"} => child'[s] = None
  <2>1. \A s \in AllJobs : child'[s] = child[s] \/ s = r
    BY <1>2, <1>4 DEF agents
  <2>2. QED
    BY <1>3, <2>1 DEF TurnInv
<1>7. CASE UNCHANGED <<agents, crowded>> /\ limit.jobs[r] \notin Kinds
  <2>1. proc' = proc /\ crowded' = crowded
    BY <1>7 DEF agents
  <2>2. ASSUME NEW q \in Procs, proc[q] # Nothing
        PROVE  proc[q].run # r /\ phase'[proc[q].run] = phase[proc[q].run]
    BY <1>1, <1>2, <1>3, <1>7, <2>2
  <2>3. \A q \in Procs : proc[q] # Nothing =>
         /\ phase'[proc[q].run] # "none" /\ proc[q].step <= t[proc[q].run] /\ proc[q].run \in Jobs
         /\ limit.jobs[proc[q].run] \in Kinds
         /\ Alive(q) /\ proc[q].run \notin crowded =>
              /\ InTurn(proc[q], phase'[proc[q].run], t[proc[q].run], hook[proc[q].run])
              /\ \A x \in Procs : Alive(x) /\ proc[x].run = proc[q].run => x = q
    BY <1>1, <2>2
  <2>4. \A q \in Procs : Alive(q)' <=> Alive(q)
    BY <2>1 DEF Alive
  <2>5. \A q \in Procs : proc'[q] # Nothing =>
         /\ phase'[proc'[q].run] # "none" /\ proc'[q].step <= t'[proc'[q].run] /\ proc'[q].run \in Jobs
         /\ limit'.jobs[proc'[q].run] \in Kinds
         /\ Alive(q)' /\ proc'[q].run \notin crowded' =>
              /\ InTurn(proc'[q], phase'[proc'[q].run], t'[proc'[q].run], hook'[proc'[q].run])
              /\ \A x \in Procs : Alive(x)' /\ proc'[x].run = proc'[q].run => x = q
    BY <2>1, <2>3, <2>4
  <2>6. QED
    BY <1>2, <1>5, <1>6, <2>5 DEF TurnInv
<1>8. ASSUME NEW p \in Procs, proc[p] = Nothing, limit.jobs[r] \in Kinds, proc' = [proc EXCEPT ![p] = Process(r)],
             crowded' = IF \E q \in Procs : Alive(q) /\ proc[q].run = r THEN crowded \cup {r} ELSE crowded
      PROVE  TurnInv'
  <2> DEFINE a == Process(r)
  <2>1. a # Nothing /\ a.run = r /\ a.step = -1 /\ a.pc = "observe"
    <3>1. a = React(r) \/ a = Rule(r, limit.jobs[r])
      BY DEF Process
    <3>2. a # Nothing
      BY <1>8, ProcessTyped, AgentKinds DEF AgentInv
    <3>3. QED
      BY <3>1, <3>2 DEF React, Rule, Never
  <2> HIDE DEF a
  <2>2. \A q \in Procs : proc'[q] = IF q = p THEN a ELSE proc[q]
    BY <1>2, <1>8 DEF a
  <2>3. t[r] \in Nat
    BY <1>2
  <2>4. ASSUME NEW q \in Procs, proc'[q] # Nothing
        PROVE  /\ phase'[proc'[q].run] # "none" /\ proc'[q].step <= t'[proc'[q].run] /\ proc'[q].run \in Jobs
               /\ limit'.jobs[proc'[q].run] \in Kinds
               /\ Alive(q)' /\ proc'[q].run \notin crowded' =>
                  /\ InTurn(proc'[q], phase'[proc'[q].run], t'[proc'[q].run], hook'[proc'[q].run])
                  /\ \A x \in Procs : Alive(x)' /\ proc'[x].run = proc'[q].run => x = q
    <3>1. CASE q = p
      <4>1. proc'[q] = a /\ phase'[r] = "active"
        BY <1>2, <1>3, <2>2, <3>1
      <4>2. a.step <= t[r] /\ a.step < t[r]
        BY <2>1, <2>3
      <4>3. InTurn(a, "active", t[r], hook[r])
        BY <1>2, <4>2 DEF InTurn
      <4>4. ASSUME r \notin crowded', NEW x \in Procs, Alive(x)', proc'[x].run = r PROVE x = q
        <5>1. CASE x # p
          BY <1>8, <2>2, <4>4, <5>1 DEF Alive
        <5>2. QED
          BY <3>1, <5>1
      <4>5. QED
        BY <1>8, <2>1, <4>1, <4>2, <4>3, <4>4
    <3>2. CASE q # p
      <4>1. proc'[q] = proc[q] /\ proc[q] # Nothing /\ (Alive(q)' <=> Alive(q))
        BY <2>2, <2>4, <3>2 DEF Alive
      <4> DEFINE s == proc[q].run
      <4>2. /\ phase[s] # "none" /\ proc[q].step <= t[s] /\ s \in Jobs /\ limit.jobs[s] \in Kinds /\ s \in AllJobs
        BY <1>1, <1>2, <4>1
      <4>3. ASSUME Alive(q), s \notin crowded'
            PROVE  /\ InTurn(proc[q], phase'[s], t[s], hook[s])
                   /\ \A x \in Procs : Alive(x)' /\ proc'[x].run = s => x = q
        <5>1. s # r /\ s \notin crowded
          BY <1>8, <4>3
        <5>2. phase'[s] = phase[s]
          BY <1>3, <4>2, <5>1
        <5>3. \A x \in Procs : Alive(x)' /\ proc'[x].run = s => Alive(x) /\ proc[x].run = s
          BY <2>1, <2>2, <5>1 DEF Alive
        <5>4. /\ InTurn(proc[q], phase[s], t[s], hook[s])
              /\ \A x \in Procs : Alive(x) /\ proc[x].run = s => x = q
          BY <1>1, <4>1, <4>3, <5>1
        <5>5. QED
          BY <5>2, <5>3, <5>4
      <4> HIDE DEF s
      <4>4. proc'[q].run = s /\ phase'[s] # "none"
        BY <1>3, <4>1, <4>2 DEF s
      <4>5. QED
        BY <4>1, <4>2, <4>3, <4>4
    <3>3. QED
      BY <3>1, <3>2
  <2>5. QED
    BY <1>2, <1>5, <1>6, <2>4 DEF TurnInv
<1>9. QED
  BY <1>4, <1>7, <1>8

\* The service moves a run on.
LEMMA ServiceTurn ==
  ASSUME AgentInv, PhaseInv, TurnInv, Next, NEW r \in Jobs,
         \/ Stop(r) \/ Stopped(r) \/ OpenHook(r) \/ GiveUp(r) \/ FinishStep(r) \/ Over(r)
         \/ Mark(r) \/ Summarize(r) \/ LoadHistory(r) \/ WriteHistory(r)
  PROVE  TurnInv'
<1> DEFINE Moves(s) == /\ Hooked(phase'[s], hook'[s], child'[s])
                       /\ phase[s] # "none" => phase'[s] # "none"
                       /\ t'[s] >= t[s]
                       /\ \A a \in ReactType \cup RuleType : a.step <= t[s] /\ InTurn(a, phase[s], t[s], hook[s]) =>
                            InTurn(a, phase'[s], t'[s], hook'[s])
<1>1. /\ limit' = limit /\ used' \in [Bounds -> Nat] /\ used.starts \in Nat /\ used'.starts \in Nat
      /\ (used'.starts = 0 => used.starts = 0)
  <2>1. "starts" \in Bounds
    BY DEF Bounds
  <2>2. used \in [Bounds -> Nat]
    BY DEF TurnInv
  <2>3. used' \in [Bounds -> Nat] /\ used'.starts >= used.starts
    BY <2>2, UsedGrows
  <2>4. used.starts \in Nat /\ used'.starts \in Nat
    BY <2>1, <2>2, <2>3
  <2>5. QED
    BY <2>3, <2>4, LimitFixed
<1>2. /\ r \in AllJobs /\ t \in [AllJobs -> Nat] /\ hook \in [AllJobs -> {"closed", "open", "shut"}]
      /\ phase \in [AllJobs -> {"none", "summed", "loading", "done"} \cup Early]
      /\ child \in [AllJobs -> Procs \cup {None}]
      /\ \A s \in AllJobs : Hooked(phase[s], hook[s], child[s])
  BY JobsAmongAll DEF AgentInv, PhaseInv, TurnInv, Hooked
<1>3. crowded' = crowded
  BY DEF Stop, Stopped, OpenHook, GiveUp, FinishStep, Over, Mark, Summarize, LoadHistory, WriteHistory
<1>4. t' \in [AllJobs -> Nat] /\ hook' \in [AllJobs -> {"closed", "open", "shut"}]
  <2>1. t' = t \/ t' = [t EXCEPT ![r] = @ + 1]
    BY DEF Stop, Stopped, OpenHook, GiveUp, FinishStep, Over, Mark, Summarize, LoadHistory, WriteHistory, runs
  <2>2. hook' = hook \/ \E h \in {"closed", "open", "shut"} : hook' = [hook EXCEPT ![r] = h]
    BY <1>2 DEF Stop, Stopped, OpenHook, GiveUp, FinishStep, Over, Mark, Summarize, LoadHistory, WriteHistory, runs
  <2>3. QED
    BY <1>2, <2>1, <2>2
<1>5. \/ proc' = proc /\ child' = child
      \/ Kill(r)
  BY DEF Stop, Stopped, OpenHook, GiveUp, FinishStep, Over, Mark, Summarize, LoadHistory, WriteHistory, agents
<1>6. \A q \in Procs : proc'[q] = proc[q] \/ (proc[q] # Nothing /\ proc'[q] = Gone(proc[q]))
  <2>1. CASE proc' = proc
    BY <2>1
  <2>2. CASE Kill(r)
    BY <1>2, <2>2 DEF Kill, AgentInv
  <2>3. QED
    BY <1>5, <2>1, <2>2
<1>7. \A s \in AllJobs : child'[s] = child[s] \/ child'[s] = None
  BY <1>2, <1>5 DEF Kill
<1>8. \A s \in AllJobs \ {r} : phase'[s] = phase[s] /\ hook'[s] = hook[s] /\ t'[s] = t[s]
  BY <1>2 DEF Stop, Stopped, OpenHook, GiveUp, FinishStep, Over, Mark, Summarize, LoadHistory, WriteHistory, runs
<1>9. ASSUME NEW s \in AllJobs, s # r PROVE Moves(s)
  BY <1>2, <1>7, <1>8, <1>9 DEF Hooked
<1>10. Moves(r)
  <2>1. Hooked(phase[r], hook[r], child[r]) /\ t[r] \in Nat
    BY <1>2
  <2>2. CASE Stop(r)
    <3>1. /\ phase'[r] = "stopping" /\ hook'[r] # "open" /\ t' = t /\ child'[r] = None
      BY <1>2, <2>2 DEF Stop, Kill
    <3>2. QED
      BY <2>1, <3>1 DEF Hooked, InTurn
  <2>3. CASE Stopped(r)
    <3>1. phase'[r] = "stopped" /\ hook' = hook /\ hook[r] = "closed" /\ t' = t /\ child' = child /\ phase[r] = "stopping"
      BY <1>2, <2>3 DEF Stopped, agents
    <3>2. QED
      BY <2>1, <3>1 DEF Hooked, InTurn
  <2>4. CASE OpenHook(r)
    <3>1. phase' = phase /\ phase[r] = "active" /\ hook[r] = "closed" /\ hook'[r] = "open" /\ t' = t /\ child' = child
      BY <1>2, <2>4 DEF OpenHook, agents
    <3>2. ASSUME NEW a \in ReactType \cup RuleType, InTurn(a, "active", t[r], "closed")
          PROVE  InTurn(a, "active", t[r], "open")
      <4>1. a.step < t[r] /\ a.step \in Int
        BY <3>2 DEF InTurn, ReactType, RuleType
      <4>2. QED
        BY <2>1, <4>1 DEF InTurn
    <3>3. QED
      BY <2>1, <3>1, <3>2 DEF Hooked
  <2>5. CASE GiveUp(r)
    <3>1. phase' = phase /\ phase[r] = "active" /\ hook'[r] = "shut" /\ t' = t /\ child' = child
      BY <1>2, <2>5 DEF GiveUp, agents
    <3>2. QED
      BY <2>1, <3>1 DEF Hooked, InTurn
  <2>6. CASE FinishStep(r)
    <3>1. phase' = phase /\ hook[r] = "shut" /\ hook'[r] = "closed" /\ t'[r] = t[r] + 1 /\ child' = child
      BY <1>2, <2>6 DEF FinishStep, agents
    <3>2. ASSUME NEW a \in ReactType \cup RuleType, a.step <= t[r] PROVE InTurn(a, phase[r], t[r] + 1, "closed")
      <4>1. a.step \in Int
        BY DEF ReactType, RuleType
      <4>2. a.step < t[r] + 1
        BY <2>1, <3>2, <4>1
      <4>3. QED
        BY <4>2 DEF InTurn
    <3>3. t'[r] >= t[r]
      BY <2>1, <3>1
    <3>4. QED
      BY <2>1, <3>1, <3>2, <3>3 DEF Hooked
  <2>7. CASE Over(r) \/ Mark(r) \/ Summarize(r) \/ LoadHistory(r) \/ WriteHistory(r)
    <3>1. /\ hook' = hook /\ t' = t /\ phase'[r] \in {"over", "marked", "summed", "loading", "done"}
          /\ hook[r] = "closed"
      BY <1>2, <2>1, <2>7 DEF Over, Mark, Summarize, LoadHistory, WriteHistory, Hooked
    <3>2. QED
      BY <2>1, <3>1 DEF Hooked, InTurn
  <2>8. QED
    BY <2>2, <2>3, <2>4, <2>5, <2>6, <2>7
<1>11. \A s \in AllJobs : Moves(s)
  BY <1>9, <1>10
<1>12. QED
  BY <1>1, <1>3, <1>4, <1>6, <1>11, RunMoves

\* A crash stops every run that is active, and no run is active after it.
LEMMA CrashTurn == ASSUME AgentInv, PhaseInv, TurnInv, Next, Crash PROVE TurnInv'
<1>1. /\ limit' = limit /\ used' \in [Bounds -> Nat] /\ (used'.starts = 0 => used.starts = 0)
  <2>1. "starts" \in Bounds
    BY DEF Bounds
  <2>2. used \in [Bounds -> Nat]
    BY DEF TurnInv
  <2>3. used' \in [Bounds -> Nat] /\ used'.starts >= used.starts
    BY <2>2, UsedGrows
  <2>4. used.starts \in Nat /\ used'.starts \in Nat
    BY <2>1, <2>2, <2>3
  <2>5. QED
    BY <2>3, <2>4, LimitFixed
<1>2. /\ UNCHANGED <<t, proc, crowded>> /\ t \in [AllJobs -> Nat]
      /\ phase \in [AllJobs -> {"none", "summed", "loading", "done"} \cup Early]
      /\ hook' = [s \in AllJobs |-> "closed"] /\ child' = [s \in AllJobs |-> None]
      /\ phase' = [s \in AllJobs |-> CASE phase[s] \in {"active", "stopping", "over"} -> "stopped"
                                       [] phase[s] \in {"marked", "summed", "loading"} -> "done"
                                       [] OTHER -> phase[s]]
  BY DEF Crash, AgentInv, PhaseInv
<1>3. ASSUME NEW s \in AllJobs
      PROVE  /\ hook'[s] = "closed" /\ child'[s] = None /\ phase'[s] # "active"
             /\ phase[s] # "none" => phase'[s] # "none"
  <2>1. phase'[s] = CASE phase[s] \in {"active", "stopping", "over"} -> "stopped"
                      [] phase[s] \in {"marked", "summed", "loading"} -> "done"
                      [] OTHER -> phase[s]
    BY <1>2
  <2>2. QED
    BY <1>2, <2>1
<1>4. \A s \in AllJobs : /\ Hooked(phase'[s], hook'[s], child'[s])
                         /\ phase[s] # "none" => phase'[s] # "none"
                         /\ t'[s] >= t[s]
                         /\ \A a \in ReactType \cup RuleType : a.step <= t[s] /\ InTurn(a, phase[s], t[s], hook[s]) =>
                              InTurn(a, phase'[s], t'[s], hook'[s])
  BY <1>2, <1>3 DEF Hooked, InTurn
<1>5. t' \in [AllJobs -> Nat] /\ hook' \in [AllJobs -> {"closed", "open", "shut"}]
  BY <1>2
<1>6. QED
  BY <1>1, <1>2, <1>4, <1>5, RunMoves

\* So is what the rule based agent does in a turn.
LEMMA RuleTurn ==
  ASSUME NEW a \in RuleType, NEW day \in Int, NEW products \in SUBSET Products
  PROVE  \A b \in {Shelved(a, products), Risked(a, products), Dropped(a), Ends(a, day), Seeds(a, day), Priced(a, day),
                   Reviewed(a, products, day), Picked(a, products, day), Listed(a, day)} :
           SameTurn(a, b) /\ b.pc # "observe"
<1>1. ASSUME NEW c \in RuleType, SameTurn(a, c)
      PROVE  /\ SameTurn(a, Ends(c, day)) /\ Ends(c, day).pc = "end"
             /\ SameTurn(a, Seeds(c, day)) /\ Seeds(c, day).pc # "observe"
  BY <1>1 DEF Ends, Seeds, SameTurn, RuleType
<1>2. SameTurn(a, a)
  BY DEF SameTurn
<1>3. SameTurn(a, Shelved(a, products)) /\ Shelved(a, products).pc # "observe"
  BY DEF Shelved, SameTurn, RuleType
<1>4. SameTurn(a, Risked(a, products)) /\ Risked(a, products).pc # "observe"
  BY DEF Risked, SameTurn, RuleType
<1>5. SameTurn(a, Dropped(a)) /\ Dropped(a).pc # "observe"
  BY DEF Dropped, SameTurn, RuleType
<1>6. SameTurn(a, Priced(a, day)) /\ Priced(a, day).pc # "observe"
  BY <1>1, <1>2 DEF Priced, SameTurn, RuleType
<1>7. SameTurn(a, Reviewed(a, products, day)) /\ Reviewed(a, products, day).pc # "observe"
  BY <1>1, <1>2 DEF Reviewed, SameTurn, RuleType
<1>8. SameTurn(a, Picked(a, products, day)) /\ Picked(a, products, day).pc # "observe"
  BY <1>1, <1>2 DEF Picked, SameTurn, RuleType
<1>9. SameTurn(a, Listed(a, day)) /\ Listed(a, day).pc # "observe"
  <2> DEFINE b == [a EXCEPT !.listed = @ \cup a.picks]
  <2>1. b \in RuleType /\ SameTurn(a, b)
    BY DEF RuleType, SameTurn
  <2>2. Listed(a, day) = Ends(b, day)
    BY DEF Listed
  <2> HIDE DEF b
  <2>3. QED
    BY <1>1, <2>1, <2>2
<1>10. QED
  BY <1>1, <1>2, <1>3, <1>4, <1>5, <1>6, <1>7, <1>8, <1>9

\* A process goes on with its turn: b is what it is next.
GoesOn(p, b) ==
  /\ Alive(p) /\ b.run = proc[p].run /\ proc' = [proc EXCEPT ![p] = b]
  /\ \/ hook' = hook
     \/ hook[proc[p].run] = "open" /\ hook' = [hook EXCEPT ![proc[p].run] = "shut"]
  /\ \/ b.step = proc[p].step /\ (b.pc = "observe" => hook'[b.run] # "open" \/ b.step # t[b.run])
     \/ b.step = t[b.run] /\ b.pc # "observe" /\ hook[b.run] = "open"

\* An act that is taken leaves the hook as it is, or shuts it.
LEMMA TakeShuts ==
  ASSUME hook \in [AllJobs -> {"closed", "open", "shut"}], NEW r \in AllJobs, NEW usage, NEW ends, Take(r, usage, ends)
  PROVE  /\ hook' = hook \/ (hook[r] = "open" /\ hook' = [hook EXCEPT ![r] = "shut"])
         /\ ends => hook'[r] # "open"
BY DEF Take

\* The rule based agent goes on with its turn, or ends it, in every step.
LEMMA RuleGoesOn ==
  ASSUME AgentInv, TurnInv, NEW p \in Procs, RuleStep(p)
  PROVE  \E b \in RuleType : GoesOn(p, b)
<1> DEFINE a == proc[p]
           r == a.run
           Done == \E b \in RuleType : GoesOn(p, b)
<1>1. a \in RuleType /\ Alive(p)
  <2>1. Alive(p)
    BY DEF RuleStep, AskBalance, AskShelf, Clear, AskRisks, Drop, Adjust, Review, DropUnsold, Search, List, End,
           RuleRefused, RuleLost, Is, Sends
  <2>2. QED
    BY <2>1, RuleStepTyped
<1>2. /\ r \in AllJobs /\ t[r] \in Nat /\ shop[r].shelf \in SUBSET Products /\ shop[r].risky \in SUBSET Products
      /\ Day(r) \in Int /\ hook \in [AllJobs -> {"closed", "open", "shut"}]
      /\ a.picks \in SUBSET Products /\ a.shelf \in SUBSET Products
  <2>1. /\ r \in AllJobs /\ t[r] \in Nat /\ shop[r].shelf \in SUBSET Products /\ shop[r].risky \in SUBSET Products
    BY <1>1 DEF AgentInv, RuleType
  <2>2. t[r] \div PerDay \in Int
    BY <2>1, EvaluationAssumption
  <2>3. hook \in [AllJobs -> {"closed", "open", "shut"}] /\ a.picks \in SUBSET Products /\ a.shelf \in SUBSET Products
    BY <1>1 DEF TurnInv, RuleType
  <2>4. QED
    BY <2>1, <2>2, <2>3 DEF Day
<1>3. ASSUME NEW b \in RuleType, SameTurn(a, b), Act(p, b), b.pc # "observe" \/ a.pc = "end"
      PROVE  Done
  <2>1. /\ hook' = hook \/ (hook[r] = "open" /\ hook' = [hook EXCEPT ![r] = "shut"])
        /\ a.pc = "end" => hook'[r] # "open"
    BY <1>2, <1>3, TakeShuts DEF Act
  <2>2. proc' = [proc EXCEPT ![p] = b] \/ proc' = [proc EXCEPT ![p] = Gone(b)]
    BY <1>3 DEF Act
  <2>3. Gone(b) \in RuleType /\ SameTurn(a, Gone(b)) /\ Gone(b).pc = "gone"
    BY <1>3 DEF Gone, RuleType, SameTurn
  <2>4. QED
    BY <1>1, <1>3, <2>1, <2>2, <2>3 DEF GoesOn, SameTurn
<1> HIDE DEF Done
<1>4. ASSUME AskBalance(p) PROVE Done
  <2>1. PICK poor \in BOOLEAN : Act(p, [a EXCEPT !.poor = poor, !.pc = "shelf"])
    BY <1>4 DEF AskBalance
  <2> DEFINE b == [a EXCEPT !.poor = poor, !.pc = "shelf"]
  <2>2. b \in RuleType /\ SameTurn(a, b) /\ b.pc # "observe"
    BY <1>1 DEF RuleType, SameTurn
  <2> HIDE DEF b
  <2>3. QED
    BY <1>3, <2>1, <2>2 DEF b
<1>5. ASSUME AskShelf(p) PROVE Done
  BY <1>1, <1>2, <1>3, <1>5, RuleTyped, RuleTurn DEF AskShelf, Shelf
<1>6. ASSUME Clear(p) \/ End(p) PROVE Done
  <2> DEFINE b(pc) == [a EXCEPT !.pc = pc]
  <2>1. \A pc \in {"end", "observe"} : b(pc) \in RuleType /\ SameTurn(a, b(pc)) /\ b(pc).pc = pc
    BY <1>1 DEF RuleType, SameTurn
  <2>2. Act(p, b("end")) \/ (Act(p, b("observe")) /\ a.pc = "end")
    BY <1>6 DEF Clear, End, Is
  <2>3. QED
    BY <1>3, <2>1, <2>2
<1>7. ASSUME AskRisks(p) PROVE Done
  BY <1>1, <1>2, <1>3, <1>7, RuleTyped, RuleTurn DEF AskRisks
<1>8. ASSUME Drop(p) PROVE Done
  BY <1>1, <1>2, <1>3, <1>8, RuleTyped, RuleTurn DEF Drop
<1>9. ASSUME Adjust(p) PROVE Done
  <2> DEFINE b == Priced(a, Day(r))
  <2>1. b \in RuleType /\ SameTurn(a, b) /\ b.pc # "observe"
    BY <1>1, <1>2, RuleTyped, RuleTurn
  <2>2. Act(p, b) \/ (proc' = [proc EXCEPT ![p] = b] /\ hook' = hook)
    BY <1>9 DEF Adjust, runs
  <2> HIDE DEF b
  <2>3. QED
    BY <1>1, <1>3, <2>1, <2>2 DEF GoesOn, SameTurn, Done
<1>10. ASSUME Review(p) PROVE Done
  <2>1. PICK stale \in SUBSET a.shelf : Act(p, Reviewed(a, stale, Day(r)))
    BY <1>10 DEF Review
  <2>2. stale \in SUBSET Products
    BY <1>2
  <2>3. Reviewed(a, stale, Day(r)) \in RuleType /\ SameTurn(a, Reviewed(a, stale, Day(r)))
        /\ Reviewed(a, stale, Day(r)).pc # "observe"
    BY <1>1, <1>2, <2>2, RuleTyped, RuleTurn
  <2>4. QED
    BY <1>3, <2>1, <2>3
<1>11. ASSUME DropUnsold(p) PROVE Done
  <2> DEFINE c == [a EXCEPT !.shelf = @ \ a.picks]
  <2>1. c \in RuleType /\ SameTurn(a, c)
    BY <1>1 DEF RuleType, SameTurn
  <2>2. Act(p, Seeds(c, Day(r)))
    BY <1>11 DEF DropUnsold
  <2> HIDE DEF c
  <2>3. Seeds(c, Day(r)) \in RuleType
    BY <1>2, <2>1, SeedsTyped
  <2>4. SameTurn(c, Seeds(c, Day(r))) /\ Seeds(c, Day(r)).pc # "observe"
    BY <1>2, <2>1, RuleTurn
  <2>5. SameTurn(a, Seeds(c, Day(r)))
    BY <2>1, <2>4 DEF SameTurn
  <2>6. QED
    BY <1>3, <2>2, <2>3, <2>4, <2>5
<1>12. ASSUME Search(p) PROVE Done
  <2>1. PICK picks \in SUBSET Candidates(a) : Act(p, Picked(a, picks, Day(r)))
    BY <1>12 DEF Search
  <2>2. picks \in SUBSET Products
    BY DEF Candidates
  <2>3. Picked(a, picks, Day(r)) \in RuleType /\ SameTurn(a, Picked(a, picks, Day(r)))
        /\ Picked(a, picks, Day(r)).pc # "observe"
    BY <1>1, <1>2, <2>2, RuleTyped, RuleTurn
  <2>4. QED
    BY <1>3, <2>1, <2>3
<1>13. ASSUME List(p) PROVE Done
  BY <1>1, <1>2, <1>3, <1>13, RuleTyped, RuleTurn DEF List
<1>14. ASSUME RuleRefused(p) \/ RuleLost(p) PROVE Done
  <2> DEFINE out == Gone(a)
             back == [a EXCEPT !.pc = "observe"]
  <2>1. out \in RuleType /\ SameTurn(a, out) /\ out.pc = "gone" /\ back \in RuleType /\ SameTurn(a, back)
    BY <1>1 DEF RuleType, Gone, SameTurn
  <2>2. hook' = hook /\ (proc' = [proc EXCEPT ![p] = out]
                         \/ (proc' = [proc EXCEPT ![p] = back] /\ phase[r] \in Loaded /\ ~Accepts(r, a.step, a.pc = "end")))
    BY <1>14 DEF RuleRefused, RuleLost, runs
  <2>3. phase[r] \in Loaded /\ ~Accepts(r, a.step, a.pc = "end") => hook[r] # "open" \/ a.step # t[r]
    BY DEF Accepts
  <2> HIDE DEF out, back
  <2>4. QED
    BY <1>1, <2>1, <2>2, <2>3 DEF GoesOn, SameTurn, Done
<1>15. QED
  BY <1>4, <1>5, <1>6, <1>7, <1>8, <1>9, <1>10, <1>11, <1>12, <1>13, <1>14 DEF RuleStep, Done

\* A ReAct agent goes on with its turn,
LEMMA ReactGoesOn ==
  ASSUME AgentInv, TurnInv, NEW p \in Procs, ReactStep(p)
  PROVE  \E b \in ReactType : GoesOn(p, b)
<1> DEFINE a == proc[p]
           r == a.run
           Done == \E b \in ReactType : GoesOn(p, b)
<1>1. a \in ReactType /\ Alive(p)
  <2>1. CASE \E kind \in {"transient", "forbidden", "fatal"} : ModelFails(p, kind)
    BY <2>1, ReactTyped DEF ModelFails
  <2>2. CASE \E said \in {"calls", "says", "nothing"}, ends, usage \in BOOLEAN : ModelReplies(p, said, ends, usage)
    BY <2>2, ReactTyped DEF ModelReplies
  <2>3. CASE ActTaken(p) \/ ActLost(p) \/ ActRefused(p)
    BY <2>3, ReactTyped DEF ActTaken, ActLost, ActRefused, Sends
  <2>4. QED
    BY <2>1, <2>2, <2>3 DEF ReactStep
<1>2. r \in AllJobs /\ t[r] \in Nat /\ hook \in [AllJobs -> {"closed", "open", "shut"}] /\ limit.memory \in BOOLEAN
      /\ (hook[r] = "open" => phase[r] = "active")
  BY <1>1, EvaluationAssumption DEF AgentInv, TurnInv, ReactType
<1>3. ASSUME NEW b \in ReactType, SameTurn(a, b), proc' = [proc EXCEPT ![p] = b],
             \/ hook' = hook
             \/ hook[r] = "open" /\ hook' = [hook EXCEPT ![r] = "shut"],
             b.pc = "observe" => hook'[r] # "open" \/ b.step # t[r]
      PROVE  Done
  BY <1>1, <1>3 DEF GoesOn, SameTurn
<1> HIDE DEF Done
<1>4. ASSUME NEW kind, ModelFails(p, kind) PROVE Done
  <2> DEFINE b == Failed(a, kind)
  <2>1. b \in ReactType /\ SameTurn(a, b) /\ b.pc # "observe"
    BY <1>1, <1>4, FailedTyped, FailedTurn DEF ModelFails
  <2>2. proc' = [proc EXCEPT ![p] = b] /\ hook' = hook
    BY <1>4 DEF ModelFails, runs
  <2> HIDE DEF b
  <2>3. QED
    BY <1>3, <2>1, <2>2
<1>5. ASSUME NEW said \in {"calls", "says", "nothing"}, NEW ends \in BOOLEAN, NEW usage \in BOOLEAN,
             ModelReplies(p, said, ends, usage)
      PROVE  Done
  <2> DEFINE b == Replied(a, said, ends, usage)
  <2>1. b \in ReactType
    BY <1>1, RepliedTyped
  <2>2. SameTurn(a, b) /\ b.pc # "observe"
    BY <1>1 DEF Replied, SameTurn, ReactType
  <2>3. proc' = [proc EXCEPT ![p] = b] /\ hook' = hook
    BY <1>5 DEF ModelReplies, runs
  <2> HIDE DEF b
  <2>4. QED
    BY <1>3, <2>1, <2>2, <2>3
<1>6. \A b \in {Gone(a), Crashed(a), Forced(a, "says")} : b \in ReactType /\ SameTurn(a, b) /\ b.pc # "observe"
  BY <1>1, ForcedTyped, RefusedTurn
<1>7. ASSUME ActTaken(p) PROVE Done
  <2> DEFINE b == Answered(a, limit.memory)
  <2>1. b \in ReactType /\ SameTurn(a, b) /\ (b.pc = "observe" => a.ends)
    BY <1>1, <1>2, AnsweredTyped, AnsweredTurn
  <2>2. /\ hook' = hook \/ (hook[r] = "open" /\ hook' = [hook EXCEPT ![r] = "shut"])
        /\ a.ends => hook'[r] # "open"
    BY <1>2, <1>7, TakeShuts DEF ActTaken
  <2>3. proc' = [proc EXCEPT ![p] = b] \/ \E c \in {Gone(a), Crashed(a), Forced(a, "says")} : proc' = [proc EXCEPT ![p] = c]
    BY <1>7 DEF ActTaken
  <2> HIDE DEF b
  <2>4. QED
    BY <1>3, <1>6, <2>1, <2>2, <2>3
<1>8. ASSUME ActLost(p) PROVE Done
  <2>1. hook' = hook /\ \E c \in {Gone(a), Crashed(a), Forced(a, "says")} : proc' = [proc EXCEPT ![p] = c]
    BY <1>8 DEF ActLost, runs
  <2>2. QED
    BY <1>3, <1>6, <2>1
<1>9. ASSUME ActRefused(p) PROVE Done
  <2>1. \A b \in {Refused(a), TakenBack(a)} : b \in ReactType /\ SameTurn(a, b)
    BY <1>1, RefusedTyped, RefusedTurn
  <2>2. hook' = hook /\ \E c \in {Refused(a), TakenBack(a), Gone(a), Crashed(a), Forced(a, "says")} :
                          proc' = [proc EXCEPT ![p] = c]
    BY <1>9 DEF ActRefused, runs
  <2>3. CASE Accepts(r, a.step, Alone(a))
    <3>1. proc' = [proc EXCEPT ![p] = Forced(a, "says")]
      BY <1>9, <2>3 DEF ActRefused
    <3>2. QED
      BY <1>3, <1>6, <2>2, <3>1
  <2>4. CASE ~Accepts(r, a.step, Alone(a))
    <3>1. hook[r] # "open" \/ a.step # t[r]
      BY <1>2, <2>4 DEF Accepts, Loaded
    <3>2. QED
      BY <1>3, <1>6, <2>1, <2>2, <3>1 DEF SameTurn
  <2>5. QED
    BY <2>3, <2>4
<1>10. QED
  BY <1>4, <1>5, <1>7, <1>8, <1>9 DEF ReactStep, Done

\* and every agent begins one with its observation or leaves.
LEMMA ObserverGoesOn ==
  ASSUME AgentInv, TurnInv, NEW p \in Procs, Observe(p) \/ Leave(p)
  PROVE  \E b \in AgentType : b # Nothing /\ GoesOn(p, b)
<1> DEFINE a == proc[p]
           r == a.run
<1>1. a \in ReactType \cup RuleType /\ a # Nothing /\ Alive(p) /\ hook' = hook /\ limit.memory \in BOOLEAN
  BY ObserverKeeps, EvaluationAssumption DEF AgentInv, AgentType, Observe, Leave, Alive
<1>2. r \in AllJobs /\ t[r] \in Nat
  BY <1>1 DEF AgentInv, ReactType, RuleType
<1>3. CASE Observe(p)
  <2> DEFINE b == IF a.kind = "react" THEN Observed(a, t[r], limit.memory) ELSE Starts(a, t[r])
  <2>1. hook[r] = "open" /\ proc' = [proc EXCEPT ![p] = b]
    BY <1>3 DEF Observe
  <2>2. b \in ReactType \cup RuleType /\ b.run = r /\ b.step = t[r] /\ b.pc # "observe"
    <3>1. CASE a \in ReactType
      <4>1. b = Observed(a, t[r], limit.memory)
        BY <3>1, AgentKinds
      <4>2. Observed(a, t[r], limit.memory) \in ReactType
        BY <1>1, <1>2, <3>1, ObservedTyped
      <4>3. QED
        BY <1>1, <1>2, <3>1, <4>1, <4>2, ObservedTurn
    <3>2. CASE a \in RuleType
      <4>1. b = Starts(a, t[r])
        BY <3>2, AgentKinds
      <4>2. Starts(a, t[r]) \in RuleType
        <5>1. t[r] \in Int /\ {} \in SUBSET Products
          BY <1>2
        <5>2. QED
          BY <3>2, <5>1, RuleTyped
      <4>3. Starts(a, t[r]).run = r /\ Starts(a, t[r]).step = t[r] /\ Starts(a, t[r]).pc # "observe"
        BY <3>2 DEF Starts, RuleType
      <4>4. QED
        BY <4>1, <4>2, <4>3
    <3>3. QED
      BY <1>1, <3>1, <3>2
  <2> HIDE DEF b
  <2>3. b # Nothing /\ b \in AgentType
    BY <2>2, AgentKinds DEF AgentType
  <2>4. QED
    BY <1>1, <2>1, <2>2, <2>3 DEF GoesOn
<1>4. CASE Leave(p)
  <2> DEFINE b == Gone(a)
  <2>1. proc' = [proc EXCEPT ![p] = b]
    BY <1>4 DEF Leave
  <2>2. b \in ReactType \cup RuleType /\ b.run = r /\ b.step = a.step /\ b.pc = "gone"
    <3>1. CASE a \in ReactType
      BY <3>1 DEF Gone, ReactType
    <3>2. CASE a \in RuleType
      BY <3>2 DEF Gone, RuleType
    <3>3. QED
      BY <1>1, <3>1, <3>2
  <2> HIDE DEF b
  <2>3. b # Nothing /\ b \in AgentType
    BY <2>2, AgentKinds DEF AgentType
  <2>4. QED
    BY <1>1, <2>1, <2>2, <2>3 DEF GoesOn
<1>5. QED
  BY <1>3, <1>4

\* Every step keeps the turns in order.
LEMMA TurnStep == ASSUME AgentInv, PhaseInv, BatchInv, TurnInv, Next PROVE TurnInv'
<1>1. /\ limit' = limit /\ used' \in [Bounds -> Nat] /\ used.starts \in Nat /\ used'.starts \in Nat
      /\ used'.starts >= used.starts
  <2>1. "starts" \in Bounds
    BY DEF Bounds
  <2>2. used \in [Bounds -> Nat]
    BY DEF TurnInv
  <2>3. used' \in [Bounds -> Nat] /\ used'.starts >= used.starts
    BY <2>2, UsedGrows
  <2>4. QED
    BY <2>1, <2>2, <2>3, LimitFixed
<1>2. used'.starts = 0 => used.starts = 0
  BY <1>1
<1>3. \A r \in AllJobs : Hooked(phase[r], hook[r], child[r]) /\ t[r] \in Nat
  BY DEF TurnInv, Hooked, AgentInv
<1>4. /\ hook \in [AllJobs -> {"closed", "open", "shut"}] /\ t \in [AllJobs -> Nat] /\ Jobs \subseteq AllJobs
      /\ phase \in [AllJobs -> {"none", "summed", "loading", "done"} \cup Early]
  BY JobsAmongAll DEF TurnInv, AgentInv, PhaseInv
<1>5. ASSUME UNCHANGED <<phase, t, child, proc, crowded>>,
             \/ hook' = hook
             \/ \E r \in AllJobs : hook[r] = "open" /\ hook' = [hook EXCEPT ![r] = "shut"]
      PROVE  TurnInv'
  <2>1. hook' \in [AllJobs -> {"closed", "open", "shut"}] /\ t' \in [AllJobs -> Nat]
    BY <1>4, <1>5
  <2>2. \A s \in AllJobs : hook'[s] = hook[s] \/ (hook[s] = "open" /\ hook'[s] = "shut")
    BY <1>4, <1>5
  <2>3. \A s \in AllJobs : /\ Hooked(phase'[s], hook'[s], child'[s])
                           /\ phase[s] # "none" => phase'[s] # "none"
                           /\ t'[s] >= t[s]
                           /\ \A a \in ReactType \cup RuleType : a.step <= t[s] /\ InTurn(a, phase[s], t[s], hook[s]) =>
                                InTurn(a, phase'[s], t'[s], hook'[s])
    BY <1>3, <1>5, <2>2 DEF Hooked, InTurn
  <2>4. QED
    BY <1>1, <1>2, <1>5, <2>1, <2>3, RunMoves
<1>6. ASSUME NEW p \in Procs, NEW b \in AgentType, b # Nothing, GoesOn(p, b),
             UNCHANGED <<phase, t, child, crowded>>
      PROVE  TurnInv'
  BY <1>1, <1>2, <1>6, OwnTurn DEF GoesOn
<1>7. ASSUME NEW p \in Procs, Observe(p) \/ Leave(p) \/ ReactStep(p) \/ RuleStep(p) PROVE TurnInv'
  <2>1. UNCHANGED <<phase, t, child, crowded>>
    BY <1>7, ObserverKeeps, ReactKeeps, RuleKeeps
  <2>2. \E b \in AgentType : b # Nothing /\ GoesOn(p, b)
    BY <1>7, ObserverGoesOn, ReactGoesOn, RuleGoesOn, AgentKinds DEF AgentType
  <2>3. QED
    BY <1>6, <2>1, <2>2
<1>8. ASSUME NEW r \in Jobs, \E ends \in BOOLEAN : OtherTurn(r, ends) PROVE TurnInv'
  <2>1. PICK ends \in BOOLEAN : OtherTurn(r, ends)
    BY <1>8
  <2>2. Take(r, TurnUsage, ends) /\ UNCHANGED <<phase, t, child, proc, crowded>>
    BY <2>1 DEF OtherTurn, Take, agents
  <2>3. QED
    BY <1>4, <1>5, <2>2, TakeShuts
<1>9. ASSUME NEW r \in Jobs, \E report \in Reports, step \in 0 .. limit.ticks : Report(r, report, step) PROVE TurnInv'
  BY <1>5, <1>9 DEF Report, agents
<1>10. ASSUME RebuildScan \/ RebuildWrite PROVE TurnInv'
  BY <1>5, <1>10 DEF RebuildScan, RebuildWrite, runs, agents
<1>11. ASSUME NEW r \in Jobs, Created(r), r = batch.next, batch.pc = "fill", UNCHANGED limit PROVE TurnInv'
  <2>1. phase[r] = "none"
    BY <1>4, <1>11 DEF PhaseInv, Jobs
  <2>2. Spawn(r) /\ phase' = [phase EXCEPT ![r] = "active"] /\ UNCHANGED <<t, hook, limit>>
    BY <1>11 DEF Created
  <2>3. QED
    BY <1>1, <1>2, <1>4, <2>1, <2>2, StartTurn
<1>12. ASSUME NEW r \in Jobs, StartAgain(r) PROVE TurnInv'
  <2>1. /\ phase[r] = "stopped" /\ Spawn(r) /\ phase' = [phase EXCEPT ![r] = "active"] /\ UNCHANGED <<t, hook, limit>>
        /\ used' = [used EXCEPT !["starts"] = @ + 1]
    BY <1>12 DEF StartAgain, Use
  <2>2. used'.starts # 0
    <3>1. "starts" \in Bounds /\ used \in [Bounds -> Nat]
      BY DEF Bounds, TurnInv
    <3>2. used'.starts = used.starts + 1
      BY <2>1, <3>1
    <3>3. QED
      BY <1>1, <3>2
  <2>3. QED
    BY <1>1, <1>2, <1>4, <2>1, <2>2, StartTurn
<1>13. ASSUME RunModels PROVE TurnInv'
  <2>1. CASE CreateRun
    BY <1>1, <1>11, <2>1 DEF CreateRun
  <2>2. CASE CreateFails
    <3>1. Created(batch.next) \/ UNCHANGED <<runs, agents, crowded>>
      BY <2>2 DEF CreateFails
    <3>2. CASE Created(batch.next)
      BY <1>1, <1>11, <2>2, <3>2 DEF CreateFails
    <3>3. CASE UNCHANGED <<runs, agents, crowded>>
      BY <1>5, <3>3 DEF runs, agents
    <3>4. QED
      BY <3>1, <3>2, <3>3
  <2>3. CASE Round \/ Ask \/ AskFails \/ Asked \/ ReadSummaries \/ BatchLoad \/ BatchWrite \/ BatchEnds
    <3>1. UNCHANGED <<phase, t, child, proc, crowded>> /\ hook' = hook
      BY <2>3 DEF Round, Ask, AskFails, Asked, ReadSummaries, BatchLoad, BatchWrite, BatchEnds, runs, agents
    <3>2. QED
      BY <1>5, <3>1
  <2>4. QED
    BY <1>13, <2>1, <2>2, <2>3 DEF RunModels
<1>14. ASSUME Service PROVE TurnInv'
  BY <1>8, <1>9, <1>10, <1>12, <1>14, ServiceTurn, CrashTurn DEF Service
<1>15. QED
  BY <1>7, <1>13, <1>14 DEF Next

\* No run has begun.
LEMMA TurnInit == ASSUME Init PROVE TurnInv
<1>1. /\ hook = [r \in AllJobs |-> "closed"] /\ used = [what \in Bounds |-> 0] /\ phase = [r \in AllJobs |-> "none"]
      /\ child = [r \in AllJobs |-> None] /\ proc = [p \in Procs |-> Nothing] /\ crowded = {}
  BY DEF Init
<1>2. QED
  BY <1>1 DEF TurnInv

\* The turns of the agents are in order in every behaviour.
LEMMA TurnHolds == Spec => [](AgentInv /\ TurnInv)
<1>1. PhaseInv /\ limit \in Limits /\ BatchInv /\ BatchHolds /\ [Next]_vars => PhaseInv'
  <2>1. ASSUME PhaseInv, UNCHANGED vars PROVE PhaseInv'
    BY <2>1 DEF PhaseInv, Jobs, vars, runs, history, bounds
  <2>2. QED
    BY <2>1, PhaseStep
<1>2. AgentInv /\ PhaseInv /\ BatchInv /\ TurnInv /\ [Next]_vars => TurnInv'
  <2>1. ASSUME TurnInv, UNCHANGED vars PROVE TurnInv'
    <3>1. UNCHANGED <<phase, t, hook, child, proc, crowded, used, limit>>
      BY <2>1 DEF vars, runs, agents, bounds
    <3>2. \A p \in Procs : Alive(p)' <=> Alive(p)
      BY <3>1 DEF Alive
    <3>3. QED
      BY <2>1, <3>1, <3>2 DEF TurnInv, Jobs
  <2>2. QED
    BY <2>1, TurnStep
<1>3. Spec => [](limit \in Limits /\ BatchInv /\ BatchHolds)
  BY BatchInit, BatchStep, PTL DEF Spec
<1>4. QED
  BY <1>1, <1>2, <1>3, AgentHolds, RowsInit, TurnInit, PTL DEF Spec

-----------------------------------------------------------------------------
(* The shelf of the rule based agent.                                      *)

\* What the agent remembers of its shelf is what is on it, and whatever left it in
\* this hook had been seen on it.
Follows(a, shelf, gone) == shelf = a.shelf /\ shelf \subseteq a.seen /\ gone \subseteq a.seen

\* What an agent knows after each of its acts.
LEMMA SeedsKnow ==
  ASSUME NEW a \in RuleType, NEW day \in Int, NEW shelf, NEW gone, Follows(a, shelf, gone)
  PROVE  Knows(Seeds(a, day), shelf, gone) /\ Knows(Ends(a, day), shelf, gone)
BY DEF Seeds, Ends, Knows, Follows, RuleType

\* What it does about its shelf it also remembers.
LEMMA ActsKnow ==
  ASSUME NEW a \in RuleType, NEW day \in Int, NEW shelf \in SUBSET Products, NEW gone, Knows(a, shelf, gone)
  PROVE  /\ a.pc = "shelf" => Knows(Shelved(a, shelf), shelf, gone)
         /\ a.pc = "risks" => \A risky \in SUBSET Products : Knows(Risked(a, risky), shelf, gone)
         /\ a.pc = "drop" => Knows(Dropped(a), shelf \ a.picks, gone \cup (a.picks \cap shelf))
         /\ a.pc = "price" => Knows(Priced(a, day), shelf, gone)
         /\ a.pc = "review" => \A stale \in SUBSET Products : Knows(Reviewed(a, stale, day), shelf, gone)
         /\ a.pc = "unsold" => Knows(Seeds([a EXCEPT !.shelf = @ \ a.picks], day), shelf \ a.picks,
                                     gone \cup (a.picks \cap shelf))
         /\ a.pc = "search" => \A picks \in SUBSET Candidates(a) : Cardinality(picks) <= Target(a) =>
                                 Knows(Picked(a, picks, day), shelf, gone)
         /\ a.pc = "list" => Knows(Listed(a, day), shelf, gone)
<1>1. a.pc \in {"risks", "drop", "price", "review", "unsold", "search", "list"} => Follows(a, shelf, gone)
  BY DEF Knows, Follows
<1>2. ASSUME a.pc = "shelf" PROVE Knows(Shelved(a, shelf), shelf, gone)
  <2>1. gone = {}
    BY <1>2 DEF Knows
  <2> DEFINE b == Shelved(a, shelf)
  <2>2. b.shelf = shelf /\ b.seen = shelf /\ b.pc \in {"clear", "risks"}
    BY DEF Shelved, RuleType
  <2> HIDE DEF b
  <2>3. QED
    BY <2>1, <2>2 DEF Knows, b
<1>3. ASSUME a.pc = "risks", NEW risky \in SUBSET Products PROVE Knows(Risked(a, risky), shelf, gone)
  <2> DEFINE b == Risked(a, risky)
  <2>1. b.shelf = a.shelf /\ b.seen = a.seen /\ b.pc \in {"drop", "price"}
    BY DEF Risked, RuleType
  <2> HIDE DEF b
  <2>2. QED
    BY <1>1, <1>3, <2>1 DEF Knows, Follows, b
<1>4. ASSUME a.pc = "drop" PROVE Knows(Dropped(a), shelf \ a.picks, gone \cup (a.picks \cap shelf))
  <2> DEFINE b == Dropped(a)
  <2>1. b.shelf = a.shelf \ a.picks /\ b.seen = a.seen /\ b.pc = "price"
    BY DEF Dropped, RuleType
  <2> HIDE DEF b
  <2>2. QED
    BY <1>1, <1>4, <2>1 DEF Knows, Follows, b
<1>5. ASSUME a.pc = "price" PROVE Knows(Priced(a, day), shelf, gone)
  <2> DEFINE b == [a EXCEPT !.pc = "review"]
  <2>1. b.shelf = a.shelf /\ b.seen = a.seen /\ b.pc = "review"
    BY DEF RuleType
  <2>2. Priced(a, day) = b \/ Priced(a, day) = Seeds(a, day)
    BY DEF Priced
  <2> HIDE DEF b
  <2>3. Knows(b, shelf, gone)
    BY <1>1, <1>5, <2>1 DEF Knows, Follows
  <2>4. QED
    BY <1>1, <1>5, <2>2, <2>3, SeedsKnow
<1>6. ASSUME a.pc = "review", NEW stale \in SUBSET Products PROVE Knows(Reviewed(a, stale, day), shelf, gone)
  <2> DEFINE b == [a EXCEPT !.picks = stale, !.pc = "unsold"]
  <2>1. b.shelf = a.shelf /\ b.seen = a.seen /\ b.pc = "unsold"
    BY DEF RuleType
  <2>2. Reviewed(a, stale, day) = b \/ Reviewed(a, stale, day) = Seeds(a, day)
    BY DEF Reviewed
  <2> HIDE DEF b
  <2>3. Knows(b, shelf, gone)
    BY <1>1, <1>6, <2>1 DEF Knows, Follows
  <2>4. QED
    BY <1>1, <1>6, <2>2, <2>3, SeedsKnow
<1>7. ASSUME a.pc = "unsold"
      PROVE  Knows(Seeds([a EXCEPT !.shelf = @ \ a.picks], day), shelf \ a.picks, gone \cup (a.picks \cap shelf))
  <2> DEFINE c == [a EXCEPT !.shelf = @ \ a.picks]
  <2>1. c \in RuleType /\ c.shelf = a.shelf \ a.picks /\ c.seen = a.seen
    BY DEF RuleType
  <2> HIDE DEF c
  <2>2. Follows(c, shelf \ a.picks, gone \cup (a.picks \cap shelf))
    BY <1>1, <1>7, <2>1 DEF Follows
  <2>3. Knows(Seeds(c, day), shelf \ a.picks, gone \cup (a.picks \cap shelf))
    BY <2>1, <2>2, SeedsKnow
  <2>4. QED
    BY <2>3 DEF c
<1>8. ASSUME a.pc = "search", NEW picks \in SUBSET Candidates(a), Cardinality(picks) <= Target(a)
      PROVE  Knows(Picked(a, picks, day), shelf, gone)
  <2> DEFINE b == [a EXCEPT !.picks = picks, !.pc = "list"]
  <2>1. b.shelf = a.shelf /\ b.seen = a.seen /\ b.pc = "list" /\ b.picks = picks
    BY DEF RuleType
  <2>2. Picked(a, picks, day) = b \/ Picked(a, picks, day) = Ends(a, day)
    BY DEF Picked
  <2> HIDE DEF b
  <2>3. Target(b) = Target(a)
    BY <2>1 DEF Target
  <2>4. picks \cap a.seen = {}
    BY DEF Candidates
  <2>5. Knows(b, shelf, gone)
    BY <1>1, <1>8, <2>1, <2>3, <2>4 DEF Knows, Follows
  <2>6. QED
    BY <1>1, <1>8, <2>2, <2>5, SeedsKnow
<1>9. ASSUME a.pc = "list" PROVE Knows(Listed(a, day), shelf, gone)
  <2> DEFINE b == [a EXCEPT !.listed = @ \cup a.picks]
  <2>1. b \in RuleType /\ b.shelf = a.shelf /\ b.seen = a.seen
    BY DEF RuleType
  <2>2. Listed(a, day) = Ends(b, day)
    BY DEF Listed
  <2> HIDE DEF b
  <2>3. Follows(b, shelf, gone)
    BY <1>1, <1>9, <2>1 DEF Follows
  <2>4. QED
    BY <2>1, <2>2, <2>3, SeedsKnow
<1>10. QED
  BY <1>2, <1>3, <1>4, <1>5, <1>6, <1>7, <1>8, <1>9

\* A step of the process p of the run r leaves shelf on its shelf, after gone was
\* taken off in this hook, and the process is b.
Arranges(p, r, b, shelf, gone) ==
  /\ b.run = r /\ proc' = [proc EXCEPT ![p] = b]
  /\ shop' = [shop EXCEPT ![r].shelf = shelf] /\ dropped' = [dropped EXCEPT ![r] = gone] /\ ~relisted'
  /\ r \notin crowded =>
       /\ Cardinality(shelf) <= SeedCount
       /\ b.pc # "gone" /\ hook'[r] = "open" => IF b.step = t[r] THEN Knows(b, shelf, gone) ELSE gone = {}

\* An act leaves the shelf as it should be if what the agent then knows is true.
LEMMA ActArranges ==
  ASSUME AgentInv, TurnInv, ShelfInv, NEW p \in Procs, proc[p] \in RuleType, Alive(p), NEW b \in RuleType,
         SameTurn(proc[p], b), Act(p, b), NEW shelf \in SUBSET Products, NEW gone \in SUBSET Products,
         shop' = [shop EXCEPT ![proc[p].run].shelf = shelf], dropped' = [dropped EXCEPT ![proc[p].run] = gone],
         ~relisted',
         LET a == proc[p]  r == a.run
         IN r \notin crowded /\ (hook[r] = "open" => Knows(a, shop[r].shelf, dropped[r])) /\ (a.pc # "end" => hook[r] = "open")
              => /\ Cardinality(shelf) <= SeedCount
                 /\ a.pc # "end" => Knows(b, shelf, gone)
  PROVE  \E c \in RuleType : Arranges(p, proc[p].run, c, shelf, gone)
<1> DEFINE a == proc[p]
           r == a.run
<1>1. Accepts(r, a.step, a.pc = "end") /\ Take(r, TurnUsage, a.pc = "end")
  BY DEF Act
<1>2. a.step = t[r] /\ (a.pc # "end" => hook[r] = "open")
  BY <1>1 DEF Accepts
<1>3. a.kind = "rule" /\ r \in AllJobs /\ hook \in [AllJobs -> {"closed", "open", "shut"}]
  BY DEF RuleType, TurnInv
<1>4. hook[r] = "open" /\ r \notin crowded => Knows(a, shop[r].shelf, dropped[r])
  BY <1>2, <1>3 DEF ShelfInv
<1>5. /\ hook'[r] = "open" => hook[r] = "open" /\ a.pc # "end"
  BY <1>1, <1>3, TakeShuts
<1>6. proc' = [proc EXCEPT ![p] = b] \/ proc' = [proc EXCEPT ![p] = Gone(b)]
  BY DEF Act
<1>7. Gone(b) \in RuleType /\ Gone(b).run = b.run /\ Gone(b).pc = "gone"
  BY DEF Gone, RuleType
<1>8. b.run = r /\ b.step = t[r]
  BY <1>2 DEF SameTurn
<1>9. r \notin crowded => Cardinality(shelf) <= SeedCount /\ (a.pc # "end" => Knows(b, shelf, gone))
  BY <1>2, <1>4
<1>10. CASE proc' = [proc EXCEPT ![p] = b]
  BY <1>5, <1>8, <1>9, <1>10 DEF Arranges
<1>11. CASE proc' = [proc EXCEPT ![p] = Gone(b)]
  BY <1>7, <1>8, <1>9, <1>11 DEF Arranges
<1>12. QED
  BY <1>6, <1>10, <1>11

\* Sets of products are finite, and what is taken off leaves no more.
LEMMA ShelfSizes ==
  ASSUME NEW s \in SUBSET Products, NEW u \in SUBSET Products
  PROVE  /\ Cardinality(s) \in Nat
         /\ Cardinality(s \ u) <= Cardinality(s)
         /\ Cardinality(s \cup u) <= Cardinality(s) + Cardinality(u)
<1>1. IsFiniteSet(Products)
  BY BaselinesAssumption
<1>2. IsFiniteSet(s) /\ IsFiniteSet(u)
  BY <1>1, FS_Subset
<1>3. Cardinality(s) \in Nat /\ Cardinality(u) \in Nat /\ Cardinality(s \cap u) \in Nat
  <2>1. IsFiniteSet(s \cap u)
    BY <1>2, FS_Subset
  <2>2. QED
    BY <1>2, <2>1, FS_CardinalityType
<1>4. Cardinality(s \ u) <= Cardinality(s)
  BY <1>2, FS_Subset
<1>5. Cardinality(s \cup u) = Cardinality(s) + Cardinality(u) - Cardinality(s \cap u)
  BY <1>2, FS_Union
<1>6. QED
  BY <1>3, <1>4, <1>5

\* Whatever the rule based agent does, it leaves the shelf as it should be.
LEMMA RuleArranges ==
  ASSUME AgentInv, TurnInv, ShelfInv, NEW p \in Procs, RuleStep(p)
  PROVE  \E b \in RuleType, shelf \in SUBSET Products, gone \in SUBSET Products :
           Arranges(p, proc[p].run, b, shelf, gone)
<1> DEFINE a == proc[p]
           r == a.run
           day == Day(r)
           shelf == shop[r].shelf
           gone == dropped[r]
           Done == \E b \in RuleType, s \in SUBSET Products, g \in SUBSET Products : Arranges(p, r, b, s, g)
           Fits(b, s, g) == /\ Cardinality(s) <= SeedCount
                            /\ a.pc # "end" => Knows(b, s, g)
<1>1. a \in RuleType /\ Alive(p)
  <2>1. Alive(p)
    BY DEF RuleStep, AskBalance, AskShelf, Clear, AskRisks, Drop, Adjust, Review, DropUnsold, Search, List, End,
           RuleRefused, RuleLost, Is, Sends
  <2>2. QED
    BY <2>1, RuleStepTyped
<1>2. /\ r \in AllJobs /\ t[r] \in Nat /\ shelf \in SUBSET Products /\ shop[r].risky \in SUBSET Products
      /\ day \in Int /\ gone \in SUBSET Products
      /\ a.picks \in SUBSET Products /\ a.shelf \in SUBSET Products /\ a.kind = "rule"
  <2>1. /\ r \in AllJobs /\ t[r] \in Nat /\ shelf \in SUBSET Products /\ shop[r].risky \in SUBSET Products
    BY <1>1 DEF AgentInv, RuleType
  <2>2. t[r] \div PerDay \in Int
    BY <2>1, EvaluationAssumption
  <2>3. gone \in SUBSET Products /\ a.picks \in SUBSET Products /\ a.shelf \in SUBSET Products /\ a.kind = "rule"
    BY <1>1, <2>1 DEF ShelfInv, RuleType
  <2>4. QED
    BY <2>1, <2>2, <2>3 DEF Day
<1>3. /\ shop = [shop EXCEPT ![r].shelf = shelf] /\ dropped = [dropped EXCEPT ![r] = gone]
      /\ (r \notin crowded => Cardinality(shelf) <= SeedCount)
  <2>1. shop \in [AllJobs -> [shelf : SUBSET Products, risky : SUBSET Products]] /\ dropped \in [AllJobs -> SUBSET Products]
    BY DEF AgentInv, ShelfInv
  <2>2. shop = [shop EXCEPT ![r].shelf = shelf]
    BY <1>2, <2>1
  <2>3. dropped = [dropped EXCEPT ![r] = gone]
    BY <1>2, <2>1
  <2>4. QED
    BY <1>2, <2>2, <2>3 DEF ShelfInv
<1>4. ASSUME NEW b \in RuleType, SameTurn(a, b), Act(p, b), UNCHANGED shelves,
             Knows(a, shelf, gone) /\ a.pc # "end" => Knows(b, shelf, gone)
      PROVE  Done
  <2>1. shop' = [shop EXCEPT ![r].shelf = shelf] /\ dropped' = [dropped EXCEPT ![r] = gone] /\ ~relisted'
    BY <1>3, <1>4 DEF shelves, ShelfInv
  <2>2. \E c \in RuleType : Arranges(p, r, c, shelf, gone)
    BY <1>1, <1>2, <1>3, <1>4, <2>1, ActArranges
  <2>3. QED
    BY <1>2, <2>2
<1>5. ASSUME NEW b \in RuleType, SameTurn(a, b), Act(p, b), Takes(r, a.picks),
             Knows(a, shelf, gone) => Knows(b, shelf \ a.picks, gone \cup (a.picks \cap shelf)), a.pc # "end"
      PROVE  Done
  <2> DEFINE s == shelf \ a.picks
             g == gone \cup (a.picks \cap shelf)
  <2>1. shop' = [shop EXCEPT ![r].shelf = s] /\ dropped' = [dropped EXCEPT ![r] = g] /\ ~relisted'
    BY <1>5 DEF Takes, ShelfInv
  <2>2. s \in SUBSET Products /\ g \in SUBSET Products
    BY <1>2
  <2>3. r \notin crowded => Cardinality(s) <= SeedCount
    <3>1. Cardinality(s) <= Cardinality(shelf) /\ Cardinality(s) \in Nat /\ Cardinality(shelf) \in Nat /\ SeedCount \in Nat
      BY <1>2, <2>2, ShelfSizes, BaselinesAssumption
    <3> HIDE DEF s
    <3>2. QED
      BY <1>3, <3>1
  <2>4. Knows(a, shelf, gone) => Knows(b, s, g)
    BY <1>5
  <2> HIDE DEF s, g
  <2>5. \E c \in RuleType : Arranges(p, r, c, s, g)
    BY <1>1, <1>2, <1>5, <2>1, <2>2, <2>3, <2>4, ActArranges
  <2>6. QED
    BY <2>2, <2>5
<1> HIDE DEF Done
<1>6. ASSUME AskBalance(p) PROVE Done
  <2>1. PICK poor \in BOOLEAN : Act(p, [a EXCEPT !.poor = poor, !.pc = "shelf"])
    BY <1>6 DEF AskBalance
  <2> DEFINE b == [a EXCEPT !.poor = poor, !.pc = "shelf"]
  <2>2. b \in RuleType /\ SameTurn(a, b) /\ b.pc = "shelf" /\ a.pc = "balance" /\ UNCHANGED shelves
    BY <1>1, <1>6 DEF RuleType, SameTurn, AskBalance, Is
  <2> HIDE DEF b
  <2>3. Knows(a, shelf, gone) => Knows(b, shelf, gone)
    BY <2>2 DEF Knows
  <2>4. QED
    BY <1>4, <2>1, <2>2, <2>3 DEF b
<1>7. ASSUME AskShelf(p) PROVE Done
  <2> DEFINE b == Shelved(a, shelf)
  <2>1. b \in RuleType /\ SameTurn(a, b)
    BY <1>1, <1>2, RuleTyped, RuleTurn
  <2>2. a.pc = "shelf" /\ Act(p, b) /\ UNCHANGED shelves
    BY <1>7 DEF AskShelf, Is, Shelf
  <2>3. Knows(a, shelf, gone) => Knows(b, shelf, gone)
    BY <1>1, <1>2, <2>2, ActsKnow
  <2>4. QED
    BY <1>4, <2>1, <2>2, <2>3
<1>8. ASSUME Clear(p) PROVE Done
  <2> DEFINE b == [a EXCEPT !.pc = "end"]
  <2>1. b \in RuleType /\ SameTurn(a, b) /\ b.pc = "end"
    BY <1>1 DEF RuleType, SameTurn
  <2>2. a.pc = "clear" /\ Act(p, b) /\ Takes(r, a.picks)
    BY <1>8 DEF Clear, Is
  <2> HIDE DEF b
  <2>3. \A s, g : Knows(b, s, g)
    BY <2>1 DEF Knows
  <2>4. QED
    BY <1>5, <2>1, <2>2, <2>3
<1>9. ASSUME AskRisks(p) PROVE Done
  <2> DEFINE b == Risked(a, shop[r].risky)
  <2>1. b \in RuleType /\ SameTurn(a, b)
    BY <1>1, <1>2, RuleTyped, RuleTurn
  <2>2. a.pc = "risks" /\ Act(p, b) /\ UNCHANGED shelves
    BY <1>9 DEF AskRisks, Is
  <2>3. Knows(a, shelf, gone) => Knows(b, shelf, gone)
    BY <1>1, <1>2, <2>2, ActsKnow
  <2>4. QED
    BY <1>4, <2>1, <2>2, <2>3
<1>10. ASSUME Drop(p) PROVE Done
  <2> DEFINE b == Dropped(a)
  <2>1. b \in RuleType /\ SameTurn(a, b)
    BY <1>1, <1>2, RuleTyped, RuleTurn
  <2>2. a.pc = "drop" /\ Act(p, b) /\ Takes(r, a.picks)
    BY <1>10 DEF Drop, Is
  <2>3. Knows(a, shelf, gone) => Knows(b, shelf \ a.picks, gone \cup (a.picks \cap shelf))
    BY <1>1, <1>2, <2>2, ActsKnow
  <2>4. QED
    BY <1>5, <2>1, <2>2, <2>3
<1>11. ASSUME Adjust(p) PROVE Done
  <2> DEFINE b == Priced(a, day)
  <2>1. b \in RuleType /\ SameTurn(a, b) /\ b.pc # "observe"
    BY <1>1, <1>2, RuleTyped, RuleTurn
  <2>2. a.pc = "price" /\ UNCHANGED shelves /\ (Act(p, b) \/ (proc' = [proc EXCEPT ![p] = b] /\ hook' = hook))
    BY <1>11 DEF Adjust, Is, runs
  <2>3. Knows(a, shelf, gone) => Knows(b, shelf, gone)
    BY <1>1, <1>2, <2>2, ActsKnow
  <2> HIDE DEF b
  <2>4. ASSUME proc' = [proc EXCEPT ![p] = b], hook' = hook PROVE Done
    <3>1. shop' = [shop EXCEPT ![r].shelf = shelf] /\ dropped' = [dropped EXCEPT ![r] = gone] /\ ~relisted'
      BY <1>3, <2>2 DEF shelves, ShelfInv
    <3>2. b.run = r /\ b.step = a.step
      BY <2>1 DEF SameTurn
    <3>3. r \notin crowded /\ hook[r] = "open" => IF b.step = t[r] THEN Knows(b, shelf, gone) ELSE gone = {}
      BY <1>1, <1>2, <2>3, <3>2 DEF ShelfInv
    <3>4. Arranges(p, r, b, shelf, gone)
      BY <1>3, <2>4, <3>1, <3>2, <3>3 DEF Arranges
    <3>5. QED
      BY <1>2, <2>1, <3>4 DEF Done
  <2>5. QED
    BY <1>4, <2>1, <2>2, <2>3, <2>4
<1>12. ASSUME Review(p) PROVE Done
  <2>1. PICK stale \in SUBSET a.shelf : Act(p, Reviewed(a, stale, day))
    BY <1>12 DEF Review
  <2>2. stale \in SUBSET Products
    BY <1>2
  <2> DEFINE b == Reviewed(a, stale, day)
  <2>3. b \in RuleType /\ SameTurn(a, b)
    BY <1>1, <1>2, <2>2, RuleTyped, RuleTurn
  <2>4. a.pc = "review" /\ UNCHANGED shelves
    BY <1>12 DEF Review, Is
  <2>5. Knows(a, shelf, gone) => Knows(b, shelf, gone)
    BY <1>1, <1>2, <2>2, <2>4, ActsKnow
  <2>6. QED
    BY <1>4, <2>1, <2>3, <2>4, <2>5
<1>13. ASSUME DropUnsold(p) PROVE Done
  <2> DEFINE c == [a EXCEPT !.shelf = @ \ a.picks]
             b == Seeds(c, day)
  <2>1. c \in RuleType /\ SameTurn(a, c)
    BY <1>1 DEF RuleType, SameTurn
  <2>2. a.pc = "unsold" /\ Act(p, b) /\ Takes(r, a.picks)
    BY <1>13 DEF DropUnsold, Is
  <2>3. Knows(a, shelf, gone) => Knows(b, shelf \ a.picks, gone \cup (a.picks \cap shelf))
    BY <1>1, <1>2, <2>2, ActsKnow
  <2> HIDE DEF c
  <2>4. b \in RuleType
    BY <1>2, <2>1, SeedsTyped
  <2>5. SameTurn(c, b)
    BY <1>2, <2>1, RuleTurn
  <2>6. SameTurn(a, b)
    BY <2>1, <2>5 DEF SameTurn
  <2> HIDE DEF b
  <2>7. QED
    BY <1>5, <2>2, <2>3, <2>4, <2>6
<1>14. ASSUME Search(p) PROVE Done
  <2>1. PICK picks \in SUBSET Candidates(a) : Cardinality(picks) <= Target(a) /\ Act(p, Picked(a, picks, day))
    BY <1>14 DEF Search
  <2>2. picks \in SUBSET Products
    BY DEF Candidates
  <2> DEFINE b == Picked(a, picks, day)
  <2>3. b \in RuleType /\ SameTurn(a, b)
    BY <1>1, <1>2, <2>2, RuleTyped, RuleTurn
  <2>4. a.pc = "search" /\ UNCHANGED shelves
    BY <1>14 DEF Search, Is
  <2>5. Knows(a, shelf, gone) => Knows(b, shelf, gone)
    BY <1>1, <1>2, <2>1, <2>4, ActsKnow
  <2>6. QED
    BY <1>4, <2>1, <2>3, <2>4, <2>5
<1>15. ASSUME End(p) PROVE Done
  <2> DEFINE b == [a EXCEPT !.pc = "observe"]
  <2>1. b \in RuleType /\ SameTurn(a, b)
    BY <1>1 DEF RuleType, SameTurn
  <2>2. a.pc = "end" /\ Act(p, b) /\ UNCHANGED shelves
    BY <1>15 DEF End, Is
  <2> HIDE DEF b
  <2>3. QED
    BY <1>4, <2>1, <2>2
<1>16. ASSUME RuleRefused(p) \/ RuleLost(p) PROVE Done
  <2> DEFINE out == Gone(a)
             back == [a EXCEPT !.pc = "observe"]
  <2>1. /\ out \in RuleType /\ SameTurn(a, out) /\ out.pc = "gone"
        /\ back \in RuleType /\ SameTurn(a, back) /\ back.pc = "observe"
    BY <1>1 DEF RuleType, Gone, SameTurn
  <2>2. hook' = hook /\ UNCHANGED shelves
        /\ (proc' = [proc EXCEPT ![p] = out]
            \/ (proc' = [proc EXCEPT ![p] = back] /\ phase[r] \in Loaded /\ ~Accepts(r, a.step, a.pc = "end")))
    BY <1>16 DEF RuleRefused, RuleLost, runs
  <2>3. phase[r] \in Loaded /\ ~Accepts(r, a.step, a.pc = "end") => hook[r] # "open" \/ a.step # t[r]
    BY DEF Accepts
  <2> HIDE DEF out, back
  <2>4. shop' = [shop EXCEPT ![r].shelf = shelf] /\ dropped' = [dropped EXCEPT ![r] = gone] /\ ~relisted'
    BY <1>3, <2>2 DEF shelves, ShelfInv
  <2>5. r \notin crowded /\ hook[r] = "open" /\ a.step # t[r] => gone = {}
    BY <1>1, <1>2 DEF ShelfInv
  <2>6. CASE proc' = [proc EXCEPT ![p] = out]
    <3>1. Arranges(p, r, out, shelf, gone)
      BY <1>3, <2>1, <2>4, <2>6 DEF Arranges, SameTurn
    <3>2. QED
      BY <1>2, <2>1, <3>1 DEF Done
  <2>7. CASE proc' = [proc EXCEPT ![p] = back] /\ (hook[r] # "open" \/ a.step # t[r])
    <3>1. Arranges(p, r, back, shelf, gone)
      BY <1>3, <2>1, <2>2, <2>4, <2>5, <2>7 DEF Arranges, SameTurn
    <3>2. QED
      BY <1>2, <2>1, <3>1 DEF Done
  <2>8. QED
    BY <2>2, <2>3, <2>6, <2>7
<1>17. ASSUME List(p) PROVE Done
  <2> DEFINE b == Listed(a, day)
  <2>1. b \in RuleType /\ SameTurn(a, b)
    BY <1>1, <1>2, RuleTyped, RuleTurn
  <2>2. PICK new \in SUBSET a.picks :
          /\ shop' = [shop EXCEPT ![r].shelf = @ \cup new]
          /\ relisted' = (relisted \/ (new \cap dropped[r] # {} /\ r \notin crowded))
    BY <1>17 DEF List
  <2>3. a.pc = "list" /\ Act(p, b) /\ dropped' = dropped
    BY <1>17 DEF List, Is
  <2> DEFINE s == shelf \cup new
  <2>4. new \in SUBSET Products /\ s \in SUBSET Products
    BY <1>2
  <2>5. r \notin crowded => Knows(a, shelf, gone)
    <3>1. Accepts(r, a.step, FALSE)
      BY <2>3 DEF Act
    <3>2. QED
      BY <1>1, <1>2, <3>1 DEF Accepts, ShelfInv
  <2>6. ~relisted'
    BY <2>2, <2>3, <2>5 DEF Knows, ShelfInv
  <2>7. shop' = [shop EXCEPT ![r].shelf = s] /\ dropped' = [dropped EXCEPT ![r] = gone]
    BY <1>3, <2>2, <2>3
  <2>8. Knows(a, shelf, gone) => Cardinality(s) <= SeedCount /\ Knows(b, s, gone)
    <3>1. ASSUME Knows(a, shelf, gone) PROVE Cardinality(s) <= SeedCount
      <4>1. Cardinality(a.picks) <= SeedCount - Cardinality(shelf)
        BY <2>3, <3>1 DEF Knows, Target
      <4>2. Cardinality(new) <= Cardinality(a.picks)
        <5>1. IsFiniteSet(a.picks)
          BY <1>2, FS_Subset, BaselinesAssumption
        <5>2. QED
          BY <5>1, FS_Subset
      <4>3. Cardinality(s) <= Cardinality(shelf) + Cardinality(new)
        BY <1>2, <2>4, ShelfSizes
      <4>4. /\ Cardinality(s) \in Nat /\ Cardinality(shelf) \in Nat /\ Cardinality(new) \in Nat
            /\ Cardinality(a.picks) \in Nat /\ SeedCount \in Nat
        BY <1>2, <2>4, ShelfSizes, BaselinesAssumption
      <4> HIDE DEF s, shelf
      <4>5. QED
        BY <4>1, <4>2, <4>3, <4>4
    <3>2. Knows(b, s, gone)
      <4>1. b.pc = "end"
        BY <1>1 DEF Listed, Ends, RuleType
      <4> HIDE DEF b
      <4>2. QED
        BY <4>1 DEF Knows
    <3>3. QED
      BY <3>1, <3>2
  <2> HIDE DEF b, s
  <2>9. \E c \in RuleType : Arranges(p, r, c, s, gone)
    BY <1>1, <1>2, <2>1, <2>3, <2>4, <2>6, <2>7, <2>8, ActArranges
  <2>10. QED
    BY <1>2, <2>4, <2>9 DEF Done
<1>18. QED
  BY <1>6, <1>7, <1>8, <1>9, <1>10, <1>11, <1>12, <1>13, <1>14, <1>15, <1>16, <1>17 DEF RuleStep, Done

\* A step of the rule based agent keeps the shelves.
LEMMA RuleShelf == ASSUME AgentInv, TurnInv, ShelfInv, NEW p \in Procs, RuleStep(p) PROVE ShelfInv'
<1> DEFINE r == proc[p].run
<1>1. PICK b \in RuleType, shelf \in SUBSET Products, gone \in SUBSET Products : Arranges(p, r, b, shelf, gone)
  BY RuleArranges
<1>2. UNCHANGED <<t, crowded>>
  BY RuleKeeps
<1>3. hook \in [AllJobs -> {"closed", "open", "shut"}] /\ Alive(p) /\ r \in AllJobs
  <2>1. Alive(p)
    BY DEF RuleStep, AskBalance, AskShelf, Clear, AskRisks, Drop, Adjust, Review, DropUnsold, Search, List, End,
           RuleRefused, RuleLost, Is, Sends
  <2>2. proc[p] \in RuleType
    BY <2>1, RuleStepTyped
  <2>3. QED
    BY <2>1, <2>2 DEF TurnInv, RuleType
<1>4. \A s \in AllJobs : hook'[s] = "open" => hook[s] = "open"
  BY <1>3, RuleGoesOn DEF GoesOn
<1>5. /\ shop \in [AllJobs -> [shelf : SUBSET Products, risky : SUBSET Products]]
      /\ dropped \in [AllJobs -> SUBSET Products] /\ proc \in [Procs -> AgentType]
  BY DEF AgentInv, ShelfInv
<1>6. /\ \A s \in AllJobs : s # r => shop'[s] = shop[s] /\ dropped'[s] = dropped[s]
      /\ shop'[r].shelf = shelf /\ dropped'[r] = gone /\ dropped' \in [AllJobs -> SUBSET Products] /\ ~relisted'
      /\ \A q \in Procs : proc'[q] = IF q = p THEN b ELSE proc[q]
  BY <1>1, <1>3, <1>5 DEF Arranges
<1>7. ASSUME NEW s \in AllJobs, s \notin crowded' PROVE Cardinality(shop'[s].shelf) <= SeedCount
  BY <1>1, <1>2, <1>6, <1>7 DEF Arranges, ShelfInv
<1>8. \A x, y \in Procs : Alive(x) /\ Alive(y) /\ proc[x].run = proc[y].run /\ proc[x].run \notin crowded => x = y
  BY DEF TurnInv, Alive
<1>9. ASSUME NEW q \in Procs, Alive(q)', proc'[q].kind = "rule", proc'[q].run \notin crowded', hook'[proc'[q].run] = "open"
      PROVE  IF proc'[q].step = t'[proc'[q].run] THEN Knows(proc'[q], shop'[proc'[q].run].shelf, dropped'[proc'[q].run])
             ELSE dropped'[proc'[q].run] = {}
  <2>1. CASE q = p
    <3>1. proc'[q] = b /\ b.run = r /\ b.pc # "gone"
      BY <1>1, <1>6, <1>9, <2>1 DEF Arranges, Alive
    <3>2. QED
      BY <1>1, <1>2, <1>6, <1>9, <3>1 DEF Arranges
  <2>2. CASE q # p
    <3>1. proc'[q] = proc[q] /\ Alive(q)
      BY <1>6, <1>9, <2>2 DEF Alive
    <3>2. proc[q].run # r
      BY <1>2, <1>3, <1>9, <1>8, <2>2, <3>1
    <3>3. proc[q].run \in AllJobs
      BY <3>1, JobsAmongAll DEF TurnInv, AgentInv, Alive
    <3>4. QED
      BY <1>2, <1>4, <1>6, <1>9, <3>1, <3>2, <3>3 DEF ShelfInv
  <2>3. QED
    BY <2>1, <2>2
<1>10. QED
  BY <1>6, <1>7, <1>9 DEF ShelfInv

\* Every other step leaves what is on the shelves.  A hook that is open was open before
\* or begins with nothing taken off; a process is as it was, or has not looked yet.
LEMMA ShelfQuiet ==
  ASSUME ShelfInv, dropped' \in [AllJobs -> SUBSET Products], relisted' = relisted, crowded \subseteq crowded',
         \A r \in AllJobs : shop'[r].shelf = shop[r].shelf,
         \A q \in Procs : Alive(q)' /\ proc'[q].kind = "rule" /\ proc'[q].run \notin crowded' /\ hook'[proc'[q].run] = "open" =>
           LET r == proc'[q].run
           IN \/ /\ proc'[q] = proc[q] /\ hook[r] = "open" /\ t'[r] = t[r] /\ dropped'[r] = dropped[r] /\ r \in AllJobs
              \/ /\ dropped'[r] = {} /\ (proc'[q].step # t'[r] \/ proc'[q].pc \in {"balance", "shelf"})
  PROVE  ShelfInv'
<1>1. ASSUME NEW q \in Procs, Alive(q)', proc'[q].kind = "rule", proc'[q].run \notin crowded', hook'[proc'[q].run] = "open"
      PROVE  IF proc'[q].step = t'[proc'[q].run] THEN Knows(proc'[q], shop'[proc'[q].run].shelf, dropped'[proc'[q].run])
             ELSE dropped'[proc'[q].run] = {}
  <2> DEFINE r == proc'[q].run
  <2>1. CASE proc'[q] = proc[q] /\ hook[r] = "open" /\ t'[r] = t[r] /\ dropped'[r] = dropped[r] /\ r \in AllJobs
    <3>1. Alive(q)
      BY <1>1, <2>1 DEF Alive
    <3>2. r \notin crowded /\ shop'[r].shelf = shop[r].shelf
      BY <1>1, <2>1
    <3>3. QED
      BY <1>1, <2>1, <3>1, <3>2 DEF ShelfInv
  <2>2. CASE dropped'[r] = {} /\ (proc'[q].step # t'[r] \/ proc'[q].pc \in {"balance", "shelf"})
    BY <2>2 DEF Knows
  <2>3. QED
    BY <1>1, <2>1, <2>2
<1>2. QED
  BY <1>1 DEF ShelfInv

\* Most steps open no hook and do not touch what a rule based agent knows in one.
LEMMA ShelfRests ==
  ASSUME AgentInv, TurnInv, ShelfInv, UNCHANGED <<dropped, relisted>>, crowded \subseteq crowded',
         \A r \in AllJobs : shop'[r].shelf = shop[r].shelf /\ (hook'[r] = "open" => hook[r] = "open" /\ t'[r] = t[r]),
         \A q \in Procs : \/ proc'[q] = proc[q] \/ ~Alive(q)' \/ proc'[q].kind = "react"
                          \/ hook'[proc'[q].run] # "open"
  PROVE  ShelfInv'
<1>1. dropped' \in [AllJobs -> SUBSET Products]
  BY DEF ShelfInv
<1>2. ASSUME NEW q \in Procs, Alive(q)', proc'[q].kind = "rule", hook'[proc'[q].run] = "open"
      PROVE  LET r == proc'[q].run
             IN proc'[q] = proc[q] /\ hook[r] = "open" /\ t'[r] = t[r] /\ r \in AllJobs
  <2>1. proc'[q] = proc[q] /\ proc[q] # Nothing
    BY <1>2 DEF Alive
  <2>2. proc[q].run \in AllJobs
    BY <2>1, JobsAmongAll DEF TurnInv, AgentInv
  <2>3. QED
    BY <1>2, <2>1, <2>2
<1>3. QED
  BY <1>1, <1>2, ShelfQuiet

\* The service moves a run on.
LEMMA ServiceShelf ==
  ASSUME AgentInv, TurnInv, ShelfInv, NEW r \in Jobs,
         \/ Stop(r) \/ Stopped(r) \/ OpenHook(r) \/ GiveUp(r) \/ FinishStep(r) \/ Over(r)
         \/ Mark(r) \/ Summarize(r) \/ LoadHistory(r) \/ WriteHistory(r)
  PROVE  ShelfInv'
<1>1. /\ r \in AllJobs /\ t \in [AllJobs -> Nat] /\ hook \in [AllJobs -> {"closed", "open", "shut"}]
      /\ shop \in [AllJobs -> [shelf : SUBSET Products, risky : SUBSET Products]]
      /\ dropped \in [AllJobs -> SUBSET Products] /\ proc \in [Procs -> AgentType]
  BY JobsAmongAll DEF AgentInv, TurnInv, ShelfInv
<1>2. crowded' = crowded /\ relisted' = relisted
  BY DEF Stop, Stopped, OpenHook, GiveUp, FinishStep, Over, Mark, Summarize, LoadHistory, WriteHistory, shelves
<1>3. \A q \in Procs : proc'[q] = proc[q] \/ ~Alive(q)'
  <2>1. proc' = proc \/ Kill(r)
    BY DEF Stop, Stopped, OpenHook, GiveUp, FinishStep, Over, Mark, Summarize, LoadHistory, WriteHistory, agents
  <2>2. CASE Kill(r)
    <3>1. ASSUME NEW q \in Procs, proc'[q] # proc[q] PROVE proc'[q] = Gone(proc[q]) /\ proc[q] # Nothing
      BY <1>1, <2>2, <3>1 DEF Kill, AgentInv
    <3>2. \A a \in ReactType \cup RuleType : Gone(a).pc = "gone"
      BY DEF Gone, ReactType, RuleType
    <3>3. QED
      BY <1>1, <3>1, <3>2 DEF Alive, AgentType
  <2>3. QED
    BY <2>1, <2>2
<1>4. CASE OpenHook(r)
  <2>1. /\ hook[r] = "closed" /\ phase[r] = "active" /\ hook' = [hook EXCEPT ![r] = "open"]
        /\ dropped' = [dropped EXCEPT ![r] = {}] /\ UNCHANGED <<t, shop, proc>>
    BY <1>4 DEF OpenHook, agents
  <2>2. \A s \in AllJobs : s # r => hook'[s] = hook[s] /\ dropped'[s] = dropped[s]
    BY <1>1, <2>1
  <2>3. dropped'[r] = {} /\ dropped' \in [AllJobs -> SUBSET Products]
    BY <1>1, <2>1
  <2>4. ASSUME NEW q \in Procs, Alive(q)', proc'[q].run \notin crowded', hook'[proc'[q].run] = "open"
        PROVE  LET s == proc'[q].run
               IN \/ proc'[q] = proc[q] /\ hook[s] = "open" /\ t'[s] = t[s] /\ dropped'[s] = dropped[s] /\ s \in AllJobs
                  \/ dropped'[s] = {} /\ proc'[q].step # t'[s]
    <3>1. proc'[q] = proc[q] /\ proc[q] # Nothing /\ Alive(q)
      BY <2>1, <2>4 DEF Alive
    <3>2. proc[q].run \in AllJobs /\ proc[q].step \in Int
      BY <1>1, <3>1 DEF AgentType, ReactType, RuleType
    <3>3. CASE proc[q].run = r
      <4>1. InTurn(proc[q], phase[r], t[r], hook[r])
        BY <1>2, <2>4, <3>1, <3>3 DEF TurnInv
      <4>2. proc[q].step < t[r] /\ t[r] \in Nat
        BY <1>1, <2>1, <4>1 DEF InTurn
      <4>3. proc[q].step # t[r]
        BY <3>2, <4>2
      <4>4. QED
        BY <2>1, <2>3, <3>1, <3>3, <4>3
    <3>4. CASE proc[q].run # r
      BY <2>1, <2>2, <2>4, <3>1, <3>2, <3>4
    <3>5. QED
      BY <3>3, <3>4
  <2>5. QED
    BY <1>2, <2>1, <2>3, <2>4, ShelfQuiet
<1>5. CASE FinishStep(r)
  <2>1. /\ \A s \in AllJobs : hook'[s] = "open" => s # r /\ hook[s] = "open"
        /\ \A s \in AllJobs : s # r => t'[s] = t[s]
    BY <1>1, <1>5 DEF FinishStep
  <2>2. \A s \in AllJobs : shop'[s].shelf = shop[s].shelf
    <3>1. shop' = shop \/ \E product \in Products : shop' = [shop EXCEPT ![r].risky = SymDiff(@, {product})]
      BY <1>5 DEF FinishStep
    <3>2. ASSUME NEW risky, shop' = [shop EXCEPT ![r].risky = risky]
          PROVE  \A s \in AllJobs : shop'[s].shelf = shop[s].shelf
      BY <1>1, <3>2
    <3>3. QED
      BY <3>1, <3>2
  <2>3. dropped' = dropped
    BY <1>5 DEF FinishStep
  <2>4. QED
    BY <1>2, <1>3, <2>1, <2>2, <2>3, ShelfRests
<1>6. CASE \/ Stop(r) \/ Stopped(r) \/ GiveUp(r) \/ Over(r) \/ Mark(r) \/ Summarize(r) \/ LoadHistory(r) \/ WriteHistory(r)
  <2>1. UNCHANGED <<t, shop, dropped>> /\ \A s \in AllJobs : hook'[s] = "open" => hook[s] = "open"
    BY <1>1, <1>6 DEF Stop, Stopped, GiveUp, Over, Mark, Summarize, LoadHistory, WriteHistory, shelves
  <2>2. QED
    BY <1>2, <1>3, <2>1, ShelfRests
<1>7. QED
  BY <1>4, <1>5, <1>6

\* A run that starts has its hook closed.
LEMMA StartShelf ==
  ASSUME AgentInv, TurnInv, ShelfInv, NEW r \in Jobs, phase[r] \in {"none", "stopped"}, Spawn(r),
         UNCHANGED <<t, hook, shelves, limit>>
  PROVE  ShelfInv'
<1>1. /\ r \in AllJobs /\ hook[r] = "closed" /\ proc \in [Procs -> AgentType] /\ limit \in Limits
  BY JobsAmongAll DEF AgentInv, TurnInv
<1>2. UNCHANGED <<dropped, relisted, shop>>
  BY DEF shelves
<1>3. \/ proc' = proc /\ crowded' = crowded
      \/ /\ limit.jobs[r] \in Kinds /\ crowded \subseteq crowded'
         /\ \E p \in Procs : proc' = [proc EXCEPT ![p] = Process(r)]
  BY DEF Spawn, agents
<1>4. \A q \in Procs : proc'[q] = proc[q] \/ hook'[proc'[q].run] # "open"
  <2>1. limit.jobs[r] \in Kinds => Process(r).run = r
    BY DEF Process, React, Rule
  <2>2. QED
    BY <1>1, <1>3, <2>1
<1>5. QED
  BY <1>2, <1>3, <1>4, ShelfRests

\* An agent that observes its hook finds nothing taken off.
LEMMA ObserveShelf == ASSUME AgentInv, TurnInv, ShelfInv, NEW p \in Procs, Observe(p) PROVE ShelfInv'
<1> DEFINE a == proc[p]
           r == a.run
           b == IF a.kind = "react" THEN Observed(a, t[r], limit.memory) ELSE Starts(a, t[r])
<1>1. UNCHANGED <<phase, t, hook, shelves, crowded>>
  BY ObserverKeeps
<1>2. /\ proc' = [proc EXCEPT ![p] = b] /\ proc \in [Procs -> AgentType] /\ a # Nothing /\ Alive(p) /\ a.pc = "observe"
      /\ hook[r] = "open" /\ phase[r] = "active" /\ limit.memory \in BOOLEAN
  BY EvaluationAssumption DEF Observe, Alive, AgentInv
<1>3. r \in AllJobs /\ t[r] \in Nat /\ dropped \in [AllJobs -> SUBSET Products]
  BY <1>2, JobsAmongAll DEF TurnInv, AgentInv, ShelfInv
<1>4. CASE a \in ReactType
  <2>1. b \in ReactType
    BY <1>2, <1>3, <1>4, AgentKinds, ObservedTyped
  <2> HIDE DEF b
  <2>2. \A q \in Procs : proc'[q] = proc[q] \/ proc'[q].kind = "react"
    BY <1>2, <2>1, AgentKinds
  <2>3. QED
    BY <1>1, <2>2, ShelfRests DEF shelves
<1>5. CASE a \in RuleType
  <2>1. b.pc \in {"balance", "shelf"} /\ b.run = r
    BY <1>5, AgentKinds DEF Starts, RuleType
  <2>2. r \notin crowded => dropped[r] = {}
    <3>1. r \notin crowded => a.step # t[r]
      BY <1>2 DEF TurnInv, InTurn
    <3>2. QED
      BY <1>2, <1>5, <3>1, AgentKinds DEF ShelfInv
  <2> HIDE DEF b
  <2>3. \A q \in Procs : proc'[q] = IF q = p THEN b ELSE proc[q]
    BY <1>2
  <2>4. ASSUME NEW q \in Procs, Alive(q)', proc'[q].kind = "rule", proc'[q].run \notin crowded', hook'[proc'[q].run] = "open"
        PROVE  LET s == proc'[q].run
               IN \/ proc'[q] = proc[q] /\ hook[s] = "open" /\ t'[s] = t[s] /\ dropped'[s] = dropped[s] /\ s \in AllJobs
                  \/ dropped'[s] = {} /\ proc'[q].pc \in {"balance", "shelf"}
    <3>1. CASE q = p
      BY <1>1, <2>1, <2>2, <2>3, <2>4, <3>1 DEF shelves
    <3>2. CASE q # p
      <4>1. proc'[q] = proc[q] /\ proc[q] # Nothing
        BY <2>3, <2>4, <3>2 DEF Alive
      <4>2. proc[q].run \in AllJobs
        BY <4>1, JobsAmongAll DEF TurnInv, AgentInv
      <4>3. QED
        BY <1>1, <2>4, <4>1, <4>2 DEF shelves
    <3>3. QED
      BY <3>1, <3>2
  <2>5. dropped' \in [AllJobs -> SUBSET Products] /\ relisted' = relisted /\ crowded' = crowded /\ shop' = shop
    BY <1>1, <1>3 DEF shelves
  <2>6. QED
    BY <2>4, <2>5, ShelfQuiet
<1>6. QED
  BY <1>2, <1>4, <1>5 DEF AgentType

\* Every step keeps the shelves.
LEMMA ShelfStep == ASSUME AgentInv, PhaseInv, TurnInv, ShelfInv, Next PROVE ShelfInv'
<1>1. /\ hook \in [AllJobs -> {"closed", "open", "shut"}] /\ proc \in [Procs -> AgentType] /\ Jobs \subseteq AllJobs
      /\ limit' = limit
  BY JobsAmongAll, LimitFixed DEF AgentInv, TurnInv
<1>2. ASSUME UNCHANGED <<t, shelves, proc, crowded>>, \A s \in AllJobs : hook'[s] = "open" => hook[s] = "open" PROVE ShelfInv'
  BY <1>2, ShelfRests DEF shelves
<1>3. ASSUME NEW p \in Procs, ReactStep(p) PROVE ShelfInv'
  <2>1. UNCHANGED <<t, shelves, crowded>>
    BY <1>3, ReactKeeps
  <2>2. PICK b \in ReactType : GoesOn(p, b)
    BY <1>3, ReactGoesOn
  <2>3. proc' = [proc EXCEPT ![p] = b] /\ \A s \in AllJobs : hook'[s] = "open" => hook[s] = "open"
    BY <1>1, <2>2 DEF GoesOn
  <2>4. \A q \in Procs : proc'[q] = proc[q] \/ proc'[q].kind = "react"
    BY <1>1, <2>2, <2>3, AgentKinds
  <2>5. QED
    BY <2>1, <2>3, <2>4, ShelfRests DEF shelves
<1>4. ASSUME NEW p \in Procs, Leave(p) PROVE ShelfInv'
  <2>1. UNCHANGED <<t, hook, shelves, crowded>>
    BY <1>4, ObserverKeeps
  <2>2. proc' = [proc EXCEPT ![p] = Gone(proc[p])] /\ proc[p] # Nothing
    BY <1>4 DEF Leave, Alive
  <2>3. Gone(proc[p]).pc = "gone"
    BY <1>1, <2>2 DEF Gone, AgentType, ReactType, RuleType
  <2>4. \A q \in Procs : proc'[q] = proc[q] \/ ~Alive(q)'
    BY <1>1, <2>2, <2>3 DEF Alive
  <2>5. QED
    BY <2>1, <2>4, ShelfRests DEF shelves
<1>5. ASSUME NEW r \in Jobs, \E ends \in BOOLEAN : OtherTurn(r, ends) PROVE ShelfInv'
  <2>1. PICK ends \in BOOLEAN : OtherTurn(r, ends)
    BY <1>5
  <2>2. Take(r, TurnUsage, ends) /\ UNCHANGED <<t, shelves, proc, crowded>>
    BY <2>1 DEF OtherTurn, Take, agents
  <2>3. \A s \in AllJobs : hook'[s] = "open" => hook[s] = "open"
    BY <1>1, <2>2, TakeShuts
  <2>4. QED
    BY <1>2, <2>2, <2>3
<1>6. ASSUME \/ Crash \/ RebuildScan \/ RebuildWrite
             \/ \E r \in Jobs, report \in Reports, step \in 0 .. limit.ticks : Report(r, report, step)
      PROVE  ShelfInv'
  <2>1. UNCHANGED <<t, shelves, proc, crowded>>
    BY <1>6 DEF Crash, RebuildScan, RebuildWrite, Report, runs, agents
  <2>2. \A s \in AllJobs : hook'[s] = "open" => hook[s] = "open"
    BY <1>6 DEF Crash, RebuildScan, RebuildWrite, Report, runs
  <2>3. QED
    BY <1>2, <2>1, <2>2
<1>7. ASSUME NEW r \in Jobs, Created(r), r = batch.next, batch.pc = "fill" PROVE ShelfInv'
  <2>1. phase[r] = "none"
    BY <1>1, <1>7 DEF PhaseInv, Jobs
  <2>2. QED
    BY <1>1, <1>7, <2>1, StartShelf DEF Created
<1>8. ASSUME NEW r \in Jobs, StartAgain(r) PROVE ShelfInv'
  BY <1>1, <1>8, StartShelf DEF StartAgain
<1>9. ASSUME RunModels PROVE ShelfInv'
  <2>1. CASE CreateRun
    BY <1>1, <1>7, <2>1 DEF CreateRun
  <2>2. CASE CreateFails
    BY <1>2, <1>7, <2>2 DEF CreateFails, runs, agents
  <2>3. CASE Round \/ Ask \/ AskFails \/ Asked \/ ReadSummaries \/ BatchLoad \/ BatchWrite \/ BatchEnds
    <3>1. UNCHANGED <<t, hook, shelves, proc, crowded>>
      BY <2>3 DEF Round, Ask, AskFails, Asked, ReadSummaries, BatchLoad, BatchWrite, BatchEnds, runs, agents
    <3>2. QED
      BY <1>2, <3>1
  <2>4. QED
    BY <1>9, <2>1, <2>2, <2>3 DEF RunModels
<1>10. ASSUME Service PROVE ShelfInv'
  BY <1>5, <1>6, <1>8, <1>10, ServiceShelf DEF Service
<1>11. QED
  BY <1>3, <1>4, <1>9, <1>10, ObserveShelf, RuleShelf DEF Next

\* The shelves are empty, and no agent plays.
LEMMA ShelfInit == ASSUME Init PROVE ShelfInv
<1>1. /\ dropped = [r \in AllJobs |-> {}] /\ relisted = FALSE /\ shop = [r \in AllJobs |-> [shelf |-> {}, risky |-> {}]]
      /\ proc = [p \in Procs |-> Nothing]
  BY DEF Init
<1>2. \A r \in AllJobs : Cardinality(shop[r].shelf) <= SeedCount
  <2>1. Cardinality({}) = 0 /\ 0 <= SeedCount
    BY FS_EmptySet, BaselinesAssumption
  <2>2. \A r \in AllJobs : shop[r].shelf = {}
    BY <1>1
  <2>3. QED
    BY <2>1, <2>2
<1>3. QED
  BY <1>1, <1>2 DEF ShelfInv, Alive

\* ShelfKept: one rule based agent never lists more than its shelf holds, and never
\* lists again what it has just taken off (AutoSeedAgent).
THEOREM TheShelfIsKept == Spec => []ShelfKept
<1>1. AgentInv /\ PhaseInv /\ TurnInv /\ ShelfInv /\ [Next]_vars => ShelfInv'
  <2>1. ASSUME ShelfInv, UNCHANGED vars PROVE ShelfInv'
    <3>1. UNCHANGED <<t, hook, shop, dropped, relisted, proc, crowded>>
      BY <2>1 DEF vars, runs, agents, shelves
    <3>2. \A p \in Procs : Alive(p)' <=> Alive(p)
      BY <3>1 DEF Alive
    <3>3. QED
      BY <2>1, <3>1, <3>2 DEF ShelfInv
  <2>2. QED
    BY <2>1, ShelfStep
<1>2. AgentInv /\ ShelfInv => ShelfKept
  BY JobsAmongAll DEF ShelfInv, ShelfKept, AgentInv
<1>3. Spec => []PhaseInv
  <2>1. BatchInv /\ PhaseInv /\ [Next]_vars => PhaseInv'
    <3>1. ASSUME PhaseInv, UNCHANGED vars PROVE PhaseInv'
      BY <3>1 DEF PhaseInv, Jobs, vars, runs, history, bounds
    <3>2. QED
      BY <3>1, PhaseStep
  <2>2. Spec => [](limit \in Limits /\ BatchInv /\ BatchHolds)
    BY BatchInit, BatchStep, PTL DEF Spec
  <2>3. QED
    BY <2>1, <2>2, RowsInit, PTL DEF Spec
<1>4. QED
  BY <1>1, <1>2, <1>3, TurnHolds, ShelfInit, PTL DEF Spec

-----------------------------------------------------------------------------
(* The conversation of the ReAct agent.                                    *)

\* Results follow their call and every call has one.
Paired(h) ==
  \A i \in 1 .. Len(h) : /\ OfTool(h[i]) => i > 1 /\ h[i - 1].role = "calls"
                         /\ h[i].role = "calls" => i < Len(h) /\ OfTool(h[i + 1])

\* Every message is of this turn or an earlier one, and of none that was taken back; no
\* tick is observed twice.
Ordered(h, step, back) ==
  /\ \A i \in 1 .. Len(h) : h[i].step <= step /\ h[i].step \notin back
  /\ \A i, j \in 1 .. Len(h) :
       h[i].role = "observation" /\ h[j].role = "observation" /\ h[i].step = h[j].step => i = j

\* A conversation, of a process that is the only one of its run if alone is TRUE.
Sound(h, step, back, alone) == Paired(h) /\ (alone => Ordered(h, step, back))

\* In a turn without a compaction what was said before it is followed by its observation.
Playing(a) == a.pc \in {"think", "act", "force"}
Begun(a, alone) ==
  /\ a.before < Len(a.history) /\ a.history[a.before + 1] = Observation(a.step)
  /\ alone => \A i \in 1 .. a.before : a.history[i].step < a.step

Speaks(a, alone) == ~a.odd =>
  /\ a.pending = a.note
  /\ Sound(a.history, a.step, a.back, alone)
  /\ alone => (\A s \in a.back : s <= a.step) /\ (Playing(a) => a.step \notin a.back)
  /\ Playing(a) /\ ~a.cut => Begun(a, alone)

TalkInv == \A p \in Procs : proc[p] # Nothing /\ proc[p].kind = "react" => Speaks(proc[p], used.starts = 0)
\* What follows a message that is no result is a conversation too,
LEMMA SuffixSound ==
  ASSUME NEW h \in Seq(MessageType), NEW g \in Seq(MessageType), NEW k \in 1 .. Len(h), NEW step \in Int, NEW back,
         NEW alone \in BOOLEAN, Sound(h, step, back, alone), ~OfTool(h[k]),
         Len(g) = Len(h) - k + 1, \A i \in 1 .. Len(g) : g[i] = h[k + i - 1]
  PROVE  Sound(g, step, back, alone)
<1>1. Len(h) \in Nat /\ Len(g) \in Nat
  BY LenProperties
<1>2. \A i \in 1 .. Len(g) : k + i - 1 \in 1 .. Len(h) /\ g[i] = h[k + i - 1]
  BY <1>1
<1>3. Paired(g)
  <2>1. ASSUME NEW i \in 1 .. Len(g), OfTool(g[i]) PROVE i > 1 /\ g[i - 1].role = "calls"
    <3>1. i # 1
      BY <1>1, <1>2, <2>1
    <3>2. i - 1 \in 1 .. Len(g)
      BY <1>1, <3>1
    <3>3. h[(k + i - 1) - 1].role = "calls"
      BY <1>2, <2>1 DEF Sound, Paired
    <3>4. (k + i - 1) - 1 = k + (i - 1) - 1
      BY <1>1
    <3>5. g[i - 1] = h[k + (i - 1) - 1]
      BY <1>2, <3>2
    <3>6. g[i - 1].role = "calls"
      BY <3>3, <3>4, <3>5
    <3>7. i > 1
      BY <1>1, <3>1
    <3>8. QED
      BY <3>6, <3>7
  <2>2. ASSUME NEW i \in 1 .. Len(g), g[i].role = "calls" PROVE i < Len(g) /\ OfTool(g[i + 1])
    <3>1. k + i - 1 < Len(h) /\ OfTool(h[(k + i - 1) + 1])
      BY <1>2, <2>2 DEF Sound, Paired
    <3>2. i < Len(g)
      BY <1>1, <3>1
    <3>3. i + 1 \in 1 .. Len(g) /\ (k + i - 1) + 1 = k + (i + 1) - 1
      BY <1>1, <3>2
    <3>4. QED
      BY <1>2, <3>1, <3>2, <3>3
  <2>3. QED
    BY <2>1, <2>2 DEF Paired
<1>4. ASSUME alone PROVE Ordered(g, step, back)
  <2>1. Ordered(h, step, back)
    BY <1>4 DEF Sound
  <2>2. \A i \in 1 .. Len(g) : g[i].step <= step /\ g[i].step \notin back
    BY <1>2, <2>1 DEF Ordered
  <2>3. ASSUME NEW i \in 1 .. Len(g), NEW j \in 1 .. Len(g),
               g[i].role = "observation", g[j].role = "observation", g[i].step = g[j].step
        PROVE  i = j
    <3>1. k + i - 1 = k + j - 1
      BY <1>2, <2>1, <2>3 DEF Ordered
    <3>2. QED
      BY <1>1, <3>1
  <2>4. QED
    BY <2>2, <2>3 DEF Ordered
<1>5. QED
  BY <1>3, <1>4 DEF Sound

\* and so is what comes before one.
LEMMA PrefixSound ==
  ASSUME NEW h \in Seq(MessageType), NEW g \in Seq(MessageType), NEW k \in Nat, k < Len(h), NEW step \in Int, NEW back,
         NEW alone \in BOOLEAN, Sound(h, step, back, alone), ~OfTool(h[k + 1]),
         Len(g) = k, \A i \in 1 .. k : g[i] = h[i]
  PROVE  Sound(g, step, back, alone)
<1>1. Len(h) \in Nat
  BY LenProperties
<1>2. \A i \in 1 .. k : i \in 1 .. Len(h) /\ g[i] = h[i]
  BY <1>1
<1>3. Paired(g)
  <2>1. ASSUME NEW i \in 1 .. k, OfTool(g[i]) PROVE i > 1 /\ g[i - 1].role = "calls"
    <3>1. i > 1 /\ h[i - 1].role = "calls"
      BY <1>2, <2>1 DEF Sound, Paired
    <3>2. i - 1 \in 1 .. k
      BY <3>1
    <3>3. QED
      BY <1>2, <3>1, <3>2
  <2>2. ASSUME NEW i \in 1 .. k, g[i].role = "calls" PROVE i < k /\ OfTool(g[i + 1])
    <3>1. OfTool(h[i + 1])
      BY <1>2, <2>2 DEF Sound, Paired
    <3>2. i # k
      BY <3>1
    <3>3. i < k /\ i + 1 \in 1 .. k
      BY <3>2
    <3>4. QED
      BY <1>2, <3>1, <3>3
  <2>3. QED
    BY <2>1, <2>2 DEF Paired
<1>4. ASSUME alone PROVE Ordered(g, step, back)
  BY <1>2, <1>4 DEF Sound, Ordered
<1>5. QED
  BY <1>3, <1>4 DEF Sound

\* A message that is neither a call nor a result may be added; an observation if it is
\* the first of its turn.
LEMMA AppendSound ==
  ASSUME NEW h \in Seq(MessageType), NEW m \in MessageType, m.role \in {"observation", "note", "says"}, NEW step \in Int,
         NEW back, NEW alone \in BOOLEAN, Sound(h, step, back, alone),
         alone => m.step <= step /\ m.step \notin back,
         alone /\ m.role = "observation" => \A i \in 1 .. Len(h) : h[i].step < m.step
  PROVE  Sound(Append(h, m), step, back, alone)
<1> DEFINE g == Append(h, m)
           n == Len(h)
<1>1. /\ n \in Nat /\ Len(g) = n + 1 /\ g[n + 1] = m
      /\ \A i \in 1 .. n : g[i] = h[i] /\ h[i].step \in Int
  <2>1. \A i \in 1 .. n : h[i] \in MessageType
    BY ElementOfSeq
  <2>2. \A i \in 1 .. n : h[i].step \in Int
    BY <2>1 DEF MessageType
  <2>3. QED
    BY <2>2, LenProperties, AppendProperties
<1> HIDE DEF g, n
<1>2. \A i \in 1 .. n + 1 : i \in 1 .. n \/ i = n + 1
  BY <1>1
<1>3. ~OfTool(m) /\ m.role # "calls" /\ m.step \in Int
  BY DEF OfTool, MessageType
<1>4. Paired(g)
  <2>1. ASSUME NEW i \in 1 .. n PROVE /\ OfTool(g[i]) => i > 1 /\ g[i - 1].role = "calls"
                                      /\ g[i].role = "calls" => i < n + 1 /\ OfTool(g[i + 1])
    <3>1. /\ OfTool(h[i]) => i > 1 /\ h[i - 1].role = "calls"
          /\ h[i].role = "calls" => i < n /\ OfTool(h[i + 1])
      BY DEF Sound, Paired, n
    <3>2. i > 1 => i - 1 \in 1 .. n
      BY <1>1
    <3>3. i < n => i + 1 \in 1 .. n
      BY <1>1
    <3>4. i < n + 1
      BY <1>1
    <3>5. QED
      BY <1>1, <3>1, <3>2, <3>3, <3>4
  <2>2. ASSUME NEW i \in 1 .. Len(g) PROVE /\ OfTool(g[i]) => i > 1 /\ g[i - 1].role = "calls"
                                           /\ g[i].role = "calls" => i < Len(g) /\ OfTool(g[i + 1])
    <3>1. CASE i = n + 1
      BY <1>1, <1>3, <3>1
    <3>2. CASE i \in 1 .. n
      BY <1>1, <2>1, <3>2
    <3>3. QED
      BY <1>1, <1>2, <3>1, <3>2
  <2>3. QED
    BY <2>2 DEF Paired
<1>5. ASSUME alone PROVE Ordered(g, step, back)
  <2>1. Ordered(h, step, back)
    BY <1>5 DEF Sound
  <2>2. \A i \in 1 .. n : h[i].step <= step /\ h[i].step \notin back
    BY <2>1 DEF Ordered, n
  <2>3. \A i, j \in 1 .. n :
       h[i].role = "observation" /\ h[j].role = "observation" /\ h[i].step = h[j].step => i = j
    BY <2>1 DEF Ordered, n
  <2>4. \A i \in 1 .. n + 1 : g[i].step <= step /\ g[i].step \notin back
    BY <1>1, <1>2, <1>5, <2>2
  <2>5. m.role = "observation" => \A i \in 1 .. n : h[i].step # m.step
    <3>1. m.role = "observation" => \A i \in 1 .. n : h[i].step < m.step
      BY <1>5 DEF n
    <3>2. QED
      BY <1>1, <1>3, <3>1
  <2>6. \A i, j \in 1 .. n + 1 :
       g[i].role = "observation" /\ g[j].role = "observation" /\ g[i].step = g[j].step => i = j
    BY <1>1, <1>2, <2>3, <2>5
  <2>7. QED
    BY <1>1, <2>4, <2>6 DEF Ordered
<1>6. QED
  BY <1>4, <1>5 DEF Sound, g

\* Calls are added with their result,
LEMMA CallsSound ==
  ASSUME NEW h \in Seq(MessageType), NEW step \in Int, NEW back, NEW alone \in BOOLEAN, Sound(h, step, back, alone),
         alone => step \notin back
  PROVE  Sound(h \o <<Calls(step), Result(step)>>, step, back, alone)
<1> DEFINE more == <<Calls(step), Result(step)>>
           g == h \o more
           n == Len(h)
<1>1. /\ n \in Nat /\ Len(g) = n + 2 /\ g[n + 1] = Calls(step) /\ g[n + 2] = Result(step)
      /\ \A i \in 1 .. n : g[i] = h[i] /\ h[i].step \in Int
  <2>1. more \in Seq(MessageType) /\ Len(more) = 2 /\ more[1] = Calls(step) /\ more[2] = Result(step)
    BY MessageTyped
  <2>2. n \in Nat
    BY LenProperties
  <2> HIDE DEF more, n
  <2>3. Len(g) = n + 2 /\ \A i \in 1 .. n + 2 : g[i] = IF i <= n THEN h[i] ELSE more[i - n]
    <3>1. /\ Len(h \o more) = Len(h) + Len(more)
          /\ \A i \in 1 .. Len(h) + Len(more) : (h \o more)[i] = IF i <= Len(h) THEN h[i] ELSE more[i - Len(h)]
      BY <2>1, ConcatProperties
    <3>2. QED
      BY <2>1, <3>1 DEF n
  <2>4. g[n + 1] = Calls(step) /\ g[n + 2] = Result(step)
    <3>1. n + 1 \in 1 .. n + 2 /\ n + 2 \in 1 .. n + 2 /\ ~(n + 1 <= n) /\ ~(n + 2 <= n)
      BY <2>2
    <3>2. (n + 1) - n = 1 /\ (n + 2) - n = 2
      BY <2>2
    <3>3. QED
      BY <2>1, <2>3, <3>1, <3>2
  <2>5. \A i \in 1 .. n : h[i] \in MessageType
    BY ElementOfSeq DEF n
  <2>6. QED
    BY <2>2, <2>3, <2>4, <2>5 DEF MessageType
<1> HIDE DEF more, g, n
<1>2. \A i \in 1 .. n + 2 : i \in 1 .. n \/ i = n + 1 \/ i = n + 2
  BY <1>1
<1>3. /\ Calls(step).role = "calls" /\ Calls(step).step = step /\ Result(step).role = "result" /\ Result(step).step = step
      /\ ~OfTool(Calls(step)) /\ OfTool(Result(step))
  BY DEF Calls, Result, Message, OfTool
<1>4. Paired(g)
  <2>1. ASSUME NEW i \in 1 .. n
        PROVE  /\ OfTool(g[i]) => i > 1 /\ g[i - 1].role = "calls"
               /\ g[i].role = "calls" => i < n + 2 /\ OfTool(g[i + 1])
    <3>1. /\ OfTool(h[i]) => i > 1 /\ h[i - 1].role = "calls"
          /\ h[i].role = "calls" => i < n /\ OfTool(h[i + 1])
      BY DEF Sound, Paired, n
    <3>2. i > 1 => i - 1 \in 1 .. n
      BY <1>1
    <3>3. i < n => i + 1 \in 1 .. n
      BY <1>1
    <3>4. i < n + 2
      BY <1>1
    <3>5. QED
      BY <1>1, <3>1, <3>2, <3>3, <3>4
  <2>2. ASSUME NEW i \in 1 .. Len(g)
        PROVE  /\ OfTool(g[i]) => i > 1 /\ g[i - 1].role = "calls"
               /\ g[i].role = "calls" => i < Len(g) /\ OfTool(g[i + 1])
    <3>1. CASE i = n + 1
      <4>1. i + 1 = n + 2 /\ i < Len(g)
        BY <1>1, <3>1
      <4>2. QED
        BY <1>1, <1>3, <3>1, <4>1
    <3>2. CASE i = n + 2
      <4>1. i - 1 = n + 1 /\ i > 1
        BY <1>1, <3>2
      <4>2. QED
        BY <1>1, <1>3, <3>2, <4>1
    <3>3. CASE i \in 1 .. n
      BY <1>1, <2>1, <3>3
    <3>4. QED
      BY <1>1, <1>2, <3>1, <3>2, <3>3
  <2>3. QED
    BY <2>2 DEF Paired
<1>5. ASSUME alone PROVE Ordered(g, step, back)
  <2>1. Ordered(h, step, back)
    BY <1>5 DEF Sound
  <2>2. \A i \in 1 .. n : h[i].step <= step /\ h[i].step \notin back
    BY <2>1 DEF Ordered, n
  <2>3. \A i, j \in 1 .. n :
       h[i].role = "observation" /\ h[j].role = "observation" /\ h[i].step = h[j].step => i = j
    BY <2>1 DEF Ordered, n
  <2>4. ASSUME NEW i \in 1 .. Len(g)
        PROVE  g[i].step <= step /\ g[i].step \notin back /\ (g[i].role = "observation" => i \in 1 .. n)
    <3>1. CASE i \in {n + 1, n + 2}
      BY <1>1, <1>3, <1>5, <3>1
    <3>2. CASE i \in 1 .. n
      BY <1>1, <2>2, <3>2
    <3>3. QED
      BY <1>1, <1>2, <3>1, <3>2
  <2>5. QED
    BY <1>1, <2>3, <2>4 DEF Ordered
<1>6. QED
  BY <1>4, <1>5 DEF Sound, g, more

\* what replaces results is results,
LEMMA RedactedSound ==
  ASSUME NEW h \in Seq(MessageType), NEW g \in Seq(MessageType), NEW step \in Int, NEW back, NEW alone \in BOOLEAN,
         Sound(h, step, back, alone), Len(g) = Len(h),
         \A i \in 1 .. Len(h) : g[i] = h[i] \/ (OfTool(h[i]) /\ OfTool(g[i]) /\ g[i].step = h[i].step)
  PROVE  Sound(g, step, back, alone)
<1>1. Len(h) \in Nat
  BY LenProperties
<1>2. \A i \in 1 .. Len(h) : /\ OfTool(g[i]) <=> OfTool(h[i])
                             /\ g[i].role = "calls" <=> h[i].role = "calls"
                             /\ g[i].role = "observation" <=> h[i].role = "observation"
                             /\ g[i].step = h[i].step
  BY DEF OfTool
<1>3. Paired(g)
  <2>1. ASSUME NEW i \in 1 .. Len(h)
        PROVE  /\ OfTool(g[i]) => i > 1 /\ g[i - 1].role = "calls"
               /\ g[i].role = "calls" => i < Len(h) /\ OfTool(g[i + 1])
    <3>1. /\ OfTool(h[i]) => i > 1 /\ h[i - 1].role = "calls"
          /\ h[i].role = "calls" => i < Len(h) /\ OfTool(h[i + 1])
      BY DEF Sound, Paired
    <3>2. i > 1 => i - 1 \in 1 .. Len(h)
      BY <1>1
    <3>3. i < Len(h) => i + 1 \in 1 .. Len(h)
      BY <1>1
    <3>4. QED
      BY <1>2, <3>1, <3>2, <3>3
  <2>2. QED
    BY <2>1 DEF Paired
<1>4. ASSUME alone PROVE Ordered(g, step, back)
  BY <1>2, <1>4 DEF Sound, Ordered
<1>5. QED
  BY <1>3, <1>4 DEF Sound

\* and what a compaction keeps begins with no result.
LEMMA TrimmedSound ==
  ASSUME NEW h \in Seq(MessageType), NEW step \in Int, NEW back, NEW alone \in BOOLEAN, Sound(h, step, back, alone)
  PROVE  Sound(Trimmed(h), step, back, alone)
<1> DEFINE first == Max({1, Len(h) - Keep + 1})
           kept == SubSeq(h, first, Len(h))
           heads == {i \in DOMAIN kept : ~OfTool(kept[i])}
           g == SubSeq(kept, Min(heads), Len(kept))
<1>1. Len(h) \in Nat /\ Keep \in Nat
  BY LenProperties, BaselinesAssumption
<1>2. first \in Nat \ {0}
  <2>1. Len(h) - Keep + 1 \in Int
    BY <1>1
  <2>2. QED
    BY <2>1, MaxOfTwo
<1> HIDE DEF first
<1>3. /\ kept \in Seq(MessageType) /\ Len(kept) = (IF first <= Len(h) THEN Len(h) - first + 1 ELSE 0)
      /\ \A i \in 1 .. Len(h) - first + 1 : kept[i] = h[first + i - 1]
  <2>1. \A i \in first .. Len(h) : h[i] \in MessageType
    BY <1>1, <1>2, ElementOfSeq
  <2>2. QED
    BY <1>1, <1>2, <2>1, SubSeqProperties
<1> HIDE DEF kept
<1>4. ASSUME heads # {} PROVE Sound(g, step, back, alone)
  <2>1. heads \subseteq 1 .. Len(kept) /\ Len(kept) \in Nat
    BY <1>3, LenProperties
  <2>2. IsFiniteSet(1 .. Len(kept))
    BY <2>1, FS_Interval
  <2> HIDE DEF heads
  <2>3. IsFiniteSet(heads)
    BY <2>1, <2>2, FS_Subset, Zenon
  <2>4. heads \subseteq Int
    BY <2>1
  <2>5. Min(heads) \in heads
    BY <1>4, <2>3, <2>4, LeastGreatest
  <2> DEFINE j == Min(heads)
             k == first + j - 1
  <2>6. j \in 1 .. Len(kept) /\ ~OfTool(kept[j])
    BY <2>1, <2>5 DEF heads
  <2> HIDE DEF j
  <2>7. /\ g \in Seq(MessageType) /\ Len(g) = Len(kept) - j + 1
        /\ \A i \in 1 .. Len(kept) - j + 1 : g[i] = kept[j + i - 1]
    <3>1. \A i \in j .. Len(kept) : kept[i] \in MessageType
      BY <1>3, <2>1, <2>6, ElementOfSeq
    <3>2. QED
      BY <2>1, <2>6, <3>1, SubSeqProperties DEF j
  <2> HIDE DEF g
  <2>8. first <= Len(h) /\ Len(kept) = Len(h) - first + 1
    BY <1>1, <1>2, <1>3, <2>6
  <2>9. k \in 1 .. Len(h) /\ Len(g) = Len(h) - k + 1 /\ kept[j] = h[k]
    BY <1>1, <1>2, <1>3, <2>6, <2>7, <2>8
  <2>10. ASSUME NEW i \in 1 .. Len(g) PROVE g[i] = h[k + i - 1]
    <3>1. g[i] = kept[j + i - 1] /\ j + i - 1 \in 1 .. Len(h) - first + 1
      BY <1>1, <1>2, <2>6, <2>7, <2>8
    <3>2. first + (j + i - 1) - 1 = k + i - 1
      BY <1>1, <1>2, <2>6, <2>7, <2>8
    <3>3. kept[j + i - 1] = h[first + (j + i - 1) - 1]
      BY <1>3, <3>1
    <3>4. QED
      BY <3>1, <3>2, <3>3
  <2>11. ~OfTool(h[k])
    BY <2>6, <2>9
  <2> HIDE DEF k
  <2>12. QED
    BY <2>7, <2>9, <2>10, <2>11, SuffixSound
<1>5. Sound(<<>>, step, back, alone)
  <2>1. Len(<<>>) = 0
    OBVIOUS
  <2>2. 1 .. 0 = {}
    OBVIOUS
  <2>3. QED
    BY <2>1, <2>2 DEF Sound, Paired, Ordered
<1>6. Trimmed(h) = IF heads = {} THEN <<>> ELSE g
  BY DEF Trimmed, kept, first
<1> HIDE DEF g, heads
<1>7. QED
  BY <1>4, <1>5, <1>6

\* What holds of an agent in its turn, wherever it is in it.
Goes(a, alone) == ~a.odd =>
  /\ a.pending = a.note
  /\ Sound(a.history, a.step, a.back, alone)
  /\ alone => (\A s \in a.back : s <= a.step) /\ a.step \notin a.back
  /\ ~a.cut => Begun(a, alone)

\* b has the conversation of a.
Talks(a, b) ==
  /\ b.history = a.history /\ b.step = a.step /\ b.back = a.back /\ b.odd = a.odd
  /\ b.pending = a.pending /\ b.note = a.note /\ b.cut = a.cut /\ b.before = a.before

\* An agent speaks in its turn as it did before, whatever else it does.
LEMMA TalksOn ==
  ASSUME NEW a, NEW b, NEW alone \in BOOLEAN, Talks(a, b)
  PROVE  /\ Goes(a, alone) => Goes(b, alone) /\ Speaks(b, alone)
         /\ Speaks(a, alone) /\ Playing(a) => Goes(a, alone)
         /\ Speaks(a, alone) /\ (Playing(b) => Playing(a)) => Speaks(b, alone)
BY DEF Talks, Goes, Speaks, Begun

\* A reminder is added to what was said, or to what a compaction keeps of it.
LEMMA HopTalk ==
  ASSUME NEW a \in ReactType, NEW memory \in BOOLEAN, NEW alone \in BOOLEAN, Goes(a, alone)
  PROVE  Goes(Hop(a, memory), alone)
<1> DEFINE b == Reminded(a, memory)
           h == a.history
           old == IF memory THEN h ELSE Trimmed(h)
           new == Append(old, Note(a.step))
           c == [b EXCEPT !.pc = "think", !.retries = 0, !.forbidden = FALSE]
           d == [a EXCEPT !.history = new, !.note = TRUE, !.pending = TRUE, !.cut = a.cut \/ ~memory]
<1>1. b = a \/ b = d
  BY DEF Reminded
<1>2. h \in Seq(MessageType) /\ old \in Seq(MessageType) /\ a.step \in Int /\ a.before \in Nat /\ Note(a.step) \in MessageType
  <2>1. h \in Seq(MessageType) /\ a.step \in Int /\ a.before \in Nat
    BY DEF ReactType
  <2>2. QED
    BY <2>1, TrimmedTyped, MessageTyped
<1>3. Note(a.step).role = "note" /\ Note(a.step).step = a.step
  BY DEF Note, Message
<1> HIDE DEF h, old
<1>4. new \in Seq(MessageType) /\ (a.cut \/ ~memory) \in BOOLEAN
  BY <1>2, AppendProperties
<1>5. ~a.odd => Sound(new, a.step, a.back, alone)
  <2>1. ASSUME ~a.odd PROVE Sound(old, a.step, a.back, alone)
    <3>1. Sound(h, a.step, a.back, alone)
      BY <2>1 DEF Goes, h
    <3>2. QED
      BY <1>2, <3>1, TrimmedSound DEF old
  <2>2. ~a.odd /\ alone => a.step \notin a.back /\ a.step <= a.step
    <3>1. a.step <= a.step
      BY <1>2
    <3>2. ~a.odd /\ alone => a.step \notin a.back
      BY DEF Goes
    <3>3. QED
      BY <3>1, <3>2
  <2>3. QED
    BY <1>2, <1>3, <2>1, <2>2, AppendSound
<1>6. memory => /\ Len(h) \in Nat /\ Len(new) = Len(h) + 1
                /\ \A i \in 1 .. Len(h) : new[i] = h[i]
  BY <1>2, AppendProperties, LenProperties DEF old
<1> HIDE DEF new
<1>7. d.history = new /\ d.note /\ d.pending /\ d.cut = (a.cut \/ ~memory) /\ d.step = a.step /\ d.back = a.back /\ d.odd = a.odd
      /\ d.before = a.before /\ d.note \in BOOLEAN /\ d.pending \in BOOLEAN
  BY <1>4 DEF ReactType
<1> HIDE DEF d
<1>8. Goes(d, alone)
  <2>1. ASSUME ~a.odd, ~d.cut PROVE Begun(d, alone)
    <3>1. Begun(a, alone) /\ memory
      BY <1>7, <2>1 DEF Goes
    <3>2. /\ a.before < Len(h) /\ h[a.before + 1] = Observation(a.step)
          /\ alone => \A i \in 1 .. a.before : h[i].step < a.step
      BY <3>1 DEF Begun, h
    <3>3. a.before < Len(new) /\ a.before + 1 \in 1 .. Len(h) /\ \A i \in 1 .. a.before : i \in 1 .. Len(h)
      BY <1>2, <1>6, <3>1, <3>2
    <3>4. new[a.before + 1] = Observation(a.step) /\ (alone => \A i \in 1 .. a.before : new[i].step < a.step)
      BY <1>6, <3>1, <3>2, <3>3
    <3>5. QED
      BY <1>7, <3>3, <3>4 DEF Begun
  <2>2. QED
    BY <1>5, <1>7, <2>1 DEF Goes
<1>9. b \in ReactType
  BY HopTyped
<1> HIDE DEF b
<1>10. Talks(b, c)
  BY <1>9 DEF Talks, ReactType
<1>11. Hop(a, memory) = c
  BY DEF Hop, b
<1> HIDE DEF c
<1>12. Goes(b, alone)
  BY <1>1, <1>8
<1>13. QED
  BY <1>10, <1>11, <1>12, TalksOn

\* An observation begins a turn, if it is of a later tick or nobody keeps an order.
LEMMA ObservedTalk ==
  ASSUME NEW a \in ReactType, NEW memory \in BOOLEAN, NEW alone \in BOOLEAN, NEW step \in Int, Speaks(a, alone),
         alone => a.step < step
  PROVE  Goes(Observed(a, step, memory), alone)
<1> DEFINE h == a.history
           m == Observation(step)
           new == Append(h, m)
           c == [a EXCEPT !.step = step, !.before = Len(h), !.history = new, !.hops = 0, !.cut = FALSE]
<1>1. h \in Seq(MessageType) /\ m \in MessageType /\ a.step \in Int /\ a.back \subseteq Int
      /\ m.role = "observation" /\ m.step = step
  BY MessageTyped DEF ReactType, Observation, Message
<1>2. /\ new \in Seq(MessageType) /\ Len(h) \in Nat /\ Len(new) = Len(h) + 1 /\ new[Len(h) + 1] = m
      /\ \A i \in 1 .. Len(h) : new[i] = h[i] /\ h[i].step \in Int
  <2>1. \A i \in 1 .. Len(h) : h[i] \in MessageType
    BY <1>1, ElementOfSeq
  <2>2. QED
    BY <1>1, <2>1, AppendProperties, LenProperties DEF MessageType
<1>3. Observed(a, step, memory) = Hop(c, memory)
  BY DEF Observed
<1> HIDE DEF h, m
<1>4. ASSUME ~a.odd, alone PROVE /\ \A i \in 1 .. Len(h) : h[i].step < step
                                 /\ \A s \in a.back : s <= step /\ s # step
                                 /\ Ordered(h, step, a.back)
  <2>1. Ordered(h, a.step, a.back) /\ \A s \in a.back : s <= a.step
    BY <1>4 DEF Speaks, Sound, h
  <2>2. \A i \in 1 .. Len(h) : h[i].step <= a.step
    BY <2>1 DEF Ordered
  <2>3. \A s \in a.back : s \in Int /\ s <= a.step
    BY <1>1, <2>1
  <2>4. a.step < step
    BY <1>4
  <2>5. \A i \in 1 .. Len(h) : h[i].step < step
    BY <1>1, <1>2, <2>2, <2>4
  <2>6. \A s \in a.back : s <= step /\ s # step
    BY <1>1, <2>3, <2>4
  <2>7. \A i \in 1 .. Len(h) : h[i].step <= step
    BY <1>2, <2>5
  <2>8. QED
    BY <2>1, <2>5, <2>6, <2>7 DEF Ordered
<1>5. ~a.odd => Sound(h, step, a.back, alone)
  <2>1. ~a.odd => Paired(h)
    BY DEF Speaks, Sound, h
  <2>2. QED
    BY <1>4, <2>1 DEF Sound
<1>6. ~a.odd => Sound(new, step, a.back, alone)
  <2>1. ~a.odd /\ alone => m.step <= step /\ m.step \notin a.back /\ \A i \in 1 .. Len(h) : h[i].step < m.step
    BY <1>1, <1>4
  <2>2. QED
    BY <1>1, <1>5, <2>1, AppendSound
<1> HIDE DEF new
<1>7. /\ c \in ReactType /\ c.history = new /\ c.step = step /\ c.back = a.back /\ c.odd = a.odd /\ c.pending = a.pending
      /\ c.note = a.note /\ c.before = Len(h)
  BY <1>2 DEF ReactType
<1> HIDE DEF c
<1>8. ~a.odd => Begun(c, alone)
  BY <1>2, <1>4, <1>7 DEF Begun, m
<1>9. ~a.odd => a.pending = a.note
  BY DEF Speaks
<1>10. Goes(c, alone)
  BY <1>4, <1>6, <1>7, <1>8, <1>9 DEF Goes
<1>11. QED
  BY <1>3, <1>7, <1>10, HopTalk

\* What a provider refused is taken out of the results,
LEMMA RedactTalk ==
  ASSUME NEW a \in ReactType, NEW alone \in BOOLEAN, Goes(a, alone)
  PROVE  Goes(RedactLast(a), alone)
<1> DEFINE h == a.history
           tools == {i \in DOMAIN h : OfTool(h[i])}
           last == IF \E i \in DOMAIN h : OfTool(h[i]) THEN Max(tools) ELSE 0
           firsts == {i \in 1 .. last : \A j \in i .. last : OfTool(h[j])}
           first == Min(firsts)
           new == [i \in DOMAIN h |-> IF i \in first .. last THEN Redacted(h[i].step) ELSE h[i]]
           d == [a EXCEPT !.history = new]
<1>1. RedactLast(a) = IF last = 0 THEN a ELSE d
  BY DEF RedactLast
<1>2. h \in Seq(MessageType) /\ a.step \in Int /\ a.before \in Nat
  BY DEF ReactType
<1>3. /\ Len(h) \in Nat /\ DOMAIN h = 1 .. Len(h)
      /\ \A i \in 1 .. Len(h) : h[i] \in MessageType
  BY <1>2, LenProperties, ElementOfSeq
<1> HIDE DEF h
<1>4. ASSUME last # 0 PROVE \A i \in first .. last : i \in Int => OfTool(h[i])
  <2>1. IsFiniteSet(1 .. Len(h))
    BY <1>3, FS_Interval
  <2>2. tools \subseteq 1 .. Len(h) /\ tools # {}
    BY <1>3, <1>4
  <2>3. \A i \in tools : OfTool(h[i])
    OBVIOUS
  <2>4. last = Max(tools)
    BY <1>4
  <2> HIDE DEF tools
  <2>5. IsFiniteSet(tools)
    BY <2>1, <2>2, FS_Subset, Zenon
  <2>6. tools \subseteq Int
    BY <2>2
  <2>7. Max(tools) \in tools
    BY <2>2, <2>5, <2>6, LeastGreatest
  <2>8. last \in 1 .. Len(h) /\ OfTool(h[last])
    BY <2>2, <2>3, <2>4, <2>7
  <2> HIDE DEF last
  <2>9. last \in firsts /\ firsts \subseteq 1 .. last
    <3>1. \A j \in last .. last : j = last
      BY <1>3, <2>8
    <3>2. QED
      BY <1>3, <2>8, <3>1
  <2>10. \A i \in firsts : \A j \in i .. last : OfTool(h[j])
    OBVIOUS
  <2> HIDE DEF firsts
  <2>11. IsFiniteSet(1 .. last)
    BY <1>3, <2>8, FS_Interval
  <2>12. IsFiniteSet(firsts)
    BY <2>9, <2>11, FS_Subset, Zenon
  <2>13. firsts \subseteq Int /\ firsts # {}
    BY <2>9
  <2>14. first \in firsts
    BY <2>12, <2>13, LeastGreatest
  <2>15. QED
    BY <2>10, <2>14
<1> HIDE DEF last, first
<1>5. ASSUME last # 0, NEW i \in 1 .. Len(h)
      PROVE  /\ new[i] \in MessageType
             /\ new[i] = h[i] \/ (OfTool(h[i]) /\ OfTool(new[i]) /\ new[i].step = h[i].step)
  <2>1. h[i] \in MessageType /\ h[i].step \in Int
    BY <1>3 DEF MessageType
  <2>2. Redacted(h[i].step) \in MessageType
    BY <2>1, MessageTyped
  <2>3. OfTool(Redacted(h[i].step)) /\ Redacted(h[i].step).step = h[i].step
    BY DEF Redacted, Message, OfTool
  <2>4. new[i] = IF i \in first .. last THEN Redacted(h[i].step) ELSE h[i]
    BY <1>3
  <2>5. i \in first .. last => OfTool(h[i])
    BY <1>4, <1>5
  <2> HIDE DEF new
  <2>6. QED
    BY <2>1, <2>2, <2>3, <2>4, <2>5
<1>6. DOMAIN new = 1 .. Len(h)
  BY <1>3
<1>7. CASE last # 0
  <2>1. new \in Seq(MessageType) /\ Len(new) = Len(h)
    <3>1. \A i \in 1 .. Len(h) : new[i] \in MessageType
      BY <1>5, <1>7
    <3>2. new = [i \in 1 .. Len(h) |-> new[i]]
      BY <1>6
    <3> HIDE DEF new
    <3>3. new \in [1 .. Len(h) -> MessageType]
      BY <3>1, <3>2
    <3>4. new \in Seq(MessageType)
      BY <1>3, <3>3, FunctionSeq
    <3>5. Len(new) = Len(h)
      BY <1>3, <1>6, <3>4, LenProperties
    <3>6. QED
      BY <3>4, <3>5
  <2>2. \A i \in 1 .. Len(h) : new[i] = h[i] \/ (OfTool(h[i]) /\ OfTool(new[i]) /\ new[i].step = h[i].step)
    BY <1>5, <1>7
  <2> HIDE DEF new
  <2>3. ~a.odd => Sound(new, a.step, a.back, alone)
    <3>1. ~a.odd => Sound(h, a.step, a.back, alone)
      BY DEF Goes, h
    <3>2. QED
      BY <1>2, <2>1, <2>2, <3>1, RedactedSound
  <2>4. /\ d.history = new /\ d.step = a.step /\ d.back = a.back /\ d.odd = a.odd /\ d.pending = a.pending
        /\ d.note = a.note /\ d.before = a.before /\ d.cut = a.cut
    BY DEF ReactType
  <2> HIDE DEF d
  <2>5. ASSUME ~a.odd, ~a.cut PROVE Begun(d, alone)
    <3>1. Begun(a, alone)
      BY <2>5 DEF Goes
    <3>2. /\ a.before < Len(h) /\ h[a.before + 1] = Observation(a.step)
          /\ alone => \A i \in 1 .. a.before : h[i].step < a.step
      BY <3>1 DEF Begun, h
    <3>3. a.before + 1 \in 1 .. Len(h) /\ \A i \in 1 .. a.before : i \in 1 .. Len(h)
      BY <1>2, <1>3, <3>2
    <3>4. ~OfTool(h[a.before + 1])
      BY <3>2 DEF Observation, Message, OfTool
    <3>5. new[a.before + 1] = Observation(a.step)
      BY <2>2, <3>2, <3>3, <3>4
    <3>6. \A i \in 1 .. a.before : new[i].step = h[i].step
      BY <2>2, <3>3
    <3>7. QED
      BY <2>1, <2>4, <3>2, <3>5, <3>6 DEF Begun
  <2>6. Goes(d, alone)
    BY <2>3, <2>4, <2>5 DEF Goes
  <2>7. QED
    BY <1>1, <1>7, <2>6
<1>8. QED
  BY <1>1, <1>7

\* a call that fails changes no more than that,
LEMMA FailedTalk ==
  ASSUME NEW a \in ReactType, NEW kind, NEW alone \in BOOLEAN, Goes(a, alone)
  PROVE  Goes(Failed(a, kind), alone)
<1> DEFINE noted == [a EXCEPT !.failed = @ + 1]
           b == Failed(a, kind)
<1>1. noted \in ReactType /\ Talks(a, noted)
  <2>1. a.failed + 1 \in Nat
    BY DEF ReactType
  <2> DEFINE more == [a EXCEPT !.failed = a.failed + 1]
  <2>2. more \in ReactType
    BY <2>1 DEF ReactType
  <2>3. Talks(a, more)
    BY DEF ReactType, Talks
  <2>4. noted = more
    OBVIOUS
  <2> HIDE DEF more, noted
  <2>5. QED
    BY <2>2, <2>3, <2>4
<1>2. \/ b = [RedactLast(noted) EXCEPT !.forbidden = TRUE]
      \/ b = [noted EXCEPT !.retries = @ + 1]
      \/ b = Forced([noted EXCEPT !.spent = @ + 1], "nothing")
      \/ b = Forced([noted EXCEPT !.spent = @ + IF a.retries > 0 \/ a.forbidden THEN 1 ELSE 0], "nothing")
  BY DEF Failed
<1> HIDE DEF noted, b
<1>3. Goes(noted, alone)
  BY <1>1, TalksOn
<1>4. CASE b = [RedactLast(noted) EXCEPT !.forbidden = TRUE]
  <2> DEFINE c == RedactLast(noted)
  <2>1. c \in ReactType /\ Goes(c, alone)
    BY <1>1, <1>3, RedactTyped, RedactTalk
  <2>2. b = [c EXCEPT !.forbidden = TRUE]
    BY <1>4
  <2> HIDE DEF c
  <2>3. Talks(c, b)
    BY <2>1, <2>2 DEF Talks, ReactType
  <2>4. QED
    BY <2>1, <2>3, TalksOn DEF b
<1>5. CASE b = [noted EXCEPT !.retries = @ + 1]
  <2>1. Talks(noted, b)
    BY <1>1, <1>5 DEF Talks, ReactType
  <2>2. QED
    BY <1>3, <2>1, TalksOn DEF b
<1>6. ASSUME NEW n, b = Forced([noted EXCEPT !.spent = @ + n], "nothing") PROVE Goes(b, alone)
  <2>1. Talks(noted, b)
    BY <1>1, <1>6 DEF Talks, ReactType, Forced
  <2>2. QED
    BY <1>3, <2>1, TalksOn
<1>7. QED
  BY <1>2, <1>4, <1>5, <1>6 DEF b

\* and an act that was answered is remembered with its results.
LEMMA RememberedTalk ==
  ASSUME NEW a \in ReactType, NEW alone \in BOOLEAN, Goes(a, alone), Remembered(a) \in ReactType
  PROVE  Goes(Remembered(a), alone)
<1> DEFINE h == a.history
           more == CASE a.said = "calls" -> <<Calls(a.step), Result(a.step)>>
                     [] a.said = "says" -> <<Says(a.step)>>
                     [] OTHER -> <<>>
           new == h \o more
           b == Remembered(a)
<1>1. h \in Seq(MessageType) /\ a.step \in Int /\ a.before \in Nat /\ a.said \in {"calls", "says", "nothing"}
  BY DEF ReactType
<1>2. b = [a EXCEPT !.history = new]
  BY DEF Remembered
<1>3. /\ more \in Seq(MessageType)
      /\ \/ more = <<Calls(a.step), Result(a.step)>> \/ more = <<Says(a.step)>> \/ more = <<>>
  BY <1>1, MessageTyped
<1> HIDE DEF more, h
<1>4. /\ new \in Seq(MessageType) /\ Len(h) \in Nat /\ Len(more) \in Nat /\ Len(new) = Len(h) + Len(more)
      /\ \A i \in 1 .. Len(h) + Len(more) : new[i] = IF i <= Len(h) THEN h[i] ELSE more[i - Len(h)]
  BY <1>1, <1>3, ConcatProperties, LenProperties
<1>5. Len(h) <= Len(new) /\ \A i \in 1 .. Len(h) : new[i] = h[i]
  <2> HIDE DEF new
  <2>1. \A i \in 1 .. Len(h) : i \in 1 .. Len(h) + Len(more) /\ i <= Len(h)
    BY <1>4
  <2>2. QED
    BY <1>4, <2>1
<1>6. ASSUME ~a.odd PROVE Sound(new, a.step, a.back, alone)
  <2>1. Sound(h, a.step, a.back, alone) /\ (alone => a.step \notin a.back)
    BY <1>6 DEF Goes, h
  <2>2. CASE more = <<Calls(a.step), Result(a.step)>>
    BY <1>1, <2>1, <2>2, CallsSound
  <2>3. CASE more = <<Says(a.step)>>
    <3>1. new = Append(h, Says(a.step))
      BY <1>1, <2>3, MessageTyped, AppendIsConcat
    <3>2. Says(a.step) \in MessageType /\ Says(a.step).role = "says" /\ Says(a.step).step = a.step /\ a.step <= a.step
      BY <1>1, MessageTyped DEF Says, Message
    <3>3. alone => Says(a.step).step <= a.step /\ Says(a.step).step \notin a.back
      BY <2>1, <3>2
    <3> HIDE DEF new
    <3>4. QED
      BY <1>1, <2>1, <3>1, <3>2, <3>3, AppendSound
  <2>4. CASE more = <<>>
    BY <1>1, <2>1, <2>4, ConcatEmptySeq
  <2>5. QED
    BY <1>3, <2>2, <2>3, <2>4
<1> HIDE DEF new
<1>7. /\ b.history = new /\ b.step = a.step /\ b.back = a.back /\ b.odd = a.odd /\ b.pending = a.pending
      /\ b.note = a.note /\ b.before = a.before /\ b.cut = a.cut
  BY <1>2 DEF ReactType
<1> HIDE DEF b
<1>8. ASSUME ~a.odd, ~a.cut PROVE Begun(b, alone)
  <2>1. Begun(a, alone)
    BY <1>8 DEF Goes
  <2>2. /\ a.before < Len(h) /\ h[a.before + 1] = Observation(a.step)
        /\ alone => \A i \in 1 .. a.before : h[i].step < a.step
    BY <2>1 DEF Begun, h
  <2>3. a.before + 1 \in 1 .. Len(h) /\ \A i \in 1 .. a.before : i \in 1 .. Len(h)
    BY <1>1, <1>4, <2>2
  <2>4. a.before < Len(new)
    BY <1>1, <1>4, <2>2
  <2>5. QED
    BY <1>5, <1>7, <2>2, <2>3, <2>4 DEF Begun
<1>9. QED
  BY <1>6, <1>7, <1>8 DEF Goes, b

\* An answered turn goes on or ends with a conversation, compacted or not.
LEMMA AnsweredTalk ==
  ASSUME NEW a \in ReactType, NEW memory \in BOOLEAN, NEW alone \in BOOLEAN, Goes(a, alone)
  PROVE  Goes(Answered(a, memory), alone)
<1> DEFINE e == Acknowledged(a)
           c == Remembered(e)
           d == Compacted(c)
           b == Answered(a, memory)
<1>1. e \in ReactType /\ Goes(e, alone)
  <2>1. e \in ReactType /\ Talks(a, e)
    BY DEF Acknowledged, ReactType, Talks
  <2>2. QED
    BY <2>1, TalksOn
<1>2. b = [d EXCEPT !.pc = "observe"] \/ b = Hop([d EXCEPT !.hops = @ + 1], memory) \/ b = Forced(d, "says")
  BY DEF Answered
<1> HIDE DEF e
<1>3. c \in ReactType
  <2> DEFINE more == CASE e.said = "calls" -> <<Calls(e.step), Result(e.step)>>
                       [] e.said = "says" -> <<Says(e.step)>>
                       [] OTHER -> <<>>
             h == e.history \o more
  <2>1. e.history \in Seq(MessageType) /\ e.step \in Int
    BY <1>1 DEF ReactType
  <2>2. c = [e EXCEPT !.history = h]
    BY DEF Remembered
  <2>3. more \in Seq(MessageType)
    BY <2>1, MessageTyped
  <2> HIDE DEF more
  <2>4. h \in Seq(MessageType)
    BY <2>1, <2>3, ConcatProperties
  <2> HIDE DEF c, h
  <2>5. QED
    BY <1>1, <2>2, <2>4 DEF ReactType
<1>4. Goes(c, alone)
  BY <1>1, <1>3, RememberedTalk
<1> HIDE DEF c
<1>5. d \in ReactType /\ Goes(d, alone)
  <2> DEFINE h == Trimmed(c.history)
             f == [c EXCEPT !.history = h, !.prompt = 0, !.pending = FALSE, !.note = FALSE, !.cut = TRUE]
  <2>1. d = c \/ d = f
    BY DEF Compacted
  <2>2. c.history \in Seq(MessageType) /\ c.step \in Int /\ h \in Seq(MessageType)
    BY <1>3, TrimmedTyped DEF ReactType
  <2>3. ~c.odd => Sound(h, c.step, c.back, alone)
    <3>1. ~c.odd => Sound(c.history, c.step, c.back, alone)
      BY <1>4 DEF Goes
    <3>2. QED
      BY <2>2, <3>1, TrimmedSound
  <2> HIDE DEF h
  <2>4. /\ f \in ReactType /\ f.history = h /\ f.step = c.step /\ f.back = c.back /\ f.odd = c.odd /\ f.cut
        /\ ~f.pending /\ ~f.note /\ f.pending \in BOOLEAN /\ f.note \in BOOLEAN
    BY <1>3, <2>2 DEF ReactType
  <2> HIDE DEF f
  <2>5. Goes(f, alone)
    BY <1>4, <2>3, <2>4 DEF Goes
  <2> HIDE DEF d
  <2>6. QED
    BY <1>3, <1>4, <2>1, <2>4, <2>5
<1> HIDE DEF d
<1>6. CASE b = [d EXCEPT !.pc = "observe"]
  <2>1. Talks(d, b)
    BY <1>5, <1>6 DEF ReactType, Talks
  <2>2. QED
    BY <1>5, <2>1, TalksOn
<1>7. CASE b = Hop([d EXCEPT !.hops = @ + 1], memory)
  <2>1. d.hops + 1 \in Nat
    BY <1>5 DEF ReactType
  <2> DEFINE f == [d EXCEPT !.hops = d.hops + 1]
  <2>2. f \in ReactType /\ Talks(d, f)
    BY <1>5, <2>1 DEF ReactType, Talks
  <2>3. b = Hop(f, memory)
    BY <1>7
  <2> HIDE DEF f
  <2>4. Goes(f, alone)
    BY <1>5, <2>2, TalksOn
  <2> HIDE DEF b
  <2>5. Goes(Hop(f, memory), alone)
    BY <2>2, <2>4, HopTalk
  <2>6. QED
    BY <2>3, <2>5 DEF b
<1>8. CASE b = Forced(d, "says")
  <2>1. Talks(d, b)
    BY <1>5, <1>8 DEF Forced, ReactType, Talks
  <2>2. QED
    BY <1>5, <2>1, TalksOn
<1>9. QED
  BY <1>2, <1>6, <1>7, <1>8

\* A turn that goes on by force, is replied to or ends with its process says no more.
LEMMA SilentTalk ==
  ASSUME NEW a \in ReactType
  PROVE  /\ Talks(a, Forced(a, "says")) /\ Talks(a, Crashed(a)) /\ Talks(a, Gone(a))
         /\ \A said, ends, usage : Talks(a, Replied(a, said, ends, usage))
<1>1. Talks(a, Forced(a, "says")) /\ Talks(a, Gone(a))
  BY DEF Forced, Gone, ReactType, Talks
<1>2. Talks(a, Crashed(a))
  BY DEF Crashed, Forced, ReactType, Talks
<1>3. ASSUME NEW said, NEW ends, NEW usage PROVE Talks(a, Replied(a, said, ends, usage))
  BY DEF Replied, ReactType, Talks
<1>4. QED
  BY <1>1, <1>2, <1>3

\* A forced end that is refused takes the reminder back,
LEMMA RefusedTalk ==
  ASSUME NEW a \in ReactType, NEW alone \in BOOLEAN, Goes(a, alone)
  PROVE  Speaks(Refused(a), alone)
<1> DEFINE b == Refused(a)
<1>1. /\ b.history = a.history /\ b.step = a.step /\ b.back = a.back /\ b.odd = a.odd /\ b.pc = "observe"
      /\ b.pending = FALSE /\ b.note = FALSE
  BY DEF Refused, ReactType
<1> HIDE DEF b
<1>2. QED
  BY <1>1 DEF Goes, Speaks, Playing, b

\* and a turn that is refused its messages.
LEMMA TakenBackTalk ==
  ASSUME NEW a \in ReactType, NEW alone \in BOOLEAN, Goes(a, alone)
  PROVE  Speaks(TakenBack(a), alone)
<1> DEFINE h == a.history
           n == Min({a.before, Len(h)})
           new == SubSeq(h, 1, n)
           b == TakenBack(a)
<1>1. h \in Seq(MessageType) /\ a.before \in Nat /\ a.step \in Int /\ a.back \subseteq Int
  BY DEF ReactType
<1>2. Len(h) \in Nat
  BY <1>1, LenProperties
<1>3. b = [a EXCEPT !.history = new, !.pc = "observe", !.back = a.back \cup {a.step}, !.odd = a.odd \/ a.cut]
  BY DEF TakenBack
<1> HIDE DEF h, n
<1>4. n \in Nat /\ n <= Len(h) /\ (a.before <= Len(h) => n = a.before)
  BY <1>1, <1>2, MinOfTwo DEF n
<1>5. new \in Seq(MessageType) /\ Len(new) = n /\ \A i \in 1 .. n : new[i] = h[i]
  <2>1. \A i \in 1 .. n : h[i] \in MessageType
    BY <1>1, <1>2, <1>4, ElementOfSeq
  <2>2. QED
    BY <1>4, <2>1, SubSeqProperties
<1> HIDE DEF new
<1>6. /\ b.history = new /\ b.step = a.step /\ b.back = a.back \cup {a.step} /\ b.odd = (a.odd \/ a.cut) /\ b.pc = "observe"
      /\ b.pending = a.pending /\ b.note = a.note
  BY <1>3 DEF ReactType
<1> HIDE DEF b
<1>7. ASSUME ~b.odd PROVE /\ b.pending = b.note
                          /\ Sound(b.history, b.step, b.back, alone)
                          /\ alone => \A s \in b.back : s <= b.step
  <2>1. ~a.odd /\ ~a.cut
    BY <1>6, <1>7
  <2>2. /\ a.pending = a.note /\ Sound(h, a.step, a.back, alone) /\ Begun(a, alone)
        /\ alone => \A s \in a.back : s <= a.step
    BY <2>1 DEF Goes, h
  <2>3. /\ a.before < Len(h) /\ h[a.before + 1] = Observation(a.step)
        /\ alone => \A i \in 1 .. a.before : h[i].step < a.step
    BY <2>2 DEF Begun, h
  <2>4. n = a.before /\ n < Len(h) /\ ~OfTool(h[n + 1])
    <3>1. a.before <= Len(h)
      BY <1>1, <1>2, <2>3
    <3>2. n = a.before
      BY <1>4, <3>1
    <3>3. ~OfTool(Observation(a.step))
      BY DEF Observation, Message, OfTool
    <3>4. QED
      BY <2>3, <3>2, <3>3
  <2>5. Sound(new, a.step, a.back, alone)
    BY <1>1, <1>4, <1>5, <2>2, <2>4, PrefixSound
  <2>6. ASSUME alone PROVE Ordered(new, a.step, a.back \cup {a.step})
    <3>1. Ordered(new, a.step, a.back)
      BY <2>5, <2>6 DEF Sound
    <3>2. \A i \in 1 .. n : h[i].step < a.step
      BY <2>3, <2>4, <2>6
    <3>3. \A i \in 1 .. n : h[i] \in MessageType
      BY <1>1, <1>2, <1>4, ElementOfSeq
    <3>4. \A i \in 1 .. n : h[i].step \in Int
      BY <3>3 DEF MessageType
    <3>5. \A i \in 1 .. n : h[i].step # a.step
      BY <1>1, <3>2, <3>4
    <3>6. \A i \in 1 .. n : new[i].step # a.step
      BY <1>5, <3>5
    <3>7. QED
      BY <1>5, <3>1, <3>6 DEF Ordered
  <2>7. Sound(new, a.step, a.back \cup {a.step}, alone)
    BY <2>5, <2>6 DEF Sound
  <2>8. a.step <= a.step
    BY <1>1
  <2>9. QED
    BY <1>6, <2>2, <2>7, <2>8
<1>8. QED
  BY <1>6, <1>7 DEF Speaks, Playing, b

\* A process that is new, of the other kind, or says what a provider takes keeps the
\* conversations.
LEMMA TalkGoesOn ==
  ASSUME TalkInv, used'.starts = 0 => used.starts = 0,
         \A q \in Procs : \/ proc'[q] = proc[q] \/ proc'[q].kind # "react" \/ Speaks(proc'[q], used.starts = 0)
  PROVE  TalkInv'
<1>1. ASSUME NEW q \in Procs, proc'[q] # Nothing, proc'[q].kind = "react" PROVE Speaks(proc'[q], used'.starts = 0)
  <2>1. Speaks(proc'[q], used.starts = 0)
    <3>1. CASE proc'[q] = proc[q]
      <4>1. Speaks(proc[q], used.starts = 0)
        BY <1>1, <3>1 DEF TalkInv
      <4>2. QED
        BY <3>1, <4>1
    <3>2. QED
      BY <1>1, <3>1
  <2> DEFINE a == proc'[q]
  <2> HIDE DEF a
  <2>2. Speaks(a, used.starts = 0) => Speaks(a, used'.starts = 0)
    BY DEF Speaks, Sound, Begun
  <2>3. QED
    BY <2>1, <2>2 DEF a
<1>2. QED
  BY <1>1 DEF TalkInv

\* What a ReAct agent does in its turn keeps its conversation.
LEMMA ReactTalk ==
  ASSUME AgentInv, TalkInv, NEW p \in Procs, ReactStep(p)
  PROVE  \E b : proc' = [proc EXCEPT ![p] = b] /\ Speaks(b, used.starts = 0)
<1> DEFINE a == proc[p]
           alone == used.starts = 0
           Done == \E b : proc' = [proc EXCEPT ![p] = b] /\ Speaks(b, alone)
<1>1. a \in ReactType /\ Alive(p) /\ a.pc # "observe"
  <2>1. CASE \E kind \in {"transient", "forbidden", "fatal"} : ModelFails(p, kind)
    BY <2>1, ReactTyped DEF ModelFails
  <2>2. CASE \E said \in {"calls", "says", "nothing"}, ends, usage \in BOOLEAN : ModelReplies(p, said, ends, usage)
    BY <2>2, ReactTyped DEF ModelReplies
  <2>3. CASE ActTaken(p) \/ ActLost(p) \/ ActRefused(p)
    BY <2>3, ReactTyped DEF ActTaken, ActLost, ActRefused, Sends
  <2>4. QED
    BY <2>1, <2>2, <2>3 DEF ReactStep
<1>2. a # Nothing /\ a.kind = "react" /\ Playing(a) /\ limit.memory \in BOOLEAN
  BY <1>1, AgentKinds, EvaluationAssumption DEF Alive, Playing, ReactType, AgentInv
<1>3. Goes(a, alone) /\ alone \in BOOLEAN
  <2>1. Speaks(a, alone) /\ Talks(a, a)
    BY <1>2 DEF TalkInv, Talks
  <2>2. QED
    BY <1>2, <2>1, TalksOn
<1> HIDE DEF a, alone
<1>4. ASSUME NEW b, proc' = [proc EXCEPT ![p] = b], Goes(b, alone) PROVE Done
  <2>1. Talks(b, b)
    BY DEF Talks
  <2>2. Speaks(b, alone)
    BY <1>3, <1>4, <2>1, TalksOn
  <2>3. QED
    BY <1>4, <2>2
<1>5. ASSUME NEW b, proc' = [proc EXCEPT ![p] = b], Talks(a, b) PROVE Done
  <2>1. Speaks(b, alone)
    BY <1>3, <1>5, TalksOn
  <2>2. QED
    BY <1>5, <2>1
<1>6. ASSUME NEW b, proc' = [proc EXCEPT ![p] = b], Speaks(b, alone) PROVE Done
  BY <1>6
<1> HIDE DEF Done
<1>7. ASSUME NEW kind, ModelFails(p, kind) PROVE Done
  BY <1>1, <1>3, <1>4, <1>7, FailedTalk DEF ModelFails, a
<1>8. ASSUME NEW said, NEW ends, NEW usage, ModelReplies(p, said, ends, usage) PROVE Done
  <2>1. proc' = [proc EXCEPT ![p] = Replied(a, said, ends, usage)]
    BY <1>8 DEF ModelReplies, a
  <2>2. Talks(a, Replied(a, said, ends, usage))
    BY <1>1, SilentTalk
  <2>3. QED
    BY <1>5, <2>1, <2>2
<1>9. Talks(a, Gone(a)) /\ Talks(a, Crashed(a)) /\ Talks(a, Forced(a, "says"))
  BY <1>1, SilentTalk
<1>10. ASSUME proc' = [proc EXCEPT ![p] = IF a.last THEN Gone(a) ELSE Crashed(a)] PROVE Done
  <2>1. proc' = [proc EXCEPT ![p] = Gone(a)] \/ proc' = [proc EXCEPT ![p] = Crashed(a)]
    BY <1>10
  <2>2. QED
    BY <1>5, <1>9, <2>1
<1>11. ASSUME ActTaken(p) PROVE Done
  <2>1. Goes(Answered(a, limit.memory), alone)
    BY <1>1, <1>2, <1>3, AnsweredTalk
  <2>2. \/ proc' = [proc EXCEPT ![p] = Answered(a, limit.memory)]
        \/ proc' = [proc EXCEPT ![p] = IF a.last THEN Gone(a) ELSE Crashed(a)]
    BY <1>11 DEF ActTaken, a
  <2>3. QED
    BY <1>4, <1>10, <2>1, <2>2
<1>12. ASSUME ActLost(p) PROVE Done
  BY <1>10, <1>12 DEF ActLost, a
<1>13. ASSUME ActRefused(p) PROVE Done
  <2>1. Speaks(Refused(a), alone) /\ Speaks(TakenBack(a), alone)
    BY <1>1, <1>3, RefusedTalk, TakenBackTalk
  <2>2. \/ proc' = [proc EXCEPT ![p] = Refused(a)]
        \/ proc' = [proc EXCEPT ![p] = TakenBack(a)]
        \/ proc' = [proc EXCEPT ![p] = Forced(a, "says")]
    BY <1>13 DEF ActRefused, a
  <2>3. QED
    BY <1>5, <1>6, <1>9, <2>1, <2>2
<1>14. QED
  BY <1>7, <1>8, <1>11, <1>12, <1>13 DEF ReactStep, Done, alone

\* So does what it observes, or that it leaves.
LEMMA ObserverTalk ==
  ASSUME AgentInv, TurnInv, TalkInv, NEW p \in Procs, Observe(p) \/ Leave(p), proc[p].kind = "react"
  PROVE  \E b : proc' = [proc EXCEPT ![p] = b] /\ Speaks(b, used.starts = 0)
<1> DEFINE a == proc[p]
           r == a.run
           alone == used.starts = 0
<1>1. a \in ReactType /\ a # Nothing /\ Alive(p) /\ a.pc = "observe" /\ limit.memory \in BOOLEAN
  BY AgentKinds, EvaluationAssumption DEF AgentInv, Observe, Leave, Alive
<1>2. Speaks(a, alone) /\ alone \in BOOLEAN
  BY <1>1, AgentKinds DEF TalkInv
<1>3. CASE Observe(p)
  <2>1. hook[r] = "open" /\ phase[r] = "active" /\ proc' = [proc EXCEPT ![p] = Observed(a, t[r], limit.memory)]
    BY <1>3 DEF Observe
  <2>2. r \in AllJobs /\ t[r] \in Int /\ t[r] \in Nat /\ a.step \in Int
    BY <1>1 DEF AgentInv, ReactType
  <2>3. ASSUME alone PROVE a.step < t[r]
    <3>1. crowded = {}
      BY <2>3 DEF TurnInv
    <3>2. a.step <= t[r] /\ InTurn(a, phase[r], t[r], hook[r])
      BY <1>1, <3>1 DEF TurnInv
    <3>3. a.step # t[r]
      BY <1>1, <2>1, <3>2 DEF InTurn
    <3>4. QED
      BY <2>2, <3>2, <3>3
  <2> DEFINE step == t[r]
             memory == limit.memory
             b == Observed(a, step, memory)
  <2>4. step \in Int /\ memory \in BOOLEAN
    BY <1>1, <2>2
  <2>5. alone => a.step < step
    BY <2>3
  <2>6. proc' = [proc EXCEPT ![p] = b]
    BY <2>1
  <2> HIDE DEF a, step, memory, alone
  <2>7. Goes(b, alone)
    BY <1>1, <1>2, <2>4, <2>5, ObservedTalk
  <2> HIDE DEF b
  <2>8. Talks(b, b)
    BY DEF Talks
  <2>9. Speaks(b, alone)
    BY <1>2, <2>7, <2>8, TalksOn
  <2>10. QED
    BY <2>6, <2>9 DEF alone
<1>4. CASE Leave(p)
  <2>1. proc' = [proc EXCEPT ![p] = Gone(a)]
    BY <1>4 DEF Leave
  <2>2. Talks(a, Gone(a))
    BY <1>1, SilentTalk
  <2>3. ~Playing(Gone(a))
    BY <1>1 DEF Playing, Gone, ReactType
  <2> HIDE DEF a
  <2>4. Speaks(Gone(a), alone)
    BY <1>2, <2>2, <2>3, TalksOn
  <2>5. QED
    BY <2>1, <2>4
<1>5. QED
  BY <1>3, <1>4

\* Every step keeps the conversations.
LEMMA TalkStep == ASSUME AgentInv, TurnInv, TalkInv, Next PROVE TalkInv'
<1>1. proc \in [Procs -> AgentType] /\ (used'.starts = 0 => used.starts = 0)
  <2>1. used \in [Bounds -> Nat] /\ "starts" \in Bounds
    BY DEF TurnInv, Bounds
  <2>2. used.starts \in Nat /\ used'.starts \in Nat /\ used'.starts >= used.starts
    BY <2>1, UsedGrows
  <2>3. used'.starts = 0 => used.starts = 0
    BY <2>2
  <2>4. QED
    BY <2>3 DEF AgentInv
<1>2. ASSUME NEW p \in Procs, NEW b, proc' = [proc EXCEPT ![p] = b], b.kind # "react" \/ Speaks(b, used.starts = 0)
      PROVE  TalkInv'
  <2>1. \A q \in Procs : proc'[q] = proc[q] \/ proc'[q].kind # "react" \/ Speaks(proc'[q], used.starts = 0)
    BY <1>1, <1>2
  <2>2. QED
    BY <1>1, <2>1, TalkGoesOn
<1>3. CASE proc' = proc
  BY <1>1, <1>3, TalkGoesOn
<1>4. ASSUME NEW p \in Procs, proc[p] # Nothing, proc' = [proc EXCEPT ![p] = Gone(proc[p])] PROVE TalkInv'
  <2> DEFINE a == proc[p]
             b == Gone(a)
  <2>1. CASE a \in ReactType
    <3>1. Speaks(a, used.starts = 0)
      BY <1>4, <2>1, AgentKinds DEF TalkInv
    <3>2. Talks(a, b)
      BY <2>1, SilentTalk
    <3>3. ~Playing(b)
      BY <2>1 DEF Playing, Gone, ReactType
    <3>4. proc' = [proc EXCEPT ![p] = b]
      BY <1>4
    <3> HIDE DEF a, b
    <3>5. Speaks(b, used.starts = 0)
      <4> DEFINE alone == used.starts = 0
      <4>1. alone \in BOOLEAN /\ Speaks(a, alone)
        BY <3>1
      <4> HIDE DEF alone
      <4>2. Speaks(b, alone)
        BY <3>2, <3>3, <4>1, TalksOn
      <4>3. QED
        BY <4>2 DEF alone
    <3>6. QED
      BY <1>2, <3>4, <3>5
  <2>2. CASE a \in RuleType
    <3>1. b.kind = "rule"
      BY <2>2 DEF Gone, RuleType
    <3>2. QED
      BY <1>2, <1>4, <3>1
  <2>3. QED
    BY <1>1, <1>4, <2>1, <2>2 DEF AgentType
<1>5. ASSUME NEW r \in Jobs, Spawn(r) \/ Kill(r), UNCHANGED <<t, shop, health>> PROVE TalkInv'
  <2>1. ASSUME NEW p \in Procs, proc' = [proc EXCEPT ![p] = Process(r)], limit.jobs[r] \in Kinds PROVE TalkInv'
    <3>1. CASE limit.jobs[r] = "react"
      <4> DEFINE b == React(r)
      <4>1. /\ b.history = <<>> /\ b.pending = FALSE /\ b.note = FALSE /\ b.pc = "observe" /\ b.back = {}
        BY DEF React
      <4>2. proc' = [proc EXCEPT ![p] = b]
        BY <2>1, <3>1 DEF Process
      <4> HIDE DEF b
      <4>3. Sound(b.history, b.step, b.back, used.starts = 0)
        <5>1. Len(b.history) = 0
          BY <4>1
        <5>2. 1 .. 0 = {}
          OBVIOUS
        <5>3. QED
          BY <5>1, <5>2 DEF Sound, Paired, Ordered
      <4>4. Speaks(b, used.starts = 0)
        BY <4>1, <4>3 DEF Speaks, Playing
      <4>5. QED
        BY <1>2, <4>2, <4>4
    <3>2. CASE limit.jobs[r] # "react"
      <4>1. Process(r).kind = "rule"
        BY <3>2 DEF Process, Rule
      <4>2. QED
        BY <1>2, <2>1, <4>1
    <3>3. QED
      BY <3>1, <3>2
  <2>2. limit' = limit
    BY LimitFixed
  <2>3. QED
    BY <1>3, <1>4, <1>5, <2>1, <2>2, SpawnKillTyped
<1>6. ASSUME NEW p \in Procs, Observe(p) \/ Leave(p) PROVE TalkInv'
  <2>1. CASE proc[p].kind = "react"
    BY <1>2, <1>6, <2>1, ObserverTalk
  <2>2. CASE proc[p].kind # "react"
    <3>1. proc[p] \in RuleType
      BY <1>1, <1>6, <2>2, AgentKinds DEF AgentType, Observe, Leave, Alive
    <3>2. CASE Leave(p)
      BY <1>4, <3>1, <3>2, AgentKinds DEF Leave
    <3>3. CASE Observe(p)
      <4>1. proc' = [proc EXCEPT ![p] = Starts(proc[p], t[proc[p].run])]
        BY <2>2, <3>3 DEF Observe
      <4>2. Starts(proc[p], t[proc[p].run]).kind = "rule"
        BY <3>1 DEF Starts, RuleType
      <4>3. QED
        BY <1>2, <4>1, <4>2
    <3>4. QED
      BY <1>6, <3>2, <3>3
  <2>3. QED
    BY <2>1, <2>2
<1>7. ASSUME NEW p \in Procs, ReactStep(p) PROVE TalkInv'
  BY <1>2, <1>7, ReactTalk
<1>8. ASSUME NEW p \in Procs, RuleStep(p) PROVE TalkInv'
  <2>1. PICK b \in RuleType : proc' = [proc EXCEPT ![p] = b]
    BY <1>8, RuleStepTyped
  <2>2. b.kind = "rule"
    BY AgentKinds
  <2>3. QED
    BY <1>2, <2>1, <2>2
<1>9. CASE UNCHANGED <<agents, health>>
  BY <1>3, <1>9 DEF agents
<1>10. CASE Crash
  BY <1>3, <1>10 DEF Crash
<1>11. QED
  BY <1>5, <1>6, <1>7, <1>8, <1>9, <1>10, AgentFrame

\* HistorySound: results follow their call and every call has one, a compaction is due
\* exactly while its message waits, and, unless the run was started again, no tick is
\* observed twice and no message of a turn that was taken back is left (ReActAgent).
THEOREM TheConversationIsSound == Spec => []HistorySound
<1>1. AgentInv /\ TurnInv /\ TalkInv /\ [Next]_vars => TalkInv'
  <2>1. ASSUME TalkInv, UNCHANGED vars PROVE TalkInv'
    <3>1. UNCHANGED <<proc, used>>
      BY <2>1 DEF vars, agents, bounds
    <3>2. QED
      BY <2>1, <3>1 DEF TalkInv
  <2>2. QED
    BY <2>1, TalkStep
<1>2. Init => TalkInv
  BY DEF Init, TalkInv
<1>3. AgentInv /\ TalkInv => HistorySound
  <2>1. ASSUME AgentInv, TalkInv, NEW p \in Procs, proc[p] # Nothing, proc[p].kind = "react", ~proc[p].odd
        PROVE  LET h == proc[p].history IN
               /\ proc[p].pending = proc[p].note
               /\ \A i \in DOMAIN h : /\ OfTool(h[i]) => i > 1 /\ h[i - 1].role = "calls"
                                      /\ h[i].role = "calls" => i < Len(h) /\ OfTool(h[i + 1])
               /\ used.starts = 0 => \A i \in DOMAIN h :
                    /\ h[i].step \notin proc[p].back
                    /\ \A j \in DOMAIN h : h[i] = h[j] /\ h[i].role = "observation" => i = j
    <3> DEFINE a == proc[p]
               h == a.history
    <3>1. Speaks(a, used.starts = 0) /\ ~a.odd
      BY <2>1 DEF TalkInv
    <3>2. a \in ReactType
      BY <2>1, AgentKinds DEF AgentInv
    <3>3. h \in Seq(MessageType)
      BY <3>2 DEF ReactType
    <3>4. DOMAIN h = 1 .. Len(h)
      BY <3>3, LenProperties
    <3>5. a.pending = a.note /\ Paired(h) /\ (used.starts = 0 => Ordered(h, a.step, a.back))
      BY <3>1 DEF Speaks, Sound
    <3> HIDE DEF a, h
    <3>6. \A i \in DOMAIN h : /\ OfTool(h[i]) => i > 1 /\ h[i - 1].role = "calls"
                              /\ h[i].role = "calls" => i < Len(h) /\ OfTool(h[i + 1])
      BY <3>4, <3>5 DEF Paired
    <3>7. used.starts = 0 => \A i \in DOMAIN h : /\ h[i].step \notin a.back
                                                /\ \A j \in DOMAIN h : h[i] = h[j] /\ h[i].role = "observation" => i = j
      BY <3>4, <3>5 DEF Ordered
    <3>8. QED
      BY <3>5, <3>6, <3>7 DEF a, h
  <2>2. QED
    BY <2>1 DEF HistorySound
<1>4. QED
  BY <1>1, <1>2, <1>3, TurnHolds, PTL DEF Spec
===============================================================================
