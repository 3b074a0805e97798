------------------------------ MODULE CostLedger ------------------------------
(***************************************************************************)
(* What models cost a run, and what every run cost (storage/agent_log.py): *)
(* cost.json adds up the turns of the agents step by step and the usage    *)
(* that auxiliary models report late, run_history.jsonl keeps one row per  *)
(* run with an index beside it.  Only operators; Evaluation has the        *)
(* actions.                                                                *)
(***************************************************************************)
EXTENDS Integers, SequencesExt, FiniteSetsExt

CONSTANT Prices    \* of a token: [input, cache, output], small numbers

ASSUME LedgerAssumption == Prices \in [{"input", "cache", "output"} -> Nat]

\* A function with one more value, or another one.
With(f, k, v) == [x \in DOMAIN f \cup {k} |-> IF x = k THEN v ELSE f[x]]

\* A finite set of numbers as a sequence, in increasing order.
Sorted(S) == CHOOSE s \in [1 .. Cardinality(S) -> S] : \A i, j \in DOMAIN s : i < j => s[i] < s[j]

\* A usage is what a client reports: [input, cache, output, reasoning, total],
\* legacy if its input counts the cached tokens too; NoTotal leaves total out.
NoTotal == -1
Usage(input, cache, output, reasoning, total, legacy) ==
  [input |-> input, cache |-> cache, output |-> output, reasoning |-> reasoning, total |-> total, legacy |-> legacy]

Normalized(u) ==
  LET input == IF u.legacy THEN Max({0, u.input - u.cache}) ELSE u.input IN
  [input |-> input, cache |-> u.cache, output |-> u.output, reasoning |-> u.reasoning,
   total |-> IF u.total = NoTotal THEN input + u.output + u.cache ELSE u.total]

\* An amount is one line of cost.json: tokens, their price, turns, and the
\* entries nobody knows the price of.
Zero == [input |-> 0, cache |-> 0, output |-> 0, reasoning |-> 0, total |-> 0, usd |-> 0, turns |-> 0, unpriced |-> 0]
Plus(a, b) == [k \in DOMAIN Zero |-> a[k] + b[k]]
Minus(a, b) == [k \in DOMAIN Zero |-> a[k] - b[k]]
Sum(amounts) == FoldSeq(Plus, Zero, amounts)

Price(n, output) == Prices.input * n.input + Prices.cache * n.cache + Prices.output * output
Tokens(n) == [k \in DOMAIN Zero |-> IF k \in DOMAIN n THEN n[k] ELSE 0]

\* The turns of a step cost their own usage.  Reasoning is not priced here.
TurnAmount(u) == LET n == Normalized(u) IN [Tokens(n) EXCEPT !.usd = Price(n, n.output), !.turns = 1]
StepAmount(turns) == Sum([i \in DOMAIN turns |-> TurnAmount(turns[i])])

-----------------------------------------------------------------------------
(* Late usage: an entry has the step it belongs to and its amount.         *)

\* Reasoning is part of the output or a bucket of its own; the total tells.
Base(n) == n.input + n.output + n.cache
Separate(n) == IF n.reasoning > 0 /\ n.total = Base(n) + n.reasoning THEN n.reasoning ELSE 0
Valid(u) == /\ u.legacy => u.cache <= u.input
            /\ Normalized(u).total \in {Base(Normalized(u)), Base(Normalized(u)) + Normalized(u).reasoning}
Empty(u) == \A k \in {"input", "cache", "output", "reasoning", "total"} : Normalized(u)[k] = 0

Unreported == -1
\* The price of the scenario if the model is the agent's own, else the price
\* that was reported, if any.
Entry(step, u, own, reported) ==
  LET n == Normalized(u)
      usd == IF own THEN Price(n, n.output + Separate(n)) ELSE reported
  IN [step |-> step,
      amount |-> IF usd = Unreported THEN [Tokens(n) EXCEPT !.unpriced = 1] ELSE [Tokens(n) EXCEPT !.usd = usd]]

-----------------------------------------------------------------------------
(* cost.json: [by, total, entries].                                        *)

NoCost == [by |-> <<>>, total |-> Zero, entries |-> <<>>]
At(c, step) == IF step \in DOMAIN c.by THEN c.by[step] ELSE Zero
Lines(entries, step) ==
  FoldFunctionOnSet(Plus, Zero, [id \in DOMAIN entries |-> entries[id].amount],
                    {id \in DOMAIN entries : entries[id].step = step})

\* Mutant of Recomputed: what was noted for the step before stays in the total.
RecomputedTwice(c, step, turns) ==
  LET new == Plus(StepAmount(turns), Lines(c.entries, step))
  IN [c EXCEPT !.by = With(@, step, new), !.total = Plus(@, new)]

\* A step is counted from its turns and the entries that came for it.
Recomputed(c, step, turns) ==
  LET new == Plus(StepAmount(turns), Lines(c.entries, step))
  IN [by |-> With(c.by, step, new), total |-> Plus(Minus(c.total, At(c, step)), new), entries |-> c.entries]

\* An entry counts once; sent again it is a duplicate, changed a conflict.
Answer(c, id, e) == CASE id \notin DOMAIN c.entries -> "recorded"
                      [] id \in DOMAIN c.entries /\ c.entries[id] = e -> "duplicate"
                      [] OTHER -> "conflict"
Recorded(c, id, e) ==
  IF id \in DOMAIN c.entries THEN c
  ELSE [by |-> With(c.by, e.step, Plus(At(c, e.step), e.amount)),
        total |-> Plus(c.total, e.amount),
        entries |-> With(c.entries, id, e)]

-----------------------------------------------------------------------------
(* The experiment history: a file of rows [run, status, turns, usd, batch, *)
(* model] and an index, the last row of every run.                         *)

NoLabel == "none"
Row(r, summary, model, batch) ==
  [run |-> r, status |-> summary.status, turns |-> summary.total.turns, usd |-> summary.total.usd,
   model |-> model, batch |-> batch]

\* The last row of every run.
Index(rows) == [r \in {rows[i].run : i \in DOMAIN rows} |->
                 LET at == Max({i \in DOMAIN rows : rows[i].run = r}) IN rows[at]]
Upserted(rows, row) ==
  LET others == Sorted({i \in DOMAIN rows : rows[i].run # row.run})
  IN Append([i \in DOMAIN others |-> rows[others[i]]], row)

\* The rows of a rebuild: no labels, and the runs without a summary that cost
\* something.
Unknown(r, c) == [run |-> r, status |-> "unknown", turns |-> c.total.turns, usd |-> c.total.usd,
                  model |-> NoLabel, batch |-> NoLabel]
Rebuilt(runs, summaries, costs) ==
  LET kept == Sorted({r \in runs : summaries[r] # <<>> \/ costs[r].total.turns > 0})
  IN [i \in DOMAIN kept |-> IF summaries[kept[i]] # <<>> THEN Row(kept[i], summaries[kept[i]], NoLabel, NoLabel)
                            ELSE Unknown(kept[i], costs[kept[i]])]
=============================================================================
