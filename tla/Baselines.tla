------------------------------- MODULE Baselines -------------------------------
(***************************************************************************)
(* The agents that come with the benchmark, as operators on the state of   *)
(* their process: what the ReAct agent                                     *)
(* (agent/baselines/react_160k_compact_30k.py) keeps of its conversation,  *)
(* and what the rule based one (agent/baselines/auto_seed.py) buys.        *)
(* Evaluation has the actions.                                             *)
(***************************************************************************)
EXTENDS Integers, SequencesExt, FiniteSetsExt

CONSTANTS
  Products,
  Trigger,     \* compact_trigger_tokens: a message counts as one token
  Keep,        \* compact_keep_tokens
  MaxHops,     \* max_hops_per_step
  MaxRetries,  \* delays of a retried model call
  SeedCount    \* seed_count

ASSUME BaselinesAssumption == /\ {Trigger, Keep, MaxHops, MaxRetries, SeedCount} \subseteq Nat
                              /\ IsFiniteSet(Products)

Never == -1

\* A message of the conversation: what it is, the tick it was said at.
Message(role, step) == [role |-> role, step |-> step]
Observation(step) == Message("observation", step)
Note(step) == Message("note", step)        \* a reminder, or a notice, of a compaction
Says(step) == Message("says", step)        \* the model, without tool calls
Calls(step) == Message("calls", step)      \* the model, with tool calls
Result(step) == Message("result", step)    \* of a tool, or what replaces it
Redacted(step) == Message("redacted", step)
OfTool(message) == message.role \in {"result", "redacted"}

\* ReActAgent: pending is compaction_pending, note its message that the next
\* act carries, prompt last_prompt_tokens, before history_len_before; failed
\* and spent what of its runtime health nobody has acknowledged; said and ends
\* the answer of the model that is to be sent.  cut, back and odd are not in the
\* code: a compaction in this turn, the ticks of turns that were taken back, and
\* that one was taken back after a compaction, from the wrong place.
React(r) ==
  [kind |-> "react", run |-> r, pc |-> "observe", step |-> Never, history |-> <<>>, before |-> 0,
   pending |-> FALSE, note |-> FALSE, prompt |-> 0, hops |-> 0, retries |-> 0, forbidden |-> FALSE,
   failed |-> 0, spent |-> 0, said |-> "nothing", ends |-> FALSE, last |-> FALSE, cut |-> FALSE, back |-> {},
   odd |-> FALSE]

\* Mutant of Trimmed: a result may be left without its call.
TrimmedAnywhere(messages) == SubSeq(messages, Max({1, Len(messages) - Keep + 1}), Len(messages))

\* The newest messages, but no result whose call was dropped.
Trimmed(messages) ==
  LET kept == SubSeq(messages, Max({1, Len(messages) - Keep + 1}), Len(messages))
      heads == {i \in DOMAIN kept : ~OfTool(kept[i])}
  IN IF heads = {} THEN <<>> ELSE SubSeq(kept, Min(heads), Len(kept))

\* Long conversations are to be compacted after the next turn: the model is
\* told before, or, if it has no memory to write to, at once.
Reminded(a, memory) ==
  LET size == IF a.prompt > 0 THEN a.prompt ELSE Len(a.history) IN
  IF a.pending \/ Trigger = 0 \/ size < Trigger THEN a
  ELSE [a EXCEPT !.history = Append(IF memory THEN @ ELSE Trimmed(@), Note(a.step)),
                 !.note = TRUE, !.pending = TRUE, !.cut = @ \/ ~memory]

\* An observation begins a turn, and every hop of it a call of the model.
Hop(a, memory) == [Reminded(a, memory) EXCEPT !.pc = "think", !.retries = 0, !.forbidden = FALSE]
Observed(a, step, memory) ==
  Hop([a EXCEPT !.step = step, !.before = Len(a.history), !.history = Append(@, Observation(step)),
                !.hops = 0, !.cut = FALSE], memory)

\* The results of the latest call are taken out for a provider that refused them.
RedactLast(a) ==
  LET last == IF \E i \in DOMAIN a.history : OfTool(a.history[i])
              THEN Max({i \in DOMAIN a.history : OfTool(a.history[i])}) ELSE 0
      first == Min({i \in 1 .. last : \A j \in i .. last : OfTool(a.history[j])})
  IN IF last = 0 THEN a
     ELSE [a EXCEPT !.history = [i \in DOMAIN @ |-> IF i \in first .. last THEN Redacted(@[i].step) ELSE @[i]]]

\* Gives up on a turn: the step is ended by force, last is set if that happens
\* where nothing more is caught.
Forced(a, said) == [a EXCEPT !.pc = "force", !.said = said, !.ends = TRUE, !.last = FALSE]

\* A call of the model failed: it is retried, once without the results a
\* provider forbids, or given up.
Failed(a, kind) ==
  LET noted == [a EXCEPT !.failed = @ + 1] IN
  CASE kind = "forbidden" /\ ~a.forbidden -> [RedactLast(noted) EXCEPT !.forbidden = TRUE]
    [] kind = "transient" /\ a.retries < MaxRetries -> [noted EXCEPT !.retries = @ + 1]
    [] kind = "transient" /\ a.retries >= MaxRetries -> Forced([noted EXCEPT !.spent = @ + 1], "nothing")
    [] OTHER -> Forced([noted EXCEPT !.spent = @ + IF a.retries > 0 \/ a.forbidden THEN 1 ELSE 0], "nothing")

\* The model answered; usage tells whether with the size of its prompt.
Replied(a, said, ends, usage) ==
  [a EXCEPT !.pc = "act", !.said = said, !.ends = ends, !.prompt = IF usage THEN Len(a.history) ELSE 0]

\* An act was answered: what it reported is acknowledged, the turn remembered
\* and the conversation compacted if that was due.
Acknowledged(a) == [a EXCEPT !.failed = 0, !.spent = 0]
Remembered(a) ==
  [a EXCEPT !.history = @ \o CASE a.said = "calls" -> <<Calls(a.step), Result(a.step)>>
                              [] a.said = "says" -> <<Says(a.step)>>
                              [] OTHER -> <<>>]
Compacted(a) ==
  IF ~a.pending THEN a
  ELSE [a EXCEPT !.history = Trimmed(@), !.prompt = 0, !.pending = FALSE, !.note = FALSE, !.cut = TRUE]
Answered(a, memory) ==
  LET b == Compacted(Remembered(Acknowledged(a))) IN
  CASE a.ends -> [b EXCEPT !.pc = "observe"]
    [] ~a.ends /\ a.hops + 1 < MaxHops -> Hop([b EXCEPT !.hops = @ + 1], memory)
    [] OTHER -> Forced(b, "says")

\* The act was for a tick that is over: the messages of the turn are taken back.
TakenBack(a) == [a EXCEPT !.history = SubSeq(@, 1, Min({a.before, Len(@)})), !.pc = "observe",
                            !.back = @ \cup {a.step}, !.odd = @ \/ a.cut]

\* Mutant of Refused: what the forced end reported counts as told.
RefusedTold(a) ==
  [a EXCEPT !.pc = "observe", !.pending = FALSE, !.note = FALSE, !.prompt = IF a.pending THEN 0 ELSE @,
            !.failed = 0, !.spent = 0]

\* The forced end was refused: the reminder may be given again.
Refused(a) == [a EXCEPT !.pc = "observe", !.pending = FALSE, !.note = FALSE, !.prompt = IF a.pending THEN 0 ELSE @]

\* No answer: the crash of a turn forces its end, that of a forced end in a turn
\* too, and any other the process does not survive.
Crashed(a) == [Forced(a, "says") EXCEPT !.last = TRUE]

-----------------------------------------------------------------------------
(* AutoSeedAgent: shelf is what it saw listed in this turn (current), seen  *)
(* what it saw first (step_product_ids), listed all it ever saw or listed,  *)
(* picks what it is about to take off or put on the shelf.                  *)

Rule(r, mode) ==
  [kind |-> "rule", run |-> r, pc |-> "observe", step |-> Never, mode |-> mode, shelf |-> {}, seen |-> {},
   listed |-> {}, picks |-> {}, poor |-> FALSE, day |-> Never]

Starts(a, step) ==
  [a EXCEPT !.step = step, !.pc = IF a.mode = "random" THEN "shelf" ELSE "balance",
            !.poor = FALSE, !.picks = {}, !.shelf = {}, !.seen = {}]

\* What is on the shelf; a merchant short of cash clears it.
Shelved(a, shelf) ==
  [a EXCEPT !.shelf = shelf, !.seen = shelf, !.listed = @ \cup shelf, !.picks = IF a.poor THEN shelf ELSE {},
            !.pc = IF shelf # {} /\ a.poor THEN "clear" ELSE "risks"]

\* Mutant of Target: a shelf with room is filled as if it were empty.
TargetAll(a) == IF Cardinality(a.shelf) < SeedCount THEN SeedCount ELSE 0

Target(a) == SeedCount - Cardinality(a.shelf)

\* The shelf is filled up, and the day is over once that is done.
Ends(a, day) == [a EXCEPT !.pc = "end", !.day = day, !.picks = {}]
Seeds(a, day) == IF Target(a) > 0 THEN [a EXCEPT !.pc = "search", !.picks = {}] ELSE Ends(a, day)

\* What became risky is taken off, other prices follow their costs, and once a
\* day, unless it picks at random, what does not sell is taken off.
Risked(a, risky) ==
  LET gone == a.shelf \cap risky IN
  [a EXCEPT !.picks = gone, !.pc = IF gone # {} THEN "drop" ELSE "price"]
Dropped(a) == [a EXCEPT !.shelf = @ \ a.picks, !.picks = {}, !.pc = "price"]
Reviews(a, day) == a.day # day /\ a.shelf # {} /\ a.mode # "random"
Priced(a, day) == IF Reviews(a, day) THEN [a EXCEPT !.pc = "review"] ELSE Seeds(a, day)
Reviewed(a, stale, day) == IF stale # {} THEN [a EXCEPT !.picks = stale, !.pc = "unsold"] ELSE Seeds(a, day)

\* What may be picked: nothing it saw on the shelf in this turn, and guided by
\* the report nothing it ever had there.
Candidates(a) == IF a.mode = "random" THEN Products \ a.seen ELSE Products \ (a.seen \cup a.listed)
Picked(a, picks, day) == IF picks = {} THEN Ends(a, day) ELSE [a EXCEPT !.picks = picks, !.pc = "list"]
Listed(a, day) == Ends([a EXCEPT !.listed = @ \cup a.picks], day)
=============================================================================
