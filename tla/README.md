# A verification project for ulrc3

ulrc3 compresses the context of a language-model request: it turns documents
into units with a ladder of renderings, chooses a level for each unit under a
token budget, renders the choice, audits it against the obligations of the
source, repairs what is missing and returns the text. A FastAPI service puts
the engine behind admission control and keeps what was dropped for later
expansion; an evaluation puts compressed and full contexts to a model, under a
daily quota.

This directory holds TLA+ modules for the parts of ulrc3 that decide what
survives, TLC models that check them on small instances, and TLAPS proofs for
every instance of the parts that carry the guarantees. Paths below are relative
to `src/ulrc3/` unless they begin with `bench/`, `docs/` or `README.md` (the
repository's own).

`PROJECT.json` lists components, runs, mutants (one seeded bug per checked
property, written as a "slip" operator next to the definition it changes), the
map from definitions to lines, findings, hazards and theorems.

## 1. Inventory

| Component | State it keeps | Operations | Hard behaviour | What makes it correct |
|---|---|---|---|---|
| Detection (`detect/doctype.py`) | none across calls | label lines, decode, cut into regions, type a document | neighbours decide each other's type; fences force one | fences are exact, a region is what its lines say |
| IR builder (`ir/builder.py`) | units, edges, heading stack | open a document, run the pipeline of each region | six pipelines with early returns, a stack that outlives blocks | nothing falls out, scopes are right |
| Document pipelines (`pipelines/prose.py`, `tabular.py`, `jsonp.py`, `logs.py`) | none across regions | text to units with parents, protection and rungs | which unit needs which | a row brings its header, a clause its references |
| Code front-ends (`codeir/pyast.py`, `codeir/generic.py`) | a ModuleIR | AST visitor; brace scanner | strings, comments and nesting; names met twice | every signature is on some rung |
| Code pipeline (`pipelines/code.py`) | units, `sym_units`, edges | decompose, ladder, link | one decision by cost, one by extent; duplicates by hash | retained code is bound, a body is kept once |
| Log templates (`logsir/templates.py`) | templates | mask, find a home, update | joins by similarity, slots that stop counting | what a template says holds of its lines |
| CIR (`types.py`) | units, ladders, edges, levels | min/max level, output tokens | protection decides which rung is a floor | a floor is a rung of its unit |
| Protection (`ir/protection.py`, `ir/builder.py`) | level per unit, `hops`, deque | `seed`, operand anchoring, `propagate` | cyclic edges, hop limit, a unit met on a weak path first | levels only rise, an emptied deque is a fixpoint, spread is bounded |
| Selection (`passes/p050_select.py`) | levels, shares, heap, singleton | floor, water-fill, greedy rounds, singleton, spillover | rounds that take back upgrades, sums over rounds | never below the floor, inside the budget |
| Engine (`engine.py`) | budget, rounds, levels, output | select → close → render → verify → adapt | two feedback loops, one inside the other | both loops end, promises survive both |
| Closure (`passes/p060_closure.py`) | levels | REQUIRES closure, canonical stubs, orphan headings | it drops after it has added | protected units stay, dependencies are kept |
| Render (`passes/p080_render.py`, `render/markers.py`) | output text, aliases | layout, FACT block, interning | interning changes text after levels were chosen | the answer is what the levels say |
| Verify and repair (`passes/p090_verify.py`, `ir/obligations.py`) | `repaired_keys`, `repair_tokens`, rerender flag | audit, repair by group, provenance | state that outlives a round, shared caps | repair only adds, stays in its cap, stops when exhausted |
| Memory (`convo/memory.py`) | records, `superseded_by` | two passes of `revise` | two passes write one field | supersession is acyclic, corrections stand |
| Conversation pipeline (`pipelines/conversation.py`) | a unit per turn | ladder, retraction of answers, withholding, filler cap, edges | a flag and an emptied ladder that must agree | the window survives, what is retracted is not shown |
| Dedup (`passes/p020_dedup.py`) | canonical unit, ladders | cluster, empty or delta a copy, REQUIRES edges | it runs after protection and repair tiers | a copy's obligations stay reachable |
| Levels (`passes/p010_levels.py`) | ladders, tiers | build rungs from text, assign repair tiers | tiers are read passes later | repair owes only what can be shown |
| Order (`passes/p070_order.py`) | render ranks | rank retained units | ranks older than repair | every printed unit has a rank |
| Attention, salience (`passes/p030`, `p040`), graph (`ir/graph.py`), confidence (`passes/p100`) | floating-point scores | scoring | numeric only | selection must be right for any score |
| Service (`server/app.py`, `schemas.py`) | semaphore, timers, worker threads | compress, stream, expand | late threads of expired requests, exceptions | slots add up, every request ends |
| Recovery store (`recovery.py`) | sessions → spans, character count, LRU order | put, get, expire, evict | calls of many threads between the reads of one expansion | the count is right, only old or displaced spans are lost |
| Model evaluation (`metrics/extrinsic.py`, `bench/extrinsic_eval.py`) | ledger file, ledger in memory, plan, trials | load, ask, replay, put, save, score, time | crashes, midnight, refusals, packs answered in part | replies stay in the budget, what is on disk is not asked for again, scores come from replies |
| Caches (`cache.py`, `tokenization.py`) | LRU maps, token counts | get, put, clear when full | unlocked reads | a cached count is the count |
| Parallel batch (`parallel.py`) | a process pool | map over requests | two paths, different arguments | both paths do the same |
| Text utilities (`text/`), intrinsic metrics, CLI, configuration | none | term statistics, hashing, arguments | none | – |

How they interact. A request enters `CompressionEngine.compress`. The builder
cuts each document into regions and hands every region to the pipeline of its
type; the pipeline emits units, and the units of code and logs come from a
front-end of their own; for conversations the pipeline consults memory. The
builder then seeds and propagates protection. The pre-passes (levels, dedup, attention,
salience) run once. Then the loop: selection sets every level; closure,
order, render and verify follow; verify may change levels or append FACT
units and ask for another rendering; confidence may raise the budget and start again at
selection. All of this is sequential, inside one thread, over one mutable
`ctx`. The service runs many such calls in threads; they share the recovery
store, the token cache and the settings, nothing else. The evaluation is a
program of its own that calls the engine, and keeps what the provider answered in a file.

So there are three kinds of difficulty. Inside a call, passes write the same fields
(levels, protection, ladders, obligations) at different times, and loops make a
later pass precede an earlier one. Between calls, threads, timers and the event
loop meet at the semaphore and the store. And between runs, what one process
wrote before it crashed is what the next one believes.

The hazards list of `PROJECT.json` names each place in the code where one of
these can go wrong, with the property that would show it.

## 2. Modules

Composition (an arrow means EXTENDS, a dotted one INSTANCE):

    Regions <- LogTemplates <- FrontEnd <- MCFrontEnd, FrontEndProofs*   (FrontEnd also EXTENDS Lattice)
    SourceModule <- CodePipeline <- MCCode
    Lattice <- Seeding <- Protection <- MCProtection, ProtectionProofs*
    Lattice <- CIR <- Select <- MCSelect, SelectProofs*
                      Select ..> Selection            (implements)
               CIR <- Compressor <- MCCompressor, CompressorProofs*
                      Compressor ..> Selection        (uses)
    Memory, Seeding <- Conversation <- MCConversation, ConversationProofs*
    ResidualStore <- Service <- MCService, ServiceProofs*
                     Service ..> LossyStore           (implements)
    Ledger <- Evaluation <- MCEvaluation, EvaluationProofs*

The proof modules with a star also EXTEND **Induction**: induction over finite sets, recursive functions
and sums, see section 4.

From text to units:

- **Regions** – `classify_lines`, `viterbi`, `segment` and `detect`. A line is a record of
  what the code sees of it; `ev` is its evidence for each label. `Segment` yields the
  regions with their bounds and whether a fence fixed them.
- **LogTemplates** – the template miner: `Home` chooses the template of a line (same words,
  then similar words in the same bucket, then the overflow), `Update` counts it and notes the
  values of its slots, `Inlined` gives the slots whose one value is written out.
- **FrontEnd** – `build` over the documents of a request. `OpenFrozen` and
  `OpenDocument` begin a document; `EnterProse`, `BuildBlock`, `LeaveProse` are the prose, legal
  and API pipelines block by block, with the heading stack; `BuildTable`, `BuildSql`, `BuildJson`,
  `BuildLogs` are one region each; `Skip` passes over a region without text, before the heading
  stack is touched; `Elsewhere` over code and conversation, which have modules of their own. `Value`
  is what JSON, and where that fails YAML, makes of the text of a payload; `PayloadUnits` turns it into line units
  (neither takes it), one root with its text (small children), or a root and its children.
- **SourceModule** – the two code front-ends as operators from atoms (a line of
  Python, a token of a brace language) to a ModuleIR: `ParsePython` with owners,
  qualified names, spans and body hashes; `ParseBraces` on `Scan`, the state
  machine over strings, comments and braces; `DependencyGraph`.
- **CodePipeline** – `CodePipeline.build`: `Parse`, then `EmitImport`, `EmitSymbol`,
  `EmitStatement`, `EmitComment` for what the ModuleIR holds, in the order of the code, then
  `Link` (dependency edges, import edges, duplicates cut to a reference). A rung is the set
  of atoms it shows, what it adds, and its cost; `Ladder` is `_levels`.

From units to the answer:

- **Lattice** – the five ordered protection levels (FROZEN to DROPPABLE), join and demotion by one.
- **Seeding** – `seed` for one unit: segment, kind, obligation classes and
  noise patterns to a level. Protection and Conversation share it.
- **Protection** – `seed` over a document, `_anchor_reasoning_chain`,
  `propagate`. `FillWorklist`, `Pop`, `Visit`, `EndScan`, `Drain` are the statements of
  the worklist loop; `hops`, `seen`, `work`, `guard` are its variables. The
  initial queue may be in any order, so nothing depends on unit numbers.
- **CIR** – units as records with a ladder of rungs. A rung has a cost, the keys it
  *claims* (`Level.obligations`), the keys an audit finds in its text (*shows*)
  and whether its text holds a foreign word.
- **Selection** – the optimiser's promise in one step: an admissible choice, and
  exactly the floor when the floor alone exhausts the budget.
- **Select** – the optimiser itself. `RunShare` enters `_greedy` for one
  document; `Fade`, `Reject`, `Requeue`, `Upgrade` are one turn of its heap loop (`fresh` are the entries
  whose gain is that of now, `counter` the pushes); `Stop`, `Keep`, `Replace` its end; `Spill` the global round.
- **Compressor** – one call of `compress` from selection on. `Select` takes
  any outcome of Selection, so what is proved of Compressor holds of every
  optimiser that keeps the contract, and Select is proved to keep it. `RepairGroup`
  is one iteration of `_repair` with its promotion/carrier choice;
  `Loop` is `_repair_loop`'s test; `RaiseBudget` the adaptive round; `Finish`
  the measuring, the inflation fallback and the provenance report.
- **Memory** – `revise`, one action per record in each of its passes.
- **Conversation** – the pipeline over Memory's result, one action per loop of
  `ConversationPipeline.build` (`Emit`, `RetractAnswers`, `Forbid`, `CapFiller`,
  `Link`), then `Seed`, `AssignTiers`, `Dedup` over the same turns.

Around the engine:

- **LossyStore** – an addressable memory that may forget but never shows an
  older text or another address's.
- **ResidualStore** – the store as one value per locked operation: `Put`, `Get`,
  `Expire`, `EvictLru`, with the character count adjusted by hand as the code does. The order of
  `_data` is a relation, so that what overflows is said once: a session is popped if the
  store still overflows without those before it.
- **Service** – requests over the store: `Arrive`, `Acquire`, `Answer`,
  `TimeOut` and the reader on the event loop (its handlers are atomic between
  awaits, so no handler runs while an expansion is between two handles);
  `Compress`, `StoreResiduals` in the worker threads, which interleave with everything;
  `Tick` for timers and ages.
- **Ledger** – the ledger as a value: `Load` on a day, `Remaining`, `Put`. `save` renames a
  temporary file over the old one, so the file is always one that was written whole.
- **Evaluation** – runs of `bench/extrinsic_eval.py` one after the other: `Start` loads the
  ledger and makes the plan (`Requests`: packs by condition or single cells by instance);
  `Replay`, `Miss`, `Exhausted`, `Send` are `ask` of the two judges; `Answered`, `Refused`,
  `Broken` the provider; `Store` the counting, saving, parsing and scoring of a reply, `SaveFails` the same
  when the file cannot be written: memory keeps the reply, the cells are missing; `latency` is the field of the judge
  that a timing is read from. `Report`, `Crash`, `Midnight` end a run or a day at any point. Three
  history variables say which replies came in (`paid`), which of them a file has held (`saved`), and which
  were evaluated by their own request (`used`).

### What the models abstract

Text is never modelled character by character. A rendering is its cost and what it shows; a turn its
cluster, its cost and its records; a span a model value with a length. Scores
(salience, gains, confidence) are free choices, so what holds, holds for every
score. In detail:

- Factors 0.35, 0.45 and 1.35 are integer divisions (`(35 * b) \div 100`), as `int()`
  truncates; record overlaps are counted in 1200ths and recency in
  thousandths, so that the thresholds 0.5 and 0.45 are exact on small term sets.
- The repair queue's limit of 128 keys and orphan removal's depth limit of 8 are not
  reached by the models' documents and are left out; so are `cfg.verify = False` and the
  ablation switches, which skip whole passes.
- `factBlock`: whether the renderer prints FACT units is a flag of the document.
- Near-duplicate clusters, the cost of a delta, the hedge ratio of a turn and
  the splitting of a turn into records are data of the conversation.
- In the service: `drop`, hit counts, statistics, `/v1/estimate` and `/health`
  touch no modelled state; requests refused before the semaphore change
  nothing; client disconnects and `keep_residuals = False` are left out. That a
  cancelled await leaves its thread running is the thread pool's behaviour,
  taken from how `server/app.py` uses it. Ages stop at `Ttl + 1`, timers at `Timeout`: beyond
  them nothing changes.
- In the front-end a line's evidence, mask, slots and marks (heading, list, row, clause, ...) are
  data; the values of `MCFrontEnd` are those `_line_scores` and the masks give for the lines
  quoted beside them, in tenths. The bonus for consecutive JSON lines is left out. A line ends
  at most one sentence. What JSON and YAML make of a text are constants (`Json`, `Yaml`), of which the proofs
  assume nothing but the shape of a value: its kind and the kinds, sizes and counts of its children. `MCFrontEnd` gives
  them for its pieces, YAML with PyYAML installed. The prices of the rungs of JSON and logs are left out: what each rung *shows* is kept.
- In code, an atom has a kind, a name, the dotted names it reads and a cost. The hash of a body
  is the body with what the code normalises taken out. Which words are boilerplate, private or short is
  given by name.
- In the evaluation one process runs at a time, the provider answers anything out of a
  set of replies, and the statistics over the trials (means, bootstrap, sign test) are left out.

## 3. Runs

The eight passing runs take every action and every disjunct of their
next-state relations. Deadlock is not checked where the modelled computation ends
(all but Service, whose clock always ticks).

### `frontend` (FrontEnd, MCFrontEnd)

Asks whether a document keeps its structure on the way to units. `FencesAreExact`: what
stands between two fence lines is one region of the type they say, and the regions cover
the document in order. `LabelsExplainLines`: no stretch between fences is explained better by
a single type than by the types chosen, switches paid. `NothingLost`: whatever is not
blank is on some rung of some unit, unless it is a table separator, a log line past those a template shows, in code or
conversation, or in a payload that JSON or YAML takes and whose children are all shown but those over the limit. A payload
that is one scalar has no children: of it nothing is promised, and the code loses all its lines (section 6).
`HeadingScope`: a heading is the parent of what stands under it, through blocks and
neighbouring regions of prose. `RowsBringHeader`: a row requires the header of its own table.
`InlinedConstantsHold`: a value a template writes out is the value of every line of the group that has that
slot. Lines that joined by similarity without the slot, and stack frames, are not meant: for the former it is not
true (section 6).

Bounds: every document of up to three of 24 pieces (sections, lists, definitions,
fenced Python, JSON and YAML, fences with nothing or a blank line in them, a JSON value over several lines, tables, CSV, logs with stack frames, DDL, queries, clauses that
cite each other, API references, payloads large and small, talk), every such document of up to two
pieces under seven forced types, and a frozen role before a document. Three pieces
put every piece between every two others, which is what segmentation, the heading stack and
tables depend on. Similarity, penalties and size limits are the code's; a template shows three spans
verbatim (12 in the code), a slot keeps two values and a log three templates (4000), so that these
limits are met.

### `code` (CodePipeline, MCCode)

Asks whether what is kept of a module is usable. `RetainedCodeIsBound`: with a definition, closure keeps
the imports it reads and, on every rung, the signatures of what it calls by
name. `CollapsedBodySurvives`: a body given up as a duplicate is referred to a symbol that
has a unit, is no reference itself and keeps its full rung. `MethodsOnlyOnce`: methods become units only
if the unit of their class stops before them.

Bounds: every module of up to three of 13 Python pieces (imports, functions that call each other and
share bodies, decorated, private, small and large classes, nested classes, fields,
constants, scripts) and of eight pieces of a brace language (strings with braces and
escapes, comments before and inside, a struct and its methods in a block of their own, large types,
loose braces), and texts that do not parse. Three pieces give a caller, what it calls, and a
third that redefines or duplicates one of them. The split limit is 60 tokens (220 in the code) so that a class of two methods lies on either side of it.

### `protection` (Protection, MCProtection)

Asks whether the worklist keeps the promise of the lattice.
`NeverLowered`: no step lowers a level, whatever a pipeline raised before.
`ClosedWhenDrained`: an emptied deque is a fixpoint of the transfer function; hop
limits, the order of the deque and the two conditions for queueing a unit lose nothing.
`DirectDependenciesKept`: the same for direct dependencies of locked units under every
horizon. `Explained`: no level is higher than the closed form of the
docstring allows. `WorkBound`: no unit is queued more than three times, so the
worklist ends and the defensive break is far off.

Bounds: four units, seven dependency shapes (chain, cycle, diamond, two-cycle with a tail,
routes of different length, complete graph, none), every colouring of them with four kinds of
unit under the default horizon; a second family for horizon 1, a third for
horizons 0, 2, 4, with enforcement off and the rare features. Levels
decay within four steps, so four units in a row, or two routes of
different length to one unit, show every interaction of decay and horizon.

### `select` (Select, MCSelect)

Asks whether a pass that takes back upgrades in the middle stays on its floor and
inside its budget. `FloorHeld`; `WithinBudget`: until a singleton replaces a
round, shares, rounds and the global round together cost no more than the
accounts say and the accounts never pass the budget; `ImplementsSelection`: the
pass implements Selection, which Compressor uses; `PushesBounded`: the lazy heap puts each entry back once
at most between two upgrades, however the gains change, so a call pushes no more entries than its pool has units, times
one round plus one per token spent; every turn of the loop pops one, so the loop ends.

Bounds: six CIRs of two to four units over one to three documents, budgets 16,
24, 33. 16 is the engine's least budget; ladder costs lie around these budgets, and one ladder has a
delta rung dearer than all that is left of it, so
that shares run out, a rung does not fit, the singleton rule bites (65 tokens) and the
floor alone exhausts the budget. Every order of the heap is explored.

### `compressor` (Compressor, MCCompressor)

Asks what survives the two feedback loops. `ProtectionHeld`: from the first closure on
a protected unit is at its floor through repairs, orphan removal and
budgets. `RepairBounded`: all repairs of a call together stay under the hard cap.
`RepairsStick`: in the first adaptive round a repaired key stays claimed unless its unit
outgrows the rung. `OutputIsCurrent`: the measured text is that of the last
repair. `RepairExhausted`: repair stops only when nothing it owes is
affordable. `RepairOnlyAdds`; `Terminates`: neither loop feeds the other for ever.

Bounds: 17 documents of one to three units, each a situation that closure, repair or
adaptation must cope with (a stub without its obligation, two obligations in one unit,
a function's ladder, a section whose heading is an orphan, interned
names, a foreign word, a duplicate that owns the key of its canonical unit), crossed
with the policies that change the loops (no repair rounds, no FACT block,
adaptation, retracted keys). Three keys are enough for both tiers of
repair and two groups of one unit; `RaiseBudget` goes its full three rounds.

### `conversation` (Conversation, MCConversation)

Asks whether belief revision, the withholding of retracted turns and the
passes after it agree. `RetractionIsForward`: records and turns are retracted by
later ones only, so supersession is acyclic. `CorrectionsStand`: no correction is
retracted. `WindowKept`: the recency window is whole and locked when the pipeline
is done. `RetractedNeverWhole`: no later pass gives a withheld turn a rung that shows
its text. `RepairIsPossible`: what repair still owes has a turn that can
show it, what it was told to give up has none. `CopiesStayCovered`: a copy
that deduplication empties leaves its obligations with a turn that can show
them.

Bounds: every conversation of five turns over ten kinds of turn (two
claims, corrections by either side, a rule of the assistant, two wordings of a
double statement, a hedged answer, a question, a thank-you) that opens on a claim. The
recency window is 2 (4 in the code), so that three turns lie
outside it: enough for a claim, its retraction and an answer, the longest
chain that any of the passes relates.

### `service` (Service, MCService)

Asks whether slots, store and requests survive every interleaving. `SlotsAddUp`: a
slot comes back exactly once on each of the three ways a request ends.
`AccountsHold`: the hand-kept character count is the sum and every session that holds
spans can be evicted. `LostOnlyForSpace`: a live span is lost only to a
thread that cut its handle anew or whose spans do not fit.
`ImplementsLossyStore`: seen from outside, an address shows the last text
written to it or nothing, whatever threads, late threads and readers
do. `EveryRequestEnds`.

Bounds: three requests over two slots, so that one waits; two of one session, as a
retry or a next turn, one streamed without a session; two handles; a
store of three characters for five characters of spans, so that eviction happens and
sometimes takes a session that is being read; time limit and time to live of
one tick, so that timers fire, or not, before and after each step of a thread.

### `evaluation` (Evaluation, MCEvaluation)

Asks whether what is on disk can be trusted across crashes, days and arguments.
`BudgetOfReplies`: the file counts the replies of its day that ever reached it, and these with the replies
of the run under way stay within the budget. `KnownNeverResent`: a request whose reply has
reached the file is never sent again and no run that only analyses misses it; nor is it sent again within the run that
got the reply, saved or not. `ScoresComeFromReplies`: a score
comes from a reply that came in, in a pack from the lines under the last occurrence of its own number.
`EachRequestTimedOnce`: the timings of a condition are exactly the requests that this run sent, saved and read an
answer for it from, each once, and no cell carries the timing of a request it was not part of: a replay is not timed
by what the judge measured before it.

A reply that came in is on disk only after `put` has saved. One that a crash, or a failed save in a
run that ends before the next save, kept from the file is known to nobody: the first two properties leave it out
(`Lasting`), the next run may send the request again, and what a day costs may pass the budget by the replies so lost. The
code has nothing against it (section 6).

Bounds: two suites of two instances and one, whose compressed context equals the full one once, so
that two cells share a reply; one to three instances, packs of one or two, a budget of two
replies, two runs with any of these arguments, two days, a crash, a refusal, a failure or a failed save at
any request; replies to packs that answer every item, leave one out, misnumber one, run over several
lines, refuse or are empty. Two runs show everything one run may leave to another, and the
budget is met inside a run, between runs and on both sides of midnight.

### Runs that exhibit a divergence

Each checks one statement of the documentation, on the smallest instance that shows
that the code does something else: `adaptive_loss`, `closure_after_repair`,
`lost_signature`, `error_floor`. See section 6.

### Fairness

`compress` and the passes are sequential code that runs to its
end in one thread: weak fairness of Next in Compressor. The service:

- strong fairness of `Acquire ∨ Answer ∨ TimeOut` for each request. The
  event loop runs its ready callbacks first in, first out; an expansion in
  between disables a handler for the length of a finite loop only, and the
  semaphore's waiters are a queue. Weak fairness would let an endless run of expansions
  starve a request, which the loop's queue rules out.
- weak fairness of the reader's steps (a loop without awaits) and of time.
- weak fairness of each worker thread: the system schedules it, and
  compression ends, as `Terminates` of Compressor says and, for the rounds of selection, `PushesBounded` of Select. `/v1/compress` has a time
  limit for the case in which that fails; `/v1/compress/stream` has none, so for
  streamed requests `EveryRequestEnds` rests on this assumption.

The other modules state no liveness: their steps are loops over finite
sequences that shrink, and TLC finds their state graphs finite and without cycles other than
the worklist's, which `WorkBound` limits.

## 4. Proofs

TLAPS checks these for every document, policy, set of units, ladder and
budget that satisfies the named assumptions.

| Theorem | States |
|---|---|
| ProtectionProofs `TypeCorrect`, `Monotone`, `Closed`, `DirectDependencies` | `TypeOK`, `NeverLowered`, `ClosedWhenDrained`, `DirectDependenciesKept` |
| ProtectionProofs `WorkIsBounded`, `AlwaysDrains`, `LevelsHaveSources` | `WorkBound`; propagation ends with an empty worklist; `Explained` |
| SelectProofs `FloorIsKept`, `BudgetIsKept`, `HeapDoesNotChurn`, `ImplementsContract` | all safety properties of the run `select` |
| CompressorProofs `TypeCorrect`, `ProtectionSurvives`, `RepairIsBounded`, `RepairSticks`, `OutputCurrent`, `RepairExhausts`, `RepairGrows` | `TypeOK` and all safety properties of the run `compressor` |
| ConversationProofs `Acyclic`, `CorrectionsAreFinal`, `WindowIsKept`, `Withheld`, `RepairCanPay`, `CopiesAreCovered` | all properties of the run `conversation` |
| ServiceProofs `SlotsAreReturned`, `CountIsTrue`, `NothingElseIsLost`, `StoreIsLossyMemory` | all safety properties of the run `service` |
| EvaluationProofs `RepliesWithinBudget`, `AskedOnce`, `ScoresAreSourced`, `TimedOnce` | all properties of the run `evaluation` |
| FrontEndProofs `FencedRegionsAreExact`, `SwitchesPayOff`, `BuilderLosesNothing`, `ParentsAreHeadings`, `RowsRequireHeader`, `TemplatesInlineConstants` | all properties of the run `frontend` |

Type correctness is proved where a proof needs it and is then not a property of a run.

Assumptions. `UnitAssumption`: a finite, non-empty set of units (the engine
returns early without any). `DocumentsAssumption` of Protection: no unit requires
itself (`CIR.add_edge` refuses that). `DocumentsAssumption` of Compressor: a document has
units and a section precedes its members (uids are given in reading order). `ChatsAssumption`: records
are cut from the turns in order, a subject key names its type (`convo/memory.py` builds it so), and a turn
has finitely many obligations. `ServiceAssumption`: finitely many requests, sessions and handles, at least
one slot. `EvaluationAssumption`: the daily budget, the sizes and the packs are natural numbers, there is a
suite, a reply is a sequence of lines. `RegionsAssumption`: the evidence of a line is a number for each label it
speaks for, there is a label (`LABELS`), and neither `SWITCH_PENALTY` nor `STICKY` is negative. `LogAssumption`: a slot keeps at least
two values, so one that holds a single value has not stopped counting (the code keeps 8), and the slots of a line
are a sequence. `FrontEndAssumption`: a request is a sequence of documents, a document one of lines;
lengths, heading depths and limits are natural numbers, and the children of a payload are a sequence.

`InputsAssumption` of Select: the budget is at least 16 (`engine.py`, `_budget`), and no unit is dearer at its floor
than at its top (`FloorIsCheaper`), so that no document has a negative cap. The pipelines and `p010_levels.py:132` sort
the ladders by tokens; the delta rung that deduplication puts in front of a ladder costs less than 0.7 of
`Unit.tokens`, the cost of the top rung it was built with. One case escapes: a filler turn of a conversation has lost its top
rung (`pipelines/conversation.py:141`) while `Unit.tokens` still counts it. A delta rung may then be dearer than all
that is left, which is harmless while the turn stays DROPPABLE (the run has such a ladder); if propagation has anchored
the turn before, that rung is its floor and the cap may be negative. Selection of such a CIR is covered by neither the theorem
nor the run.

TLC evaluates each assumption in the run of its module.

**Induction.** The provers cannot instantiate the induction theorems of the library, which take an operator.
The module states induction with sets instead: a non-empty set of finite sets has a minimal member
(`MinimalSubset`, from the well-founded order of finite sets), so what holds of a set
whenever it holds of the set less one element holds of all (`SetInduction`, `NatInductionOnSet`). From there:
a function defined by recursion over `0 .. n` exists and takes its values in the right set
(`RecursionExists`), and the sums of the community modules, which are recursive functions over subsets, take
out any element, split, grow and change with their terms (`SumTakesOne`, `SumSplits`, `SumGrows`, `SumChangesAt`,
...). A finite set that is totally ordered has a first element (`FirstExists`).

**Protection.** `ClosedWhenDrained` is not inductive: in the middle of the loop
dependencies are behind. The invariant `IInv` says why they catch up: every protected
unit has been seen (`ProtectedSeen`); every seen unit is queued, is being
scanned, or is settled, that is, hands down nothing its dependencies lack
(`SettledOrQueued`); and `HopsPayForProtection`: `prot + hops <= FROZEN`, so a unit past a
horizon of three or more is DROPPABLE or ELASTIC and has nothing to hand
down. That last part is why the hop limit costs nothing. For `DirectDependencies`
under short horizons, `LockedHops` keeps the hops of a unit locked by its seed at
zero: nothing raises it, so nothing overwrites them.

`WorkIsBounded` counts what may still be queued (`Left`): a unit not seen yet three times, a seen one once
for each level up to LOCKED it lacks. It is queued again only when its level rises, and nothing is raised past
LOCKED, so pops, queue and rest never exceed three per unit (`Paid`). That the worklist ends also makes
`AlwaysDrains` a theorem: the defensive break is never what ends the loop, and `Closed` speaks of
every end. `LevelsHaveSources` keeps for every unit a chain it has its level from (`Trace`), whose length
neither the levels nor the recorded hops fall short of: a unit that the horizon lets hand on is nearer to its source than the
horizon.

**Select.** `IInv` holds the floor, that heap entries and the singleton can
still rise (`HeapRises`, `SingleRises`, `SingleLeftHeap`), and that the rounds run only
where the floor leaves room (`RoomLeft`). The last gives the contract's
second half, the others keep levels inside ladders when a singleton replaces a round.
The refinement maps every step to a stutter except the one that ends the pass.

`BudgetIsKept` rests on `Accounts`: what is chosen costs no more than the floor and what the rounds report
(`CostOK`), what they report and what shares and rounds under way may still spend fits what the floor left
(`BudgetOK`). A step of a round changes one term of the cost (`SumChangesAt`); the shares of documents
whose round has run are replaced by what it spent, which is less.

`HeapDoesNotChurn` adds to the pushes those still due, the entries whose gain may have dropped (`PushOK`): a re-queue
moves one from the second to the first, and only an upgrade, which spends at least a token, makes all
entries due again (`OneMoreRound`). Every turn of the loop pops an entry, so it ends for any gains.

**Compressor.** `IInv` is `ProtectionHeld`, `RepairBounded` and what makes them and the rest
inductive: `Stuck` (in the first adaptive round a repaired key sits in a FACT unit or
on a rung at or below its owner's level), `FreshStart` (nothing is repaired before the first rendering),
`Tracked` (when the output is current, phase by phase), `QueueOK` (what the queue
holds is what the audit finds as long as nothing was repaired) and
`RepairExhausted` itself at the decision. `ProtectionHeld` needs that
orphan removal spares locked headings and anchored units that are no headings
(`CloseFacts`); `RepairBounded` that a raised budget never lowers the cap
(`CapFacts`); `RepairExhausts` that a round with nothing repaired leaves every
state the audit reads as it was (`AuditDependsOn`).

**Conversation.** In the passes of `revise`, `LastOK` says that what is remembered under a subject is an
earlier statement of the same type; so what it replaces is earlier and no correction, and so is every
antecedent, which gives `Forward`. After revision the argument is what a turn may still show, stage by stage:
`Open` (nothing withheld yet, nothing superseded locked), then `Agreed`: a superseded turn has no rung,
any other with an obligation has its full one. `CapFiller` keeps `Agreed` because filler has no
obligations, `Seed` because it only raises levels, `TiersFollow` carries it to repair. `CopiesAreCovered`
shows first that a cluster has one canonical turn, which is its own (the ranking of a finite cluster is total:
`FirstExists`), so no copy is emptied in favour of one that is emptied itself; that turn has a rung
because every turn that is not superseded has one (`Offered`).

**Service.** `SlotsAddUp` needs `WaitsOnce`: the queue holds no request twice and only requests that
wait, so that no slot is taken for a request that runs already. The refinement needs no counting: eviction,
expiry, reading and ageing each leave parts of the buckets (`PartForgets`), a write shows its own spans
at its own addresses (`WritingShows`), and `Put` is the three of them in a row. It holds of any eviction order, any
character count, right or wrong.

The count is the other half. `Sound` says that it is the sum over all buckets, that the
eviction order is total on the sessions in use, and that a session that holds spans is among them; writing, expiry and
eviction each keep it. That the loop of `_evict_locked` stops under the limit needs all three: with a count too high, or a
session outside the order, it would empty the order and stay over it. `NothingElseIsLost` adds that what eviction takes before it
stops is older than the session just written, so live spans go only if they do not fit beside it.

**Evaluation.** A run sees a copy of the file and the date moves under it, so the invariant is about three
ledgers at once: the file, the process and the history of the replies that came in. `FileCounts` says that the file counts
the saved replies of *its* day; `Counts`, of the process, that it counts what lasts of *its own* (`PaidOn`), less
the reply in hand; the days may differ from each other and from today. `FileKnows` and `Knows` say that neither has forgotten
a reply; `Dated` orders the three days, so that
a process that loads a file of another day starts from zero rightly; `Affordable` that a request under way
still has a reply of the budget to take. A reply adds one to the count of its day only
(`ComesIn`, `OneMoreReply`) when it comes in, to the process when it is put, and to the file with every unsaved one of the run when
a save succeeds (`Stores`); what a run leaves unsaved drops out of the count when it ends (`LastingShrinks`).

For the results, `TrialInv` follows a reply from the provider to the score: every reply a ledger holds came in for its own
key (`RepliesHeld`), every trial names a paid reply to its prompt and, in a pack, the lines under its number
(`TrialsSourced`; `AnswersAreUnderNumber` is the induction over the lines that `parse_packed_reply` reads). Timings rise with
the replies (`TimesRise`), so the items of a pack stand next to each other and comparing with the last
latency alone, as the code does, removes every repetition (`LatenciesRise`). That they are those of the right requests
is `Timing`: a timed trial is a cell of a request of this run (`TimesFit`), and every request that was read from has timed all the
cells it answered (`UsedTimed`); a replay keeps it because it leaves `latency` at none.

**Front-end.** The invariant is `Built`, which `BuiltInvariant` proves of every reachable state.

- `Shape` and `Homed` are the control: the regions are those the document is cut into, blocks still to do are lines of the open
  region, every unit comes from a region that is done or open. They give the rest its induction over regions.
- `FrozenKept`, `RegionsKept`: a line of a region that is done is kept (`Kept`: shown, or one of the exceptions of
  `NothingLost`), a line of the open one is kept or waits in a block. For a payload the children of its value are held
  as atoms of its first line (`ChildrenHold`), whatever the parsers made of the text. When the document is done nothing waits, and the regions
  leave out no line: that is `NothingLost`.
- `RowsHoused`: a row that is no header requires the nearest header above it, in its own region, or is the only row of a region that
  takes no more units. A region that is a table emits one without a header when it has a single line; a table inside prose, whose
  region goes on, always begins with its header.
- `LogsRecorded`: a template on a unit is one that the miner can have built (`Templates`), for which the recursion over the
  lines keeps that a slot holds the value of every line or has at least two of them; this is where `SlotValues >= 2` is needed.
- `Stacked`, `Nested`: the heading stack is exactly the headings reached from the last region whose depth no later heading
  undercuts (`Unclosed`), in ascending order; so its top, after `Close`, is the nearest heading above
  (`Nearest`), which is what `HeadingScope` says of the parent.

`FencedRegionsAreExact` and `SwitchesPayOff` are about functions, so most of their proof is about `Segment`. `FenceParity`: the fence is open
after a line exactly when an odd number of delimiters is above it, so the delimiters the property numbers are those
the scanner toggles at. `BlockBetween`: a stretch with no cut inside and a cut, or the document's end, on either side is
a block; `RegionPlace`: a line of a region that is not exact is in a block that was decoded, with the label decoded there.
For `viterbi` the induction over the lines (`PoolStep`, `ViterbiFacts`) keeps two facts of the hypotheses: none costs less than
its labelling loses, switches paid at the full price (`Sound`), and the one that stays with a label costs no more than that label
alone (`Pool`). The code charges the stickiness of the *best* label for every switch, so its path need not be
optimal, and optimality is not claimed; the second fact survives because a hypothesis is only ever replaced by one no dearer.
`StretchIsBlock` and `SumShifted` carry the inequality from the decoded block to the stretch of the property. Recursive
functions are introduced by `RecursionExists` each time (`FencesExist`, `HypothesesExist`), sequences concatenated
by `FlattenFacts`.

Model-checked only: every liveness property (`Terminates`, `EveryRequestEnds`), for `tlapm` proves neither liveness nor
ENABLED, and the three invariants of the code pipeline (run `code`). These rest on what the two parsers return: that the spans of
methods lie inside the span of their class, that a body hash determines its class of duplicates, that `build_dependency_graph`
resolves a dotted name to a symbol with a unit. `ParsePython` finds owners and spans by greatest and least indices, `ParseBraces`
folds a scanner of five modes over the tokens; their nesting lemmas are of the size of all of FrontEndProofs and have not been
written. The four runs that exhibit a divergence have nothing to prove.

## 5. What is not modelled

- Regular expressions: the evidence of a line (`_line_scores`), the masks of log
  lines, declaration patterns, obligation extraction, term statistics. Their results are data
  of the models. So is what only fills in text: unparsing, rendered templates, column
  profiles, schema induction.
- Floating-point scores (attention, salience, graph, confidence): every
  comparison that a modelled decision takes from them is a free choice.
- Statistics of the evaluation (means, bootstrap, sign test), the intrinsic metrics and baselines, the
  command line: arithmetic and printing over the results.
- `code._fallback_lines`, `slice_from`, `used_import_names` and the merge of touching regions have
  no caller or no effect here.
- Order, the caches, the batch interface: planned, see section 7. `parallel.py:53` drops the
  keyword arguments that the sequential path passes on; token counts are read without the lock
  (`tokenization.py:178`).
- Several processes (`WEB_CONCURRENCY` above 1): each has its own store, so an
  expansion may reach a process that never saw the session. Service models one. Two
  evaluations at a time would overwrite each other's ledger; Evaluation models one at a time.

## 6. Where code and documentation differ

Each of these is a run that TLC answers with a counterexample, and an
entry under `findings`:

1. `adaptive_loss` – `repaired_keys` outlives the adaptive round while levels are reset:
   a critical obligation repaired once is not repaired again.
2. `closure_after_repair` – what repair retains is not closed under REQUIRES.
3. `lost_signature` – of two declarations of one name in a brace language (`struct Foo`, then
   `impl Foo`) the second is dropped after its text was claimed, so its signature is in no unit.
4. `error_floor` – an ERROR line with the words of an earlier INFO line joins its template, which
   stays elastic and may be dropped.

Observations without a run of their own. In the engine:

- The singleton rule may pass the budget (by up to 64 tokens, or twice a
  quota), where the documentation calls it a ceiling above the floor. `WithinBudget` therefore speaks of the
  rounds before a singleton.
- The second group of a unit may promote it past the rung that carries the critical group
  restored just before; `RepairsStick` names this exception.
- `engine.py:16-17` says the engine falls back to the source on a failed
  provenance check; line 173 and after only record the reason (`Finish`).
- Interning replaces long names in kept text after levels were chosen. It can hide a
  key from the audit, and no rung brings it back (`Hidden`,
  document `Interned`).

In conversations and deduplication:

- A correction may retract a question (`convo/memory.py:174` leaves out small talk and corrections only);
  a turn that only asks is then withheld.
- A turn of courtesies counts as superseded, so the assistant turn after it is withheld with
  the rules it states.
- A correction by the assistant right after a premise that the user retracts is
  withheld with its turn, where `convo/memory.py:14-15` gives corrections the last word.
- `passes/p020_dedup.py:94-102` may empty a locked copy in favour of a canonical unit
  that is only elastic: the obligations stay reachable (`CopiesStayCovered`), the lock is gone.
- A retracted turn can be given a delta rung by deduplication; its difference
  from the canonical turn, not its text, can then be shown (`RetractedNeverWhole`).
- The recency window is LOCKED, not FROZEN: its turns may lose pleasantries.

In the service:

- Handles are unit numbers of one call; the next call of the session puts other text under
  them. A worker thread of a request answered with 504 stores its spans later, over those
  of a retry.
- The stream endpoint has no time limit.
- `except TimeoutError` around `asyncio.wait_for` catches the timeout from Python 3.11
  on; before, `asyncio.TimeoutError` is another class and the answer is a 500. The slot
  comes back either way.

In the code pipeline:

- `ref` rungs drop the trailing dots of a signature (`pipelines/code.py:389`), so a
  reference is no parseable Python.
- A reference whose name is that of the referring symbol gives no edge, and `self.helper()` gives
  none either (`codeir/pyast.py:387`); `RetainedCodeIsBound` leaves both out. A method is
  reached through its class.
- Rungs are sorted by cost after they were named (`pipelines/code.py:330`): a signature with
  the names a body uses may stand above a short body.
- With a block comment right above a declaration, the leading comment begins at the first
  documentation comment of the file (`codeir/generic.py:309`).
- Statements of the module get no import edges (`pipelines/code.py:355`).

In the front-end:

- Similar log lines of different words share a template, which shows the words of the first
  (`logsir/templates.py`, `_update`).
- A template that stack frames joined may announce a negative rest: `x{count - 12} more`
  when spans, not lines, pass twelve (`pipelines/logs.py:69`).
- A short document (under 400 characters) that is mostly a fence without code structure becomes prose
  as a whole (`detect/doctype.py:423`).
- `viterbi` charges the stickiness of the best label only, so its labelling need not be the
  cheapest; `LabelsExplainLines` compares with single types.
- A region of another kind empties the heading stack (`ir/builder.py:80`): text after it has no
  heading, where `pipelines/prose.py:8` says every unit has an edge to its enclosing one.
- A payload that is one scalar leaves only the name of its type (`$ = str`) at every rung (`pipelines/jsonp.py:265`), where
  `pipelines/jsonp.py:16` says scalars "*are* the data". With PyYAML installed YAML takes plain text without colons
  for such a scalar (211-215, 362-370): prose of several lines in a region that is fenced or forced as `json` or `yaml` is lost
  whole. `NothingLost` excepts it by name.
- The dearest rung of a JSON child is cut at 4 000 characters, and the text between the children of a payload that is split
  is on no rung; `NothingLost` names both.
- A log line with a word where its template has a slot joins it by similarity and brings no value; the one value of the
  others is then written out for all: `disk full on node 7 x2` for nodes `7` and `seven`, where
  `logsir/templates.py:202-203` speaks of "every occurrence". `InlinedConstantsHold` speaks of the lines that have the slot.

In the evaluation:

- A reply is on disk only when `put` has saved it, after it came in. What a crash in between, or a failed save in a run that
  ends then, keeps from the file is asked, and paid, for again, where `metrics/extrinsic.py:51-53` says a crash "costs nothing extra
  because every completed call is on disk"; a day may cost more replies than its budget by those lost. `KnownNeverResent` and
  `BudgetOfReplies` speak of the others (`Lasting`).
- `sign_test` doubles the upper tail and caps it (`bench/extrinsic_eval.py`): ten losses of
  ten give p = 1.0, ten wins 0.002, where `docs/EXTRINSIC.md:71` calls the test two-sided.
- Requests that fail count against no budget, and a process that runs past midnight counts on
  under the day it began with; the budget is one of replies per ledger day.
- An empty reply to a single question is scored 0 and cached for good, an empty item of a
  pack is missing.

## 7. Plan

Done: the modules of section 2. Order of what follows, the most important
first:

1. **The code pipeline proved**: `CollapsedBodySurvives` first, whose canonical symbol needs only that `Before` is total and that
   `symUnits` is injective, then `MethodsOnlyOnce` and `RetainedCodeIsBound`, which need lemmas about the spans that the
   parsers return.
2. **Order** in Compressor or beside it: render ranks are given before repair appends
   FACT units and promotes dropped ones; the property is that what is printed is in reading
   order.
3. **Dedup with closure**: the REQUIRES edges that deduplication adds after
   propagation, seen by closure and repair (locked copies, chains of copies).
4. **From FrontEnd and CodePipeline into Compressor**: the ladders these modules build, as the documents that
   selection and repair work on.
5. **Token and chunk caches**: LRU maps under the threads of the service, with
   the reads that take no lock.
6. **Batch interface**: the pool path against the sequential one.

Abstract specifications worth stating besides Selection and LossyStore: a cache
as a partial function that never disagrees with what it caches; belief revision as
an acyclic relation "is retracted by" of which the passes compute a part.

## 8. Running

    tlc -workers 2 -config MCProtection.cfg MCProtection.tla
    tlapm ProtectionProofs.tla

Each run finishes within about two minutes. A slip, an operator placed before the
definition it changes, shows that a property notices a bug: put its name for the
definition's body and the run named in `mutants` fails.
