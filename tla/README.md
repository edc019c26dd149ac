# AgentReflex in TLA+

AgentReflex receives the traces of multi-agent runs, turns each trace into a
causal graph, asks an LLM which step caused the failure, stores the result in
Postgres and learns from feedback which recovery playbook works. The modules
here model the parts of it where order, failure and arithmetic matter; TLC
checks them on small instances and TLAPS proves the main results for every
instance.

Paths are relative to the repository root; `ar/` stands for `agent_reflex/`.

## 1. Inventory

| Component | State | Operations | Talks to |
|---|---|---|---|
| Trace ingestion API (`ar/dashboard/api.py` 131-191, 221-254) | `_db` and `_attribution_engine` of the process, the locals of the handler | `POST /v1/traces`, `POST /traces`, `lifespan` | collector (HTTP), auth, limiter, attribution, repository |
| API keys (`ar/api/auth.py`) | table `api_keys` | create, revoke, list (CLI), the `require(scope)` dependency | Postgres |
| Write rate limit (`ar/dashboard/api.py` 87-101) | `_rate_windows`, per process | `_rate_limit_write` | every write endpoint |
| Span parsing and causal graph (`ar/graph/span_ingest.py`, `ar/graph/models.py`) | the graph under construction | `parse_otlp_json`, `spans_to_graph`, `add_step`, `add_dependency`, `infer_data_dependencies` | ingestion, repository |
| Attribution (`ar/attribution/engine.py`, `ar/classification/mast_plus.py`, `ar/common/llm.py`) | locals of one run | `attribute`, `chat_json` | the LLM provider |
| Repository (`ar/storage/`) | `sessions`, `trace_steps`, `graph_edges`, `recovery_logs`, `reliability_scores` | `save_session`, `save_recovery_outcome`, `save_reliability_score`, `get_graph`, lists and aggregates | Postgres |
| Recovery learning (`ar/recovery/`, `ar/dashboard/api.py` 462-493) | `_q_values`, `_counts`, `_epsilon`, `_recovery_log`, per process | `POST /recovery/feedback`, `select`, `update` | scorer, repository |
| Reliability scorer and fleet status (`ar/reliability/scorer.py`, `ar/dashboard/api.py` 337-392) | `_sessions`, per process | record, weighted average, trends | repository |
| Uncertainty escalation (`ar/uncertainty/consistency.py`) | `_threshold` | `score`, `should_escalate`, `calibrate_threshold` | the LLM provider |
| Topology scorer (`ar/predictive/topology_scorer.py`) | none | `score_architecture` | - |
| Dashboard (`frontend/src`) | React state of each page | list, filter, page, detail, feedback | the API |
| Evaluation (`ar/eval/`) | locals of one program, report files | `run_eval`, `run_eval_iterated`, `run_comparison`, `run_ablation`, `run_cross_benchmark` | attribution |
| Instrumentation, Neo4j store, viewer, logging, configuration | none that is shared | wrappers, formatting | - |

How they interact. The collector posts batches of spans and retries 429 and
503; every other failure is final for it. FastAPI runs the dependencies (key
check in a thread, limiter on the loop), then the handler, a coroutine that
never awaits after the body: one handler at a time owns a worker process. The
handler parses, and for each graph attributes (several LLM requests), saves
the session (one transaction) and saves a score (another one). Several
processes, each with its own limiter, bandit, scorer and log, share Postgres
and nothing else.

What makes each component correct, and what is hard about it:

- *Ingestion*: what is answered 200 is stored; a session is stored whole, once,
  with its own attribution; a provider outage loses no trace; every batch comes
  to an end. Hard because deliveries repeat, workers race for one trace, two
  transactions per graph leave room for a crash, and one local variable lives
  through the loop.
- *Limiter*: no 60-second window exceeds the limit, and nobody is refused for
  writes that expired or were refused. Hard at the boundary.
- *Graph*: no parent link is lost, no inferred edge points backward, and the
  stored graph is the graph built. Hard because times and indexes repeat or
  contradict each other and because it is stored twice (parent ids and edges).
- *Attribution*: never a downstream symptom instead of its upstream cause; a
  bounded number of requests; an end. Hard because every answer is arbitrary.
- *Recovery*: values are the means of what was learned, failures leave a
  prefix of the effects, the choice follows the evidence. Hard because five
  effects in three places follow each other without a common transaction.
- *Keys*: a request is served only with a key that was live, of the endpoint's
  scope, when it was looked up; a revocation takes effect. Hard because lookup,
  limiter and handler are three steps with the command line in between.
- *Session list*: paging misses no session, the page shows what the controls
  ask for. Hard because a page is two statements at an offset, sessions arrive
  meanwhile, and answers come in any order.
- *Fleet status*: what is shown is the end of an agent's history, and moves
  with the evidence. Hard because times repeat, weights depend on the number of
  scores, and scores and sessions are written and read separately.
- *Escalation*: a calibrated threshold separates what can be separated and
  survives a calibration that fails, and no calibration makes matters worse on
  its own data. Hard because of the grid, the order in which thresholds are
  compared, and a loop of requests any of which may fail.
- *Evaluation*: a report is whole, and its numbers measure the oracle, not
  the walk or the labels. Hard because 22 hand-written labels, the engine and
  the baseline must agree.

`PROJECT.json` lists every hazard at its line, with the properties that would
catch it.

## 2. Modules

| Module | Models | Extended by |
|---|---|---|
| `SessionStore` | abstract: what the tables written at ingest promise | instantiated by `Ingest` |
| `Ingest` | exporter, worker processes, Postgres, faults | `MCIngest`, `IngestProofs` |
| `RateLimiter` | `_rate_limit_write` | `Admission` |
| `KeyPolicy` | abstract: what API keys promise | instantiated by `Admission` |
| `Admission` | key lookup, limiter and handler of a request, with the keys' life cycle | `MCAdmission`, `AdmissionProofs` (limiter included) |
| `Attribution` | `AttributionEngine.attribute` over an arbitrary LLM | `MCAttribution`, `Evaluation` |
| `GraphBuild` | spans to graph, to rows, to graph | `MCGraphBuild`, `GraphBuildProofs` |
| `Recovery` | `POST /recovery/feedback` and the bandit | `MCRecovery`, `RecoveryProofs` |
| `Sessions` | `GET /traces` and the sessions page | `MCSessions`, `SessionsProofs` |
| `FleetStatus` | scores of agents, from `SessionStore` and the scorer to `GET /agents/status` | `MCFleetStatus`, `FleetStatusProofs` |
| `Escalation` | sampling, escalation and calibration | `MCEscalation`, `EscalationProofs` |
| `Evaluation` | the evaluation programs, which drive `Attribution` trace by trace | `MCEvaluation`, `EvaluationProofs` (the engine included) |

A definition named `X_Something` with a comment that starts with "Mutant" is a
plausible bug in `X`. It is no part of the specification; `PROJECT.json` says
which property it breaks.

### SessionStore

Three promises: the first graph stored for a trace wins for good; a row appears
whole, with the attribution of that very graph or none; a score is only added,
one at a time, for a trace that has a session. `Ingest!StoreSpec` is this
specification with the tables of `Ingest` substituted for its variables (the
names agree, the mapping is the identity; everything else is hidden).

### Ingest

A worker is down, up with `_db` (`postgres`) or up without it (`memory`):
`lifespan` loses `_db` for the life of the process on any exception of
`init_db`. A request goes through `auth`, `limit` and `body`, then its handler
owns the worker: `step` is its program counter, `pos` the graph it is at,
`result` the local variable of that name.

| Action | Code |
|---|---|
| `Authenticate` | `auth.py` 52-116: accepted, 401 (standing for 403 too) or 503 without Postgres, even in memory mode |
| `RateLimit` | `api.py` 93-101: may refuse any request here; `RateLimiter` says how it counts |
| `StartHandler` | `api.py` 147-164: 400 (or 500 on `/traces`) for a body that does not parse, 200 for an empty one |
| `Attribute` | `api.py` 165-179: `result` is the attribution of this graph or None; `/traces` fails instead |
| `SkipSave`, `SelectSession`, `InsertSession` | `repository.py` 49-99; the race between the select and the insert ends in an IntegrityError, the reply of a commit may be lost |
| `RecordScore` | `api.py` 49-57, `repository.py` 114-121 |
| `Boot`, `Crash`, `PostgresFails`, `PostgresReturns` | processes and database |
| `Send`, `SendRefused`, `Disconnect`, `GiveUp` | the exporter, after `deploy/otel-collector-config.yml` 17-30 |

The exporter is outside the repository's code. Its `Verdict` is the rule of the
otlphttp exporter: 200 ends the delivery, 429 and 503 are retried, the rest
drops the batch. `acked` is a 200 from a worker with `_db`; `acked_unstored` a
200 in memory mode, which by README.md 412 promises nothing. The parser's
grouping into graphs is the constant `Payload`, so pieces of one trace in
several scopes or exports are several graphs of that trace.

Left out: graphs without nodes (the loop skips them, and the parser makes
none), the 503 of an API without engine (only before start-up ends), FastAPI's
validation of the body of `/traces` (it comes before the dependencies; the
exporter sees a permanent failure either way), rows that do not fit a column.

### RateLimiter

The list of time stamps is only filtered and counted, so it is a set of
numbered stamps. `log` is a history variable: everything admitted since the
process started. `Window` is half open as in the code (`now - t < 60.0`). The
processes do not share windows; the limit is per process, as the comment at
`api.py` 87-88 says.

### Attribution

The specification of the engine alone is `EngineSpec`, its names begin with
`Engine`, since `Evaluation` extends this module and runs the same engine.
One state per question: `classify`, then one oracle question per subtask, one
per candidate step, `synthesize`, `screen`. Every answer is a free choice;
`Malformed` is a failed attempt of `chat_json` (three, then an exception). Below
it, and below the plain chat of `synthesize`, the SDK's client repeats the
request of an attempt up to twice by itself (`max_retries=2`, `llm.py` 72):
`Sent` adds one, two or three requests to `calls` for every attempt. A
node is its position in insertion order; its `step_index` is free and may
repeat, so the two sorts are modelled with their ties (Python's sort is
stable, also with `reverse=True`). An unknown mode, a graph without nodes and a
confidence of the classifier that is not a number raise where the code raises.
Scores are percents; a `confidence_pct` of NaN, which Python's JSON parser
would accept and the clamp would let through, is outside the model.

### GraphBuild

The trace is a constant choice in `Init`: start times, parents (inside the
export, outside it, none), explicit indexes, and which result feeds which
observation. Span by span the time may be one `_start_time_ns` cannot read
(`Unreadable`), so readable times and `T0` mix in one trace. Then the passes of the code: `AddStep` per span in sorted order,
`Relink`, `InferDataDependencies`, `Save` (rows), `Load` (`get_graph`, with
any order among equal step indexes, as SQL leaves it open). `InOrder` is
Python's `sorted()`: every element stands after as many as come before it; the
two uses break ties by the position before sorting, since it is stable. An
edge has a type, and `Add` replaces the type of an edge that is there, as
`add_dependency` does: the second pass makes every parent link a data
dependency. Text is reduced to the relation `feeds`; a few representative relations stand for all. Spans have
distinct, non-empty ids, as the schema requires.

### Recovery

Handler as in `Ingest`, with the steps `learn` (bandit and scorer), `outcome`,
`snapshot`, `log`. `q` is in units of 1/`Scale`; with `Scale` a multiple of
2n for the numbers of trials n that occur the incremental mean is exact, so the
model says nothing about float rounding. `Pick` is the greedy branch of
`select()`. `ExactScale` is that assumption; `Gained` and `Trials` count what a
playbook got for a key. A client here repeats a report until it gets a 200, which the code
neither requires nor prevents. `learned` is a history variable.

### KeyPolicy and Admission

`KeyPolicy` checks a key in one atomic step (`Grant`): live, and of the scope
asked for; a grant lasts until the request ends. `Admission` is the code: the
request waits at `lookup` (the dependency in its thread), `limit` and `serve`,
with keys created and revoked, Postgres failing and the worker restarting in
between. Its limiter is `RateLimiter`: `Limit` conjoins `Admit` or `Exceeded`
for the id that the lookup left in `request.state`. The refinement maps the
table to `registry`, and `granted` to the key of every request that is past its
lookup; that grant outlives a revocation, which is what the code does and the
policy says. `cli_revoke` reads and writes in two statements; a revocation in
between only replaces a time, so it is one step. Names, hashes and times of
keys are left out, and two keys never have one hash.

### Sessions

The request carries how far the handler is: `sent`, `counted` (`query.count()`),
`paged` (the page, a statement of its own under READ COMMITTED). `Rankings`
are the orders the ORDER BY allows, which with the id as tie-break is one. The
page's state is React's; every control change, Apply, Previous, Next and Retry
is a `Load`, which does not cancel what is outstanding, and `Arrive` applies
any answer. `created_at` is the worker's clock before the commit, so a new row
may turn up anywhere in the list. `last` and `walk` are history. A filter is a
set of agents; the other three filters select rows in the same way. A
read key that the API refuses (the page then goes to the login) is left out.

### FleetStatus

The writers are the abstract `SessionStore` (which `Ingest` implements, so
whatever holds here holds of every interleaving of the ingestion), composed
with the rows of `reliability_scores`, and `Feedback`, which appends to the
scorer of the process and writes the scorer's average; `Restart` empties the
scorer. The reader is two statements, `ReadScores` and `CountAndAnswer`.
Scores are percents, the weights exp(0..2) integers in proportion, and ratios
are compared by cross-multiplication. `WeightsInterlace` is what the proofs use
of the weights: with one score more the exponents 2(i-1)/(n-1) become 2(i-1)/n,
so that each weight lies between two of the longer list, and exp is monotone.
`created` may lag behind the commit. The OTLP endpoint saves everything under
the agent `otlp_receiver`, `/traces` under the agent of the body, so a trace may
be posted under two agents; `Consistent` excludes that from the comparison of
scores with sessions.

### Escalation

Scores and thresholds are percents; a score may be NaN (a zero embedding). A
calibration scores its prompts one by one (`Score`), any request may raise
(`ScoreRaises`), then `Fit`. F1 is compared as a fraction of integers, where
the code compares floats that might tie differently. The two measures of
agreement are an arbitrary score.

### Evaluation

The scenarios are transcribed as error flag, subtask and label of each step.
The id of a benchmark step may end in any number, in something else or have no
underscore: `StepIndex` is the number behind the last underscore, which need not
be the position, 0 without one, and `Build` raises on what is not a number.
`Build` starts the engine on a trace, `Attribute` is a step of it. The
oracle is an *assumption*, `OracleIsTruthful`: of a set of steps with the fault
in it, it says the fault's kind; of what comes after, anything a victim may
show; of what comes before, that it is not at fault. Under it
`TrueCauseIsFound` is about the engine's walk and the labels, not about an LLM.
Requests may still be malformed (the engine retries) or fail (the program ends
without a report). Whether the classifier names the right mode is left out. The
ablation's two engines differ only in `redaction_enabled`, which the engine
never reads, so both suites are the same here.

## 3. Runs

| Run | Question | Result |
|---|---|---|
| `ingest_store` | do redelivery, races, crashes and outages break what a 200 promises? | no |
| `ingest_settles` | does every batch end, however often it is resent, and does an LLM outage alone lose a trace? | yes / no |
| `admission` | is the window exact, are buckets those of writers, and do three steps implement one atomic check of a live key? | yes |
| `attribution` | cause, symptom, score, request budget with the SDK's own retries, termination | hold |
| `graph_build` | are links kept, justified and stored faithfully? | yes |
| `recovery` | means, prefixes, rows behind a 200, greedy choice | hold |
| `sessions` | does paging miss a session, or show what was not asked for? | no |
| `fleet` | do windows, averages, trends and counts follow the history? | yes |
| `evaluation` | does the engine find every label it can, and is a report whole? | yes |
| `escalation` | is separable data separated, does no threshold give way to a worse one, is a failed calibration harmless? | yes |
| `ingest_whole`, `recovery_keys` | does the code do what a document says? | no, see section 6 |

The ranges of the variables are checked as `TypeOK` in `ingest_store` and
`recovery` and as `EngineTypeOK` in `attribution`. The other modules state theirs
as `TypeOK`, which is part of their inductive invariants or follows from them;
their runs ask something harder.

Bounds, and why they suffice:

- `ingest_store`: two workers (the races are between two), a batch of two
  graphs (a leak needs a next graph, a partial failure a first one), a second
  batch posted to `/traces` with another piece of the first trace (the race for
  a session, the loser's 500). The export is sent up to twice, the post once
  (`MaxSends` is a number per batch), with up to two crashes or outages. The
  workers are symmetric. The theorems of section 5 cover every size, so the
  run mainly guards the statements and finds mutants.
- `ingest_settles`: one worker, an export of two traces that is sent up to three
  times and a body that does not parse that is sent up to twice, with up to two
  crashes or outages: a batch is resent after a broken connection whose first
  copy was finished meanwhile, after a 429 or a 503, after a crash, and after
  two of them. No symmetry, since liveness is checked; a second worker, with
  one delivery less and one fault less, was tried for `EveryBatchSettles` alone
  (it holds) and takes too long with both properties. An export without spans,
  answered 200 at once, is in no run; the theorems cover it.
  `ProviderOutageStillPersists` is about `/v1/traces` only, where the code
  promises it.
- `admission`: two requests (one between the steps of the other), two keys
  besides the shared bucket, one worker that restarts (windows are per process
  and requests do not meet across processes), limit 2, window of 2 ticks, clock
  to 3 and three writes: one more than the limit, at every offset. The theorem
  of section 5 covers the other sizes of the limiter.
- `attribution`: every graph of up to three steps, indexes 0 and 1, two
  subtasks of which one is named "default" (the key None is grouped under),
  and steps without one. Three steps are enough for a candidate that is passed
  over, one that is chosen and one after it; confidences on both sides of the
  range. How many requests an attempt takes steers nothing, so `Sends` is {3}
  here, the most that `CallBudget` has to allow for, and {1} in `evaluation`,
  where nothing counts them; `RequestsAreBounded` covers every set of them.
- `graph_build`: every trace of up to three spans, two start times with `T0`
  between them (so a span with an unreadable time can sort before, between and
  after the others), an
  explicit index that collides with a default one; five relations of feeding.
- `recovery`: one worker that may restart, since workers share only the rows;
  three reports of two playbooks with rewards 0, 1/2, 1, two deliveries each,
  one fault. `Scale` 120 makes every mean of up to six trials exact, and every
  step from one mean to the next.
- `sessions`: pages of one row, three rows, three requests: a walk of three
  pages with a commit at every point, or two overlapping requests; two times,
  two agents, a filter on one of them, and a worker without database.
- `fleet`: two traces of one agent, one of them failed, three rows against a
  window of two, commits up to one row late, two reports for a scorer with a
  window of two. The two properties of averages and trends range over all
  histories of up to six scores 0, 50 and 100 and all windows up to six, from
  an empty table.
- `evaluation`: all scenarios at their real size; one benchmark trace of up to
  two steps with every combination of flag, subtask (missing or not) and label,
  under ids that number the steps forward, backward, alike, partly or not at
  all, or of three steps numbered forward (an error before the fault whose
  subtask goes on after it needs three) or backward, or none, or a second suite
  of two; two iterations.
- `escalation`: up to four prompts, five scores (below zero, on the grid's ends,
  between its points) and NaN; calibrations follow one another without end, so
  each starts from any threshold that another can leave.

Deadlock checking is off everywhere except in `escalation`: batches, clock
readings, reports and passes are finite, so every behaviour comes to a
legitimate stop.

## 4. Fairness

- `Ingest!Fairness`: weak fairness of the exporter's own steps, of the key
  check, of the queue in front of the loop and of the handler. The code
  justifies it: the LLM client has a timeout of 120 s for each of at most three
  requests per attempt (`llm.py` 68-73), the loop serves its queue in order, the exporter's retry
  timer fires and gives up after `max_elapsed_time`. Nothing is assumed about
  `Boot`, `PostgresReturns`, `Crash`, `PostgresFails`, `Disconnect`: processes
  need not restart and networks need not break.
- `Attribution!EngineFairSpec`: weak fairness of the next step; the same client
  timeout ends every request.
- `Admission!Fairness`: weak fairness of every request's next step: the lookup
  ends by the driver's timeout at the latest (a 503), the loop reaches every
  request, handlers end as in `Ingest`. `RevocationTakesEffect` needs it, since
  a request that was let in before a revocation may keep its grant until it is
  served. Clients may send again for ever (`Arrive`), keys need not be revoked.
- `Evaluation!Spec`: weak fairness of the next step, by the client's timeout.

The other modules are checked for safety only: a page may never be loaded, a
score never read.

## 5. Proofs

`tlapm` checks every step of the eight modules named `...Proofs`. They assume
only the named assumptions on the constants, which TLC evaluates in the runs
(each is in the module that declares the constants): types of the constants;
that sentinels (`None`, `NoRow`, `NaN`, ...) differ from real values; for
`Ingest` that a graph belongs to one place of one batch (the parser builds a
new graph each time); for `Sessions` `PageFits`, that the page asks for no more
rows than the API grants (20 and 200); for `Recovery` `ExactScale` (means
without rounding) and for `FleetStatus` `WeightsInterlace`. Both of the last say
that the model has exact numbers where the code has floats: the theorems are
about the formulas, not about rounding. Nothing bounds the numbers of
workers, keys, requests, traces, spans, steps, prompts, sessions, scores or
reports; the bounds of the models (`MaxRows`, `MaxSends`, ...) are arbitrary
numbers. Every invariant and every action property of the passing runs is a
theorem, and so are the two refinements. No theorem
has a hypothesis besides the specification.

For each component one inductive invariant, which TLC first checked on the
run's instance, carries all its theorems.

*Ingestion.* `AckedIsDurable` is not inductive: when a handler finishes with
200 it says something about graphs handled long before. `WorkerInv(w)` supplies
it: in postgres mode every graph of the running batch before `pos[w]` has a
session and a score, a worker about to write the score has its session, and
`result[w]` is None or the attribution of the graph `w` is at. `IInv` is
`TypeOK`, `WorkerInv` of every worker, and `AckedIsDurable`. The argument:

1. `StepOnTables`: under `IInv` every step inserts the first row of a trace
   (from `result`, hence with the right attribution), adds one score for a
   trace with a session, or leaves the tables alone. This is the step
   simulation, and `Implements` (`Spec => StoreSpec`) follows.
2. `Growth`: such steps never take a session or a score away, so the other
   workers' `WorkerInv` survives (`Bystander`) and so does what was
   acknowledged (`NoNewAck`).
3. `AdvanceInv`: an iteration that ends extends the durable prefix, and the
   200 is sent when the prefix is the whole batch.

`Inductive` puts them together; `Durability`, `NoLeakedAttribution` and
`NoOrphanScore` are consequences, the last two by induction over table steps.

*Limiter.* `SlidingLimit` speaks about every window in the past, the code only
looks at the last one. `LimiterInv` adds that what was admitted and has not
expired is still in the pruned window. Then a window that is still open holds
only recent writes (`OpenWindow`), of which there are fewer than the limit
when one more is admitted, and a closed window changes no more.

*Scores* (`IngestProofs`, second part). `OneScorePerDelivery` needs to know
where a delivery is: `Owed(b, i)` are the workers that hold a delivery of batch
b which has not passed graph i. `ScoreInv` says that the scores of the graph and
those deliveries together are no more than were sent, and that a batch does not
run at a worker where it also waits. A send adds one to both sides; `RecordScore`
takes its worker out of the set for one score; every other step only shrinks it.

*Admission.* `Admission` has the limiter's variables, so `LimiterInv` is proved
again of its steps (`LimiterStep`), which gives `SlidingLimit` and
`WindowIsExact` of the whole request path. `LookedUp` says that what the lookup
found out still holds later: keys are never deleted and keep their scope, and
only write endpoints pass the limiter. That gives `BucketsAreOfWriters`, and with
it each step is one of `KeyPolicy` or a stutter: the lookup is the `Grant`
(there the key is live), the end of the request gives it back, and a restart
gives back those of all the requests of the process (`ReleaseStep`).

*Recovery.* `EffectsArePrefixes` counts, so its invariant does as well:
`MemoryCounts` and `TableCounts` add to each effect the deliveries that are on
the way to it (`Unlearned`, `Unsaved`, `HalfSaved`), as in the argument for
scores; `Placed` says that a report is queued or handled by a worker, not both,
and by none that is down. `BothWritten` is the handler before its 200, from which
`AckedReportIsStored` follows. `MeanInRange` is the arithmetic behind `TypeOK`.

`Means` says that every value times its trials is what was gained, a sum over
the reports that a worker learned. Sums over sets come from the community
modules, where a CHOOSE picks the order; `SumExists` and `SumChanges` show that
there is such a sum for every finite set and that a summand that grows makes it
grow by as much, both by taking a smallest set that is an exception. Then
`MeanIsExact` is the step of the incremental mean: with `ExactScale` the
division in it has no remainder. `GreedyIsBest` is `PickIsBest` (the first
maximum of the values) with the means for the values (`BetterMean`). It speaks of
the reports filed under the name of the mode, which is what the code gives; that
these are the reports about sessions of the mode is what `recovery_keys` refutes.

*Attribution.* `Walking` is the loop over the candidates: those before the
current one are judged and not at fault, in the order of a stable sort by index,
a strict total order on the nodes whatever the indexes. When the walk ends at a
fault, `CauseIsUpstream` follows; when it ends without one, the first candidate
is blamed. `Decomposing` keeps subtasks and steps apart, `Spent` counts requests
per question asked (`Sent` adds at most `Requests` for an attempt, of which a
question has at most `Attempts`), from which `CallBudget` is arithmetic.

*Evaluation* (`EvaluationProofs`, after the engine). The engine's steps keep
`AttributionInv` under any oracle, so `EvaluationInv` needs only what the
programs add: `Placed`, the graph in the engine is that of the trace at hand;
`Truthful`, all that the oracle has said of it is true; `Concluded`, how the
engine came to the cause it names; `Counted`, one comparison per trace so far
and one report per suite; `Compared`, which of them the comparison program
marks. `CauseIsFault` is the argument about the walk: whatever stands before the
fault is judged innocent or environmental, the fault is a candidate when it is
`Findable`, and the walk comes to it before it comes to a victim. `TruthIsFound`
follows for every trace, of any length; for `DecoysDefeatTheBaseline` the 22
scenarios are looked at one by one, since it is a statement about those.

*Graph.* `InOrderSorts` is about `sorted()`: for every finite set and strict total
order the result is a permutation in that order (the numbers of predecessors are
a bijection onto 0..n-1). `Passes` then follows the passes: in the first, nodes
and what is left of the list are a partition of the spans, so every span is a
node before the second starts; in that, every link whose child has had its turn
is made. `Feeders` only looks back in the order by index, hence
`EdgesAreJustified`. `RoundTrip` compares the types too, which `get_graph` does
not read: it needs that every parent link is an edge, and that after the second
pass every edge is a data dependency, because a link made in the first is
retyped when its child's turn comes (`OnlyData`).

*Sessions.* `WalkMissesNothing` is not inductive because the rows move while the
user reads. What does not move back is a row's place: with the id as tie-break
the list is totally ordered, a row's rank is the number of rows before it
(`RankIsPosition`), and rows are only added. `WalkGoesOn` says that whatever a
walk has not shown yet is at a place behind its last page; `AsksForUnseen` that
the request which continues the walk asks from there, or from before it;
`Shows` that a page has what is at its places. `AloneIsLatest` keeps other
requests out: one that never overlapped another is the only one outstanding and
asks what the controls say, whence `QuietPageMatchesControls`. `InRange` adds the
ranges: Next asks for a page that begins within the last total, Previous for one
before the page shown (`PageAfter`, `PageBefore`), and totals are counts of rows.

*Escalation.* With separable data some threshold of the grid makes no error, so
its F1 beats that of every threshold that makes one (`BestSeparates`), and the
fitted one makes none. `RecalibrationLosesNothing` needs three things. A
threshold that dominates another in failures caught and false alarms has the
higher F1 (`DominantIsBetter`); "higher F1" is transitive and the grid finite, so
some threshold of it that catches a failure is beaten by none (`BestExists`), if
any catches one; and the threshold to be replaced is one of the grid, in every
state, through calibrations that were broken off (`TypeOK`), so it was compared
as well. When none of the grid catches a failure the old one stays, whatever
false alarms it raises; the property does not call that a loss.

*Fleet status.* Three arguments. The scores: `Total` is the last of a
function of partial sums (`TotalIsSum`), about which the lemmas speak by
induction along its positions (`Inductive`). `SumsCompare` compares sums term
by term; `SlideSums` and `GrowSums` compare the sum of a history with that of
the history after one more score, when the window is full and slides, and when
it grows and `WeightsInterlace` moves every weight up or down. `Cross` is the
comparison of two averages without division, `HealthFollows` that thresholds
respect it; `NewestScoreIsHeeded` and `TrendIsHonest` are then about every
history and every window. The walk: `Collected` is what the loop of
`reliability_trend` has after i outcomes, in closed form, hence
`TrendsSplitAtFirstUse`. The tables: `FleetInv` adds to `TypeOK` that the rows
are finitely many, that a session is of its trace (`Stored`), and that every
score of a graph, in the table or already read, has a session with a graph of
its trace (`RowsBacked`, `PicksBacked`); sessions are never taken away, so a
count made later sees all of them (`ScoresNeverOutrunSessions`). `EndOf` says
that a list read is the end of a sorted enumeration of the rows, from which
`PickedAreLatest` gives `HistoryIsLatest`.

*Induction over data.* The induction theorems of the library take an operator,
which the provers here cannot instantiate. Where a proof needs induction over a
sum or a walk, it takes the set of the numbers (or of the subsets) for which the
claim holds or fails and a least element of it, from `WFMin`
(`Inductive`, `LeastExists`, `SmallestSet`).

*Model-checked only*: the liveness properties (`EveryBatchSettles`,
`ProviderOutageStillPersists`, `AttributionEnds`, `RevocationTakesEffect`,
`EvaluationEnds`), because TLAPS 1.4.5 has no ENABLED and so no fairness. And the
two counterexamples of section 6 are TLC's alone.

## 6. Where code and documents disagree

Two have a run that ends in a counterexample.

- `ingest_whole`: "one session per trace" (`docs/otel_ingestion_schema.md` 123)
  holds, but of a trace that comes in several scopes or exports only the first
  piece is stored; the others are answered 200 (`repository.py` 58-60).
- `recovery_keys`: `update()` keys values by session id, `select()` by failure
  mode (`bandit.py` 42, 50, 62); README.md 3. What does hold, whatever the ids,
  is `GreedyFollowsItsKey`: the choice is the best by what was filed under the
  name of the mode.

The others were read in the code while modelling it; no run demonstrates them.

- An environmental symptom is attributed although another subtask was judged at
  fault, when that subtask has no flagged step (`engine.py` 191; docstring
  140-142). Flagged steps without a subtask id are never candidates
  (`engine.py` 171; docstring 144); `Evaluation!Findable` excludes them.
- Even with a truthful oracle an environmental fault can be missed: when an
  error before it, of an innocent step, is in a subtask that goes on after it,
  that subtask shows what a victim shows and its first error is blamed
  (`engine.py` 191-199). The proof of `TrueCauseIsFound` failed at this case,
  TLC then showed it on a trace of three steps; `Findable` excludes it.
- Parent links are stored as data dependencies (`span_ingest.py` 182,
  `models.py` 150; schema document line 126), and start times in the OTLP
  encodings are not read (`span_ingest.py` 82-96, 234; line 124).
- The page says "No sessions match" on a page behind the end of a list that is
  not empty (`SessionsPage.tsx` 128-132), and shows the answer to an older
  filter when it arrives last (45-47). `QuietPageMatchesControls` is about
  requests that do not overlap and says nothing of the second.
- The ablation compares two engines that cannot differ (`ablation.py` 30-38;
  README.md 317).

## 7. Not modelled, and the plan

Out of scope: prompts, wording, logging, HTML; the instrumentation wrappers
(library calls in the producer, no shared state); dataset and report files of
the evaluation; the heat map and the recovery breakdown (one aggregate
statement each); the detail and overview pages (one load per visit); the Neo4j
store (not used by the API); settings validation (a boot that fails serves
nothing); the demos, scripts over the parts above.

The order was: ingestion with its store and proofs, because a lost or mixed-up
trace is the worst this system can do; then limiter, attribution, recovery and
graph construction; then what reads the tables (session list, fleet status),
what guards them (keys), and what measures and calibrates (evaluation,
escalation); then the proofs, component by component. What could come next:

1. `Topology`: depth and classification of `topology_scorer.py` against
   reference definitions.
2. The exploring branch of the bandit with the decay of epsilon.
