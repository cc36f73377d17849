# Formal models of the model router

TLA+ models, model-checking configurations and machine-checked proofs for the
model router: a Python program that takes a coding prompt, decomposes and
classifies it, routes every subtask to a model under a budget, executes it
through providers, the Codex CLI or a hand-off queue, and keeps a catalogue of
planned tasks behind a small HTTP dashboard.

Paths below are relative to the repository root (`src/` is its Python package,
`scripts/` its entry points, `docs/` and `specs/` its documents).

## 1. The system

| Component | State it keeps | Operations | Hard behaviours | What makes it correct |
|---|---|---|---|---|
| **Task catalogue** (`src/model_router/application/task_service.py`, `task_planning_service.py`, `domain/execution_task.py`, `adapters/persistence/*`) | the SQLite table `execution_tasks`, the plan files `.runtime/task-plans/<id>.md` and their `.tmp` | create, update (read, check, conditional UPDATE), delete, create from an analysis (INSERT, write, rename, compensating DELETE) | a thread per request; a row changes between the read and the UPDATE; a save fails, the process stops or the database is locked between two steps | edits are atomic and versioned, the status follows the transition matrix, no edit is lost, a running task is not deleted, a half-made plan has a cause |
| **Task analysis** (`domain/task_analysis.py`, `adapters/planning/`) | none | validate the planner's or a client's analysis, normalise, hash, render | the planner is a language model and the client may edit: anything may come back; lengths are checked before the case is folded | an analysis confirmed as it was served is accepted under the same hash; a task gets only a status its analysis justifies |
| **Execution service** (`application/execution_service.py`, `provider_registry.py`, `adapters/observability/in_memory.py`) | per request: candidate, attempt, health cache, attempt log; shared: counters and a ring of events | execute, retry, fall back, skip, record | concurrent requests share the counters; health answers go stale; timeouts; permanent and transient errors | log, outcome and counters agree; retries stay in their budget; every request is answered |
| **Provider adapters** (`adapters/providers/`) | none (the fault injector: a call counter) | health, complete, map SDK errors | the network | errors reach the service as one of its codes |
| **Cursor queue** (`src/cursor_queue.py`, `scripts/cursor_cli.py`) | one JSON file | push, pop, mark_done, list, stats | load-change-save without a lock, from threads and processes; truncate-then-write; crash in between | first in first out, each task handed out once, counters usable |
| **HTTP gateway** (`adapters/http/gateway.py`, `scripts/dashboard_server.py`) | the rate limiter and the two task services (made on first use) | authorise, limit, read the body, call a service, turn an exception into a status | a thread per request, lazy creation, clock read outside the lock; answers are lost and requests repeated; half of an operation may be done when it fails | the limit per client and window; a failure is blamed on whoever caused it; what was asked once is done once, unless the client was left in the dark |
| **Routing table** (`src/routing_table.py`) | none (tables) | normalise, nearest level, budget zone, choose, fallbacks | the product of twelve task types, levels and budget zones | floors respected, candidates unique, pressure never raises the cost |
| **Dispatcher** (`src/dispatcher.py`) | none of its own; drives every other part | decompose, classify, plan, route, execute, aggregate, one subtask after the other | a subtask fails after others had effects | every subtask has a fate, effects and report agree |
| **Codex executor** (`src/codex_executor.py`) | a subprocess, a temporary message file | run, time out | the subprocess outlives the timeout | one writer per work directory |
| **Decomposer, classifiers** (`src/task_decomposer.py`, `l1_classifier.py`, `l2_classifier.py`) | none | split a prompt, choose type and complexity | a language model's answer, cut off or with prose around it | a prompt always leads to something that is dispatched |
| **Budget adapter** (`src/budget_adapter.py`) | none | the greatest pressure of three providers | an oracle that fails for one of them, or hangs | the ratio defaults to 0.0 |
| **Relay, orchestrator, validator** | environment | one HTTP call, a wrapper of the dispatcher, legacy path | the network | |
| **Dashboard pages** (`dashboard/`) | browser state | forms and lists | optimistic edits | sends the version it shows |

Interactions. The dashboard server is a `ThreadingHTTPServer`: each request runs
in a thread of its own, which calls the task services, the execution service
(with an event loop of its own per call) or the dispatcher. The dispatcher calls
decomposer, classifiers, budget adapter and routing table, and then one of four
executors, of which the cursor queue and the execution service keep shared
state. Everything shared between threads is: the SQLite file, the plan
directory, the queue file, the limiter, the lazily made services and the observer's counters. Those are
what the models are about. Only the observer and the limiter hold a lock.

`PROJECT.json` lists the components with their status and, under "hazards", the
places where the code can go wrong in ways a test would hardly reach, each with
the properties that watch it.

## 2. Modules

| Module | Models | Correspondence |
|---|---|---|
| `TaskLifecycle` | `ExecutionTask`: statuses, transition matrix, rows | `Row` is the columns the properties need: status, version, and `body` for every editable text |
| `TaskStore` | what the catalogue promises | abstract: one atomic step per edit |
| `TaskCatalog` | services, repository, plan files | one action per SQL statement or file operation; `handler[w]` is what a handler thread holds in its local variables (the row it read, the payload); `struck` is a history: which plannings a crash or a locked database ended, and at which stage |
| `TaskCatalogProofs` | theorems about `TaskCatalog` | section 5 |
| `Lists` | `dict.fromkeys`, comprehensions, `min` and `max` with a key | constant-level, without recursion: a filtered list is a list of positions, so that the provers can reason about it |
| `CollectionLemmas` | facts about minima, appended lists, unions of small sets, injective lists and the operators of `Lists` | used by the proofs below |
| `CursorQueue` | `src/cursor_queue.py` | `Load` is `_load_queue` with the change in memory; `Truncate` and `Write` are the two halves of `Path.write_text`; `file` is the content or one of three unreadable or missing conditions |
| `CursorQueueProofs` | theorems about `CursorQueue` | section 5 |
| `ExecutionService` | `execute`, registry, observer, both provider adapters | one action per `await` or event; a health answer and a failure are environment choices, `ErrorOf` is the code the adapters and `execute` make of a failure: cut off by the timer, raised by an SDK with a name and a status, injected, or a response that cannot be read |
| `ExecutionServiceProofs` | theorems about `ExecutionService` | section 5 |
| `RateLimiter` | `_rate_limit`, `InMemoryRateLimiter.check` | a request passes test, creation, second read of the global, clock, critical section; each is an action because another thread may run before it |
| `RateLimiterProofs` | theorems about `RateLimiter` | section 5 |
| `RoutingTable` | `route`, `apply_budget_control` and the tables | constant-level, extends `Lists`: the program's own tables, normalisation, zones, choice of candidates as operators. `OtherType` and `OtherLevel` stand for any word the tables do not know |
| `Routing` | `get_budget_ratio` and a sequence of decisions under changing pressure | extends `RoutingTable`; the tables are the program's own, so the run decides the properties for three providers and the boundaries of the zones, and the theorems for any number of providers and any percentages |
| `CodexExecutor` | `run_codex` | `call` is where the coroutine is or how it ended, `process` the subprocess, `message` the temporary file of `NamedTemporaryFile(delete=False)`; the `codex` program writes and exits when it pleases |
| `CodexExecutorProofs` | theorems about `CodexExecutor` | section 5 |
| `Decomposer` | `task_decomposer.py` | constant-level: a prompt is the marks its heuristic looks for, a reply what it says and in which form it came; `braces` is what braces within its texts would give the third parser to find: nothing, an object that says nothing of a split, or no JSON; `Read` is the four parsers in their order |
| `Classifier` | `l1_classifier.py`, `l2_classifier.py`, `_classify` | constant-level, extends `RoutingTable`: a prompt is the number of keywords of each category, an answer a type, a level and whether its confidence is a number |
| `TaskAnalysis` | `domain/task_analysis.py` | constant-level: a text is its length, whether `lower()` changes or lengthens it and whether UTF-8 can hold it; the fields of each record are tables of rules (`AnalysisRules`, ...) that one operator checks; `RawAnalysis` is all that may come in |
| `Gateway` | `scripts/dashboard_server.py`, `adapters/http/gateway.py`, `TaskPlanningService` and the planner as a client sees them | extends `TaskAnalysis`; `todo` is the checks `_do_get` .. `_do_delete` have still to make for this path (`Unserved` has the paths nobody serves, of each of the four kinds the handlers tell apart), `error` the exception on its way to `_safe_error`, `tries` what the client saw of the tries of one intent. What the services may fail at is chosen freely and noted in `trouble`; their inner steps are in `TaskCatalog`, `RateLimiter` and `Dispatcher` |
| `GatewayProofs` | theorems about `Gateway` | section 5 |
| `Dispatcher` | `TaskDispatcher.dispatch`, `dispatch_prompt`, `Orchestrator.handle` | extends `Classifier` and `Decomposer` and composes `CursorQueue` (the dispatch is one more caller of it, between `Load`, `Truncate` and `Write` of the others) and `CodexExecutor` (a run per subtask); see below |
| `DispatcherProofs` | theorems about `RoutingTable`, `Routing` and `Dispatcher`, which needs those | section 5 |
| `MC*` | | symmetry sets and values for TLC |

Several modules contain operators commented as *mutants* of the definition after
them: the same operation with a plausible mistake. With a mutant in place of the
original, TLC finds the property `PROJECT.json` pairs it with violated; this
shows that the property can fail and is about that piece of code.

How `Dispatcher` composes. `subtasks`, `report` and `current` are the local
variables of `dispatch`; `file` and `call` belong to the instance `Q` of
`CursorQueue`, `run`, `process` and `message` to the instance `C` of
`CodexExecutor`. A dispatcher action that uses a component conjoins that
component's own action: `QueuePush` is `Q!Push` and the bookkeeping of the ticket,
`CodexStep` a step of `C!Caller`. The command line (`scripts/cursor_cli.py`)
pushes, pops and marks done in between, in queue steps of its own, and subprocesses
run on after the request that started them is over. Two things are abstract. The execution service is one step
(`Execute`: some candidate answers, or none): `ExecutionService` has its steps,
and they share nothing with a dispatch but its result. Language models are
choices at their replies: any reply goes through `Decomposed`, `ClassifyL1` and
`ClassifyL2` as the code has them; the planner names any executor or none, or
gives values of the wrong type, which raises (`PlanRaises`). `answer` is the
summary of `_aggregate` with the model and the queued tasks callers report: a
majority may be any of the most frequent, for `max` runs over a set.

How `Gateway` relates to the others. It abstracts what they detail: its `Update`
is an atomic edit, as `AtomicStore` shows `TaskCatalog`'s to be, with an edit by
somebody else in between as a conflict; its `SaveFails` has the outcomes of
`TaskCatalog`'s compensation (undone, already gone, refused, failed itself); its
`RateLimit` the two outcomes of a check; its `Dispatch` the answer or the
exception of a request of `Dispatcher`, with or without effects.

What data is abstracted: texts are model values, a timestamp is a tick, a
complexity word is the number it stands for, a price is thousandths of a dollar.
Ids are drawn from a finite set and never twice. Task ids are whole `uuid4`s; an
id of the queue is a timestamp to the second with 24 random bits of one
(`src/cursor_queue.py:80`), so for the queue this is an assumption: two pushes of
the same second draw the same id once in sixteen million times.

## 3. Runs

| Run | Expect | Question | Bounds and why they are enough |
|---|---|---|---|
| `task_catalog` | pass | Do two handler threads implement the atomic store; is an edit ever lost; is a half-made plan always explained, and by what? | one task, two threads, two texts, versions to 3, one fault: an edit needs a reader and an interfering writer, and every action concerns one row, so a second task adds no interference; version 3 lets an edit be outdated twice |
| `task_compensation` | violation | Is a failed plan file always compensated by deleting the task? | the same system |
| `execution_service` | pass | Do log, outcome and counters agree for concurrent requests; does every request end? | two requests, three models of two providers, one retry, a failure that is retried and one that is not although its name says unavailable (its status is tested first): lists with a repeated model and with two models of a provider reach each branch of the loop |
| `cursor_queue` | pass | What holds of the file under races and a crash, which tasks can be lost, and is the file the exact replay without them? | two callers, three tasks, three pops, one crash: a race needs two callers, order and counters need a task of every status |
| `cursor_lost_push` | violation | Is a task whose push returned in the file? | two overlapping pushes suffice |
| `rate_limiter` | pass | How far does the window hold, and is every refusal justified? | two threads, one client (clients share nothing but the map), limit 2, window 2, clock to 4: twice the window, so entries age out of it; five requests exceed the limit in both windows. The bounds stop the system, so deadlock is not checked |
| `routing` | pass | Does a decision keep its floor, name no model twice and survive the outage of a provider; does pressure ever raise the cost of a task? | every task type, every level and alias, three providers with each of them at both sides of every zone boundary, and no oracle: complete |
| `routing_yellow` | violation | Does yellow step down? | the same tables |
| `codex_executor` | pass | What does `run_codex` leave behind, and does it always return? | two overlapping calls: calls share nothing but the directory, so two already show every combination of a finished call and a running process |
| `dispatcher` | pass | Does every subtask have one fate, the one reported; does a planner's word stay within its bounds; does the answer tell of everything that waits; does every dispatch end? | one dispatch of up to two subtasks beside one command line with one pop and one crash, which pushes while a push of the dispatch is under way (`PushBeside`), as long as an id is left for each subtask still to come: that is where two saves of the file collide; `cursor_queue` has pushes at any time. Replies of every form, whole, in prose or cut, lead to hints of the relay, an unknown type or none; keywords and answers lead to the queue, the brain and Codex, so every executor and every branch of `_resolve_executor` is reached; two subtasks are what "earlier" and "later" need. Only budget ratio 0.0 is used: the ratio changes which models are candidates (`routing` tries all, and shows that some are left for the execution service), never what the dispatcher does with them |
| `dispatcher_salvage` | violation | Is every answered prompt dispatched? | the replies of the decomposer that max_tokens cut off |
| `gateway` | pass | Is the right side blamed; is an analysis confirmed as served accepted under the same hash; when is something done twice? | one client, one task of versions to 3, two tries per intent: twice is what "done twice" needs, version 3 lets a retried update be outdated by its own first try or by another client. The analyses are one step inside and one step past each kind of limit, one per part of the normal form, and the two that `lower()` lengthens and UTF-8 cannot hold |

What they show beyond "no error": the optimistic lock makes read-check-write
atomic although the transition is checked in Python against an old read
(`AtomicStore`, `NoLostUpdate`), and of two colliding edits one goes through
(`ConflictMeansInterference`); a task lacks its plan file only because a fault
struck its own planning, or an edit of it kept the compensation away, and a
temporary file stays only where a fault struck between writing and renaming it
(`HalfMadePlanHasCause`); the queue's file never lists a task twice and its
`pending` counter errs only upwards, by tasks already handed out; a task is lost
only to calls that were under way when its push returned: one that every copy
lists at a quiet moment is listed for good (`SettledTasksStay`); the limiter's
window is honoured up to the time a thread may wait between its clock and the
lock, and losing a limiter costs at most one extra quota per thread; with some
provider at 75% or more a task never gets a costlier model than at the call
before, and every executed task keeps candidates of two providers. A failed dispatch leaves the
effects of a prefix of its subtasks, each in one place, the one it is reported
under (`OnePlacePerSubtask`), and whatever a planner answers, an edit of files
ends in the queue or nowhere (`PlannerStaysInBounds`). After `run_codex` timed out,
and only then, a process may still write in the work directory while the next
subtask starts there; a subtask reported as done never has one
(`StrayWriterTimedOut`, `SuccessIsSettled`). An answer names every ticket a
dispatch drew (`AnswerTellsAll`). At the edge, the order of the `isinstance` tests
keeps the planner's failures from being blamed on the client, and every error
means that nothing was done, but for a dispatch that broke off and a compensation
that failed (`BlameIsRight`); normalising an analysis twice changes nothing, except that a
tag or category `lower()` made too long is refused when it comes back
(`PreviewConfirms`); and without idempotency keys a repeated request takes effect
twice only after a lost answer, a dispatch that broke off or a plan that could
not be taken back, a delete and a versioned update never (`DoneTwiceHasCause`).

### Disagreements between code and documents

- `task_compensation`: the compensating delete refuses a running task, so a
  request that starts the task in the meantime leaves it without its plan, and
  the conflict hides the original error (`specs/task-planning/deepseek-task-analysis.md`).
- `cursor_lost_push`: overlapping pushes overwrite each other (`docs/completed/07`).
- `routing_yellow`: with no lower tier in the chain, yellow takes the next
  model, which may be of a higher tier and price (`docs/completed/05`).
- `dispatcher_salvage`: a reply of the decomposer that was cut off is salvaged as
  a split into no subtasks; the prompt is answered with "No dispatch result was
  generated" instead of being routed as a whole, as the comment of `decompose`
  says (`src/task_decomposer.py:110`).

Found while modelling, without a run of their own: two threads may each make a
limiter at start-up, so that a client gets more than its limit within a window,
which `specs/gateway/authentication.md` does not foresee (`RaceIsBounded` says how
much more); a missing title, a plan of an impossible id and a routing request
without a prompt are answered 500 instead of 400 or 404; a text UTF-8 cannot hold
is answered 500, or not at all when the refusal would quote it; and the timeout
of `_budget_ratio` does not help, for leaving its thread pool waits for the thread.

## 4. Fairness

Three modules have a liveness property, each under a `FairSpec` of its own. None
obliges a request to arrive, a provider to answer or a process to exit.

- `ExecutionService`: weak fairness of each request's own steps. Its event loop
  runs in a thread of its own, a provider call is bounded by `asyncio.wait_for`,
  and the health checks of the adapters in this repository answer without
  waiting. `health()` itself has no timeout, so an adapter that hangs there would
  break the assumption; it is listed as a hazard, one that no property covers.
- `CodexExecutor`: weak fairness of the caller (`Caller`), none of the program
  (`Program`). The timer of `wait_for` fires after ten minutes however long the
  subprocess hangs; `TimeOut` is therefore a step of the caller that is enabled
  as long as it waits.
- `Dispatcher`: weak fairness of each dispatch (`Step`). Calls of language models
  carry a timeout of two minutes, the queue's file operations return or raise,
  the execution service ends by the run above, and `run_codex` by the timer.
  The budget oracle of the external package `llm_router` is awaited without a
  timeout: that it answers or fails is an assumption. Nothing is assumed of the
  command line or of Codex.

The other modules state no liveness: nothing in the queue, the catalogue or the
limiter waits for anybody, and a gateway request is as live as the service it calls.

## 5. Proofs

Every safety invariant and action property the passing runs check is proved for
all values of the constants; only liveness is left to TLC. The assumptions on the
constants are the named ASSUMEs of the modules; TLC evaluates them on every run,
and none of the proofs uses a bound of a run.

| Module | Assumes | Theorems (property proved) |
|---|---|---|
| `TaskCatalogProofs` | the bounds are naturals (`CatalogAssumption`); the marker of a missing row is no row (`NoRowAssumption`) | `TypeCorrect` (`TypeOK`), `OptimisticLockIsSound` (`SnapshotCurrentOrOutdated`), `CatalogImplementsStore` (`AtomicStore`, the refinement of `TaskStore`), `NoUpdateIsLost` (`NoLostUpdate`), `PlansAreExplained` (`HalfMadePlanHasCause`), `ConflictsAreReal` (`ConflictMeansInterference`) |
| `CodexExecutorProofs` | nothing | `CodexTypeCorrect` (`TypeOK`), `OnlyTimeoutsLeaveWriters` (`StrayWriterTimedOut`), `LeftoverFilesExplained` (`LeftoverFileHasCause`) |
| `CursorQueueProofs` | the three contents that are no queue are none and differ (`MarkersAssumption`); `MaxCrashes` is a natural (`CrashesAssumption`) | `QueueInvariant`, `TypeCorrect` (`TypeOK`), `NeverListedTwice` (`NoTaskListedTwice`), `CountersTrusted` (`CountersBound`), `SettledStays` (`SettledTasksStay`), `SequentialReplay` (`FileIsReplayOfCalls`), `FirstInFirstOut` (`PopsInOrder`) |
| `ExecutionServiceProofs` | each model has a provider, candidate lists are lists of models and not empty, the retry limit is a natural, each failure has an error code (`ExecutionAssumption`) | `ExecutionInvariant`, `TypeCorrect` (`TypeOK`), `TrueStory` (`RetriesThenFallsBack`), `OutcomeFollows` (`ResultMatchesLog`), `CountersAgree` (`MetricsAddUp`) |
| `RateLimiterProofs` | limit and window are positive, the bounds naturals, and there are finitely many threads (`LimiterAssumption`) | `LimiterInvariant`, `TypeCorrect` (`TypeOK`), `WindowHonoured` (`WindowHonouredUpToLag`), `RaceBounded` (`RaceIsBounded`), `RefusalsAreJustified` (`RefusalJustified`) |
| `GatewayProofs` | versions and tries are counted from 1, goals and replies are texts and objects (`GatewayAssumption`); what is of the wrong type is neither list nor object, and the default planner's name is a string, which the provers do not know of a literal (`WrongAssumption`) | `GatewayInvariant`, `TypeCorrect` (`TypeOK`), `RightPartyBlamed` (`BlameIsRight`), `RepeatsHaveCause` (`DoneTwiceHasCause`), `PreviewIsConfirmed` (`PreviewConfirms`) with `NormalIsNormal` and `NormalValid` |
| `DispatcherProofs`, on routing | the oracle is asked of the same finitely many providers every time and answers in natural numbers, and its silence is no answer (`RoutingAssumption`); nothing on the tables, which are the program's own | `RoutingInvariant`, `RoutingTypes` (`RoutingTypeOK`), `NoneTriedTwice` (`CandidatesUnique`), `FloorHolds` (`FloorRespected`), `OutageSurvived` (`SurvivesProviderOutage`), `PressurePays` (`PressureNeverCostsMore`) |
| `DispatcherProofs`, on dispatches | a reply lists at most `MaxSubtasks` subtasks, the command line runs in processes of its own, an id is never the mark of a missing one, the three contents that are no queue are none and differ, `MaxCrashes` is a natural (`DispatcherAssumption`) | `DispatcherInvariant`, `OnePlaceEach` (`OnePlacePerSubtask`), `BoundsAreKept` (`PlannerStaysInBounds`), `DoneMeansDone` (`SuccessIsSettled`), `NothingUntold` (`AnswerTellsAll`), `DispatcherTypes` (`TypeOK`), `HeldInvariant`, `ProvidersCanAnswer`, `TicketsAreReachable`; `QueueInside` (`Q!Spec`), `CodexInside` (`C!Spec`), and with them `QueueHoldsInside`, `QueueKeepsInside`, `QueueInOrderInside`, `CodexHoldsInside` |

Hardly any property is inductive as it stands. What each needed:

**Catalogue.** A row deleted under a waiting PUT must not come back under the
same id at a lower version: `CatalogInv` adds that rows and waiting edits concern
issued ids only (`RowsAreIssued`) and that a waiting edit passed its checks
(`EditingWasAccepted`). The lemma `StepAdvancesRows` says that a step leaves a row
alone, removes it, advances its version, or creates it under a new id; then a
version that matches at the UPDATE means the row that was read
(`CommitWritesCurrentRow`), and the transition checked in Python is the one
committed. The refinement is the identity on rows and issued ids; file and
request steps are stutters. For the plan files, `PlanInv` adds why a compensation
can be refused at all: a task nobody edited has a status an analysis gives
(`UneditedStatus`), none of them protected. `StepPlanning` then says how a planning
can end: with its plan, with the row gone or protected, or `struck` at its stage.

**Codex.** A call that has not started its process could be refused with one at
work; `NothingEarly` adds that there is no process before `Spawn` and no file
before `MakeMessageFile`. A call that ends otherwise than by its timer then has
no process or has seen it exit, and a removed file stays removed.

**Queue.** There are two invariants. `AnyOrderInv` holds whatever overlaps and
whoever dies: every copy of the queue, on disk or in somebody's memory, is
`Sound` (no id twice, `total` and `done` exact, `pending` between the pending
and the unfinished tasks), and all ids were drawn. An old copy may win, but it is
a sound one. `OneAtATimeInv` speaks of runs without overlap or crash: the file is
the `Replay` of the calls that returned, and the one call under way is about to
write the replay with itself added; a pop holds the oldest waiting task.
`SettledTasksStay` is an action property: whatever a step does, the copies it
leaves list what all copies listed before, for a changed queue is made of a copy
(`ChangesKeep`) and a file that was truncated or spoilt is not taken for a missing
one (`LoadKeepsListed`); and when a push returns with nobody else at work, the only
copy left is the file it wrote (`LonePushSettles`).

**Execution service.** `RequestsInv` ties the record of a request to where it
stands: `History` relates the entries to each other, to the cached health answers
and to the part of the list already passed, `Standing` relates the last entry to
candidate, attempt and outcome. `MetricsInv` is `MetricsAddUp` with the
finiteness of what is counted: a request that has begun is one of finitely many,
so its entries can be added one by one. `DedupeFacts` is what the loop needs of
`dict.fromkeys`.

**Limiter.** The heart is `TimestampsStandForAdmissions`: there is an
order-preserving map from the timestamps a limiter keeps for a client to its
admissions, each younger than its timestamp by no more than the lag, and an
admission without a timestamp is one from before the window. A limiter admits
only with fewer than `Limit` timestamps left, so the admissions of a window
inject into the timestamps. `CreatorsAreFirstComers` counts limiters and threads
about to make one together, which bounds the race; the union bound over limiters
is `UnionOfSmallSets`.

**Gateway.** `Orderly` says how a handler got where it is (a suffix of its steps
is left; past the first only with a token, past the body only with JSON).
`BlameToCome` says of an exception under way what `BlameIsRight` says of the answer
it will become (`StatusOf` is the order of the `isinstance` tests).
`EffectsExplained` and `OneShotsAreSpent` carry what earlier tries did: what has
taken effect was answered as done or has an excuse, and a delete or a versioned
update, once done, leaves the task in a state in which it cannot be done again.
That a preview can be confirmed needs what the client holds to be a normal form
(`PreviewInv`: so is its preview, so is an analysis on its way to become one), and
three facts about normal forms, proved for every analysis there is: a normal form
is its own normal form (`NormalIsNormal`), it satisfies the contract unless a word
outgrew it (`NormalValid`), and its hash can be computed (`NormalHashable`).
`ConfirmFollows` then follows the confirmation through the handler. The set of
normal forms cannot be enumerated, so TLC checks `PreviewConfirms` and not
`PreviewInv`.

**Routing.** A decision is that of a call of `route` and nothing else
(`RoutingInv`), so the rest is about the operators. The lists a comprehension
filters are stated as positions in order (`Lists`), and what `Budgeted` returns is
found from the chain it is given: each chain is distinct, never goes below the
tier of its type's floor and, where providers are called, starts with models of
two. These are facts about the program's own tables, shown chain by chain. Candidates come from their chain and none is dropped for
good (`CandidatesUnique`, `SurvivesProviderOutage`). For `PressureNeverCostsMore`,
one provider at 75% is enough for orange or red (`HardPressed`), and there the
choice is the floor or a cheapest of chain and floor (`ChoiceFacts`), to which the
model chosen before belonged, whatever the pressure was.

**Dispatcher.** `RequestInv` says for each request how far it is and what it knows
of the subtask in hand (`Progress`), that later subtasks have left no trace and
the one in hand only where it is now (`Traces`), and that what is reported is so
(`Reported`); `QueueFits` and `CodexFits` relate requests to their calls of the
queue and to their subprocesses. A step of one
request, of the command line or of a Codex process leaves all other requests as
they are but for processes that run on and pushes of others (`Keeps`, `Unmoved`),
so each action is shown for the request that takes it only. The planner enters by
`ResolvedStaysInBounds`: for whatever it names, the executor sends the subtask
where its type may go. `QueueInside` and `CodexInside` show that the composition
is one: every step of the dispatcher is, on the variables of a component, a step
of that component's own specification, so what is proved of `CursorQueue` and
`CodexExecutor` holds in the midst of dispatches (for the queue, under its own
assumptions). `CodexInside` needs the invariant: the run a request awaits is that
of a subtask it has. `HeldInv` says of what a request holds in its locals that it is
of the right form and that a decision in it is `route`'s for that type; with the
theorems on routing it gives `TypeOK`, for models that are reported are those of
the tables, and `ProvidersCanAnswer`: what the dispatcher hands to the execution
service always has a model of another provider. The theorems of the components are
carried over by instantiating `CursorQueueProofs` and `CodexExecutorProofs`; an
instance brings copies of the operators it uses, and the lemmas `Same...` say that
they are the same. `TicketsAreReachable` joins both sides: when nothing overlapped
or crashed, every ticket an answer names is that of a task in the file.

### Model-checked only

Liveness (`EveryRequestAnswered`, `EveryCallEnds`, `EveryDispatchEnds`): fairness
and ENABLED are out of the prover's reach.

## 6. Not modelled

CORS headers and a server configured with an invalid limit or without a work
directory; the contents of the read-only pages; the words of prompts, plans and
answers: keywords are counted and texts measured, neither is put together
character by character; the layout of the markdown plan; environment and relay
configuration and the one HTTP call of the relay; the browser pages; the legacy
path of the orchestrator and the response validator it alone uses, which nothing
calls; `force=True` of the decomposer, which nobody passes; the legacy call of
`apply_budget_control` with a task name; evaluation scripts; the ring of recent
events. The queries of the queue and the catalogue change nothing; of the
catalogue's, `Gateway` has the status codes.

## 7. Plan

Done, in order of importance: catalogue, queue, execution service, limiter,
routing, Codex, dispatcher with decomposer and classifiers, analysis, gateway;
then their proofs, in the same order.
Left open: abstract specifications of a FIFO queue and of an execution "at most
once per attempt, in the order of the candidates". What they would say is stated
and proved on the histories instead (`FileIsReplayOfCalls`, `PopsInOrder`,
`RetriesThenFallsBack`); the queue would implement the former only while calls do
not overlap.
