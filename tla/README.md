# GeneralAI: verification project

TLA+ models, model-checking runs and machine-checked proofs about the code under
`src/app`. Every definition is translated from the source; `PROJECT.json`
maps each to its lines. This file says what the system consists of, what is
modelled and how, what each run and theorem shows, and what is left out.

## 1. Inventory of the system

GeneralAI is an asyncio Python application (FastAPI server, one process, one
event loop) around a dependency container. The parts that keep state:

| part | state | operations | interacts with |
|---|---|---|---|
| workflow graph (`automation/graph.py`) | none (pure) | topological order, cycle detection, ready set, reference check | validator, engine |
| workflow engine (`automation/executor.py`) | per call of `run()`: completed steps, records, approvals, events; timers and tasks | `run` (start or resume), one task per ready step | step executors, service |
| workflow service (`automation/workflow.py`) | run registry, stores, event cursor | execute, resume, cancel, approve, reject, startup, definitions, schedules | engine, scheduler, HTTP routers |
| scheduler (`automation/scheduler.py`) | stored schedules, active-run counts, fire tasks | tick, fire, advance, restore, edits | service `execute` |
| registries and stores (`automation/registries.py`, `persistence.py`) | versions and published pointer, JSON documents | register, publish, deprecate, unregister, save, load | service |
| agent manager (`agents/`) | sessions, running tasks, checkpoints | execute, pause, resume, cancel, delete, restore, shutdown | agent runtime, server |
| LLM router (`llm/`) | circuit breakers, health windows, queue and workers, cache, statistics | generate, generate_async, stream, fallback | providers |
| plugins (`plugins/`) | registry, contexts, enabled set | install, load, enable, disable, unload, uninstall | container, tool registry |
| tools (`tools/`) | registry, permissions | execute with timeout, retry and cancellation | workflow TASK steps, agents |
| core (`core/`) | container registrations and singletons, lifecycle list, subscribers | register, resolve, start, stop, publish | everything |
| kernel (`kernel/`) | goals, tasks, memory, sessions of the pipeline and of the agent loop | stage dispatch, agent loop, managers | agent manager |
| server (`server/`) | rate-limit buckets, application state | routing, authentication, lifespan | manager, service |
| knowledge (`knowledge/`) | index, vector stores | ingest, retrieve | agents |

How they meet: the server's lifespan restores the agent manager, then awaits
`WorkflowService.startup()` (load, resume every resumable run one after
another, start the scheduler) before it serves requests. Requests and the
scheduler call `WorkflowService.execute`; it stores a PENDING run under its
lock, releases the lock, awaits the engine and stores what the engine returns.
The engine calls step executors, which call tools, agents, the LLM router, or
the service again (sub-workflows).

What is hard: everything between two awaits is atomic, everything else
interleaves. The engine works on an immutable copy of a run while cancel,
approve and resume change the stored one; nothing of an execution is stored
before it ends; timers (attempt timeouts, the overall deadline, backoffs,
approval expiry) race with results; the process may die at any point and
restart from JSON documents.

What makes the parts correct: the engine respects dependencies and does not
repeat finished steps across pauses and crashes, reports failures and
timeouts as such, and never exceeds its concurrency; the service keeps terminal
runs terminal and decisions recorded, creates one run per idempotency key, and
loses no accepted run; the scheduler fires each occurrence once and obeys edits;
sessions and circuit breakers move only along their state machines. A request to
the router is answered by an attempt made for it; a plugin leaves nothing behind;
a cancelled request goes no further; a tool works only for callers that can know;
stores hold after a crash what operations that returned have made; and what the
pure parts compute (orders, validity, expressions, cron times, chunks, rankings,
scores) is what a reference definition says.

## 2. Plan

Most important behaviour first: the code that changes durable state while
other actors may change it too; then the parts with concurrency of their own;
then what is sequential but has long sequences of calls, faults or edge cases.

| order | module(s) | subject | state |
|---|---|---|---|
| 1 | `WorkflowGraph`, `WorkflowWaves`, `WorkflowExecutor`, `DurableRun` | the engine, and what it promises of a stored run | done, proved |
| 2 | `WorkflowService`, `WorkflowScheduler` | runs, decisions, restarts; schedules | done, proved |
| 3 | `AgentManager` | sessions, their tasks and the calls that stop them | done, proved |
| 4 | `CircuitBreaker`, `LLMRouter` | breakers, fallback, queue and workers, cache, registrations | done, proved |
| 5 | `PluginManager`, `ToolExecution`, `Lifecycle`, `Pipeline`, `AgentRun`, `KernelExecution` | hooks that fail, threads that run on, stages, retries and cancellation | done, proved |
| 6 | `WorkflowNesting`, `WorkflowDefinitions`, `WorkflowStores`, `SessionStore` | steps in steps; versions; files and crashes | done, proved |
| 7 | `WorkflowValidation`, `WorkflowTemplates`, `Cron`, `PluginOrder`, `ProviderSelection`, `Chunking`, `Intents`, `Deliberation` | computations, against reference definitions | done |
| 8 | `Container`, `EventBus`, `KnowledgeStore`, `Retrieval`, `KernelMemory`, `Cognition`, `Experience`, `Telemetry` | sequential components | done; `EventBus`, `KernelMemory` and `Cognition` proved |

What composes what. `MCWorkflowExecutor` gives the engine delays computed from
retry policies. `WorkflowExecutor` implements `DurableRun`, and `WorkflowService`
uses of the engine exactly what `DurableRun` and `EngineTerminates` say of it (an
execution ends, hands back the run it was given with more steps finished, more
requests and more events). `LLMRouter` is composed of one `CircuitBreaker` for
each provider, the health monitor, the cache, the queues and their workers.
`KernelExecution` has a tool's executor inside an attempt of a skill's.
`WorkflowValidation` and `PluginOrder` use the operators of `WorkflowGraph`;
`WorkflowValidation` runs what it accepts in an engine. `Platform` composes the
components that run side by side and share no state: `Components` is the
conjunction of their specifications, and the theorems about them are theorems
about it. `MCPlatform` gives `Platform`'s constants their values, and adds the
sequential and pure components.

What would come next: a PATCH of schedules and malformed cron expressions
(`WorkflowScheduler`); sessions restored as RUNNING (`AgentManager`); an abstract
specification of the stores that `WorkflowStores` and `SessionStore` are shown to
implement, or not. To be proved: what `CoreSound` and `KnowledgeSound` say of the
components that keep state (`Container`, `Telemetry`, `Experience`, `KnowledgeStore`),
once their folds and sorts are written as recursive functions or by the ranks of
keys, as those of `WorkflowGraph`, `Cognition` and `KernelMemory` are.

## 3. Modules

| module | models | checked by |
|---|---|---|
| `WorkflowGraph`, `WorkflowWaves` | `automation/graph.py`; all graphs over N steps and one unknown id, and the waves of an engine that runs them | `Platform` |
| `WorkflowExecutor`, `MCWorkflowExecutor` | `WorkflowExecutor.run`, `_execute_step`, `_approval_executor`, retry delays; two workflows | `Exec*` |
| `DurableRun` | what the engine promises of the stored run (abstract) | `ExecDiamond` |
| `WorkflowService` | runs of `WorkflowService`, persistence, restart | `Service*` |
| `WorkflowScheduler` | `WorkflowScheduler`, schedules of `WorkflowService` | `Scheduler*` |
| `AgentManager` | `AgentManager`, `SessionRegistry`, a JSON store | `AgentManager` |
| `CircuitBreaker`, `LLMRouter`, `MCLLMRouter` | `llm/circuit_breaker.py`, `llm_router.py`, `request_queue.py`, `fallback_manager.py`, `prompt_cache.py`, `health_monitor.py`, `policy_manager.py` | `LLMRouter`, `RouterStuckBreaker` |
| `PluginManager`, `PluginOrder` | `plugins/manager.py`, `plugins/registry.py`, `core/plugins/plugin_loader.py` | `Platform` |
| `ToolExecution` | `tools/executor.py`, permissions, validation, registry | `Platform` |
| `Lifecycle`, `Container`, `EventBus` | `core/` | `Platform` |
| `Pipeline`, `Cognition`, `Telemetry` | `kernel/pipeline/`, `kernel/orchestrator.py`, what the stages hand on; metrics and usage logs | `Platform` |
| `AgentRun` | `kernel/agent/` | `Platform` |
| `KernelExecution` | `kernel/skills/executor.py`, `kernel/tools/executor.py` | `Platform` |
| `Intents`, `Deliberation`, `Experience`, `KernelMemory` | the kernel's engines | `Platform` |
| `WorkflowNesting` | conditional, loop, parallel and sub-workflow steps in a wave | `Platform`, `LoopRunsOnce` |
| `WorkflowDefinitions`, `WorkflowStores`, `SessionStore` | versions; JSON documents; session files | `Platform` |
| `WorkflowValidation`, `WorkflowTemplates`, `Cron` | `validation.py`; `template.py`, `context.py`; cron in `scheduler.py` | `Platform` |
| `ProviderSelection` | scoring, costs, capabilities, load balancing | `Platform` |
| `Chunking`, `KnowledgeStore`, `Retrieval` | chunkers; indexing, embedding cache, vector stores; retrieval and BM25 | `Platform` |
| `Platform` | the fourteen components that are proved side by side, with the properties of each group | `Platform` |
| `MCPlatform` | small instances of all of these, of which one, the `subject`, moves | `Platform`, `LoopRunsOnce` |
| `...Proofs` | theorems (section 5) | |

Definitions named "Mutation" in a comment are plausible bugs of the code. They
are used nowhere in the specifications; `PROJECT.json` says which definition
each of them would replace and which property then fails.

### What is one step

Everything runs in one event loop, so code between two awaits is one action.
Where a handler awaits something that may take time (an executor, a run, a task,
a timer), it is split there, and what it keeps in local variables across the
await is kept in the model too: the run that an execution was handed (`base` in
`WorkflowService`), the schedule a fire was started with (`spec` in
`WorkflowScheduler`), the token and attempt of a session's task, the chain a
request to the router goes through. Code that runs in threads or under a lock
from beginning to end (breakers, plugin manager, knowledge stores) is one action
for each call. A resolution in the container holds its lock as well, but is split
where it runs factories and constructors, which may use the container. `async`
functions that never suspend (the stores of this repository write files
synchronously) are not split, except by crashes.

### WorkflowExecutor

`status`, `saved`, `approvals` and `events` are the `WorkflowRun` in the
registry; `active`, `records`, `pc`, `attempt`, `left`, `overall` and `budget`
are the locals of `run()`, of its `_EngineState` and of the tasks of the current
wave. Nothing of the second group is stored before `_finalize`.

| action | code |
|---|---|
| `Begin` | `run()` up to the loop: restores finished steps, sets the deadline |
| `StartWave`, `DeadlinePassed`, `FinishRun` | the top of the loop, its exit because of the deadline, and its regular end |
| `AdmitSkip`, `AdmitFail`, `AdmitRun` | a task gets the semaphore: condition false, no executor, first attempt |
| `AttemptSucceeds`, `AttemptFails`, `AttemptTimesOut`, `BackoffEnds` | the retry loop of `_execute_step` with its error policies |
| `ApprovalDecided`, `ApprovalExpired`, `ApprovalPauses` | `_approval_executor` |
| `WaveRaises`, `WavePauses`, `WaveCompletes` | the scan of the gathered results |
| `Decide` | approve or reject, as stored by the service while the run is not active |
| `Crash` | the process dies; the locals are lost |
| `Tick` | time passes while the loop waits |

The engine's model lets decisions arrive only between two calls of `run()`;
decisions during an execution are the subject of `WorkflowService`.

### WorkflowService

`runs` stands for run registry and run store, which change together under the
service lock; `log` is the durable event timeline and `synced` its in-memory
cursor. `executions` are `_execute_run` calls in progress, each with the run it
was handed. `Execute`, `Resume`, `Cancel` and `Decide` are the calls;
`TakeEffect` and `Return` what the engine does and what `_execute_run` does
with the result; `Startup`, `ResumeNext` and `StartupEnds` are `startup()`.
`Persist` has the crash points of `_persist_run`: after the run's document, and
after each of its events. The timeline has a second writer: the service makes the
event store the scheduler's sink (`workflow.py:130`), and when the `execute()` of a
fire has returned, `_fire` appends a notice under the run's id (`scheduler.py:249`).
Hence an execution has a `cause`, and `Notes` is what follows the end of a
scheduled one. The scheduler's other events carry no run id and show in no run's
timeline.

### WorkflowScheduler

`schedules` is the schedule store, `runs` the runs that schedules started,
`active` the in-memory counts, `fires` the `_fire` tasks. `Poll` is `tick()` with
everything it starts (a maximal set of due schedules that the limits admit, those
that are due longest first). `overtaken` is a history variable: how often another
schedule was fired while this one was due, had room under its own limit and was
left waiting for the shared room; `Overtake` records it. `FireStarts`, `FireFails`
and `FireEnds` are the stages of `_fire`, the last two with `_advance`. `Shutdown`
and `Drained` are the graceful end, `Restart`, `ResumeRun` and `Start` the
startup, with timers recomputed both by `restore()` in `Restart` and again in
`Start` as the code does. A cron expression is an abstract period: times at which
it matches are the multiples of `Period`.

### AgentManager

`sessions` is the registry and `store` the session files; `taskOf`, `tokenOf`,
`paused` and `reasons` are the manager's four tables; `tasks` are the `_run`
tasks that are not done and `calls` the calls that await one of them. A token
bears the number of the task it was made for. `Execute`, `Resume`, `Cancel`,
`Pause` and `Delete` are the calls up to their await, `Returned` the rest.
`Attempt`, `Quits`, `Answered`, `Delays`, `Ends` and `Raises` are the parts of
`_run` between its awaits; `Finalize` is `_finalize`. `Shutdown` and `Stopped`
are `shutdown()`, `Crash` a process that dies; both come back through
`restore()`.

Two history variables say of which sessions something is known. `orphaned` are
those that were started or resumed while a `delete_session()` of the same id was
waiting (it will remove what it did not stop), and those that were RUNNING when
the process died. Apart from `EveryCallReturns` and what `StoreFollows` says of
sessions at rest, the properties are about the other sessions, however many
calls stop them at once. `overlapped` are those on which a call met another one
that was waiting; only the last part of `StopsHonoured` excludes them. What
happens to orphaned sessions is described under "Findings".


### LLMRouter

`breaker`, `margin` (health: successes minus failures), `chains`, `blocked` (what
policies reject) and `cache` belong to the router; `queue`, `worker` and `recent`
to the request queue. `request` is where each caller is: it waits for an item of
a provider's queue, calls a provider itself (in a thread or as a stream), or is
over. `StartRouted`, `StartPinned` and `Continue` are a handler from its start, or
from the failure of an attempt, to its next wait (`Walk`: the candidates are asked
in order until one lets the call through; asking has effects on breakers, which
is what can go wrong). `CallEnds`, `Abandon`, `TimeoutInQueue` and `Timeout` are how attempts
end; `Take`, `Begin` and `WorkerEnds` are a worker's turns, which goes on for
callers that have given up; `Register`, `Unregister` and `ChangeRule` are what an
administrator does meanwhile; `BreakerDue` and `WindowSlides` are time. `lost` is a
history variable: providers whose half-open breaker gave a probe to a call that
will never report. Priorities, token limits, expiry of cache entries and averages
are left out; scores are in `ProviderSelection`, so that here any admissible
candidate may be the first of the chain.

### Plugins, tools, lifecycle, pipeline, agent runs

* `PluginManager`: every call runs under one lock, its hooks included. `careful`
  is chosen initially: clients then disable a plugin before they uninstall it;
  hooks fail in either case.
* `ToolExecution`: a call's `threads`, one an attempt, go on after a timeout; the
  caller may be cancelled, the token set, rules and tools changed meanwhile.
* `Lifecycle`: `run()` and tasks that call `shutdown()`; a step goes from one hook
  point to the next.
* `Pipeline`: requests of one session share its cancel entry; a stage has one of
  four failure policies; the deadline may pass in any wait.
* `AgentRun`: plan, loop, policy verdicts, tool attempts with two timeouts, router
  failures, an overall timeout, and both ways to cancel.
* `KernelExecution`: retries of a tool within a retry of a skill, with a token.

### Stores, versions, nesting

* `WorkflowStores`: an operation reads a JSON document, writes the temporary file
  and renames it; a crash may fall between any two of these. `memory` is the store
  in memory that is to look the same.
* `SessionStore`: one file for each session, written in place: a crash in a write
  loses what the file had.
* `WorkflowDefinitions`: registry with its published pointer, store, restart in
  store order, and plugins that register versions (`provided`) and whose uninstall
  takes the whole workflow out of the registry, but not out of the store. `apart`
  are the versions in which registry and store differ since: the properties leave
  them out until the next start brings them together.
* `WorkflowNesting`: nested steps share the ids and the list of executions of the
  engine; approvals in nested steps, join modes, the outer step's retries and its
  error policies: skipped or ignored, it is completed though nested steps failed. A
  thread (`threads`) is a call of `_run_nested_steps`, or the calls that a loop or
  a sequential join makes one after the other: the steps of its round and the
  rounds to come. `Move` is one call of `_execute_step` that returns without
  waiting, or reaches what it awaits; nothing else happens until all threads wait
  or are over (`Awaiting`), as in the loop of the process.

### Computations

`WorkflowGraph`, `WorkflowValidation`, `WorkflowTemplates`, `Cron`, `PluginOrder`,
`ProviderSelection`, `Chunking`, `Retrieval`, `Intents` and `Deliberation` are
compared, over all inputs within their bounds, with reference definitions that
say what the answer is instead of how it is found: well-founded orders, the
engine run on what the validator accepts, the least minute that matches, chunks
that have every letter of a text in order, rankings that miss nothing better. Where the code's
answer differs from what its documentation says, the reference says what the code
does and section 6 names the difference.

## 4. Runs

| run | bounds | distinct states | what it shows |
|---|---|---|---|
| `ExecDiamond` | diamond of 4 steps, all four error policies, one retry, two approvals (one automatic), concurrency 2, 3 calls of `run()` | 1 448 | order, no re-run, waiting runs have a request that can be decided, failure before pause; implements `DurableRun` |
| `ExecTimed` | 3 steps in two waves, overall timeout 3, attempt timeout 2, backoff, concurrency 1, 2 calls | 217 | TIMED_OUT only after the deadline; every call ends although steps may hang |
| `ServiceWaiting` | 2 runs of clients or schedules, one key, one client resume, one crash at any point | 614 091 | if clients leave executing runs alone: final statuses, decisions, effects, keys and timelines survive; no accepted run is forgotten |
| `Scheduler` | 2 schedules of any kind, cap 1, period 2, time 0..6, one stop or crash | 707 940 | counts, one-shots, intervals, edits, nobody is overtaken twice by the same one |
| `AgentManager` | 1 session id, 3 tasks, 2 attempts, 2 waiting calls, one stop or crash | 148 414 | store and registry agree, one task each, outcomes are kept, calls return |
| `LLMRouter` | 2 providers (the second the other's fallback, rate limited, and registered or not), 2 requests (queued; queued or stream, pinned or not), thresholds 1, cache of 1, one change | 499 654 | breakers stay consistent, an unfinishable recovery has lost a probe, answers belong to their attempts, queued requests end |
| `Platform` | below | 528 881 | one property for each group of components |
| `ExecOverrun` | as `ExecTimed` | | **violated**: finding 1 |
| `ServiceLostCancel` | one run, clients at any time | | **violated**: finding 2 |
| `SchedulerRerun` | one schedule, one crash | | **violated**: finding 3 |
| `RouterStuckBreaker` | as `LLMRouter` | | **violated**: finding 4 |
| `LoopRunsOnce` | as `Platform` | | **violated**: finding 5 |

`Platform` folds small instances of components that share no state into one
model: a variable `subject` says which of them moves, the others keep an initial
state, so the states are those of one component after the other and each
component is checked completely within its bounds.

| property | components and bounds |
|---|---|
| `PluginsSound` | `PluginManager`: 2 plugins, a provider and a workflow that depends on it, 2 enables |
| `WorkAccountedFor` | `ToolExecution`: one call, one retry, one rule; `KernelExecution`: 2 retries of skill and tool; `EventBus`: 2 handlers, 2 events, 3 changes |
| `StopsOnce` | `Lifecycle`: `run()` and two tasks that stop |
| `StoppedGoesNoFurther` | `Pipeline`: 2 requests of one session, 4 stages, one for each failure policy |
| `AgentObeys` | `AgentRun`: 2 runs of one session, a plan of 2 steps, 2 iterations |
| `GraphSound` | `WorkflowGraph`, `WorkflowWaves`: every graph over 3 steps and an unknown id |
| `NestedOnce` | `WorkflowNesting`: 2 branches, a loop of 2 items, one retry, one approval, all four error policies |
| `DefinitionsKept` | `WorkflowDefinitions`: 2 versions, 3 revisions; `WorkflowStores`: 2 ids, 2 versions, 4 writes; `SessionStore`: 2 sessions, 4 snapshots |
| `CoreSound` | `Container`: 3 types in a circle, in whose factories other code resolves, registers, removes and fails, up to 2 deep; look-ups in `WorkflowStores`; `PluginOrder`: 3 plugins, depth limit 1; `ProviderSelection`: 2 providers; `Telemetry`: 2 providers, a log of 2, 4 records; `WorkflowValidation`: about 3 200 definitions of up to 2 steps with nested ones; `WorkflowTemplates`: expressions of up to 3 tokens over 2 inputs and a step's output; `Cron`: about 110 expressions, malformed ones included, on 4 days around the end of a month |
| `KernelSound` | `Cognition`: 2 requests, one failure, 2 rules; `KernelMemory`: 3 records of 2 notes, a capacity of 1, a window of 2 |
| `KnowledgeSound` | `Chunking`: texts of 6 characters, full stops and white space among them, 2 sizes; `KnowledgeStore`: 2 documents, 3 loads, a cache of 2; `Retrieval`: 3 chunks of 2 documents, 2 variants of a query, 2 changes of the index; `Intents`: texts of 4 characters; `Deliberation`: problems of 8 words, 2 refinements; `Experience`: 3 records |

Why the bounds are enough. A wave of two tasks has every pairwise outcome
(failure with pause, two pauses, skip with success) in both orders, and the
diamond has a wave before and after it. Three calls of `run()` allow two pauses
and a crash in either order. Two runs with one key are the least for a duplicate;
the second request can arrive in every state of the first, restarts included.
Two schedules under a cap of one are the least for one that is passed over; time
0..6 with period 2 gives every schedule four occurrences, so that one can be fired
three times in all, also while the other one waits, and some can be missed while
the process is down. Sessions touch only their own entries of the
manager's tables (`shutdown()` apart, which treats all alike), so one id is
enough; three tasks are the least for a run, its resumption and a stranger with
the same id. Two providers and two requests are the least for a fallback that
meets another request's probe, a worker that is busy for someone else, and an
answer that comes when the breaker has changed its state; with thresholds of one
each single outcome moves a breaker. In `Platform` the numbers are the least at
which a limit is passed: a cache, window, log or index that must drop something,
a second request or stopper that meets the first, a retry after a retry, a third
plugin beyond the depth limit, a calendar that crosses a month's end. Every bound
is a constant named in the module, commented `bound`. Where bounds are reached the
system may stop in the model, hence `CHECK_DEADLOCK FALSE`; an idle service is in
fact at rest. Nothing bounds the theorems but the constants themselves.

No symmetry is used: most runs that could profit check liveness.

### Fairness

| module | assumed | because |
|---|---|---|
| `WorkflowExecutor` | tasks that can go on do, due timers fire, time passes; nothing of the code of a step | asyncio runs ready callbacks; a step may hang |
| `WorkflowService` | executions end, startup goes on, a dead process is restarted | `EngineTerminates` with an overall timeout; deployment restarts the container (`docs/DEPLOYMENT.md`) |
| `AgentManager` | the steps of tasks happen, waiting calls go on, shutdown ends | `AgentRunConfig.overall_timeout_s` bounds each run of the runtime |
| `LLMRouter` | the handler of a queued request goes on after a failed attempt, and the timer of its wait fires; nothing of providers and workers | `submit()` waits under `asyncio.wait_for` |

All of it is weak fairness of actions that stay enabled until they are taken; no
client is assumed to do anything. The components of `Platform` are checked for
safety only.

## 5. Theorems

Checked by TLAPS for every value of the constants that the modules' `ASSUME`s
allow. Each proof has the same shape: an inductive invariant, a lemma that `Init`
implies it, one lemma or step for each action, and a temporal step at the end.

**`WorkflowExecutorProofs`** (any acyclic graph, timeouts, retries,
concurrency). `TypeCorrect`, `DependencyOrderHolds`, `StoredNeverRerunHolds`.
`DependencyOrder` alone is not inductive: that a task may start depends on the
engine's records, and those extend the stored ones. `IInv` adds to it how locals
and stored run are connected (`Connected`: the stored outcomes are among the
records while the engine is active, a step in a wave has no record yet unless it
is done, and between two calls there are no locals).
`SucceededComplete` (without an overall timeout, a SUCCEEDED run has finished
every step) needs that `FinishRun` finds no ready step only when none is left,
which is where `DepsAssumption` (the validator rejects cycles) is used.
`Refinement`: without an overall timeout the engine implements `DurableRun`;
with one it does not, which is finding 1.
`FailureNotMaskedHolds` needs no invariant: only the end of a wave hands over
events, and it looks at errors before pauses. `WaitingIsActionableHolds` needs
`Awaited`, which says of the stored run what the property says of the table of
requests: the newest request is for a step that is not finished and whose
dependencies are; `NewestIsLatest` then makes it the one `_find_approval` returns.
`TimedOutMeansLateHolds` assumes that no step raises `TimeoutError` by itself
(`OwnTimeout = {}`) and rests on `InBudget`: the time left overall is never more
than the budget of the wave, nor than what a running attempt has left, so that an
attempt whose time is up finds the run's up as well.
`ApprovalGateHolds` (an approval step succeeds only with a request that was decided,
or that expired under automatic approval) needs that the latest request of a step,
which `_approval_executor` goes by, is one of them (`LatestExists`), that no step
takes a decision back (`GrantedStays`), and the same of the stored outcomes, to which
a crash returns (`Gated`). `SlotsBoundedHolds` counts: an admitted task joins those
past the semaphore only where there is room, every other step only takes away.
These two and `ConcurrencyBoundedHolds` state invariants that no run lists.

**`WorkflowServiceProofs`**. `OneRunPerKeyHolds` for all interleavings,
`CallersWait` or not: no action but `Execute` gives a run its key or version, and
`Execute` looks the key up under the lock. Under `CallersWait = TRUE`:
`TerminalIsFinalHolds`, `DecisionKeptHolds`, `EffectBoundedHolds`. The
invariant (`Settled`, `Counted`) says that a run has at most one execution, that
the execution's `base` is still the stored run and not terminal, and that the
effect has happened no more often than the process died as long as neither the
stored run nor its execution has the step as finished. The first two are what
`CallersWait` buys, and what `ServiceLostCancel` shows missing without it.
`TimelineFaithfulHolds`, also under `CallersWait`, adds `Timelines`: the cursor of a
run is never ahead of its events and, as long as the process has not died, has
passed all that are stored, so each save appends just the new ones. What the
scheduler appends does not move the cursor and need not: it says which events of the
run are in the timeline, not how long that is. That there is at most one notice
rests on a run having at most one execution with a fire waiting for it, the one
that `Execute` starts.

**`WorkflowSchedulerProofs`** (any number of schedules, limits, times and
stops). `ActiveIsInFlightHolds`; `EditsSurviveHolds` under `EditorsWait`;
`OneShotOnceHolds` under `Limit = 1`, without `EditorsWait`. The last one rests
on three facts: a one-shot that has a run is spent or still has the fire that
started the run (`SpentOrFiring`), no fire that has yet to start is for a one-shot
with a run (`NoFireToStart`), and the counts are exact, so that with limit one
there is no second fire. `NoBurstHolds`, under `Limit = 1`, needs to know of each run
of an interval schedule either a fire that is at least an interval away or a
stored `next` that is (`ApartInv`); a crash loses the fire and keeps the old
`next`, hence the property's premise that there was none.
`OvertakenOnceHolds`, under `Limit = 1`: a schedule that has overtaken one that still
waits (`Passed`) has a fire in progress, from no earlier than the other one is due
since, or will not be due before it (`Behind`), so that the order of `tick()` puts it
behind. Graceful stops, crashes and edits of the schedule itself start a new count.
`ConcurrencyBoundedHolds` (no more fires in progress than the scheduler allows)
needs that the sum by which the scheduler admits is the number of fires: the places
that are taken and the fires are in bijection (`TakenIsFires`). A poll creates at
most as many fires as it chooses schedules (`PollBounded`), and no other step
creates one.

**`AgentManagerProofs`** (any number of sessions, tasks, waiting calls, shutdowns
and crashes). `TypeCorrect`, `StoreFollowsHolds`, `TablesMatchHolds`,
`StopsHonouredHolds`, `OutcomeKeptHolds`, `OnlyOnRequestHolds`. The invariant `Inv` says of each
session that is not orphaned (`Good`) that session, task and tables go together
(`Matched`), that calls wait for its present task or an earlier one and a delete
for the present one (`Heard`), that a pause flag has a pause that waits for the
present task (`PauseWaits`), and, as long as no two calls met, what the one that
waits will find (`Alone`). The tables alone are not inductive: a task that ends
decides by the flags which status it leaves, and a delete that returns removes
whatever session has the id by then. Most steps do not concern most sessions;
`Frame` deals with those once: a step that leaves a session `Unmoved` keeps it
`Good`.
`OnlyOnRequestHolds` (no run lists it) is the converse of `StopsHonoured`: who
finds a session paused or cancelled has stopped it, or someone who still waits has.
It needs that no two sessions share a token and a new token was never cancelled
(`TokensApart`), and that a task whose token is cancelled has a call or a shutdown
waiting for it (`Heeded`), a pause as long as its flag is up.

**`LLMRouterProofs`** (any providers, chains, limits, thresholds and requests).
`BreakersSoundHolds`: the methods of a breaker keep it consistent from every
consistent state (`NewSound` to `OnFailureSound`), so it does not matter that
answers arrive late and count in whatever state they find.
`AnswerIsOfAttemptHolds`: the invariant says that a live request's position is
within its chain (`RequestsWell`) and that what a queue or a worker holds names an
existing request, position and prompt (`ItemsWell`); a worker's result is for the
request only if this still waits at that position (`Mine`).
`StuckOnlyByLossHolds`, for finitely many requests, adds `Outstanding`: a half-open
breaker whose outcomes were not lost has given away no more probes than it counted
successes and has calls running, taken or queued (`Load`). A walk adds at most one
probe and one call, an outcome takes one call away and either counts as a success
or opens the breaker, an answer from before only has more calls than probes.

**`CoreProofs`** (any plugins and dependencies, tasks that stop the application,
requests, stages and policies, versions, documents and sessions). For each
component a theorem about its own specification, and from these
`PluginsSoundHolds`, `StopsOnceHolds`, `StoppedGoesNoFurtherHolds`,
`DefinitionsKeptHolds` and `GraphSoundHolds` about `Components`.

* `RegistryConsistentHolds` needs only that the tables agree (`Tables`), however
  hooks fail. `NothingLeftBehindHolds` needs how a plugin's state goes with what
  is wired and tracked for it (`Wiring`), which holds as long as clients are
  `careful`.
* `LifecycleStopsOnce`: that a hook has begun does not yet say that it will not
  begin again. `StopInv` ranks the points at which `run()` can be: the hooks that
  have begun are none that are still to come, and those after the stop have
  begun only if the stage is "stopped", from which no transition leads.
* `RequestsStop`: `PipelineInv` says of each run that the stages before its own
  have left their results or may fail, and that a request whose session was
  cancelled while it was active bears the token. A dispatch may pass several
  stages whose time is up before it awaits again (`Dispatch`); the lemmas
  `RunOver`, `RunNext` and `RunFailed` say what any such way through leaves.
* `VersionsKeptHolds`: the registry refuses to replace a published version, but
  the store refuses nothing. `RegisteredInv` therefore says that what is stored
  as published is registered as it is stored, and that the registered versions
  of clients are the stored ones; a restart registers exactly what is stored. All of
  it but for what is `apart`: once an uninstall has taken a workflow out of the
  registry, nothing protects its published version in the store (section 6).
* `FileKeptHolds`: file and memory are the same document, and what an operation
  under way will make of either is the same (`DocumentInv`). An operation's
  result is computed from the file for one and from memory for the other, so each
  has a lemma that equal documents give equal ones.
* `SessionsKeptHolds`: the snapshot being written is the session's own, as long
  as nothing suspends within `save()`; a file without a snapshot is being written
  or was torn (`SnapshotInv`).
* `GraphSoundHolds`: what the topological sort and the search for cycles compute,
  for graphs of any size. The sort is a loop, written as a recursive function. The
  library's induction is out of the provers' reach, so what is needed of it is
  derived from the least element of a finite set (`WFMin`): the loop has a state
  after each round (`KahnRecursion`), and what one round preserves holds after all
  of them (`Climb`). The loop invariant is `KahnInv`: an in-degree counts the
  dependencies that were not emitted, and the list has exactly the steps that wait
  for nothing else. At the end no step is left that waits only for emitted ones
  (`Sorted`). What is missing from a sorted list therefore waits for itself, or for
  an id that is no step (`MissingIsCyclic`), and a sorted list rules out both.
  `GraphInv` is the engine's side: what has run is in the list.

**`ExecutionProofs`** (any number of calls, retries, rules, topics, handlers,
runs of agents and steps of their plans, branches, bodies and items of nesting
steps, requests, rules and failures of the kernel's stages, notes, capacity and
window of its memory), likewise with
`WorkAccountedForHolds`, `AgentObeysHolds`, `NestedOnceHolds` and `KernelSoundHolds`
about `Components`.

* `ToolWorkAccounted`: as long as no attempt timed out, the only thread that can
  run is the last one, and only while the call waits for it or was abandoned
  (`Heard`).
* `ExecutionSoundHolds`: what a skill has returned, where its tool is and how many
  attempts came after a cancellation go together (`Progress`, `Late`).
* `DeliveredInOrderHolds`: the order of what has started is inductive only
  together with the order of what waits. `InTurn` orders the whole queue, started
  and waiting: two deliveries (`Before`), two emitted events whose publication
  waits, and a delivery and such an event (`Apart`), which will put its deliveries
  at the end of the queue. That a handler is called once through each
  subscription needs that each list of handlers has none twice, and that no topic
  is the key "*" (`BusAssumption`): a handler of "*" would otherwise be called
  twice through one key. Events are published under their class's names, and
  nothing under `src/` emits "*".
* `RunsObey`: `AgentInv` says that up to its last step a run's outcomes are all
  successes of the tools that worked, in the order of the plan (`StepsInTurn`), and
  that the token table has only runs that are not over (`Tokens`), so that a
  cancellation never reaches a run that has answered. The end of a run fills up
  the outcomes (`Filled`), and then all of them are successes only if none was
  missing.
* `NestedOnceHolds`: that a step is looked up in `completed` before it runs does
  not yet keep it from running twice, since other threads go on while it runs.
  `NestingInv` says that a step that runs is not completed (`Unfinished`), which
  another thread's progress leaves alone because a thread only has steps of its
  own branch to run (`ThreadsFit`, `StepsApart`). This is where the proof needs
  that no id is used twice (`NestingAssumption`), which the validator demands
  before a definition is published; of a draft that is executed by its version,
  without having been validated, it says nothing. Under SKIP and IGNORE the outer
  step is completed after a failure: the theorem then says that no nested step goes
  on behind it, and nothing of how far its path came.
* `KernelSoundHolds`: the stages fill the fields of one context from one another,
  and under two of the four policies a stage that failed is passed over. `CogInv` has
  four parts: what a field holds was made of the other fields of this request
  (`CogContext`); a field is missing only if its stage failed or needed one that is
  missing, for the stages that are already over (`CogProgress`, with `Through`);
  each goal is kept under its own number, with the goals below it (`CogGoals`);
  no request is recorded twice, or before its stage (`CogExperiences`). That what
  is denied stays denied needs `CogDenials`: nobody takes the built-in rules back.
  `FirstRule` says that among the rules that apply one comes first, whatever their
  number, and `DecidedFirst` that of a plan with a step its first one is decided on.
  The memory's part rests on what it is to sort: `KernelMemory` writes each of the
  engine's three sorts as an order by keys (`Less`), in which a record's place is the
  number of records ahead of it. The lemmas `RanksGrow`, `RanksApart` and
  `RanksMet` show that the places of a finite set are 0, 1, 2 and so on, each of one
  member, by counting and not by induction over a sort; so a sorted list has every
  member once and in order (`SortIsRight`), and the first n of a set are n members
  that come before the others (`FirstCount`, `FirstIsRight`). `KeysAreKeys` makes
  them facts about the engine: the keys of two records differ since their ids do,
  which is what Python's stable sort comes to. `MemInv` has the rest: what was
  promoted is in the long-term tier, which no prune takes from. `SearchIsRanked`
  splits what a search missed by where it was lost: outside the window there are as
  many newer records as the window is wide; a score of 0 means that neither a word
  nor a tag was found (`ScoreIsRight`); beyond the limit the answer is full of
  records with no lower score. Scores are exact in the model, where the code rounds
  them to four places.

`PlatformAssumption` collects what these proofs assume of the constants: numbers
are natural numbers, a pipeline has a stage, its policies are the four of the code,
rules name tools and plugins depend on plugins, "*" is no topic, the ids of
nested steps are those of no other step, a graph has a step and the unknown id is
none of its steps, the kernel's intents are those its tables have entries for
and its rules are rules, and what is to be remembered has finitely many words and
tags. TLC evaluates it on the instance of
`Platform.cfg`.

Only model-checked:

* liveness, since TLAPS does not reach fairness: `EngineTerminates`,
  `EveryRunLeavesPending`, `EveryCallReturns`, `EveryRunEnds` and
  `QueuedRequestsEnd`;
* `CoreSound` and `KnowledgeSound`. Their components compute with `RECURSIVE`
  operators (`PluginOrder`, `WorkflowValidation`, `Chunking`, `Intents`),
  which take the SMT solver from every module that reaches them, or with the sorts
  and folds of the libraries (`SortSeq`, `SelectSeq`, `FoldLeft`), of which the provers
  know nothing.

## 6. Findings

With a run that exhibits them:

1. `ExecOverrun`: a run that exceeds its overall deadline between two waves is
   marked TIMED_OUT and then stored as SUCCEEDED with steps missing.
2. `ServiceLostCancel`: a cancel during an execution is overwritten by its end.
   With `CallersWait = FALSE`, `DecisionKept` and `EffectBounded` fail likewise.
3. `SchedulerRerun`: a one-shot schedule whose run was resumed after a crash is
   fired again under a new key.
4. `RouterStuckBreaker`: a half-open breaker gives its probe to a call that a
   policy or the rate limiter then refuses, or to a stream that is abandoned; it
   never learns the outcome and stays half-open.
5. `LoopRunsOnce`: the steps of a loop run for the first item; for the others the
   loop reports whatever execution was recorded last.

Met while modelling, without a run of their own.

Workflows:

* Of two approvals that pause in one wave only one gets a request
  (`executor.py:250`).
* A fire saves the copy of its schedule that the poll read, so edits made
  meanwhile are undone and a deleted schedule comes back (`scheduler.py:305`);
  `EditsSurvive` assumes `EditorsWait`.
* A TimeoutError raised by a step's own code is taken for the deadline's
  (`executor.py:453`); `TimedOutMeansLate` therefore assumes `OwnTimeout = {}`.
* The budget of a wave is computed before the semaphore and the backoffs
  (`executor.py:228`), so attempts may run past the deadline by the time they waited.
* A resume of a waiting run adds a second request to its step; a decision on
  the first one is accepted and has no effect. The route looks up the first
  (`server/routers/workflows.py:396`).
* After a restart the cursor of a timeline starts at 0, so its events are
  appended again: the timeline has duplicates. A crash between storing a run and
  appending its events leaves it short. No other run's events get into it
  (`TimelineFaithful`); the notice of the scheduler does, which the run's own event
  log does not have, so that a run executed by a schedule has a timeline that is one
  longer.
* `_fire` has a branch for a run that exists already (`scheduler.py:232-238`);
  the key contains the time of the poll, so no run can have it.
* With `max_concurrent_runs` of 2 or more, an occurrence that is still being run
  is fired again at the next poll: `next_run_at` only moves in `_advance`.
* A PATCH of a schedule keeps the old `next_run_at`, and stores a cron
  expression unparsed: a malformed one makes `_advance` raise and `restore()`
  fail the next startup.
* The published pointer is lost at a restart: `execute()` without a version then
  raises, and `get_definition()` returns the highest version even if it is a draft.
  Deleting a whole workflow removes published versions too; a POST may create a
  definition already PUBLISHED; publishing a lower version makes it current;
  `deprecate()` is called by nothing.
* Uninstalling a workflow plugin unregisters the workflow without a version
  (`plugins/manager.py:743`), which drops every version and the published pointer
  (`registries.py:66-69`), those of clients included, although the docstring says that
  published workflows "are deliberately left in place" (`manager.py:732-734`). They
  stay in the store; until the next start they cannot be run, and a create under the
  same id and version replaces the stored published one.
* Nested steps: join mode "none" turns an approval's pause into an error, "any"
  raises if the first branch fails; nested steps get no share of the remaining
  budget; with IGNORE an outer step is SUCCEEDED, and with SKIP it is SKIPPED, though
  nested steps failed or never ran; agent and sub-workflow steps whose session or
  child failed count as SUCCEEDED. The `OutputStore` of an "isolated" branch is never written.
* Templates: the docstrings' `${step.output.x}` is not what `resolve_expression`
  knows; text before the `${...}` of a condition is ignored; the first operator of
  a fixed list counts, wherever it stands; `${flag} == true` compares a truth with
  a text; a negative index counts from the end for outputs and is refused for
  inputs; a loop item None lets the input of that name through.
* The validator does not look at `depends_on` of nested steps.
* Cron: `*/n` in a day field counts as a restriction; the step after a single
  number is ignored; numbers out of range are dropped silently, and a field that
  is then empty makes the search run through five years and raise.
* A corrupt JSON document is read as empty, and the next write replaces it; the
  temporary file is not synced before it is renamed; the store in memory and the
  JSON store order and empty things differently.

Agents:

* A session that was RUNNING when the process died is restored RUNNING without
  a task. `cancel()` returns it RUNNING though its docstring says CANCELLED
  (`manager.py:213-214`), `resume()` refuses it; a `pause()` leaves its flag behind.
* `cancel()` returns PAUSED if a `pause()` of the same run was called as well.
* A delete that waits removes the session even if it was resumed after the run
  it waited for had ended. The resumed task then runs without a session, or ends
  whichever session is created under the id next.
* A session's file is written in place: a crash tears it, `list()` skips it and
  `load()` raises. Deleting a session that is not in memory leaves its file.
* `AgentRun`: the step's timeout equals the tool executor's, so a retry after a
  timeout never gets to run; runs without a session share the key ""; a failing
  router makes `run()` raise; an experience may say success where the answer says
  TIMED_OUT or CANCELLED; the cancellation of the task is swallowed.

LLM router:

* A queue worker dies when it sets the result of a caller that has given up
  (`llm/request_queue.py:235`); what is queued waits for the next submit.
* A request larger than the whole token limit makes `wait_time()` take the minimum
  of an empty list (`request_queue.py:151`).
* A late answer is cached and counted for a provider that is no longer registered;
  a pinned request may be answered from another provider's cache entry.
* The list of healthy providers the router passes on is always empty, so open
  breakers keep nobody out of a chain. `find_compatible` finds nothing for
  capabilities read from a provider; the JSON flag names no attribute.
* `MaxCostPolicy` reads a key the router never passes; CHEAPEST raises when nobody
  is affordable; WEIGHTED never advances; the load balancer and
  `execute_with_fallback` are not used by the router.

Plugins and core:

* `enable_all()` enables nothing: installed plugins are refused. Uninstalling an
  enabled plugin skips its disable hook and leaves its provider wired, one that is
  loaded or disabled never gets its uninstall hook; installing an enabled plugin
  again resets its state; enabling twice registers twice; an unload hook that fails
  leaves the workflow behind (`NothingLeftBehind` says what clients can rely on).
* `_run_coroutine` called on the loop's own thread waits for that loop, with the
  manager's lock held (`plugins/manager.py:50-57`).
* `_sort_by_deps` never ends on a circle; the core's loader accepts circles
  silently; whether the depth limit is met depends on the order of a dictionary.
* A factory that clears the container makes the resolution it was called by raise
  IndexError (`dependency_container.py:179`), whatever it returns.
* `register_factory` of a class calls it without injection although `resolve()`
  promises it; `emit()` drops its data; a handler of a topic and of "*" is called
  twice; an awaited `publish()` overtakes emitted events.
* Lifecycle: four stages do not allow STOPPING although a comment says that any
  stage does; two concurrent `shutdown()` both run the before-stop hooks; a
  shutdown during the after-start hooks leaves `is_running` TRUE.

Tools and kernel:

* The thread of a tool runs on after a timeout, beside the next attempt;
  `requires_confirmation` is not looked at by `ToolExecutor`.
* A second request of a session takes the first one's cancel entry, and its end
  removes it; a run cancelled within a stage answers "no response was produced";
  an engine that is not registered bypasses the failure policy;
  `execute_from_stage` changes the stages of concurrent requests.
* A failed policy stage under CONTINUE answers success; a verdict "confirm" or
  "sandbox" counts as success; a rule of equal priority overrides a built-in deny;
  built-in denies match nothing the decision engine produces; the number of
  experiences in an answer is always 0; active goals are never removed.
* `MetricsCollector.record_start` is called by nobody; cancelled attempts publish
  no event. The quality of exactly 0.8 comes out just below the threshold;
  consistency can never fail; decomposition of an empty problem raises.
* Retries of a tool within a skill multiply.

Knowledge:

* The server's pipeline asks a BM25 index that nothing fills, so its search routes
  find nothing that was ingested; `/knowledge/query` promises several variants of a
  query and sets none.
* `RetrievalPipeline` raises `UnboundLocalError` when a stage before the citations
  fails; vector retrieval ignores namespaces; several variants are concatenated, so
  that later ones rank lower.
* `RecursiveChunker` drops the separator where a chunk ends, and ends chunks at ". ":
  the full stop of the last sentence is in no chunk (`recursive.py:59-94`).
* `FixedChunker` does not end when the overlap reaches back behind a paragraph
  break, and may emit a last chunk that the one before contains.
* `rebuild()` clears the store before it ingests anew; deleting a collection leaves
  its vectors; the statistics of the index' size are stale after a delete; the
  incremental indexing a docstring describes does not exist; FAISS refuses an empty
  list of chunks.

## 7. Not modelled

What steps, tools, agents and providers compute (free choices of how they end);
the HTTP server with its schemas and authentication; requests to vendors' HTTP
interfaces and the parsing of their answers; the parsing of file formats and
bindings to vector databases; what single built-in tools do; the import hooks of
the plugin sandbox; configuration, wiring, data classes, interfaces and exceptions.
These are pure I/O, or have no behaviour of their own.

Within modelled parts: a PATCH of a schedule; a session that is not persisted;
cancellation of request handlers by the server, which would cancel the task that
`await_completion()` awaits; priorities and token limits of the request queue,
expiry of cached answers; texts beyond the word classes and tokens that the
properties tell apart; real distances and floating-point scores (scaled integers,
with the one rounding that decides a verdict kept); several processes on one
directory; conversions between data classes and JSON. `automation/workflow.py`'s
listings and look-ups only read. Components without a module and the reasons are
listed in `PROJECT.json`.
