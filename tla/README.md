# A TLA+ verification of gocrewwai

gocrewwai is a Go framework for crews of language-model agents: an SDK (`pkg/`,
`gocrew/`), a REST server (`pkg/api`), a dashboard (`pkg/dashboard`) and a CLI.
This directory models the parts of it whose correctness depends on the order in
which goroutines, requests, messages, failures and crashes happen, checks the models
with TLC, and proves the central invariants with TLAPS for every value of the
constants.

## Running it

    tlc -config MCKickoffApi.cfg MCKickoffApi       # every run is listed in PROJECT.json
    tlapm KickoffApiProofs.tla                      # every *Proofs module

Runs marked `violation` in PROJECT.json end with a counterexample on purpose: each
states what a comment or a document of the repository says, and TLC shows a behaviour
of the code that contradicts it.

## Inventory

| Component | State | Operations | What is hard | Module |
|---|---|---|---|---|
| REST kickoff endpoint, `pkg/api` | idempotency ledger and its reverse index, session table, `kickoffSem` | `POST /crews/kickoff`, worker, restart | several locks one after the other; rollbacks on five error paths; retries | `KickoffApi` |
| Tasks and agents, `pkg/tasks`, `pkg/agents` | attempts, result, ReAct loop, pending reviews | `Task.Execute`, `Agent.Execute`, `RequestReview`, `SubmitReview` | retries nested in retries; late and double answers of humans | `AgentTask` |
| Execution controller, `pkg/telemetry` | `paused`, a mutex and a condition variable | `Pause`, `Resume`, `WaitIfPaused` | a mutex handed between goroutines, cancellation | `ExecutionController` |
| Crew, `pkg/crew` | tasks, futures, checkpoints, workers | `Kickoff`, `Replay`, `Train`, six processes | parallel workers, feedback, async tasks, crash and resume | `CrewSequential`, `CrewGraph`, `CrewProcesses` |
| Checkpoint stores, `pkg/crew` | versioned files, keys or rows, latest pointer | save, load latest, delete, clean up | several writes per save, crashes between them | `CheckpointStores` |
| Flow engines, `pkg/flow`, `pkg/flows` | merged state, received events, state file, checkpoints | nodes, routers, parallel and map nodes, resume | joins, cycles, crashes during a save | `FlowSequence`, `FlowGraph` |
| LLM client, `pkg/llm` | breaker, token bucket | `Generate` and its variants through failover and middleware | results that arrive after their state has gone; trials; timeouts | `LlmClient` |
| Providers, usage and budget, `pkg/llm` | spend, price cache | the clients' entry points, `AdmitBudget`, `Record` | check, then call, then charge | `Providers` |
| Memory, `pkg/memory` | items of seven backends, write queue | remember, recall, forget, reset, close | lost answers, overlapping erasures, queue at its limit | `Memory`, `MemoryStores` |
| A2A, discovery, delegation | breaker per endpoint, registry | send with retry, serve, stream, scan, delegate | lost answers, repeated work | `A2a` |
| Mesh (gRPC) | agents, role locks, listener | start, rpcs, stop | locks taken one after the other, draining | `Mesh` |
| MCP | pending requests, pipes, reader | discovery, call, cancel, close | out-of-order answers, ids from the clock, life of the server process | `Mcp` |
| Dynamic registry and dashboard | staged entities, queues | create, replace, delete, pull, run | requests between two pulls, deletion by index | `CreatorMode` |
| Event buses and streams | subscribers, channels | publish, subscribe, leave | send on a closed channel | `EventStreams` |
| Rate limiters | sliding windows, token buckets | admit, evict, sweep | full tables, idle eviction, a clock read before the lock | `RateLimits` |
| Server process | kickoffs in flight, shutdown | start, signal, shutdown, health | waiting for what keeps coming | `ServerLifecycle` |
| Sandboxes, code tools | module cache, containers, processes | run, time out, clean up | two lock sections around a compilation, answers that are lost | `Sandbox` |
| ADK adapter | granted tools, session, state cache | run, run with tools | grants that must end | `Adk` |
| Other tools, knowledge, files, i18n, configuration, CLI | none shared | I/O, text processing | - | - |

Components meet in these places: the REST worker and the dashboard's engine call
`Crew.Kickoff`; every process calls `Task.Execute`, which calls the agent, which calls
the memory, the LLM client, its tools (MCP, A2A and sandboxes among them) and the
review manager; `Kickoff`, the sequential loop, tasks and agents all call
`WaitIfPaused`, and the dashboard's handlers call `Pause`, `Resume` and `SubmitReview`;
crews and tasks publish on the event buses, which the SSE endpoint and the dashboard
read; the mesh and A2A servers run agents for remote crews. A caller's module takes the
outcome of what it calls as a free choice among those the callee's module produces
(an `Execute` in `CrewSequential` or `CrewProcesses` succeeds or fails, which is all
`AgentTask` lets it do).

The hazards that follow from this, line by line, are in PROJECT.json, with the
properties that cover them, or the reason why none does.

## Modules

Modules that share nothing are checked in one run: `MCTasks`, `MCCrew`, `MCMemory` and
`MCServices` choose in their initial state which machine moves, so the state spaces add
up and do not multiply. A behaviour of such a run is a behaviour of one machine, the
others keep their initial state. Where two machines of a run have fairness, it excludes
no behaviour of the one by the rest of the other: in `MCCrew` no fair step of a machine
that rests is enabled, and in `MCTasks` the fair step of the task is `GoesOn` with the
task as the machine that moves, because the task could start in every initial state.

### KickoffService, KickoffApi (`pkg/api/handlers.go`, `pkg/api/server.go`)

`KickoffService` is the abstract promise: a worker starts a crew in one step, only for a
session that no crew runs for, under a key that was never used and with a slot to spare;
crews end, and a restart forgets everything. It knows neither ledger nor session table
nor semaphore. `KickoffApi` is the code.

A member of `Requests` is an HTTP request with the worker goroutine it spawns.
Each lock section is one action, in the order of the code: `HandleKickoff`
(`checkIdem` misses), `ReserveIdem`, `SessionGate` (the check under `RLock` and the
validation of the payload), `PersistSessionStart`, `FinalizeIdem`, `AcquireSem`, then
in the worker `PersistSessionEnd`, `FinishIdem` and `ReleaseSem`; `ReleaseIdem` is the
rollback of every refusal. `Restart` empties the server. `launched` is a history
variable: the crews a key has started since the server started. The refinement mapping
(`CrewOf`, `UsedKeys`) shows the crews of the workers between `AcquireSem` and
`PersistSessionEnd`, and the keys in `launched`.

Properties: `KeyLaunchesOnce`, `SlotsAccounted`, `OwnerKept`, `KickoffRefines`;
`OneCrewPerSession` (no two workers run crews of one session) is contained in the last
one and is proved by itself.

### AgentTask (`pkg/tasks/task.go`, `pkg/agents/agent.go`, `reasoning.go`, `ReviewManager`)

`AgentInit` chooses a configuration. `Execute`, `Attempt`, `Guard`, `Reguard`,
`SaveOutput` and `PostHumanReview` are the task; `Start` to `Accept` and `Criticise` are
the agent's loop. An answer is a record of what the code can tell about it: is it a
string, does it fit the struct, do the agent's and the task's guardrails accept it.
`sending` holds the goroutines blocked in `SubmitReview`, marked by whether their channel
is that of the current review. `lastRun` remembers the decision the last tool run was
based on. A critique that does not approve executes the agent anew, as the code does:
without a count. Each such `Execute` is a new loop with fresh budgets and no state of
the one that called it, so the model needs no bound for it either; `ExecuteReturns` says
that a call returns, that the edit's stdin has ended, or that the agent is started over
by its critique again and again.

Properties: `GuardedOutput`, `ToolRunsApproved`, `ExecuteReturns`.

### ExecutionController (`pkg/telemetry/events.go`)

The one place where the code hands a locked mutex from one goroutine to another, so
the mutex and the condition variable are modelled themselves (external, by their
documented behaviour): `Check` spawns the helper with the mutex locked, `HelperWait`
unlocks it, `HelperDone` locks it again for the caller. `Cancelled` and `Unwind` are
the path through `ctx.Done`; `fatal` says that the runtime has killed the process.

Properties: `LockHandedOver`, `NoReturnWhilePaused`, `ResumeUnblocksAll`.

### CrewGraph (`executeGraph`)

`Init` chooses any dependency relation. `Scan`, `Launch` and `EndRound` are the main
goroutine; `Acquire`, `Fail` and `Succeed` a worker, whose output condition may send
itself or one dependency back. Dependencies are tasks of the crew and no task is listed
twice; a crew built otherwise would only see the deadlock error, or run a task twice.

Properties: `RunsAfterDeps`, `SuccessIsComplete`, `CircularNeverRuns`.

### CrewSequential (`executeSequential`, `async.go`, `pkg/core/persistence.go`)

A crew with a SessionID: `Kickoff` (also called by `Replay`) loads a checkpoint of
the latest second, the loop skips, dispatches or executes, `SaveCheckpoint` adds a
row, `Collect` waits for the futures. `Crash` builds the crew anew. Async goroutines
are kept per kickoff (`gen`): those of a failed kickoff still write the tasks. `ran`
is a history variable: the tasks that have been executed.

Properties: `ProcessedWasRun`, `ProcessedHasOutput`, `NoneAbandonedOnSuccess`,
`KickoffReturns`.

### CrewProcesses (the other four processes, `pkg/agents/manager.go`)

`phase` is the position of the kickoff's goroutine, `job` that of each worker: a task's
in the hierarchical process, an agent's in the consensual one. `Round`, `Join` and
`Replan` are a turn of the manager, `Spawn` and `Consolidate` the consensual process,
`ExecuteReflective` and `Review` the reflective one, `Turn` the state machine. `Train`
kicks the same crew off again. A manager that is a plain agent, without the operations
the code asserts, panics in a worker's goroutine.

Properties: `HierarchicalComplete`, `WorkersContained`.

### CheckpointStore, CheckpointStores (`checkpoint.go`, `redis_checkpoint.go`, `sqlite_checkpoint.go`)

`CheckpointStore` is the abstract promise: each crew has a latest checkpoint which only
moves forward and may be lost, and a `Save` is acknowledged only when it has become the
latest. `CheckpointStores` is the code: a `Save` is `WriteVersioned`, `WriteLatest` and
`Cleanup`, each of which may fail, be cut short, or be the last before a crash. A
checkpoint is the number of its save, 0 an unreadable one. The refinement mapping takes
`LoadLatest` for the latest checkpoint. `Shadows` is the file pattern of a crew that
also matches another crew's files.

Property: `StoreRefines`.

### FlowSequence (`pkg/flow`) and FlowGraph (`pkg/flows`)

In `FlowSequence` the nodes of a plain, persistent or typed flow run in order;
`SaveState` and `Rename` are the two halves of the atomic write. In `FlowGraph` a
thread is the goroutine of `Run` or of a branch; every node writes a checkpoint and
`Resume` goes on behind the newest one. A flow's state is the set of nodes whose output
was merged into it.

Properties: `ProgressDurable`, `EngineReturns`.

### LlmClient (`failover.go`, `middleware.go`, `circuitbreaker.go`)

Calls are concurrent. `BeforeCall` and `AfterCall` are the breaker's lock sections,
`WaitRateLimit`, `WakeUp` and `WaitCancelled` one turn of the bucket's loop,
`InnerReturns` the provider's answer, `SecondaryReturns` the failover. `age` counts
ticks since the circuit opened and stops at the cooldown. `blamed` is a history
variable: provider calls that failed since one succeeded.

Properties: `TrippedIffThreshold`, `TrialHasOwner`.

### Providers (`openai.go` to `openrouter.go`, `usage.go`)

An entry point of a client is a record of what distinguishes it: does it need a key,
does it ask `AdmitBudget`, how does it bill, how often does its transport retry, what
does it do with an answer that has no choice. A call goes through `RoundTrip`,
`Answer`, `CalculateCost` (with the price cache, whose refresh reads prices without the
lock) and `Record`. `overdrawn` counts the admitted calls that were charged when nothing
of the budget was left.

Properties: `BudgetBounded`, what the code achieves; `NoOverspend`, what the comment of
`AdmitBudget` promises, which a run of its own shows violated.

### MemoryStores, Memory (`pkg/memory`)

`MemoryStores` says what each backend stores, finds, deletes and reports for each
answer of its database, including the answers a client does not look at. `Memory` is
`UnifiedMemory` over one of them: every operation is a sequence of store calls, an
answer may be lost after the call was carried out, and operations of two users
interleave. An item carries the labels the filters look at: is it in a scope, which, is
it private, and of which source. A recall chooses its options: through a scope, a slice
or neither (`view`), with a source or without, the private memories included or not; it
searches scope by scope, and leaves out a scope whose search fails unless it is the only
one, as the code does. `erased` collects what a successful erasure was to erase.

Properties: `ErasureHolds`, `RecallIsolated`, `WritesDrained`.

### A2a, Mesh, Mcp (`pkg/protocols`, `pkg/delegation`, `pkg/api/mesh*`)

`A2a`: senders share a client; `CheckCircuit`, the request on the wire, `ServeA2A` and
the answer are steps, and each message or answer may be lost, after which
`SendWithRetry` sends it again. `Mesh`: an rpc passes two sections of the server's mutex
and the lock of its role; `StopMesh` and `GracefulStop` are the two steps of stopping.
`Mcp`: callers share a pipe each way, `reader` is the `readLoop` with the answer in its
hand, `proc` the server's process, whose life hangs on a context. The id of a request is
what `time.Now().UnixNano()` returns (`UnixNano`): a new time, or one that an earlier
request has read, since the clock is read without a lock and may be coarse or set back.
A request with the id of another takes its place in `pending`. `readLoop` ends with the
stream or at output that does not decode while the server runs on (`ReadEof`).

Properties: `CircuitHolds`, `SentIsHandled`; `AgentExclusive`; `AnswerMine`,
`ReaderFree`.

### CreatorMode, EventStreams, RateLimits, ServerLifecycle, Sandbox, Adk

`CreatorMode` has an action per dashboard handler and the engine's steps: the two
`Pull`s with a lock section each, `InjectAgent` and `InjectTask` for one object each,
`FullSync` and `CreatorKickoff`. The injection takes no lock, so requests fall between
the objects. `hoped` says of a task that an agent of its role was staged before it,
`withdrawn` collects the roles of agents deleted before the engine saw them.
`EventStreams` the publisher's loop over the subscribers as one step per channel;
`RateLimits` both limiters against a clock, a slice of times being the set of their
stamps: `ReadClock` is the reading of the clock, which the REST limiter does before it
takes its lock, so the sections run in another order than their times, and `Sweep`
evicts buckets after a time to live that has nothing to do with the window;
`ServerLifecycle` `main`, `Run` and `Shutdown` with kickoffs that keep arriving;
`Sandbox` the two lock sections of the Wasm cache and the life of Wasm instances,
containers, E2B sandboxes and processes, where an answer to a creation may be lost after
the other end has carried it out (`Create`): `told` holds the calls that got theirs,
`left` those whose Wasm instance stays in the runtime; `Adk` invocations directly, under
the lock without tools, and with granted ones, and, since they change state too, the
session, the state cache and the registries.

Properties: `BoundToItsAgent`, `DeletedNotRun`; `NoSendOnClosed`; `WindowBounded`;
`ShutdownDrains`; `SandboxReleased`; `GrantsScoped`.

## Runs, bounds and fairness

| Run | Instance | Shows |
|---|---|---|
| `kickoff` | 3 goroutines, 1 key, 2 sessions, 2 tenants, 2 slots | the safety of the endpoint: three goroutines for two slots reach the refusal with 429; two on one key or one session reach both races, also across tenants; a client sees `KickoffService` |
| `tasks` | task: every configuration of the agent, see below, 2 iterations, 1 healing retry, 2 attempts, 2 guardrail attempts; stores: 2 crews, 3 saves, 1 kept; flow: 2 nodes, 2 events, 2 kickoffs; engine: 7 nodes, depth 3 | guardrails and reviews hold along every retry path; `Execute` returns or is started over for ever; the stores implement `CheckpointStore`; durable progress; termination |
| `crew` | sequential: 3 tasks, one async, 2 kickoffs, 2 rows per second; graph: all 512 relations on 3 tasks, 2 slots, 4 rounds; others: 2 tasks, 3 agents, 2 slots; pause: 3 callers, 1 cancellable, 2 handlers | scheduling, feedback, resume, failing workers; lock hand-over, pause respected, no lost wake-up |
| `memory` | every store, two of them retried, 2 users with 3 (local) or 2 (HTTP) operations, 4 labels, 4 recall options; providers: 2 callers, 5 entry points, 3 calls; client: 3 calls, threshold 2, cooldown 2 | erasure, isolation, drained writes, bounded overspend, the breaker |
| `services` | A2A: 2 senders, threshold 3; mesh: 2 callers, 2 roles; MCP: 2 callers, 5 requests, 1 of them with a time read before, 3 transports; dashboard: 1 agent, 2 tasks; events: 1 stream, 2 publishers; limits: 2 addresses, room for 1, window 3, stall 1, idle time to live 1; server: 2 kickoffs; sandbox: 2 jobs, 2 binaries; ADK: 2 invokers | the safety of what surrounds the crews |
| `kickoff_busy` | 2 goroutines, 1 slot | violation: a session that stays running after 429 |
| `kickoff_replay` | 2 goroutines, 2 keys, 1 session | violation: a finished key that is never marked done |
| `pause_cancel` | 2 callers, 1 handler | violation: unlock of an unlocked mutex |
| `server_stop` | 2 kickoffs, 1 signal | violation: the process does not exit |
| `mcp_stdio` | 1 agent, 1 other caller | violation: tools without a server |
| `mesh_stop` | 2 callers, 1 role | violation: `Stop` waits for ever |
| `budget_shared` | 2 callers of the entry points that ask, budget 1 | violation: both spend the same budget |

The bounds of the models are constants used in guards: `MaxFailures` (the failure count
of the breaker, above twice the threshold so that a re-opened circuit is reached),
`MaxKickoffs`, `MaxRows`, `MaxSaves`, `MaxTime`, `MaxUses`, `MaxCalls`,
`MaxAsks`, `MaxPrices`, `MaxSends`, `MaxRpcs`, `MaxRequests`, `MaxMadeAgents`,
`MaxMadeTasks`, `MaxRounds`, `MaxEvents`, `LastTick`, `MaxStall` (how long a
request may be between its reading of the clock and its lock section), `MaxTies` (the
requests that read a time another one has read), `MaxInvokes`, `MaxHistory`. `Labels` and
`RecallOptions` are the labels of what users remember and the options they recall with.
`MCConfigs` leaves out combinations of the agent's configuration: a human at the task,
self-critique and self-healing come one at a time, critique with either no reviewer or
the review manager and healing with the callback; for a schema, and without a model, the
reviewer, healing and critique are off, because those answers never meet them. The
theorems have all configurations, and all labels and options.
Capacities of the code (`SemCap`, `QueueCap`, `TokenCap`, `TableCap`, `MaxCheckpoints`,
`MaxFlowDepth`, ...) are small so that their limit is met. Two actors are enough for
most races here, because each is between one goroutine in a window and one other that
changes what it has read; where a third is needed to hold a resource (a slot, a trial,
the mutex) there are three. `MCKickoffApi` uses the symmetry of requests, keys, sessions
and owners, which are compared only for equality; it checks no liveness.

Fairness. A goroutine that can run does run: weak fairness of each step. Provider calls
and tools return, which the clients' timeouts bound; time passes (`Tick`, `Refill`). The
task has one condition, that it goes on while it can (`GoesOn`): one goroutine at a time
runs there, and its branches are choices of what it calls. Strong fairness stands for
two facts of the Go runtime: a goroutine blocked on a mutex gets it in the end
(starvation mode), and so does one blocked on a channel send (senders queue). In `tasks`
somebody answers the current review: `RequestReview` has no timeout, so without that
assumption it waits for ever. In `memory` the background writer runs and its store
answers. Nothing makes a client send a request, a user press a button, a context be
cancelled, a signal arrive or a process crash. Modules without a liveness property have
no fairness.

`CHECK_DEADLOCK FALSE` is used where the system really stops: processes, tasks and
flows return, a fatal error or a panic ends the process, or the bounded number of
operations is used up.

## What the violations show

* `kickoff_busy`: after 429 the session stays "running" and its retry gets 409
  (handlers.go:659 promises that the retry is not blocked).
* `kickoff_replay`: a second key on the same session overwrites or deletes its entry of
  `idemBySession` (handlers.go:114, 118), so `finishIdem` (132) marks nothing and the
  first key is answered 409 for ever (handlers.go:353 promises the cached outcome).
* `pause_cancel`: cancelling a paused crew kills the process (events.go:186-188).
* `server_stop`: after a signal and a complete `Shutdown`, `main` waits for
  `ListenAndServe`, which nobody ends (api/server.go:232 says that `Run` blocks until
  shutdown).
* `mcp_stdio`: the context of the discovery owns the stdio server's process and is
  cancelled when discovery ends (docs/features/mcp.md:8 lists the stdio transport).
* `mesh_stop`: `MeshServer.Stop` waits for the handlers under the mutex they need
  (mesh_client.go:237 says that it drains gracefully).
* `budget_shared`: two callers pass `AdmitBudget` together and both spend what is left
  (usage.go:392-394 says that concurrent requests cannot independently consume the same
  budget). The run uses only entry points that ask; `GenerateWithUsage` and
  `GenerateStructured` of the OpenAI client, speech and embeddings never do, although the
  comment says that every paid entry point must. What is left of the promise is
  `BudgetBounded`: of the calls that ask, at most one of each other caller overdraws.

## Seen while modelling

Behaviours of the code that the models reach and that no property forbids, because the
code does not promise otherwise or a property about them would be false:

* Endpoint: the ledger has no bound (handlers.go:113).
* Client: a deadline met in the local token bucket counts as a provider failure
  (middleware.go:115); a cancelled stale trial lets a second one in
  (circuitbreaker.go:75); waiters of the bucket have no queue (middleware.go:325);
  `ErrCircuitOpen` is no text `isFailoverRequired` accepts, although
  circuitbreaker.go:10-12 asks callers to fail over.
* Providers: an answer without choices panics in the OpenAI client; the body of a 403 is
  closed before it is searched; a stream whose reader has gone leaks its goroutine.
* Crew: `Replay` of a stored session loads the checkpoint it has just undone
  (crew.go:510); an async task may be checkpointed between `SetProcessed` and
  `SetOutput` (task.go:373); the graph process returns success when its rounds run out;
  a plain agent as manager panics (crew.go:246, manager.go:45); `Train` skips tasks the
  first iteration has processed; the reflective process repeats a task with its first
  prompt.
* Agent: nothing bounds self-critique (agent.go:1226-1240), which
  docs/SELF_CORRECTION.md:9 calls a double check: a model that never says APPROVED
  is asked for ever, each time with full budgets; a guardrail retry
  of the task is not validated against its schema (task.go:360); an edit whose stdin
  ends loops for ever (task.go:210); a second answer to a review leaves its goroutine
  blocked (events.go:136).
* Stores and flows: retention cuts a list in the order of file names (checkpoint.go:217)
  and a pattern that matches other crews' files; the SQLite store reports success when
  its pointer was not written, and no checkpoint can be read back from it
  (sqlite_checkpoint.go:201); the received events of an `And_` are never cleared
  (flow/persistence.go:186), so after the first firing one event is enough.
* Memory: behind a `RetryStore` an `Add` whose answer was lost is repeated, also after
  an erasure (retry.go:79); `Forget` on a backend without scope deletion is best effort.
  A private memory is "only visible when source matches" (unified.go:139), but
  `IncludePrivate` alone lets it through, and one without a source passes the source
  filter (unified.go:273-287).
* MCP: two requests that read the same time have one id (mcp.go:337): the second takes
  the place of the first in `pending`, may get its answer, and the first waits until its
  context ends.
* Rate limits: the operations server forgets an address that was silent for its fixed
  ten minutes, also when the window of `WithRateLimit` is longer, so that "rate requests
  per window" (server.go:159) is "per ten minutes" then; a request to the REST server that
  stalls between its clock and the lock (api/server.go:47-48) is counted in a window
  that is over by as much. `WindowBounded` counts in spans shortened by both.
* Sandboxes: the Wasm instance of a run that came back is never closed (wasm.go:195) and
  stays until the provider is; a container whose creation succeeded after the call's
  timeout, and an E2B sandbox whose 201 does not decode, are left behind for good
  (docker.go:127-136, code_interpreter.go:237-240).
* A2A: "half-open: allow one request" lets every caller through (a2a.go:249); a status
  202 is retried; the delegation depth does not cross the wire.
* Servers: `handleHealth` ranges over a map that registration writes; the operations
  server's bucket moves its refill time on every call, so a client that keeps asking is
  never refilled; the dashboard writes to its clients under the lock.
* ADK: `Run` takes no lock and may see another invocation's grants (adapter.go:245);
  `Get` may fill the state cache with a value that `Set` has replaced. E2B sandboxes are
  deleted by a goroutine nobody waits for (code_interpreter.go:245).

## Proofs

Each `*Proofs` module states an inductive invariant, shows that each action keeps it,
and derives the theorems from it. All constants are arbitrary, under the named
assumptions of the modules: the capacities, thresholds and limits are positive numbers,
the sets that are counted are finite (`KickoffAssumption`, `SequentialAssumption`,
`GraphAssumption`, `ProcessesAssumption`, `StoresAssumption`, `LlmAssumption`,
`ProvAssumption`, `A2aAssumption`, `MeshAssumption`, `RateAssumption`,
`AgentTaskAssumption`), a cancellable caller is a caller and no handler
(`ControllerAssumption`), the lock's free value is no invoker (`AdkAssumption`), the
agent is one of the callers of its MCP server (`AgentCalls`), a memory has one of the
stores the code has (`MemAssumption`), the crew has a first agent with some role
(`CreatorAssumption`), and the value for "no session" is no crew (`CrewAssumption`).
`RateAssumption` also has the longest stall shorter than the window; `MemAssumption`
also that a label with a scope names a path and that recall options are of the three
views.

* `KickoffApiProofs`. `KeyLaunchesOnce` alone is not inductive: nothing would stop two
  goroutines past the reservation from launching. `KeyInv` adds that a goroutine between
  reservation and launch holds its key alone, with its entry in the ledger and no crew
  started, and that the entry of a launched key stays. `SessionInv` says the same of a
  session from `persistSessionStart` to the end of the crew. `SlotsAccounted` is
  inductive with the types, by the cardinality of the set of slot holders.
  `RunningSessionKept` and `TenantKept` are action properties that follow from a lemma on
  who writes the session table; the latter also needs `OwnersReal`: every session has a
  real owner, because an ownerless one may be taken over. `ServiceKeepsPromise` is the
  refinement: initial states map to initial states, the successful branch of `AcquireSem`
  is a `Start`, `PersistSessionEnd` an `End`, `Restart` a `Restart` and every other step
  a stutter. The point is that `AcquireSem` looks at the semaphore only: that the session
  has no crew and the key was never used was tested earlier, under other locks.
  `SessionInv` and `KeyInv` say that both are still true, and `SlotsAccounted` that a
  free slot means fewer crews than slots (a slot outlives its crew, never the reverse).
* `ExecutionControllerProofs`. The invariant is `LockHandedOver` with the types: the set
  of holders has exactly one member while the mutex is locked. The steps are grouped by
  whether they lock, unlock or leave the mutex alone. `PauseRespected` is an action
  property.
* `CrewSequentialProofs`. `ProcessedWasRun` needs that a goroutine which has marked its
  task has run it, over all kickoffs; `NoneAbandonedOnSuccess` that the collection has
  passed only closed futures.
* `CrewGraphProofs`. `RunsAfterDeps` needs that what is waiting to be launched in a round
  has its dependencies done and idle, and that no two tasks of a round depend on each
  other even after feedback has cleared `processed`; `CircularNeverRuns` needs that only
  tasks outside every circular set enter a round. Of the other processes:
  `WorkersContained` is inductive with the types (`SlotsSound`);
  `HierarchicalComplete` needs `StartedSound`, that each task of a round is done, under
  way or has failed, and that no pending task is left behind when the round ends.
* `AgentProofs`. `GuardedOutput` follows an answer through its stations: `GuardIInv` says
  which guardrails it has passed when the agent has stored or returned it, when the task
  looks at it and when it is saved, so no retry path brings in an answer that was not
  vetted. `ToolRunsApproved` needs `ReviewIInv`: every decision on its way carries the
  review it was made for, and a new review turns the ones still on their way into
  earlier ones, which it does not take.
* `PersistenceProofs`. `StoresKeepPromise` is the refinement: the file and the Redis
  store implement `CheckpointStore` (SQLite is mapped to an empty store, since nothing
  can be read back from it). Initial states map to initial states; a successful
  `WriteLatest` is a `Publish`, the end of a `Save` an `Ack`, a cut-short file or an
  expired key a `Lose`, and every other step a stutter. The invariant `SaveSound` is
  needed for the first two: the `Save` under way is newer than all that was published,
  and is the published one once only its cleanup is left. `ProgressDurable` of the flow
  needs that what a kickoff has completed is in its state.
* `LlmMemoryProofs`. *Client*: a lemma on `AfterCall` shows that it keeps the relation
  between the state, the count and the trial flag whatever call reports; the owner of
  the trial flag is found among the calls in flight. *Providers*: `BudgetBounded`
  counts; once nothing is left, overdrafts so far and calls in flight that may still
  become one are together fewer than the callers (`OverdraftSound`), because the call
  that used the budget up is not among them. *Memory*: `RecallIsolated` needs that the
  partial result of a recall has already passed its filters, of scope, source and
  privacy (`RecallSound`), whichever store is searched and whichever scope is left out.
  `ErasureHolds` needs that without a `RetryStore` a write is stored at most once: what
  an `Add` or the queue has still to store was never in the store (`BatchSound`,
  `QueueSound`), the copies of a write share its id and path (`KnownSound`), and of what
  an erasure under way is to erase nothing is left whose id it will not delete
  (`AimSound`). With a `RetryStore` it is false of the code (see above) and is not
  claimed.
* `ServicesProofs`. *Mesh*: an rpc that has asked for its role's mutex has the one mutex
  of that role, no two roles share one, and who executes holds it. *A2A*: the breaker
  counts at least the failures since the last success up to the half-open count; a call
  succeeds only on an answer that stands for a task done. *ADK*: the holder of the lock
  is the only invoker with grants, and sees only the agent's own tools if it has none;
  the tools are the agent's own and then its grants. *Server*: after the channel is
  closed no kickoff counts as early, and the ones `Shutdown` has waited for stay ended.
  *Events*: a channel is closed only when it is off its bus for good, and whom a
  publisher has still to serve is subscribed, because the read lock is held. *Sandbox*:
  an open module is the cached one or in use by a call that will close it or leave it to
  the cache; a container its call was told of is gone when the call returns, or the
  daemon refused, which was reported; what a lost answer leaves behind is not claimed.
  *MCP*: an entry of `pending` is the empty channel of a request with that id, and
  `readLoop` takes a channel out of `pending` before it sends into it, so an answer in
  its hand carries the id of the request it is for and the send never blocks. No id has
  to be unique for that; `AnswerMine` says that who gets another's answer has its id, so
  that with a clock that gives every request its own time, everyone gets his own. *Rate
  limits*: stamps are distinct, so admissions are counted by cardinality; an admission
  counted in the REST limiter's span is a fresh hit of every request that comes to the
  lock, however late, since a hit is at most a stall older than its section; for the
  buckets, tokens left and admissions of the span together never exceed the limit, and
  an address whose bucket was evicted has no admission in the span. *Dashboard*:
  `CreatorIInv` has three parts. `HopesSound`: as long as the agent a task hopes for is
  not withdrawn, an agent of its role is queued, or taken in this round or an earlier
  one, and never behind the task; the step that needs it is the first `Pull`, which
  takes the tasks, because the agents follow in the same round and are injected first
  (the other order, the mutant, breaks it). An agent that overwrites another in the crew
  has the same role, so a role once there stays. `QueuesSound` and `EngineSound`: a task
  is at one place, in the queue, in the engine's hand or in the crew, so one that is
  deleted from the queue is nowhere else; the first occurrence that `DeleteTask` removes
  is then the only one.

The theorems are about the specifications of the components (`Spec`, `ControllerSpec`,
`GraphSpec`, `ProcSpec`, `AgentSpec`, `FlowSpec`, `LlmSpec`, `ProvSpec`, `MemSpec`,
`MeshSpec`, `A2aSpec`, `AdkSpec`, `CreatorSpec`, `LifeSpec`, `EventSpec`, `SandboxSpec`,
`McpSpec`, `RateSpec`).
`MCTasks`, `MCCrew`, `MCMemory` and `MCServices` take steps of the same
next-state relations.

Checked by TLC only: the liveness properties `ExecuteReturns`, `ResumeUnblocksAll`,
`KickoffReturns`, `EngineReturns` and `WritesDrained`, because fairness is out of the
prover's reach. Every safety invariant, action property and refinement of a passing run
is stated by a theorem.

## Plan

The core (the endpoint, the client, the pause switch, the crew's processes), what
persists, what an agent calls and what surrounds a crew are modelled, and their safety
is proved. What is left:

1. The composition of `AgentTask` with `ExecutionController`: the product of the two
   instances above is too large for one run, so it needs a coarser agent.
2. The session records a restarted server finds, behind `KickoffService`.

## Not modelled

The text of prompts and answers, logging, metrics and tracing; message formats of HTTP,
SQL, Redis and gRPC and the generated code for them; the web user interface and the
read-only endpoints. The response caches (each method is one lock section around a map).
The some fifty tools that wrap an external service, knowledge ingestion, file
providers, guardrail parsers, i18n, configuration, the compatibility layer, the CLI and
the facade `gocrew/`: sequential code without state shared between calls, where a model
would repeat the code and no order of steps matters. Entity extraction and remote
sources of the memory, builders, loaders and `Clone` of agents and tasks, the legacy
state file and the webhook of `Kickoff`.
