# Formal model of the Nexus AI workspace

TLA+ modules, TLC configurations and TLAPS proofs for the core of the
repository: the AI kernel under `src/backend/services/ai-kernel/src` (its agent
platform, its MCP client, its request pipeline), the AI service it calls and what
changes the answers of the prompt service.
Paths are relative to that directory unless they start with `src/`; `agents/`
holds the agent platform.

All of this code runs on Node's event loop.  A method runs without
interruption from one `await` that really yields to the next, so an action of a
module is such a stretch of code (or a statement of the prompt service's database), and
everything another call may do in between
is an interleaving of the model.  Nothing of the kernel's is persisted, so there is no
crash recovery; what fails and is retried are calls of other services, tools,
agents and the servers behind a session.

## 1. Inventory

| Part | State | Operations | What is hard |
|---|---|---|---|
| Scheduler (`agents/scheduler`) | priority, waiting, execution, completed and failed queues, running map, pause flag | schedule, enqueue, dequeue (4 strategies), cancel, pause, resume, reschedule, completeTask | a task may stand in several queues; dependencies change between promotion and start; refused operations that are half done |
| Registry (`agents/registry`) | map of agents | register, remove, update, lookups | remove awaits the agent's shutdown |
| Lifecycle manager, manager (`agents/lifecycle`, `manager`) | lifecycle state per agent | initialize, start, stop, pause, resume, restart, shutdown; the same for all agents | every operation writes before and after an await; only the first write is checked |
| Runtime, execution registry, executor (`agents/runtime`, `executor`) | a semaphore per batch; records, active set; abort controllers | executeAgent, executeBatch, cancelExecution, cleanup, timeout | late cancellation, slots handed over, errors in error paths, two sets of ids |
| Workflow engine, runner, registry (`agents/workflow`) | executions: state, completed, failed and compensated steps, failure count, timer | execute, pause, resume, cancel, timeout, compensation, register, remove | two runners after a resume; late writes of timeout, cancel and end; loops and nested runs |
| Coordinator (`agents/coordinator`) | map of active coordinations | assign under six strategies, delegate, handoff, broadcast, cancel, status | partial failure, first success, quorum, two calls with one id |
| Communication (`agents/communication`) | inbox and outbox per agent, failed messages, channels and subscriptions | send, broadcast, receive, process and retry, acknowledge, expire, subscribe, register, unregister | delivery while parties come and go, bounds, retries |
| Memory (`agents/memory`) | store with ttl, conversations, shared entries with versions and locks, workspace memory, scratchpad | read, write, append, lock, clear, cleanup | check before an await, write after it |
| Planner (`agents/planner`) | none | create, order, split, merge, estimate, prioritise, validate | cycles, empty plans, tasks in two groups |
| Plugins (`agents/plugins`) | plugin table, metadata, registered agents | discover, register, load, unload, reload, validate | concurrent loads and unloads with four awaits each |
| Orchestrator (`agents/orchestrator`) | state, execution records, memory | start, stop, pause, resume, execute agent, workflow and plan, cancel | drives all of the above; loops of awaits over records that change |
| Bootstrap, initializer, health (`agents/bootstrap`, `agents/runtime`) | boot state, service table, monitoring timer | bootstrap, start, shutdown, health checks | order, swallowed failures, a health check of many moments |
| Ten built-in agents (`agents/builtin`) | status, counters, latency samples, cached health | initialize, execute with the agent's own operations, pause, resume, shutdown, health | statistics under overlapping calls and half-failed operations |
| MCP session (`mcp/sessions`, `mcp/transport`) | status, pending requests, timers, attempts; the server process | connect, request, heartbeat, reconnect, disconnect, idle timeout | late answers, exits, timers that outlive what they guard |
| MCP execution (`mcp/runtime`, `mcp/manager`) | active executions, history, metrics | execute with retries and timeout, batch, cancel, server calls, initialize, shutdown | limit, late results, cancelled while retrying |
| MCP discovery and registry (`mcp/discovery`, `mcp/registry`) | servers, active discoveries | discover, register, refresh, unregister | limits, retries, entries deleted by a failing call |
| MCP permissions (`mcp/security`) | permissions, answer cache | authorize, set permissions, roles | stale cached answers |
| Kernel execution, pipeline, tools, integrations (`kernel`, `execution`, `pipeline`, `tools`, `integrations`, `routes`) | the one kernel, registered providers, prompt cache, stored messages | handle a request: start, prompt, history, LLM, tools, persistence | requests during the start, retries over retries, stale prompts and provider lists |
| AI service (`src/backend/services/ai-service`) | health cache, usage rows | chat, embed, tools, health | probes in flight, retries, abandoned calls |
| Prompt service (`src/backend/services/prompt-service`) | prompts, their versions, which of them are published | create, search, new version, publish, roll back, delete | a publication is two statements, a rollback three; search by substring |
| Auth, user, workspace, agent, chat and document services, gateway | database rows | HTTP handlers | auth: token rotation, lockout |
| Python packages (`src/ai`) | in-memory stores | CRUD | none |

How they interact: the bootstrap makes everything and starts the orchestrator; the
orchestrator calls the lifecycle manager, the runtime, the scheduler and the
workflow engine; the manager calls the lifecycle manager, which looks agents up
in the registry; the runtime calls the executor, and both write to the execution
registry; engine and runner call each other; the coordinator and the
communication manager call agents; each built-in agent wraps one of these
components.  The MCP manager drives sessions, executions and discoveries.  The
kernel's pipeline calls prompt, chat and AI service over HTTP.  All calls but the
HTTP ones and the MCP server's messages are in one process.

What makes the parts correct, in a line each: the scheduler loses and duplicates
no task, respects its limit and the order of dependencies, and never forgets to
wake a task; the lifecycle manager keeps to its transition table and strands no
agent in a transient state; the runtime conserves slots, leaves no record active
and returns; the engine ends every execution once with a state that tells the
truth about its steps; a coordination's status follows from what its delegates did;
mailboxes keep order and bounds; stop and shutdown leave nothing behind, and a health check
hides nothing; an agent's statistics are what was done; a session is connected
only over a connected transport; no cached permission, prompt or health answer is older
than its cache explains; and every call comes to an end that does not wait for something
nobody limits.

## 2. Modules

| Module | Models | Composed of |
|---|---|---|
| `TaskBoard` | what the scheduler promises: one phase per task | |
| `AgentScheduler` | the scheduler; implements `TaskBoard` | |
| `AgentLifecycle` | lifecycle manager and bulk operations, and the registry: ids with an entry, removals in flight | |
| `AgentRuntime` | runtime, execution registry, executor | |
| `WorkflowEngine` | engine, runner, the workflow's registration | |
| `AgentCoordinator`, `AgentMessaging` | coordinator; inboxes, outboxes, bus, channels | |
| `AgentTeam` | agents that coordinate and write to each other while they leave and ail | the two above |
| `AgentOrchestrator` | orchestrator | `AgentLifecycle` |
| `RuntimeBootstrap` | initializer, bootstrap, start and shutdown | `AgentOrchestrator` |
| `RuntimeHealth` | the health of each component, checks and their timer | `RuntimeBootstrap` |
| `AgentMemory`, `AgentPlanner`, `PluginLoader` | memories; planner's algorithms; plugin registry, loader, validator | |
| `BuiltinAgent` | what the ten agents share: life, calls, counters, health | |
| `CoordinatingAgents` (scheduler and coordinator agent), `ExecutingAgents` (execution, orchestrator and workflow agent), `StoringAgents` (memory and plugin agent), `CommunicationAgent`, `PlannerAgent`, `ToolAgent` | each agent's own operations, statistics and health | `BuiltinAgent` and its component |
| `BuiltinAgents` | an agent with overlapping calls beside its component's other clients | all of these |
| `McpSession`, `McpExecution`, `McpDiscovery`, `McpPermissions` | the parts of the MCP client | |
| `Mcp` | manager and runtime over them | the four above |
| `AIService` | LLM service with provider health | |
| `PromptClient` | the kernel's prompt client with its cache, and the prompts, versions and publications of the prompt service it asks | |
| `Kernel` | start, pipeline, tools, persistence of a request | the two above |
| `MC...` | instances for TLC | |
| `CollectionLemmas` | facts on bounded recursion, minima, sequences, finite sets, sums | |
| `AgentSchedulerProofs`, `AgentProofs`, `WorkflowEngineProofs`, `AgentTeamProofs`, `McpProofs`, `PlatformProofs`, `KernelProofs` | theorems | the module they are about, `CollectionLemmas` |

Operators whose comment begins with "Mutant" are broken variants of an operator.
No specification uses them; each one shows that a property fails
when the code it speaks of is wrong in that way.  Code outside the modelled part
(agents' own work, tools, server processes, files, HTTP services) answers as it
will: it succeeds, fails or, where the code has a timeout or the caller does not
wait, never answers.

### AgentScheduler, TaskBoard

`queues` has the five queues.  The order of the priority and the waiting queue
decides what runs next, so they are sequences; the other three are counts of
entries, because a task can stand in one more than once.  `running` are the keys
of `runningTasksMap`.  Queues hold references, so a reschedule changes
the priority of an entry in place, as here.  Each public method is one action,
`enqueue` one per awaited `schedule`.  `PromotionScan` is the backward loop of
`promoteWaitingTasks`, as a recursive function.  `everSucceeded` is a history
variable.  Execution times, texts and the read-only reports are left out;
`taskDependencies` is written and never read.  `TaskBoard` sees a task in one
phase only.  The refinement (`BoardSpec`) says that stale entries in the execution
and failed queues never show: the queues behave like a board on which a task
waits, is ready, runs and ends, and on which a completion readies everything it
unblocks in the same step.

### AgentLifecycle

A call of an operation has a list of steps; `restart` is stop, initialize and
start.  A step is: await `registry.find` (`Find`), check the transition and write
the state (`Check`), await the agent's own method, write the outcome (`Resolve`,
`Reject`).  `shutdown` reads the state, may run a whole `stop`, then awaits
`agent.shutdown` and deletes the entry.  The outcome is written without a check,
as in the code.  `initialized` and `disturbed` are history variables.

### AgentRuntime

One batch; each request walks through `executeAgent` and `executor.execute`.  The
semaphore is `count` and `waitQueue`; a release hands its slot to the first
waiter.  Cancellation reads the record in `CancelBegin` and writes it in
`CancelEnd`.  Cleanup may remove any inactive record, since ages are not
modelled; so a record that was cancelled while its agent executes may vanish.
The executor files abort controllers under its own ids (`ExecutorId`).

### WorkflowEngine

One execution with its call of `execute` and any number of calls of `resume`,
each a runner.  A runner has a `frame` for its run of the root steps and for the
steps nested in each step; a frame says where its loop, parallel run or
conditional is.  `LoopHead` is the part of `runSequential`'s loop before the next
await.  `execute` and `resume` go on after their lookup with what they found, even if it
was removed meanwhile; each step looks the workflow up again.  `Branches` are the
nested steps of a conditional filtered by branch.  Policies, types of steps and the mode are chosen in the
initial state.  The model is general in depth; the instance nests one
level.  Restriction: step ids are distinct (`NestingAssumption`); the registry
accepts nested steps of different parents that share an id, and `findStep` then
runs the first.

### AgentCoordinator, AgentMessaging, AgentTeam

A call of `assign` fills `delegation`, one entry per agent of the request, and
its strategy decides what is started when and what the outcomes amount to.
`SuccessFollowsPromises` states the latter: the code counts promises that were fulfilled, and an
execution that ends without success fulfils its promise too.  `AllSuccessSucceeds` is what the
code's comment says instead.  A delegation that was abandoned goes on.  Mailboxes are
sequences ordered as the priority insertion of the code orders them; an outbox entry
carries its attempts.  `AgentTeam` binds the two: an agent that is
removed loses its mailbox in the two steps of `unregister`, and the coordinator's broadcasts go
through the mailboxes.

### AgentOrchestrator, RuntimeBootstrap, RuntimeHealth

An execution goes through `at`: its record is written RUNNING, the agent found,
its health asked and the agent initialised through the lifecycle manager's own
actions, the memory read, the runtime called (or the engine, or the tasks of a plan
scheduled and polled), the outcome recorded.  `stop`, `pause`, `resume` and `shutdown` keep the list of
executions they found when they began and await one after the other.
`RuntimeBootstrap` runs initializer, orchestrator start and shutdown as
calls that overlap with all of this.  `RuntimeHealth` asks each component at a
moment of its own and notes in `ill` what was unhealthy throughout.
Restrictions: one `bootstrap()` at a time, as its callers make; a request that is refused before a
record is written is left out; workloads in which start, stop, pause and resume
overlap each other are outside `StoppedIsQuiet` (a start that ends during a stop
lets executions in again).

### BuiltinAgent and the agents over it

A `Request` has an operation, what it lacks, a size and a variant; each agent's
`...Parses` and `Valid...` are its validation.  A call's `ends` (`Returns`, `Declines`, `Throws`, ...)
says which counters it touches at its start and end; `BuiltinAgent` holds the common counters
with the code's order of writes.  Where the component's state matters (memories, plugin
loader, planner) it is the real one, with other clients; elsewhere it answers
as it will.  A tool may never answer: `AwaitsTool` is a call that waits for one, since
the executor ignores its timeout (`tools/runtime/enhanced-tool-executor.ts:35`).  Latencies are
samples counted up to their bound.

### McpSession, McpExecution, McpDiscovery, McpPermissions, Mcp

`McpSession` is a session over the stdio transport, with its process; its timers
are armed, overtaken and cleared as in the code.  A process that was told to end may stay:
`WaitsForExit` is a disconnect that waits for it.  `McpExecution` files executions under
ids that may collide, as ids made of a clock do.  `McpDiscovery` keeps entries,
discoveries and retries.  In `McpPermissions` an answer is computed (`Granted`) in one step
and cached in a later one; `overtaken` marks answers computed before a change.
`Mcp` is manager and runtime: initialization, its health, shutdown in its order.
Restrictions: one session, one server and workspace.

### AIService, PromptClient, Kernel

`getKernel` publishes the kernel before it awaits its start, so a request meets
a kernel whose parts are there up to `init` (`Awaited` is their order).  A request goes through the
pipeline's stages with the calls of the AI service (`AIService`, a call per
attempt, abandoned by a timeout but not stopped), of the prompt service
(`PromptClient`: cache, ttl, attempts) and of tools.  Time is a clock with a `horizon`; expiry compares with it.

A prompt is looked for by a search for a substring of its name or description (`Matches`); the
client prefers one of that name in the workspace asked for, then one of that name, then whatever
was found, caches it under the key alone, and renders a published version or else the last there is.
The prompt service's calls are its statements: `publish` unpublishes all and then publishes
one, `rollback` unpublishes all and then calls it, and what is read in between sees no version
published.  `ceased` is a history variable.  It says when each of the `Facts` about
prompts last ceased to be one: a version is published, no version of a prompt is, no prompt bears
a name.  `Since` reads it.
Restrictions: agent and document modules have no URL, streaming is left out.  Keys are names,
never ids; a search is one moment; versions are their numbers, so rows with one number are one;
which unpublished versions have texts, and the order of a list, are open; a prompt keeps its
name and workspace, as no route changes them.

## 3. Runs

| Run | Instance | States | Result |
|---|---|---|---|
| agents | the scheduler with 3 tasks, one blocked by another, two agents, limit 2, new priority 1 (more urgent than 2, less than 0), three strategies, one batch; or the lifecycle manager with 1 agent, 2 overlapping calls, 1 removal; or the runtime with 3 requests, limit 2, one with a timeout, 1 canceller | 254 857 | pass |
| runtime_cancel | the runtime's part | | `CancelReachesAgent` violated |
| workflow | 3 root steps, two steps nested in the second, 1 resume, 11 workflows | 93 387 | pass |
| workflow_resume | sequential policy | | `NoStepRepeated` violated |
| workflow_parallel | parallel policy | | `ParallelFailFast` violated |
| platform | 9 workloads | 63 263 | pass |
| agent_team | 8 workloads, 3 agents and the coordinator | 19 290 | pass |
| agent_team_success | the same | | `AllSuccessSucceeds` violated |
| builtin | ten agents, 2 or 3 calls | 85 935 | pass |
| mcp | 6 workloads | 206 478 | pass |
| mcp_kill | the same | | `DisconnectSettles` violated |
| kernel | 9 workloads, 3 requests, 2 prompts, 2 editors | 253 217 | pass |

The run `agents` has three parts that share no state, one in each behaviour (`part`); each
paragraph below is one of them.  They act on each other in `platform`.
The composed modules (platform, agent_team, builtin, mcp, kernel) have a constant `Workloads`: which calls,
controls, clients and faults take part in a behaviour.  Everything that may
interfere is together in some workload; what does not share state is kept apart, so
that the state spaces stay small.  A deadlock check makes no sense where finitely
many calls are made and the system stops; their liveness properties
say that it stops only when all is done.

**agents: the scheduler.** `ConcurrencyBound`: the limit.  `TaskPlacement`: for each value of
`task.state`, the exact sets of queue entries that go with it; `Filing` documents
the odd ones (a refused reschedule of a running task loses its execution entry; a
task cancelled while it ran keeps one).  `NoLostWakeup`: a waiting task always
waits for something.  `StartedAfterDeps`: order of dependencies.
`StartsMostUrgent`: the head of the priority queue is most urgent although
priorities change in place.  `BoardSpec`: the refinement.  Three tasks give a
blocked task, its dependency and an independent one, with fewer slots than tasks;
DEPENDENCY chooses as PRIORITY does (`dequeueByDependency` calls
`dequeueByPriority`), so the run leaves it out.

**agents: the lifecycle manager.** `NoOrphanTransient`: INITIALIZING and STOPPING have their call in
flight.  `LiveWasInitialized`: nothing runs without an `initialize` that resolved.
`TransitionsFollowTable`: every change is in `validTransitions`, until the agent is
shut down or a status update is rejected after the state was claimed (then FAILED
may overwrite anything).  `TransientResolves`: transient states are left.  Agents do
not share state, so one agent is enough; two calls are enough for one to write into
the other's await, and the proofs cover any number.

**agents: the runtime.** `SlotsConserved`, `SettledIsInactive`, `BatchSuccessSound`,
`BatchSettles`.  Three requests on two slots make one wait and be handed a slot.
failFast is FALSE, under which a request that returned without success is not an
error: the harder case for `BatchSuccessSound`.

**workflow.** `FailureSurfaces`, `CompletedRanEverything`, `CompensationUndoesAll`,
`EndedStaysEnded`, `ExecuteSettles`.  The workflows cover every mode and type of
step, both answers to a failure, a limit of failures, compensation, the timeout and
a policy the registry refuses.  Two iterations suffice to end a loop by its
condition and by its bound.

**platform.** `StoppedIsQuiet`: after stop no record is RUNNING.
`OneExecutionPerAgent`: an agent is executed once until it is shut down.
`HealthTellsTrouble`: what is unhealthy during a whole check is not hidden.
`ShutdownEmptiesRegistry`: no agent that was there when shutdown began is left.
`PlatformSettles`: every call and check ends.  The workloads put start and shutdown
around executions, registrations and a second caller; cancellations and pauses
around workflows; and checks around a shutdown, work, trouble, and each other.

**agent_team.** `SuccessFollowsPromises`: which promises of delegates a reported success rests
on, per strategy; of ALL_SUCCESS, that no delegate started threw, not that each succeeded.
`CoordinationsTracked`: entries of the map belong to calls that execute.
`MailboxesSound`: order, bounds and addressees, and that a retry limit never bites.
`TeamCallsSettle`.  Requests of every strategy, valid and not, over agents that
leave and ail; overlapping requests with one id; mailboxes at their bound 2 with
three messages.

**builtin.** `StatisticsAgree`: counters, samples and cached health are what was done
at every moment, with each agent's own statistics.  `ComponentsSound`: locks exclude,
operations one after the other are serial, the planner's orders, splits and merges
and the plugin validator are what they are for, over all graphs of three tasks.
`ExecuteSettles`: every call ends, but one of the tool agent may wait for a tool for ever.  Two
calls overlap for every agent, three for the plugin agent.

**mcp.** `SessionSound`: CONNECTED means a connected transport; pending requests
wait.  `ExecutionSound`: limit, tracking, metrics, tool runs, batches.
`DiscoverySound`: entries and discoveries.  `CacheCoherent`: a cached answer is the
present one unless it was overtaken.  `McpSettles`: everything comes to an end except a
disconnect whose server does not exit, and the shutdown of the runtime that waits for it.  Limits of 1 are met by two
calls; two attempts show a retry that succeeds and one that fails.

**kernel.** `KernelSound` has the named parts `HealthIsRecent` and
`CallsAreBounded` (AI service), `CacheSound` and `PromptIsRecent` (prompt client),
`AnswersAreEarned` and `DeadAnswersNothing` (kernel) and the types.
`PromptIsRecent` says of a prompt rendered that it bears the name asked for or that no prompt
did, and that its version is the one asked for, or was published, or that none of that prompt was: each
not longer ago than two lives of a cache entry and one request account for.  That it is of the
workspace asked for, or that a rendered version was the published one, is not said, as neither
holds (section 5).
`KernelSettles`: a request is answered or waits for the http tool, which has no
timeout.  Attempts are 2 instead of 3, tool executions 3 instead of 5, ages 1 or 2
ticks, two cache entries: each bound is reached.  The workloads are requests during the start
(`Started`), with tools (`Tools`), after a start that failed (`Dead`); prompts rendered while a
version is published (`Served`), while two editors publish and roll back (`Edits`), and
under a name that no prompt bears but one contains, until one is created (`Named`, `Overlapping`);
health checks while a provider fails and recovers (`Health`); other callers (`Callers`).
Two prompts, one's name part of the other's, in two workspaces, with two versions each give every
case of the client's choice.

**The five violations** are disagreements between the code and its comments:
`runtime_cancel` (the cancellation is sent under an id the executor does not know),
`workflow_resume` (a resume starts again from the first step),
`workflow_parallel` (a failed step resolves its promise, so a parallel run does not
fail), `agent_team_success` (under ALL_SUCCESS a delegate that answers `success: false`
counts as one that succeeded) and `mcp_kill` (a server that ignores SIGTERM is never
killed, so a disconnect waits for it for ever).  PROJECT.json quotes the lines.

### Fairness

Only the code's own continuations are fair, never its callers: nobody has to call,
cancel, publish or shut down.  `AgentLifecycle`, `RuntimeBootstrap`, `AgentTeam`,
`BuiltinAgents`: weak fairness of each call in flight, but not while it waits for a tool; the
other methods awaited are in-memory work or are raced against a timer.  `AgentRuntime`: each request's
chain of promises, whose only wait is a `setTimeout`.  `WorkflowEngine`: each
runner and the end of `execute`; a task step is in-memory work.  `Mcp`: the
client's calls go on and its timers fire; a server need neither answer nor exit.  `Kernel`: the
kernel's own steps and its clients' timeouts.  A pending promise whose event has
happened is always run by the event loop, which is weak fairness.

## 4. Proofs

All theorems hold for every value of the constants under the named assumptions of
the modules.  These give types, say that a constant that stands for nothing is no
make one restriction (`NestingAssumption`).  One theorem has a hypothesis of
its own, `StopLeavesNoneRunning`.

*AgentProofs*, the lifecycle manager - `StatesCorrect`, `NoOrphan`, `LiveInitialized`, `FollowsTable`.
The invariants are not inductive by themselves.  `LifecycleInv` adds the shape of a call:
which steps a call at each place can still have to do.  `XInv` adds that two
calls never hold the same agent's transient state unless it has been shut down
(`Exclusive`), because a check lets a call through only from a stable state; that
is what makes the unchecked second write follow the table.

*AgentSchedulerProofs* - `BoundedConcurrency`, `TypeCorrect`, `DependencyOrder`,
`Placement`, `NoTaskSleeps`, `MostUrgentFirst`, `ImplementsBoard`.
`RunningOK` adds finiteness of the running set.  `IInv` says that the priority
queue is a sequence over the `Cleared` tasks (those whose dependencies have all
succeeded once), that running tasks are cleared, and that the state SUCCESS is
recorded in the history.  Lemmas on the operations are stated for queues over an
arbitrary set S, so that S = Tasks gives the types and S = Cleared the order.
`PromotionScanType` shows that the recursion of the promotion is well defined; it
rests on `BoundedRecursion` in `CollectionLemmas`.
The other four rest on `Placed`, which has three parts: `Shape` (the two sequences hold no
task twice, the priority queue is sorted by the priorities of now), `FiledBut` (each task is filed as its state
says, but those an operation has in hand) and `Awake` (whatever waits is blocked by a dependency
that is not completed).  One lemma per operation says what it does to queues it finds in that
state; the operations call each other as in the code, so `completeTask` is the lemma of the
removal followed by that of the promotion, which is proved by an induction over the scan
on all three parts at once.  `TaskPlacement`, `NoLostWakeup` and `StartsMostUrgent`
follow.  `ImplementsBoard` maps a change of states (`StateStep`) to a step of the board: an
action that changes no phase is a stutter, a completion with all it promotes is one step.

*AgentProofs*, the runtime - `TypeCorrect`, `Semaphore`, `SettledInactive`,
`BatchSuccess`.  The count of the semaphore is a cardinality, of the requests
between acquire and release.  It is preserved by a release that hands its slot on only because the
queue holds exactly the requests that wait, each once (`QueueSound`); the
start of the batch needs that a prefix of a sequence without repetition has as many
elements as places (`PrefixSize`).  `RecordsSound` ties the active set to the
statuses and keeps a final status from being written as an active one;
`OutcomesRecorded` ties the batch's result to those of its requests.

*WorkflowEngineProofs* - `StaysEnded`, `FailuresSurface`, `CompensatesInReverse`,
`NoStepSkipped`.  `StaysEnded` needs only
that the record is stored once and before anything that may write it
(`RecordFirst`).  For `FailuresSurface` the frames are typed (`FramesSound`): nested
runs walk no root steps, the root run of a call goes on only while the call does,
and is no parallel one in the sequential modes.  Then (`FailureMoves`) a root
step that fails makes its run throw, a throwing root run keeps throwing until its
call writes FAILED, and by `StaysEnded`'s step nothing undoes that.  Each
action of a run has its lemma.
The other two need that once the run of the root steps is over nothing nested in
it goes on, or a late completion would not be compensated.  `Reached` says so without
assuming that the nesting is a tree: any set that has the root and what its members await
holds every run of the call, hence the root alone when it awaits nothing
(`RootOver`).  It is kept because a step that has ended awaits nothing itself.
`Compensated` says for each place of execute what has been compensated: what it has still
to undo, appended to that, is the reverse of what was completed.  `NothingSkipped`
says of every run of a whole list of steps that what it is past, or no longer awaits,
was completed or failed, unless the execution was halted, which only a resume undoes.

*AgentTeamProofs* - `MailInOrder`, `SuccessIsFulfilled`, `CoordinationsFound`.
`MailInv` is about the mailboxes as a whole: entries come from the outbox with no
attempts, so what fails and is retried has none either; an insertion keeps the order since `Before`
is transitive (`InsertedOrder`), a removal since it keeps the relative order.
`CallsInv` says for each place of a call what its delegates may be doing.
What it adds to `SuccessFollowsPromises` is that a call which has returned has no delegate
left to move, unless it was a race, whose winner has settled; so a success cannot
lose what it rests on.  For the vote it must be shown that some ballot leads at all
(`SomeoneLeads`: the failed ones' when they are several, else the first agent's), and that a
single vote carries only if it is the only one.  `TrackInv` adds to `CoordinationsTracked` that
owners are calls; the case that decides is the end of a call whose id another one
uses.

*McpProofs* - `SessionCoherent`, `DiscoveryCleansUp`, `CacheTellsTruth`,
`ExecutionsAccounted`.
`SessionInv` adds to `SessionSound` that a session which opens has no connected transport, so
an answer to a stale attempt finds nothing pending.  `DiscoveryInv` ties each entry of
the registry to the one registration under way that made it, and each counted
discovery to a call at work under that id.  `CacheInv` says that an authorization which has computed
and not yet cached its answer agrees with the permissions unless it is marked
as overtaken; a change of permissions invalidates what it touches because a filtered sequence holds
elements of the old one, each at most once (`Picks`).
For `ExecutionsAccounted`, `CallsInv` says what each call may have
pending and that what is tracked was filed by a call in flight, also when two share
an id.  `MetricsInv` counts: every counter is the number of calls that ended in that way,
and the totals over tools and over servers are sums of such counts, which `SumCounts`,
`SumAdds` and `SumMonotone` in `CollectionLemmas` turn into cardinalities.
Every action is one of four moves (a call begins, moves, ends, is aborted), and the
counting is done once for each.  `BatchInv` ties a batch to the calls it made.

*PlatformProofs* - `StopLeavesNoneRunning`, `ExecutedOnce`, `HealthIsTold`, `ShutdownRemovesAll`,
`ImplementsLifecycle`.
`StoppedIsQuiet` is proved under the hypothesis that where there are executions one
caller operates the orchestrator (`Serial`); the workloads of the run meet it, as TLC
evaluates (`MCSerial`).  Without it a resume that ends during a stop starts records
again.  `StopSound` ties the state to the operation under way: while a stop goes on, all
that still runs is among the records it has ahead, because nothing is created in STOPPING.  That the list it begins with has every running record is `FoundRecords`, by an
induction over the map's keys.  `AgentsSound` follows an agent from its
first initialisation: one that is being initialised is so by one call, with no
execution past it, and once it is ready its awaiting calls can only be starts, so no
second initialize gets through.  `ChecksSound` says that a check under way has heard of
trouble or has all that was unhealthy since it began still ahead of it (`Ahead`), in the order of
components or among the agents not visited; a report loses nothing of that because a
sick component says so when asked (`SickSaysSo`).
The action property `ShutdownEmptiesRegistry` needs two invariants: `CallsApart`, that the
registration of the built-in agents is over for good before the first shutdown and that
shutdowns exclude each other, so nothing but a late registration adds an agent; and
`ClearSound`, that what is registered and not late is among those the shutdown has
yet to remove, also while it awaits a removal.
`ImplementsLifecycle` is a refinement: every step of the platform is one of `AgentLifecycle`,
with executions and operators as its callers, or leaves its variables alone.  The platform
reaches agents through lists (the built-in ones, what the registry held when a shutdown began),
so the step needs `ListsSound`: these hold agents only, and a call that works on the first of its
list has one.  With it what *AgentProofs* shows of the lifecycle manager (`NoOrphan`,
`LiveInitialized`, `FollowsTable`) is true of the agents of the platform, also of one
that an execution initialises while a shutdown removes it.

*KernelProofs* - `KernelStaysSound`, all of `KernelSound`: health, prompts, retries and
the pipeline.  It assumes the types of a workload, that a search for a prompt's name finds it
(`SearchAssumption`), that providers are finitely many and that a health check waits no longer than an entry lives (5 s and 30 s in the
code).  The inductive invariant `KernelInv` has four parts.
`HealthInv`: an entry that says healthy is dated by the clock at which its check *began*,
and the provider has worked since that date; the checks of an open request were all made at
one moment, not longer ago than the timeout, or else what the first of them found in
the cache would have aged without bound while the last is awaited.
`PromptInv`: the property bounds a rendering by two lives of an entry and one request,
which no step establishes at once.  It is carried through the cache by the entry's expiry: what
getPromptByKey() cached was so one life and one request before it expires (`FoundSince`), what
renderPrompt() cached, two lives and a request (`RenderedSince`).  Changes of the prompt service
and ticks leave that true by `Lasting`: no version is ever deleted, and a fact that ceases is
dated now, so whatever has been so since some time still has.  `FactsThere` ties `ceased` to the
step: a fact is lost only where it is dated.
`CallsInv`: executions are at most rounds times attempts plus the attempt
under way, since each round of tools retries anew.  `RequestsInv`:
a request's calls are idle until it waits, its later attempts until it gets there, so the sum
over its attempts is bounded (`SumBounded`) and no provider runs for it before the start has
ended; a provider that is registered stays so, and a call that has answered keeps its answer,
which is what a success rests on.

Model-checked only: all liveness, and ENABLED, which are out of the prover's reach;
and what the recursive operators (the planner's order) compute, as induction over data would
be needed.  The planner's recursive sort is also behind `StatisticsAgree` and `ComponentsSound` of
the built-in agents: the module that states them reaches it, and both rest on what it returns.

## 5. What the modelling showed

Observations that are not properties, for whoever changes the code next.

- Scheduler: a late completion by the worker of a cancelled attempt completes the
  new attempt, since `completeTask` knows the task id only
  (`agents/scheduler/agent-scheduler.ts:305`).  Its health turns an error into
  `degraded` when a task is overdue (`:251`).
- Runtime: a negative `maxConcurrency` is kept and no request is admitted
  (`agents/runtime/agent-runtime.ts:119`).
- Workflow: `dependsOn`, `enabled`, `retryPolicy` and a step's timeout are not used
  by the code that executes.  A `for` loop always ends by exceeding its iterations,
  and a `forEach` never reaches its second item.  A pause inside a loop uses
  up its iterations.  Failures inside parallel steps or tolerant loops may be lost.
- Orchestrator: cancellation of a single-agent execution throws, because the runtime does
  not know the orchestrator's id; `stop` then ends in ERROR.  An execution that
  ends writes its outcome over CANCELLED or PAUSED.  After `shutdown` a second
  bootstrap always fails.
- Bootstrap: `start()` always fails on its own "Initialize all builtin agents"
  (`agents/bootstrap/runtime-bootstrap.ts:99`), as registration has initialised them.
- Coordinator: a delegate that answers `success: false` counts as one that succeeded
  for PARALLEL, ALL_SUCCESS (finding `agent_team_success`) and QUORUM; `maxParallelism` drops
  the rest; majority
  voting fails with two equal votes; `cancel` cancels nothing.
- Messaging: a message taken from the outbox whose send fails is lost; the limit of
  retries never bites; through the communication agent a
  second subscription to a channel always fails.
- Memory: two overlapping shared writes that expect the same version are both
  accepted (`agents/memory/shared-memory.ts:55`); `unlock` can revert a write.
- Planner: created plans drop their tasks' dependencies; an empty PARALLEL plan
  takes minus infinity.
- Plugins: a load replaces what was validated by a fresh import without validating
  it; concurrent loads leave an agent registered that no plugin owns.
- MCP: an abandoned discovery always fails, because the timeout's executor refers to itself before it is
  assigned (`mcp/discovery/discovery-service.ts:182`); so no server becomes active, the
  runtime's health is always unhealthy, and the discovery cache stays empty.  A
  timed-out tool run goes on beside its retry; and with no retries configured a timeout
  is counted although nothing is retried, so timeouts can outnumber retries.  SIGKILL is never sent, because `killed` is set by
  SIGTERM (finding `mcp_kill`).  With fewer than ten entries the permission cache evicts none.
- Kernel: a failed start leaves a kernel that answers nothing for good; providers are
  those of the start.  The assistant's message is never stored
  (`pipeline/stages/persistence-layer.stage.ts:22`).  Retries multiply: three of
  the kernel over three of the provider, and calls given up by the kernel go on.
- Built-in tool agent: a tool that does not answer holds its call for ever; the http tool has no
  timeout of its own (`tools/builtins/http.tool.ts:22`).
- Prompts: a name that no prompt bears is answered with the first of those whose name or
  description contains it, cached under the name asked for
  (`integrations/prompt/prompt-service.client.ts:160`).  The key has no workspace (`:132`), so
  what one workspace found serves the others, though the comment says "in the requested
  workspace" (`:144`).  A render between the two statements of a publication, or three of a rollback,
  takes the last version there is, a draft possibly (`:239`), and keeps it for the life of an
  entry.  Two publications that overlap may leave two versions published
  (`src/backend/services/prompt-service/src/repositories/prompt-version.repository.ts:45`).

## 6. Not modelled

PROJECT.json lists every part with its status.

- *Of modelled parts:* lookups, searches, reports and texts; metric summaries;
  `compile`, `validate` and `runMixed` of the workflow engine; the HTTP
  and SSE transports; the discovery cache, which is never filled; the bridge of MCP tools
  into the kernel, MCP authentication, the kernel's planner, document and rag executors, and its schedulers,
  which have no caller.
- *Auth service:* token rotation and lockout are database transactions that would be a
  module of their own; see the plan.
- *Prompt service:* texts, variables and their substitution, executions, playground, evaluations,
  datasets and analytics, none of which changes what the kernel reads.
- *User, workspace, agent, chat and document services, gateway:* handlers that
  pass a request to one database statement or to another service.  The
  chat service appears as the kernel sees it.
- *Python packages:* stores and interfaces without concurrency of their own.

## 7. Plan

1. `AuthSession`: refresh token rotation and account lockout.
2. The HTTP and SSE transports below `McpSession`, with an abstract transport that stdio
   implements.
3. An abstract specification of the coordinator (one outcome per assignment) and of
   the session (a request has one answer), shown to be implemented.
4. Theorems: `StatisticsAgree` and `ComponentsSound` of the built-in agents, once the planner's
   sort is a recursive function and what it returns can be reasoned about.
