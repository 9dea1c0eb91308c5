-------------------------- MODULE RuntimeBootstrap --------------------------
(***************************************************************************)
(* The start and the end of the agent platform: RuntimeBootstrap           *)
(* (agents/bootstrap/runtime-bootstrap.ts) with the initializer, the       *)
(* registration of the built-in agents and the shutdown manager            *)
(* (agents/runtime/), over the registry, the lifecycle manager, the        *)
(* scheduler's pause flag and the orchestrator, which goes on working      *)
(* meanwhile.  One bootstrap() is under way at a time; the initializer     *)
(* never runs twice, so the components are made once.                      *)
(***************************************************************************)
EXTENDS AgentOrchestrator

CONSTANTS
    Bootstraps,     \* calls of bootstrap, start and shutdown
    BuiltinAgents,  \* the built-in agents, in the order they are registered in
    Workloads       \* what is asked of the platform: which executions and
                    \* registrations, by whom the orchestrator's operations, by
                    \* whom which of bootstrap, start and shutdown, autoStart, and
                    \* which agents may record an error

ASSUME BootstrapAssumption ==
    /\ Bootstraps \subseteq Controllers
    /\ Bootstraps \subseteq Removers
    /\ BuiltinAgents \in Seq(Agents)
    /\ \A w \in Workloads : /\ w.executions \subseteq Executions
                            /\ w.agents \subseteq Agents \ ToSet(BuiltinAgents)
                            /\ w.control \subseteq Controllers \ Bootstraps
                            /\ w.boot \subseteq Bootstraps
                            /\ w.autoStart \in BOOLEAN
                            /\ w.calls \subseteq {"bootstrap", "start", "shutdown"}
                            /\ w.ailing \subseteq Agents

VARIABLES
    workload,       \* the one of this behaviour
    bootState,      \* initialized (the components are set), started, shutdownInProgress
    initializerDone,    \* the initializer's own flag, which nothing resets
    builtin,        \* the built-in registry's instances, in order
    boots,          \* what each call is doing
    late            \* history: agents registered since a shutdown began

bootVars == <<workload, bootState, initializerDone, builtin, boots, late>>
vars == <<lifecycleVars, orchestratorVars, bootVars>>

Ready == [op |-> "idle", todo |-> <<>>]

Init ==
    /\ OrchestratorInit
    /\ workload \in Workloads
    /\ bootState = [initialized |-> FALSE, started |-> FALSE, shutdownInProgress |-> FALSE]
    /\ initializerDone = FALSE
    /\ builtin = <<>>
    /\ boots = [b \in Bootstraps |-> Ready]
    /\ late = {}

At(b, op) == boots[b].op = op
Todo(b) == boots[b].todo
Next1(b) == Head(Todo(b))
Do(b, op, todo) == boots' = [boots EXCEPT ![b] = [op |-> op, todo |-> todo]]
Done(b) == boots' = [boots EXCEPT ![b] = Ready]

-----------------------------------------------------------------------------
(* bootstrap: the initializer makes the components and registers the       *)
(* built-in agents.                                                        *)

Calls(b, op) == b \in workload.boot /\ op \in workload.calls /\ At(b, "idle")

Bootstrap(b) ==
    /\ Calls(b, "bootstrap")
    /\ ~bootState.initialized
    /\ ~initializerDone
    /\ \A c \in Bootstraps : At(c, "idle")
    /\ Do(b, "register", BuiltinAgents)
    /\ UNCHANGED <<workload, lifecycleVars, orchestratorVars, bootState, initializerDone, builtin, late>>

\* registerBuiltinAgent: the instance is in the built-in registry before its
\* agent is initialised ...
RegisterBuiltin(b) ==
    /\ At(b, "register")
    /\ Todo(b) # <<>>
    /\ builtin' = Append(builtin, Next1(b))
    /\ Do(b, "initializing", Todo(b))
    /\ UNCHANGED <<workload, lifecycleVars, orchestratorVars, bootState, initializerDone, late>>

\* A registration that fails is noted, and the next one begun.
NextBuiltin(b) == Do(b, "register", Tail(Todo(b)))

\* ... by agent.initialize() itself, past the lifecycle manager, and stays there
\* if that fails.
BuiltinInitialized(b, ok) ==
    /\ At(b, "initializing")
    /\ IF ok
       THEN Lifecycle!Register(Next1(b)) /\ UNCHANGED managerVars
       ELSE UNCHANGED lifecycleVars
    /\ NextBuiltin(b)
    /\ UNCHANGED <<workload, orchestratorVars, bootState, initializerDone, builtin, late>>

\* start() calls the orchestrator's start, which returns at once if it runs.
CallOrchestratorStart(b) ==
    IF state = "RUNNING" THEN UNCHANGED <<lifecycleVars, orchestratorVars>> ELSE Start(b)

BootstrapEnd(b) ==
    /\ At(b, "register")
    /\ Todo(b) = <<>>
    /\ initializerDone' = TRUE
    /\ bootState' = [bootState EXCEPT !.initialized = TRUE]
    /\ IF workload.autoStart
       THEN CallOrchestratorStart(b) /\ Do(b, "starting", <<>>)
       ELSE Done(b) /\ UNCHANGED <<lifecycleVars, orchestratorVars>>
    /\ UNCHANGED <<workload, builtin, late>>

StartRuntime(b) ==
    /\ Calls(b, "start")
    /\ bootState.initialized
    /\ ~bootState.started
    /\ CallOrchestratorStart(b)
    /\ Do(b, "starting", <<>>)
    /\ UNCHANGED <<workload, bootState, initializerDone, builtin, late>>

\* The orchestrator has started: the lifecycle manager starts each built-in
\* agent.  A shutdown may have unset the components by now.
StartAgents(b) ==
    /\ At(b, "starting")
    /\ control[b] = Idle
    /\ IF bootState.initialized
       THEN Do(b, "agents", builtin)
       ELSE Done(b)
    /\ UNCHANGED <<workload, lifecycleVars, orchestratorVars, bootState, initializerDone, builtin, late>>

StartAgent(b) ==
    /\ At(b, "agents")
    /\ Todo(b) # <<>>
    /\ IF bootState.initialized
       THEN /\ Lifecycle!Begin(b, Next1(b), "start")
            /\ Do(b, "startingAgent", Todo(b))

       ELSE Done(b) /\ UNCHANGED lifecycleVars
    /\ UNCHANGED <<workload, orchestratorVars, bootState, initializerDone, builtin, late>>

StartAgentStep(b) ==
    /\ At(b, "startingAgent")
    /\ \/ Lifecycle!Resolve(b) /\ Do(b, "agents", Tail(Todo(b)))
       \/ /\ Lifecycle!Find(b) \/ Lifecycle!Check(b) \/ Lifecycle!Reject(b)
          /\ IF call'[b] = Lifecycle!Idle
             THEN Done(b) ELSE UNCHANGED boots
    /\ UNCHANGED <<workload, orchestratorVars, bootState, initializerDone, builtin, late>>

StartEnds(b) ==
    /\ At(b, "agents")
    /\ Todo(b) = <<>>
    /\ bootState' = [bootState EXCEPT !.started = TRUE]
    /\ Done(b)
    /\ UNCHANGED <<workload, lifecycleVars, orchestratorVars, initializerDone, builtin, late>>

-----------------------------------------------------------------------------
(* shutdown: the shutdown manager takes the components down in order.      *)

Shutdown(b) ==
    /\ Calls(b, "shutdown")
    /\ bootState.initialized
    /\ ~bootState.shutdownInProgress
    /\ bootState' = [bootState EXCEPT !.shutdownInProgress = TRUE]
    /\ Do(b, "unregister", builtin)
    /\ late' = {}
    /\ UNCHANGED <<workload, lifecycleVars, orchestratorVars, initializerDone, builtin>>

\* The agent is shut down and removed from the registry, then from the built-in
\* one; one that is not in the registry keeps its instance.
UnregisterBuiltin(b) ==
    /\ At(b, "unregister")
    /\ Todo(b) # <<>>
    /\ IF Next1(b) \in agents
       THEN /\ Lifecycle!RemoveBegin(b, Next1(b))
            /\ UNCHANGED managerVars
            /\ Do(b, "removing", Todo(b))
       ELSE Do(b, "unregister", Tail(Todo(b))) /\ UNCHANGED lifecycleVars
    /\ UNCHANGED <<workload, orchestratorVars, bootState, initializerDone, builtin, late>>

\* The built-in registry is a map: without a key, the others stay in their order.
Without(a) ==
    LET places == {i \in DOMAIN builtin : builtin[i] = a}
    IN  IF places = {} THEN builtin ELSE RemoveAt(builtin, CHOOSE i \in places : TRUE)

RemoveBuiltin(b) ==
    /\ At(b, "removing")
    /\ Lifecycle!RemoveEnd(b)
    /\ builtin' = Without(Next1(b))
    /\ Do(b, "unregister", Tail(Todo(b)))
    /\ UNCHANGED <<workload, managerVars, orchestratorVars, bootState, initializerDone, late>>

\* The orchestrator is stopped, unless it is stopped already.
StopOrchestrator(b) ==
    /\ At(b, "unregister")
    /\ Todo(b) = <<>>
    /\ IF state = "STOPPED" THEN UNCHANGED <<lifecycleVars, orchestratorVars>> ELSE Stop(b)
    /\ Do(b, "stopping", <<>>)
    /\ UNCHANGED <<workload, bootState, initializerDone, builtin, late>>

\* A step of the orchestrator's start or stop called from here.
OrchestratorStep(b) ==
    /\ StartStopStep(b)
    /\ UNCHANGED <<workload, bootState, initializerDone, builtin, boots, late>>

\* The scheduler is paused and the runtime's executions are cancelled; then the
\* lifecycle manager shuts down what the registry still lists.
PauseScheduler(b) ==
    /\ At(b, "stopping")
    /\ control[b] = Idle
    /\ isPaused' = TRUE
    /\ Do(b, "lifecycle", SetToSeq(agents))
    /\ UNCHANGED <<workload, lifecycleVars, state, executionVars, control, unhealthy, bootState,
                   initializerDone, builtin, late>>

ShutdownAgent(b) ==
    /\ At(b, "lifecycle")
    /\ Todo(b) # <<>>
    /\ Lifecycle!Begin(b, Next1(b), "shutdown")
    /\ Do(b, "shuttingAgent", Todo(b))
    /\ UNCHANGED <<workload, orchestratorVars, bootState, initializerDone, builtin, late>>

ShutdownAgentStep(b) ==
    /\ At(b, "shuttingAgent")
    /\ Lifecycle!Advance(b)
    /\ IF call'[b] = Lifecycle!Idle THEN Do(b, "lifecycle", Tail(Todo(b))) ELSE UNCHANGED boots
    /\ UNCHANGED <<workload, orchestratorVars, bootState, initializerDone, builtin, late>>

\* Channels and plugins go next; the registry is cleared last.
\* Mutant: the agents that are left are not removed.
ClearRegistry_Skip(b) ==
    /\ At(b, "lifecycle")
    /\ Todo(b) = <<>>
    /\ Do(b, "clear", <<>>)
    /\ UNCHANGED <<workload, lifecycleVars, orchestratorVars, bootState, initializerDone, builtin, late>>

ClearRegistry(b) ==
    /\ At(b, "lifecycle")
    /\ Todo(b) = <<>>
    /\ Do(b, "clear", SetToSeq(agents))
    /\ UNCHANGED <<workload, lifecycleVars, orchestratorVars, bootState, initializerDone, builtin, late>>

RemoveAgent(b) ==
    /\ At(b, "clear")
    /\ Todo(b) # <<>>
    /\ IF Next1(b) \in agents
       THEN /\ Lifecycle!RemoveBegin(b, Next1(b))
            /\ UNCHANGED managerVars
            /\ Do(b, "clearing", Todo(b))
       ELSE Do(b, "clear", Tail(Todo(b))) /\ UNCHANGED lifecycleVars
    /\ UNCHANGED <<workload, orchestratorVars, bootState, initializerDone, builtin, late>>

AgentRemoved(b) ==
    /\ At(b, "clearing")
    /\ Lifecycle!RemoveEnd(b)
    /\ Do(b, "clear", Tail(Todo(b)))
    /\ UNCHANGED <<workload, managerVars, orchestratorVars, bootState, initializerDone,
                   builtin, late>>

ShutdownEnd(b) ==
    /\ At(b, "clear")
    /\ Todo(b) = <<>>
    /\ bootState' = [initialized |-> FALSE, started |-> FALSE, shutdownInProgress |-> FALSE]
    /\ Done(b)
    /\ UNCHANGED <<workload, lifecycleVars, orchestratorVars, initializerDone, builtin, late>>

-----------------------------------------------------------------------------
\* Whoever holds the components registers and removes agents ...
RegisterAgent(a) ==
    /\ initializerDone
    /\ a \in workload.agents
    /\ Lifecycle!Register(a)
    /\ late' = late \cup {a}
    /\ UNCHANGED <<workload, managerVars, orchestratorVars, bootState, initializerDone,
                   builtin, boots>>

\* An agent records an error, and is unhealthy from then on: a failed operation
\* or health check of its own.
AgentErrs(a) ==
    /\ a \in workload.ailing
    /\ unhealthy' = unhealthy \cup {a}
    /\ UNCHANGED <<lifecycleVars, state, executionVars, control, isPaused, bootVars>>

\* ... and calls the orchestrator, also after a shutdown.
UseOrchestrator ==
    /\ initializerDone
    /\ \/ \E e \in workload.executions : ExecutionBegin(e) \/ Cancel(e)
       \/ \E c \in workload.control : ControlBegin(c)
    /\ UNCHANGED bootVars

StepExecution(e) == ExecutionStep(e) /\ UNCHANGED bootVars
StepControl(c) == ControlStep(c) /\ UNCHANGED bootVars

BootStep(b) ==
    \/ RegisterBuiltin(b) \/ \E ok \in BOOLEAN : BuiltinInitialized(b, ok)
    \/ BootstrapEnd(b) \/ StartAgents(b) \/ StartAgent(b) \/ StartAgentStep(b) \/ StartEnds(b)
    \/ UnregisterBuiltin(b) \/ RemoveBuiltin(b) \/ StopOrchestrator(b) \/ OrchestratorStep(b)
    \/ PauseScheduler(b) \/ ShutdownAgent(b) \/ ShutdownAgentStep(b)
    \/ ClearRegistry(b) \/ RemoveAgent(b) \/ AgentRemoved(b) \/ ShutdownEnd(b)

Next ==
    \/ \E b \in Bootstraps : Bootstrap(b) \/ StartRuntime(b) \/ Shutdown(b) \/ BootStep(b)
    \/ \E a \in Agents : RegisterAgent(a) \/ AgentErrs(a)
    \/ UseOrchestrator
    \/ \E e \in Executions : StepExecution(e)
    \/ \E c \in Controllers \ Bootstraps : StepControl(c)

Spec == Init /\ [][Next]_vars

\* Every call that is not at rest is resumed by the event loop, and what it
\* awaits settles: an agent's method, a run, a timer.
FairSpec ==
    /\ Spec
    /\ \A e \in Executions : WF_vars(StepExecution(e))
    /\ \A c \in Controllers \ Bootstraps : WF_vars(StepControl(c))
    /\ \A b \in Bootstraps : WF_vars(BootStep(b))

-----------------------------------------------------------------------------
(* Properties.                                                              *)

\* Who operates the orchestrator in this workload.  StoppedIsQuiet is about workloads in
\* which that is one caller, who does one thing after the other: a start or resume that
\* ends during another's stop lets executions in again.
Operators(w) ==
    w.control \cup (IF w.autoStart \/ w.calls \cap {"start", "shutdown"} # {} THEN w.boot ELSE {})
Serial(w) == \A c, d \in Operators(w) : c = d

\* When stop() has ended no record is left RUNNING: what ran when it began was
\* cancelled although records come, complete and fail while it awaits each
\* cancellation, and nothing begins meanwhile.
StoppedIsQuiet ==
    state = "STOPPED" => \A e \in Executions : executions[e] # "RUNNING"

\* execute() initialises the agent through the lifecycle manager each time, so an
\* agent is executed once until it is shut down: a second execution of it, also
\* one that overlaps with the first, is refused before the runtime is called.
OneExecutionPerAgent ==
    \A e, f \in Executions :
       /\ e # f /\ Type[e] = "SINGLE_AGENT" /\ Type[f] = "SINGLE_AGENT"
       /\ AgentOf[e] = AgentOf[f]
       /\ {at[e], at[f]} \subseteq {"memory", "run", "record", "returned"}
       => AgentOf[e] \in disturbed

\* A shutdown that ends has removed every agent that was registered when it
\* began, built in or not, although the failures of single agents are swallowed.
ShutdownEmptiesRegistry ==
    [][bootState.shutdownInProgress /\ ~bootState'.shutdownInProgress
         => agents' \subseteq late']_vars

\* Every execution returns or throws, whatever is paused, stopped, cancelled or
\* shut down meanwhile, and every bootstrap, start and shutdown ends.
CallsSettle ==
    /\ \A e \in Executions : at[e] # "idle" ~> at[e] \in {"returned", "threw"}
    /\ \A b \in Bootstraps : ~At(b, "idle") ~> At(b, "idle")
=============================================================================
