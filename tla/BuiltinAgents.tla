---------------------------- MODULE BuiltinAgents ----------------------------
(***************************************************************************)
(* The ten built-in agents, one to a behaviour, with the components the    *)
(* repository gives them where their state matters: the memory agent over  *)
(* the memories, which other clients use too, the plugin agent over the    *)
(* plugin loader, the planner agent over the planner.  The other agents'   *)
(* components (modelled in modules of their own) answer as they will.      *)
(***************************************************************************)
EXTENDS CoordinatingAgents, ExecutingAgents, StoringAgents, CommunicationAgent,
         PlannerAgent, ToolAgent

CONSTANT
    Workloads   \* which agent, its calls and their operations, how many lifecycle
                \* operations, whether plans have dependencies, the memories' clients

ASSUME WorkloadsAssumption ==
    \A w \in Workloads : /\ w.calls \subseteq Calls
                          /\ w.agent = "memory" => w.calls \subseteq Operations

VARIABLES workload, controls

channelVars == <<channel, opened>>
componentVars == <<memoryVars, channelVars, plannerVars, loaderVars, strays>>
vars == <<workload, controls, builtinVars, componentVars>>

Agents == {"scheduler", "coordinator", "execution", "orchestrator", "workflow", "memory",
           "communication", "planner", "plugin", "tool"}

OperationsOf(a) ==
    CASE a = "scheduler" -> SchedulerOperations [] a = "coordinator" -> CoordinatorOperations
      [] a = "execution" -> ExecutionOperations [] a = "orchestrator" -> OrchestratorOperations
      [] a = "workflow" -> WorkflowOperations [] a = "memory" -> MemoryOperations
      [] a = "communication" -> CommunicationOperations [] a = "planner" -> PlannerOperations
      [] a = "plugin" -> PluginOperations [] a = "tool" -> ToolOperations
NewAgent ==
    \/ agent = "scheduler" /\ NewSchedulerAgent
    \/ agent = "coordinator" /\ NewCoordinatorAgent
    \/ agent = "execution" /\ NewExecutionAgent
    \/ agent = "orchestrator" /\ NewOrchestratorAgent
    \/ agent = "workflow" /\ NewWorkflowAgent
    \/ agent = "memory" /\ NewMemoryAgent
    \/ agent = "communication" /\ NewCommunicationAgent
    \/ agent = "planner" /\ NewPlannerAgent
    \/ agent = "plugin" /\ NewPluginAgent
    \/ agent = "tool" /\ NewToolAgent

BuiltinInit ==
    /\ workload \in Workloads
    /\ controls = 0
    /\ agent = workload.agent
    /\ MemoryInit
    /\ LoaderInit
    /\ channel = FALSE
    /\ opened = 0
    /\ dependencies \in IF workload.plans THEN Graphs ELSE {[t \in PlanTasks |-> {}]}
    /\ activePlans = {}
    /\ replaced = {}
    /\ strays = 0
    /\ NewAgent

-----------------------------------------------------------------------------
\* A call of execute() begins or goes on, as the agent at hand has it.
AgentExecute(c) ==
    \/ agent = "scheduler" /\ SchedulerAgentExecute(c) /\ UNCHANGED componentVars
    \/ agent = "coordinator" /\ CoordinatorAgentExecute(c) /\ UNCHANGED componentVars
    \/ agent = "execution" /\ ExecutionAgentExecute(c) /\ UNCHANGED componentVars
    \/ agent = "orchestrator" /\ OrchestratorAgentExecute(c) /\ UNCHANGED componentVars
    \/ agent = "workflow" /\ WorkflowAgentExecute(c) /\ UNCHANGED componentVars
    \/ /\ agent = "memory" /\ MemoryExecute(c)
       /\ UNCHANGED <<channelVars, plannerVars, loaderVars, strays>>
    \/ /\ agent = "communication" /\ CommunicationExecute(c)
       /\ UNCHANGED <<memoryVars, plannerVars, loaderVars, strays>>
    \/ /\ agent = "planner" /\ PlannerExecute(c)
       /\ UNCHANGED <<memoryVars, channelVars, loaderVars, strays>>
    \/ /\ agent = "plugin" /\ PluginExecute(c)
       /\ UNCHANGED <<memoryVars, channelVars, plannerVars, strays>>
    \/ /\ agent = "tool" /\ ToolAgentExecute(c)
       /\ UNCHANGED <<memoryVars, channelVars, plannerVars, loaderVars>>

CallEnds(c) ==
    /\ ExecuteReturns(c) \/ ExecuteFails(c)
    /\ UNCHANGED componentVars

OddCall(c) ==
    /\ ExecuteNothing(c) \/ ExecuteUnknown(c)
    /\ UNCHANGED componentVars

CallStep(c) ==
    /\ CallEnds(c) \/ (calls[c].at # "idle" /\ AgentExecute(c))
    /\ UNCHANGED <<workload, controls>>

CallBegins(c) ==
    /\ calls[c].at = "idle"
    /\ \/ AgentExecute(c) /\ calls'[c].request.operation \in workload.operations[c]
       \/ NoOperation \in workload.operations[c] /\ OddCall(c)
    /\ UNCHANGED <<workload, controls>>

Lifecycle ==
    \/ agent = "scheduler" /\ SchedulerLifecycle /\ UNCHANGED componentVars
    \/ agent = "coordinator" /\ CoordinatorLifecycle /\ UNCHANGED componentVars
    \/ agent = "execution" /\ ExecutionLifecycle /\ UNCHANGED componentVars
    \/ agent = "orchestrator" /\ OrchestratorLifecycle /\ UNCHANGED componentVars
    \/ agent = "workflow" /\ WorkflowLifecycle /\ UNCHANGED componentVars
    \/ /\ agent = "memory" /\ MemoryLifecycle
       /\ UNCHANGED <<channelVars, plannerVars, loaderVars, strays>>
    \/ /\ agent = "communication" /\ CommunicationLifecycle
       /\ UNCHANGED <<memoryVars, plannerVars, loaderVars, strays>>
    \/ /\ agent = "planner" /\ PlannerLifecycle
       /\ UNCHANGED <<memoryVars, channelVars, loaderVars, strays>>
    \/ /\ agent = "plugin" /\ PluginLifecycle
       /\ UNCHANGED <<memoryVars, channelVars, plannerVars, strays>>
    \/ /\ agent = "tool" /\ ToolLifecycle
       /\ UNCHANGED <<memoryVars, channelVars, plannerVars, loaderVars>>

Control ==
    /\ controls < workload.controls
    /\ controls' = controls + 1
    /\ Lifecycle
    /\ UNCHANGED workload

\* What other clients do: with the memories, with the channel, and in the background.
ClientOfShared(o) ==
    \/ \E expected \in 0 .. 1 : WriteBegin(o, expected)
    \/ LockBegin(o)
    \/ \E id \in Operations : holds[id] # Absent /\ (UnlockFails(o, id) \/ UnlockBegin(o, id))
    \/ IsLocked(o)
    \/ ClearShared(o)
ClientOfConversation(o) == AppendBegin(o) \/ ClearConversation(o)
ClientOfStores(o) ==
    \E k \in Keys : \/ PutWorkspace(o, k) \/ PutThrows(o, k) \/ PutScratchpad(o, k)
                    \/ \E s \in Stores : RemoveKey(o, s, k)

MemoryClient(o) ==
    \/ workload.clients = "shared" /\ ClientOfShared(o)
    \/ workload.clients = "conversation" /\ ClientOfConversation(o)
    \/ workload.clients = "stores" /\ ClientOfStores(o)

NotMemory == UNCHANGED <<workload, controls, builtinVars, channelVars, plannerVars, loaderVars, strays>>
MemoryGoesOn(o) == MemoryStep(o) /\ NotMemory
LoaderGoesOn(c) ==
    /\ LoaderStep(c)
    /\ UNCHANGED <<workload, controls, builtinVars, memoryVars, channelVars, plannerVars, strays>>

Others ==
    \/ (\E o \in Operations \ Calls : MemoryClient(o)) /\ NotMemory
    \/ MemoryTimers /\ NotMemory
    \/ /\ agent = "communication" /\ (OtherOpens \/ OtherRemoves)
       /\ UNCHANGED <<workload, controls, memoryVars, plannerVars, loaderVars, strays>>
    \/ /\ \E o \in Outcomes : StraySettles(o)
       /\ UNCHANGED <<workload, controls, memoryVars, channelVars, plannerVars, loaderVars>>

BuiltinNext ==
    \/ \E c \in workload.calls : CallBegins(c)
    \/ \E c \in workload.calls : CallStep(c)
    \/ \E c \in workload.calls : LoaderGoesOn(c)
    \/ \E o \in Operations : MemoryGoesOn(o)
    \/ Control
    \/ Others

BuiltinSpec == BuiltinInit /\ [][BuiltinNext]_vars

AwaitsTool(c) == agent = "tool" /\ WaitsForTool(c)

\* Calls go on once begun, unless they wait for a tool, which need not answer; the
\* memory's microtasks run, and so do files and imports.
BuiltinFairness ==
    /\ \A c \in Calls : WF_vars(CallStep(c) /\ ~AwaitsTool(c)) /\ WF_vars(LoaderGoesOn(c))
    /\ \A o \in Operations : WF_vars(MemoryGoesOn(o))

BuiltinFairSpec == BuiltinSpec /\ BuiltinFairness
-----------------------------------------------------------------------------
\* What an agent counted is what was done, at every moment: per operation, the
\* attempts are those calls that got past the validation of their request, and each
\* is a success, an error or still under way, and each that ended left a sample while
\* there was room; errors that were no attempts are the
\* malformed requests; an agent that never failed has no errors, and the health kept
\* from the last check is unhealthy only if the agent still is.  And each agent's
\* own statistics agree with the operations they are about.
StatisticsAgree ==
    /\ \A op \in OperationsOf(agent) :
        LET begun == CallsAt({"waiting", "estimating", "listed", "batch", "answered", "done"}, op)
            malformed == {c \in CallsAt({"done"}, op) : calls[c].ends = "malformed"}
            threw == {c \in CallsAt({"done"}, op) : calls[c].ends = "throws"}
        IN  /\ operationCounts[op] = Cardinality(begun \ malformed)
            /\ errorCounts[op] = Cardinality(malformed \cup threw)
            /\ successCounts[op] = Cardinality(CallsAt({"done"}, op) \ (malformed \cup threw))
            /\ LET ended == successCounts[op] + errorCounts[op]
               IN  latencies[op] = IF ended < MaxLatencies THEN ended ELSE MaxLatencies
    /\ (\E op \in OperationsOf(agent) : errorCounts[op] > 0) => failed
    /\ agentHealth = "unhealthy" /\ agent # "memory" => OwnStatus = "unhealthy"
    /\ CASE agent = "scheduler" -> SchedulingStatsAgree
         [] agent = "coordinator" -> CoordinationStatsAgree
         [] agent = "execution" -> ExecutionStatsAgree
         [] agent = "orchestrator" -> OrchestrationStatsAgree
         [] agent = "workflow" -> WorkflowStatsAgree
         [] agent = "memory" -> MemoryStatsAgree
         [] agent = "communication" -> CommunicationStatsAgree
         [] agent = "planner" -> PlanningStatsAgree
         [] agent = "plugin" -> PluginStatsAgree
         [] agent = "tool" -> ToolStatsAgree

\* The components are sound under the agents' calls and other clients': locks
\* exclude each other, operations made one after the other are serial on the
\* memories and on the plugins, and the planner's algorithms and the plugin validator
\* do what they are for.
ComponentsSound ==
    /\ LocksExclusive
    /\ SerialMemory
    /\ SerialPlugins
    /\ workload.plans => PlannerSound
    /\ ValidatorSound

\* Every call of execute() ends: it returns a result, whatever the component answers,
\* or is rejected, when its operation is one the agent does not know; unless it is
\* one of the tool agent that waits for a tool, which nothing limits in time.  As
\* often as that tool answers, the call goes on to the next tool or to its end.
ExecuteSettles ==
    \A c \in Calls : calls[c].at # "idle" ~> \/ calls[c].at \in {"done", "rejected"}
                                            \/ AwaitsTool(c)
=============================================================================
