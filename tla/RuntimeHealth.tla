---------------------------- MODULE RuntimeHealth ----------------------------
(***************************************************************************)
(* The platform with its health checks: RuntimeHealthAggregator            *)
(* (agents/bootstrap/runtime-health.ts), the health methods of the         *)
(* components it asks, and the timer RuntimeBootstrap asks it with.  A     *)
(* check asks the components one after the other and awaits each, so it    *)
(* overlaps with starts, executions and shutdowns, and with other checks.  *)
(* Of a component outside this composition only what it recorded counts:   *)
(* errors and warnings, which nothing clears but communication's shutdown. *)
(***************************************************************************)
EXTENDS RuntimeBootstrap

CONSTANT HealthChecks       \* calls of getHealth, the timer's and others'

VARIABLES
    errors, warnings,   \* the components that recorded some
    usage,              \* how much of its limit the memory uses
    monitoring,         \* is the timer set?
    checks,             \* what each call of getHealth is doing
    ill                 \* history, per call: what has been unhealthy since it began

healthVars == <<errors, warnings, usage, monitoring, checks, ill>>
platformVars == <<vars, healthVars>>

\* In the order they are asked in.
ComponentOrder ==
    <<"AgentRegistry", "AgentRuntime", "Scheduler", "Planner", "WorkflowEngine", "Coordinator",
      "Orchestrator", "PluginLoader", "Memory", "CommunicationManager", "BuiltinRegistry">>
Components == ToSet(ComponentOrder)

\* No agent has the name of a component.  A workload also says which components may
\* record trouble, which calls of getHealth are made and whether the timer makes them.
ASSUME HealthAssumption ==
    /\ Agents \cap Components = {}
    /\ \A w \in Workloads : /\ w.troubled \subseteq Components
                            /\ w.checks \subseteq HealthChecks
                            /\ w.monitored \in BOOLEAN

HealthInit ==
    /\ errors = {}
    /\ warnings = {}
    /\ usage = "low"
    /\ monitoring = FALSE
    /\ checks = [h \in HealthChecks |-> [at |-> "idle"]]
    /\ ill = [h \in HealthChecks |-> {}]

-----------------------------------------------------------------------------
(* What a component says of itself.                                        *)

Worst(unhealthyIf, degradedIf) ==
    CASE unhealthyIf -> "unhealthy" [] ~unhealthyIf /\ degradedIf -> "degraded" [] OTHER -> "healthy"

AgentStatus(a) == Worst(a \in unhealthy, FALSE)
OrchestratorHealth ==
    Worst(state = "ERROR" \/ "Orchestrator" \in errors,
          state # "RUNNING" \/ "Orchestrator" \in warnings)
CoordinatorHealth == Worst("Coordinator" \in errors, "Coordinator" \in warnings)
\* A failed plugin is an error here, and plugins none of which is active a warning.
PluginHealth == Worst("PluginLoader" \in errors, "PluginLoader" \in warnings)
DetermineHealthStatus ==
    Worst("Memory" \in errors \/ usage = "full", usage = "high" \/ "Memory" \in warnings)
\* Without an agent on its bus the communication is degraded.
CommunicationHealth(registered) ==
    Worst("CommunicationManager" \in errors,
          "CommunicationManager" \in warnings \/ registered = 0)
BuiltinRegistryHealth == Worst("BuiltinRegistry" \in errors, "BuiltinRegistry" \in warnings)
\* An overdue task makes the scheduler degraded also when errors made it unhealthy.
SchedulerHealth(running, overdue) ==
    IF overdue > 0 THEN "degraded"
    ELSE Worst("Scheduler" \in errors, running = 0 \/ "Scheduler" \in warnings)

\* The agents and components that are unhealthy now.  The scheduler is not among them:
\* its errors are hidden while a task is overdue.
Unhealthy ==
    (agents \cap unhealthy)
        \cup {c \in Components :
                \/ c = "Orchestrator" /\ OrchestratorHealth = "unhealthy"
                \/ c = "Coordinator" /\ CoordinatorHealth = "unhealthy"
                \/ c = "PluginLoader" /\ PluginHealth = "unhealthy"
                \/ c = "Memory" /\ DetermineHealthStatus = "unhealthy"
                \/ c = "CommunicationManager" /\ CommunicationHealth(0) = "unhealthy"
                \/ c = "BuiltinRegistry" /\ BuiltinRegistryHealth = "unhealthy"}

-----------------------------------------------------------------------------
(* One check.                                                              *)

Checking(h) == checks[h].at \in Components
Asking(h, component) == checks[h].at = component
SetCheck(h, check) == checks' = [checks EXCEPT ![h] = check]

\* Mutant: the worst status a component can have decides only if none is degraded.
Overall_DegradedFirst(found) ==
    CASE "degraded" \in found -> "degraded" [] "unhealthy" \in found -> "unhealthy"
      [] OTHER -> "healthy"

Overall(found) ==
    CASE "unhealthy" \in found -> "unhealthy"
      [] "unhealthy" \notin found /\ "degraded" \in found -> "degraded"
      [] OTHER -> "healthy"

\* getHealth(): without an aggregator the answer is null.
GetHealth(h) ==
    /\ h \in workload.checks
    /\ ~Checking(h)
    /\ workload.monitored => monitoring
    /\ SetCheck(h, IF bootState.initialized
                   THEN [at |-> "AgentRegistry", visited |-> {}, found |-> {}]
                   ELSE [at |-> "done", overall |-> "null"])
    /\ UNCHANGED <<errors, warnings, usage, monitoring>>

\* A component has answered: the next one is asked, and the last answer settles it.
Report(h, statuses) ==
    LET i == CHOOSE j \in DOMAIN ComponentOrder : ComponentOrder[j] = checks[h].at
        found == checks[h].found \cup statuses
    IN  SetCheck(h, IF i < Len(ComponentOrder)
                    THEN [checks[h] EXCEPT !.at = ComponentOrder[i + 1], !.found = found]
                    ELSE [at |-> "done", overall |-> Overall(found)])

\* The registry asks each agent it has when its turn comes (one that is removed and
\* registered again meanwhile would be asked twice).
VisitAgent(h, a) ==
    /\ Asking(h, "AgentRegistry")
    /\ a \in agents \ checks[h].visited
    /\ SetCheck(h, [checks[h] EXCEPT !.visited = @ \cup {a}, !.found = @ \cup {AgentStatus(a)}])
    /\ UNCHANGED <<errors, warnings, usage, monitoring>>

CheckAgentRegistry(h) ==
    /\ Asking(h, "AgentRegistry")
    /\ agents \subseteq checks[h].visited
    /\ Report(h, {})
    /\ UNCHANGED <<errors, warnings, usage, monitoring>>

\* The runtime, the planner and the engine have no health of their own.
CheckAgentRuntime(h) ==
    /\ Asking(h, "AgentRuntime") /\ Report(h, {"healthy"})
    /\ UNCHANGED <<errors, warnings, usage, monitoring>>
CheckPlanner(h) ==
    /\ Asking(h, "Planner") /\ Report(h, {"healthy"})
    /\ UNCHANGED <<errors, warnings, usage, monitoring>>
CheckWorkflowEngine(h) ==
    /\ Asking(h, "WorkflowEngine") /\ Report(h, {"healthy"})
    /\ UNCHANGED <<errors, warnings, usage, monitoring>>

\* Asking the scheduler adds a warning for a task that is overdue.
CheckScheduler(h) ==
    /\ Asking(h, "Scheduler")
    /\ \E running \in 0 .. 1 : \E overdue \in 0 .. running :
        /\ overdue > 0 => "Scheduler" \in workload.troubled
        /\ Report(h, {SchedulerHealth(running, overdue)})
        /\ warnings' = IF overdue > 0 THEN warnings \cup {"Scheduler"} ELSE warnings
    /\ UNCHANGED <<errors, usage, monitoring>>

CheckCoordinator(h) ==
    /\ Asking(h, "Coordinator") /\ Report(h, {CoordinatorHealth})
    /\ UNCHANGED <<errors, warnings, usage, monitoring>>
CheckOrchestrator(h) ==
    /\ Asking(h, "Orchestrator") /\ Report(h, {OrchestratorHealth})
    /\ UNCHANGED <<errors, warnings, usage, monitoring>>
CheckPluginLoader(h) ==
    /\ Asking(h, "PluginLoader") /\ Report(h, {PluginHealth})
    /\ UNCHANGED <<errors, warnings, usage, monitoring>>
CheckMemory(h) ==
    /\ Asking(h, "Memory") /\ Report(h, {DetermineHealthStatus})
    /\ UNCHANGED <<errors, warnings, usage, monitoring>>
CheckCommunicationManager(h) ==
    /\ Asking(h, "CommunicationManager")
    /\ \E registered \in 0 .. 1 : Report(h, {CommunicationHealth(registered)})
    /\ UNCHANGED <<errors, warnings, usage, monitoring>>
CheckBuiltinRegistry(h) ==
    /\ Asking(h, "BuiltinRegistry") /\ Report(h, {BuiltinRegistryHealth})
    /\ UNCHANGED <<errors, warnings, usage, monitoring>>

CheckStep(h) ==
    \/ \E a \in Agents : VisitAgent(h, a)
    \/ CheckAgentRegistry(h) \/ CheckAgentRuntime(h) \/ CheckScheduler(h) \/ CheckPlanner(h)
    \/ CheckWorkflowEngine(h) \/ CheckCoordinator(h) \/ CheckOrchestrator(h)
    \/ CheckPluginLoader(h) \/ CheckMemory(h) \/ CheckCommunicationManager(h)
    \/ CheckBuiltinRegistry(h)

-----------------------------------------------------------------------------
(* What else happens to the components' health.                            *)

\* A component this composition leaves out records an error or a warning.
ComponentErrs(c) ==
    /\ c \in workload.troubled
    /\ errors' = errors \cup {c}
    /\ UNCHANGED <<warnings, usage, monitoring, checks>>
ComponentWarns(c) ==
    /\ c \in workload.troubled
    /\ warnings' = warnings \cup {c}
    /\ UNCHANGED <<errors, usage, monitoring, checks>>
MemoryUsed(level) ==
    /\ "Memory" \in workload.troubled
    /\ usage' = level
    /\ UNCHANGED <<errors, warnings, monitoring, checks>>

\* cancel() of a single agent's execution notes an error: the runtime does not know it.
CancelFails == \E e \in Executions : /\ Type[e] = "SINGLE_AGENT"
                                     /\ executions[e] # "CANCELLED"
                                     /\ executions'[e] = "CANCELLED"

\* bootstrap() sets the timer and shutdown() clears it; shutting the communication
\* down empties its lists.
StartHealthMonitoring == workload.monitored /\ bootState'.initialized /\ ~bootState.initialized
StopHealthMonitoring == bootState'.shutdownInProgress
Monitoring ==
    /\ monitoring' = CASE StartHealthMonitoring -> TRUE [] StopHealthMonitoring -> FALSE
                       [] OTHER -> monitoring
    /\ errors' = LET noted == IF CancelFails THEN errors \cup {"Orchestrator"} ELSE errors
                 IN  IF \E b \in Bootstraps : At(b, "lifecycle") /\ boots'[b].op = "clear"
                     THEN noted \ {"CommunicationManager"} ELSE noted
    /\ warnings' = IF \E b \in Bootstraps : At(b, "lifecycle") /\ boots'[b].op = "clear"
                   THEN warnings \ {"CommunicationManager"} ELSE warnings
    /\ UNCHANGED <<usage, checks>>

HealthAsked(h) == GetHealth(h) /\ UNCHANGED vars
HealthStep(h) == CheckStep(h) /\ UNCHANGED vars
Trouble == /\ \E c \in Components : ComponentErrs(c) \/ ComponentWarns(c)
           /\ UNCHANGED vars
Usage == (\E level \in {"low", "high", "full"} : MemoryUsed(level)) /\ UNCHANGED vars

Noting ==
    ill' = [h \in HealthChecks |->
              IF Checking(h) THEN ill[h] \cap (Unhealthy)'
              ELSE IF checks'[h].at = "AgentRegistry" THEN (Unhealthy)' ELSE ill[h]]

PlatformInit == Init /\ HealthInit

PlatformNext ==
    \/ Next /\ Monitoring /\ Noting
    \/ (\E h \in HealthChecks : HealthAsked(h)) /\ Noting
    \/ (\E h \in HealthChecks : HealthStep(h)) /\ Noting
    \/ Trouble /\ Noting
    \/ Usage /\ Noting

PlatformSpec == PlatformInit /\ [][PlatformNext]_platformVars

\* The same as FairSpec's, and each check is resumed when a component has answered.
PlatformFairSpec ==
    /\ PlatformSpec
    /\ \A e \in Executions : WF_platformVars(StepExecution(e) /\ Monitoring /\ Noting)
    /\ \A c \in Controllers \ Bootstraps : WF_platformVars(StepControl(c) /\ Monitoring /\ Noting)
    /\ \A b \in Bootstraps : WF_platformVars(BootStep(b) /\ Monitoring /\ Noting)
    /\ \A h \in HealthChecks : WF_platformVars(HealthStep(h) /\ Noting)
-----------------------------------------------------------------------------
\* A check that comes out other than unhealthy has missed nothing that lasted: no agent
\* that was registered and no component was unhealthy from its beginning to its end,
\* although each is asked at another moment and agents come and go meanwhile.
HealthTellsTrouble ==
    \A h \in HealthChecks :
        checks[h].at = "done" /\ checks[h].overall \in {"healthy", "degraded"} => ill[h] = {}

\* Every call settles, and every health check ends, however often the timer asks.
PlatformSettles ==
    /\ CallsSettle
    /\ \A h \in HealthChecks : Checking(h) ~> ~Checking(h)
=============================================================================
