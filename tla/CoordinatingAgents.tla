------------------------- MODULE CoordinatingAgents -------------------------
(* The two built-in agents that stand in front of the scheduling and the      *)
(* coordination of agents: the scheduler agent                                *)
(* (agents/builtin/scheduler-agent/), AgentScheduler's operations behind      *)
(* execute(), and the coordinator agent (agents/builtin/coordinator-agent/),  *)
(* AgentCoordinator's.                                                        *)
EXTENDS BuiltinAgent

\* The scheduler agent.

SchedulerOperations == {"schedule", "enqueue", "dequeue", "cancel", "pause", "resume", "metrics"}
SchedulerFields == {"totalScheduled", "totalEnqueued", "totalDequeued", "totalCancelled",
                    "totalPauses", "totalResumes", "totalTasksInEnqueue"}

SchedulerRequests ==
    {Request(op, {}, 1, "") : op \in SchedulerOperations}
        \cup {Request("schedule", {f}, 1, "") : f \in {"task", "agentId"}}
        \cup {Request("enqueue", {}, n, t) : n \in {0, 2}, t \in {"distinct", "duplicates"}}
        \cup {Request("cancel", {"taskId"}, 1, "")}

\* validateAndParseRequest()
SchedulerParses(r) ==
    ~Lacking(r, [schedule |-> {"task"}, enqueue |-> {"tasks"}, cancel |-> {"taskId"}])

TaskFields == {"taskId", "agentId", "input", "priority", "state"}
\* validateTask(), for the tasks of a request
ValidTask(r) == r.lacks \cap TaskFields = {}
\* validateTasksArray()
ValidTasksArray(r) == r.n > 0 /\ ValidTask(r) /\ r.tag # "duplicates"

ScheduleTask(r, o) ==
    Counting(IF ValidTask(r) THEN o ELSE "throws", One("totalScheduled"))
EnqueueTasks(r, o) ==
    Counting(IF ValidTasksArray(r) THEN o ELSE "throws",
             "totalEnqueued" :> 1 @@ "totalTasksInEnqueue" :> r.n)
DequeueTask(o) == CountingIf(o, One("totalDequeued"))
CancelTask(o) == CountingIf(o, One("totalCancelled"))
PauseScheduler(o) == Counting(o, One("totalPauses"))
ResumeScheduler(o) == Counting(o, One("totalResumes"))
GetSchedulerMetrics(o) == Counting(o, Nothing)

\* execute()'s switch
SchedulerEffect(r, o) ==
    CASE r.operation = "schedule" -> ScheduleTask(r, o)
      [] r.operation = "enqueue" -> EnqueueTasks(r, o)
      [] r.operation = "dequeue" -> DequeueTask(o)
      [] r.operation = "cancel" -> CancelTask(o)
      [] r.operation = "pause" -> PauseScheduler(o)
      [] r.operation = "resume" -> ResumeScheduler(o)
      [] r.operation = "metrics" -> GetSchedulerMetrics(o)

NewSchedulerAgent == Construct(SchedulerOperations, SchedulerFields)

SchedulerAgentExecute(c) ==
    \/ NotBegun(c) /\ \E r \in SchedulerRequests :
        IF SchedulerParses(r) THEN ExecuteBegin(c, r) ELSE ExecuteMalformed(c, r)
    \/ /\ Waiting(c)
       /\ \E o \in Outcomes : Answer(c, SchedulerEffect(calls[c].request, o))

SchedulerLifecycle ==
    \/ Initialize
    \/ Shutdown
    \/ GetHealth("healthy")
    \/ \E status \in Statuses : UpdateStatus(status)

\* getSchedulerAgentHealth()
SchedulerAgentHealth ==
    [status |-> OwnStatus,
     meanTasksPerEnqueue |-> IF stats["totalEnqueued"] > 0
                             THEN stats["totalTasksInEnqueue"] \div stats["totalEnqueued"] ELSE 0]

\* getMetrics(), schedulingStats: the counts of what was done.
SchedulingStats ==
    [scheduled |-> stats["totalScheduled"], enqueued |-> stats["totalEnqueued"],
     tasksInEnqueue |-> stats["totalTasksInEnqueue"], paused |-> stats["totalPauses"],
     resumed |-> stats["totalResumes"], dequeued |-> stats["totalDequeued"],
     cancelled |-> stats["totalCancelled"]]

\* They agree with the operations' own: an enqueue counts its tasks, once.
SchedulingStatsAgree ==
    /\ SchedulingStats.scheduled = Succeeded("schedule")
    /\ SchedulingStats.enqueued = Succeeded("enqueue")
    /\ SchedulingStats.tasksInEnqueue >= SchedulingStats.enqueued
    /\ SchedulingStats.paused = Succeeded("pause")
    /\ SchedulingStats.resumed = Succeeded("resume")
    /\ SchedulingStats.dequeued <= Succeeded("dequeue")
    /\ SchedulingStats.cancelled <= Succeeded("cancel")
    /\ SchedulerAgentHealth.meanTasksPerEnqueue > 0 <=> Succeeded("enqueue") > 0

-----------------------------------------------------------------------------
\* The coordinator agent.

CoordinatorOperations == {"assign", "delegate", "handoff", "broadcast", "collect", "cancel"}
CoordinationKinds == {"parallelCoordinations", "sequentialCoordinations", "votingCoordinations",
                      "quorumCoordinations"}
CoordinatorFields ==
    CoordinationKinds \cup {"totalCoordinations", "totalDelegations", "totalHandoffs",
                            "totalBroadcasts", "totalCollections", "totalCancellations",
                            "agentParticipations"}

Strategies == {"parallel", "sequential", "majority_voting", "quorum"}

CoordinatorRequests ==
    {Request(op, {}, 2, "") : op \in CoordinatorOperations \ {"assign"}}
        \cup {Request("assign", {}, 2, s) : s \in Strategies}
        \cup {Request("assign", {f}, 2, "parallel") : f \in {"coordinationRequest", "userId"}}
        \cup {Request("assign", {}, 0, "parallel")}
        \cup {Request("delegate", {f}, 1, "") : f \in {"agentId", "traceId"}}
        \cup {Request("handoff", {"toAgentId"}, 1, ""), Request("broadcast", {}, 0, ""),
              Request("cancel", {"coordinationId"}, 1, "")}

CoordinatorParses(r) ==
    ~Lacking(r, [assign |-> {"coordinationRequest"}, delegate |-> {"agentId", "task", "context"},
                 handoff |-> {"handoffRequest"}, broadcast |-> {"broadcastRequest"},
                 collect |-> {"coordinationId"}, cancel |-> {"coordinationId"}])

ContextFields == {"coordinationId", "requestId", "traceId", "workspaceId", "userId", "executionId"}
ValidCoordinationRequest(r) ==
    r.n > 0 /\ r.lacks \cap (ContextFields \cup {"input", "strategy", "context"}) = {}
ValidDelegationRequest(r) == r.lacks \cap (ContextFields \cup {"agentId", "task", "context"}) = {}
ValidHandoffRequest(r) == r.lacks \cap {"fromAgentId", "toAgentId", "context"} = {}
ValidBroadcastRequest(r) == r.n > 0 /\ r.lacks \cap {"message", "context"} = {}
If(valid, o) == IF valid THEN o ELSE "throws"

\* The counter a strategy belongs to.
KindOf(strategy) ==
    CASE strategy = "parallel" -> "parallelCoordinations"
      [] strategy = "sequential" -> "sequentialCoordinations"
      [] strategy \in {"majority_voting", "first_success", "all_success"} -> "votingCoordinations"
      [] strategy = "quorum" -> "quorumCoordinations"

\* A coordination counts, however it went: the result's own status is not looked at.
AssignCoordination(r, o) ==
    Counting(If(ValidCoordinationRequest(r), o),
             Each({"totalCoordinations", KindOf(r.tag)}) @@ ("agentParticipations" :> r.n))
DelegateTask(r, o) == Counting(If(ValidDelegationRequest(r), o), One("totalDelegations"))
HandoffAgent(r, o) == Counting(If(ValidHandoffRequest(r), o), One("totalHandoffs"))
CoordinatorBroadcast(r, o) == Counting(If(ValidBroadcastRequest(r), o), One("totalBroadcasts"))
CollectResults(o) == Counting(o, One("totalCollections"))
CancelCoordination(o) == CountingIf(o, One("totalCancellations"))

CoordinatorEffect(r, o) ==
    CASE r.operation = "assign" -> AssignCoordination(r, o)
      [] r.operation = "delegate" -> DelegateTask(r, o)
      [] r.operation = "handoff" -> HandoffAgent(r, o)
      [] r.operation = "broadcast" -> CoordinatorBroadcast(r, o)
      [] r.operation = "collect" -> CollectResults(o)
      [] r.operation = "cancel" -> CancelCoordination(o)

NewCoordinatorAgent == Construct(CoordinatorOperations, CoordinatorFields)

CoordinatorAgentExecute(c) ==
    \/ NotBegun(c) /\ \E r \in CoordinatorRequests :
        IF CoordinatorParses(r) THEN ExecuteBegin(c, r) ELSE ExecuteMalformed(c, r)
    \/ /\ Waiting(c)
       /\ \E o \in Outcomes : Answer(c, CoordinatorEffect(calls[c].request, o))

CoordinatorLifecycle ==
    \/ Initialize
    \/ Shutdown
    \/ GetHealth("healthy")
    \/ \E status \in Statuses : UpdateStatus(status)

\* getCoordinatorAgentHealth()
CoordinatorAgentHealth ==
    [status |-> OwnStatus, total |-> stats["totalCoordinations"],
     completed |-> successCounts["assign"], failed |-> errorCounts["assign"]]

\* getMetrics(), coordinationStats
CoordinationStats ==
    [total |-> stats["totalCoordinations"],
     byKind |-> stats["parallelCoordinations"] + stats["sequentialCoordinations"]
                    + stats["votingCoordinations"] + stats["quorumCoordinations"],
     successful |-> successCounts["assign"], failed |-> errorCounts["assign"],
     participations |-> stats["agentParticipations"]]

\* Every coordination is of one kind, and has agents.
CoordinationStatsAgree ==
    /\ CoordinationStats.total = Succeeded("assign")
    /\ CoordinationStats.byKind = CoordinationStats.total
    /\ CoordinationStats.participations >= CoordinationStats.total
    /\ stats["totalCancellations"] <= Succeeded("cancel")
    /\ CoordinatorAgentHealth.completed <= CoordinatorAgentHealth.total
    /\ CoordinatorAgentHealth.failed > 0 => CoordinatorAgentHealth.status = "unhealthy"
=============================================================================
