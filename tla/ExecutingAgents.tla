-------------------------- MODULE ExecutingAgents --------------------------
(***************************************************************************)
(* The three agents that pass an execution on to a component which         *)
(* executes: the execution agent to the AgentRuntime, the orchestrator     *)
(* agent to the AgentOrchestrator, the workflow agent to the               *)
(* WorkflowEngine (agents/builtin/{execution,orchestrator,workflow}-agent/).*)
(***************************************************************************)
EXTENDS BuiltinAgent

----------------------------------------------------------------------------
\* The execution agent: the AgentRuntime's operations behind execute().

ExecutionOperations == {"execute", "execute-batch", "cancel", "status"}
\* totalCleanups is never counted; maxConcurrency is a maximum, left out.
ExecutionFields == {"totalExecutions", "singleExecutions", "batchExecutions", "totalCancellations",
                    "successfulCancellations", "totalStatusQueries", "totalRequests",
                    "failFastUsage"}

ExecutionRequests ==
    {Request(op, {}, 2, "") : op \in ExecutionOperations}
        \cup {Request("execute", {f}, 1, "") : f \in {"executionRequest", "userId"}}
        \cup {Request("execute-batch", {}, n, t) : n \in {0, 2}, t \in {"failFast", "noSlots"}}
        \cup {Request("cancel", {"executionId"}, 1, "")}

ExecutionParses(r) ==
    ~Lacking(r, "execute" :> {"executionRequest"} @@ "execute-batch" :> {"batchRequest"}
                    @@ "cancel" :> {"executionId"} @@ "status" :> {"executionId"})

ExecutionRequestFields == {"agentId", "input", "context", "requestId", "traceId", "workspaceId",
                           "userId"}
ValidExecutionRequest(r) == r.lacks \cap ExecutionRequestFields = {}
\* Here a batch with no concurrency is refused, which the runtime itself accepts.
ValidBatchRequest(r) == r.n > 0 /\ ValidExecutionRequest(r) /\ r.tag # "noSlots"

ExecuteAgent(r, o) ==
    Counting(IF ValidExecutionRequest(r) THEN o ELSE "throws",
             Each({"totalExecutions", "singleExecutions"}))
ExecuteBatch(r, o) ==
    Counting(IF ValidBatchRequest(r) THEN o ELSE "throws",
             Each({"totalExecutions", "batchExecutions"}) @@ ("totalRequests" :> r.n)
                @@ ("failFastUsage" :> IF r.tag = "failFast" THEN 1 ELSE 0))
\* A failed cancellation counts as well.
CancelExecution(o) ==
    IF o = "throws" THEN Throws(One("totalCancellations"))
    ELSE Returns(Each({"totalCancellations", "successfulCancellations"}))
GetExecutionStatus(o) == Counting(o, One("totalStatusQueries"))

ExecutionEffect(r, o) ==
    CASE r.operation = "execute" -> ExecuteAgent(r, o)
      [] r.operation = "execute-batch" -> ExecuteBatch(r, o)
      [] r.operation = "cancel" -> CancelExecution(o)
      [] r.operation = "status" -> GetExecutionStatus(o)

NewExecutionAgent == Construct(ExecutionOperations, ExecutionFields)

ExecutionAgentExecute(c) ==
    \/ NotBegun(c) /\ \E r \in ExecutionRequests :
        IF ExecutionParses(r) THEN ExecuteBegin(c, r) ELSE ExecuteMalformed(c, r)
    \/ /\ Waiting(c)
       /\ \E o \in Outcomes : Answer(c, ExecutionEffect(calls[c].request, o))

ExecutionLifecycle ==
    \/ Initialize
    \/ Shutdown
    \/ GetHealth("healthy")
    \/ \E status \in Statuses : UpdateStatus(status)

\* getExecutionAgentHealth(); of the batches it knows only the total.
ExecutionAgentHealth ==
    [status |-> OwnStatus, total |-> stats["totalExecutions"],
     completed |-> successCounts["execute"], failed |-> errorCounts["execute"]]

\* getMetrics(), executionStats and operationStats
ExecutionStats ==
    [total |-> stats["totalExecutions"],
     kinds |-> stats["singleExecutions"] + stats["batchExecutions"],
     cancellations |-> stats["totalCancellations"],
     cancelled |-> stats["successfulCancellations"],
     failFast |-> stats["failFastUsage"]]

\* Executions are single or batches; a cancellation is counted once whether it
\* succeeds or throws, and cancelled ones among them.
ExecutionStatsAgree ==
    /\ ExecutionStats.total = ExecutionStats.kinds
    /\ ExecutionStats.total = Succeeded("execute") + Succeeded("execute-batch")
    /\ ExecutionStats.cancellations = Ended({"returns", "throws"}, {"cancel"})
    /\ ExecutionStats.cancelled = Succeeded("cancel")
    /\ ExecutionStats.failFast <= stats["batchExecutions"]
    /\ ExecutionAgentHealth.completed <= ExecutionAgentHealth.total
    /\ ExecutionAgentHealth.failed > 0 => ExecutionAgentHealth.status = "unhealthy"

----------------------------------------------------------------------------
\* The orchestrator agent: the AgentOrchestrator's operations behind execute().

OrchestratorOperations == {"execute", "execute-workflow", "execute-plan", "cancel", "health"}
OrchestratorFields == {"totalExecutions", "agentExecutions", "workflowExecutions", "planExecutions",
                       "totalCancellations", "successfulCancellations", "totalHealthChecks"}

OrchestratorRequests ==
    {Request(op, {}, 1, "") : op \in OrchestratorOperations}
        \cup {Request("execute", {f}, 1, "") : f \in {"agentRequest", "agentId"}}
        \cup {Request("execute-workflow", {"workflowId"}, 1, "")}
        \cup {Request("execute-plan", {f}, 1, "") : f \in {"planRequest", "planId"}}
        \cup {Request("cancel", {"executionId"}, 1, "")}

OrchestratorParses(r) ==
    ~Lacking(r, "execute" :> {"agentRequest"} @@ "execute-workflow" :> {"workflowRequest"}
                    @@ "execute-plan" :> {"planRequest"} @@ "cancel" :> {"executionId"})

ValidAgentExecution(r) == r.lacks \cap {"agentId", "input", "context"} = {}
ValidWorkflowExecution(r) == r.lacks \cap {"workflowId", "input", "context"} = {}
ValidPlanExecution(r) == r.lacks \cap {"plan", "context", "planId"} = {}

OrchestratorExecutes(valid, o, kind) ==
    Counting(IF valid THEN o ELSE "throws", Each({"totalExecutions", kind}))

OrchestrateAgent(r, o) == OrchestratorExecutes(ValidAgentExecution(r), o, "agentExecutions")
OrchestrateWorkflow(r, o) ==
    OrchestratorExecutes(ValidWorkflowExecution(r), o, "workflowExecutions")
OrchestratePlan(r, o) == OrchestratorExecutes(ValidPlanExecution(r), o, "planExecutions")
OrchestratorCancel(o) ==
    CASE o = "throws" -> Throws(One("totalCancellations"))
      [] o = "no" -> Returns(One("totalCancellations"))
      [] o = "yes" -> Returns(Each({"totalCancellations", "successfulCancellations"}))
GetOrchestratorHealth(o) == Counting(o, One("totalHealthChecks"))

OrchestratorEffect(r, o) ==
    CASE r.operation = "execute" -> OrchestrateAgent(r, o)
      [] r.operation = "execute-workflow" -> OrchestrateWorkflow(r, o)
      [] r.operation = "execute-plan" -> OrchestratePlan(r, o)
      [] r.operation = "cancel" -> OrchestratorCancel(o)
      [] r.operation = "health" -> GetOrchestratorHealth(o)

NewOrchestratorAgent == Construct(OrchestratorOperations, OrchestratorFields)

OrchestratorAgentExecute(c) ==
    \/ NotBegun(c) /\ \E r \in OrchestratorRequests :
        IF OrchestratorParses(r) THEN ExecuteBegin(c, r) ELSE ExecuteMalformed(c, r)
    \/ /\ Waiting(c)
       /\ \E o \in Outcomes : Answer(c, OrchestratorEffect(calls[c].request, o))

OrchestratorLifecycle ==
    \/ Initialize
    \/ Shutdown
    \/ GetHealth("healthy")
    \/ \E status \in Statuses : UpdateStatus(status)

\* getOrchestratorAgentHealth(); an orchestrator that executed nothing has the agent's
\* own total stand in for its own.
OrchestratorAgentHealth(theirs) ==
    [status |-> OwnStatus, checks |-> stats["totalHealthChecks"],
     total |-> IF theirs > 0 THEN theirs ELSE stats["totalExecutions"]]

\* getMetrics(), orchestrationStats
OrchestrationStats ==
    [total |-> stats["totalExecutions"],
     kinds |-> stats["agentExecutions"] + stats["workflowExecutions"] + stats["planExecutions"],
     cancellations |-> stats["totalCancellations"],
     cancelled |-> stats["successfulCancellations"]]

\* Executions are of one of three kinds; a cancellation counts even when it throws.
OrchestrationStatsAgree ==
    /\ OrchestrationStats.total = OrchestrationStats.kinds
    /\ OrchestrationStats.cancellations = Ended({"returns", "throws"}, {"cancel"})
    /\ OrchestrationStats.cancelled <= Succeeded("cancel")
    /\ OrchestratorAgentHealth(0).checks = Succeeded("health")
    /\ OrchestratorAgentHealth(0).total > 0 =>
        Succeeded("execute") + Succeeded("execute-workflow") + Succeeded("execute-plan") > 0

----------------------------------------------------------------------------
\* The workflow agent: the WorkflowEngine's operations behind execute().

WorkflowOperations == {"execute-workflow", "validate-workflow", "pause-workflow",
                       "resume-workflow", "cancel-workflow"}
WorkflowFields == {"totalExecutions", "totalValidations", "validWorkflows", "invalidWorkflows",
                   "totalPauses", "totalResumes", "totalCancellations"}

WorkflowRequests ==
    {Request(op, {}, 1, "") : op \in WorkflowOperations}
        \cup {Request("execute-workflow", {"input"}, 1, ""),
              Request("validate-workflow", {"workflow"}, 1, ""),
              Request("pause-workflow", {"executionId"}, 1, "")}

WorkflowParses(r) ==
    ~Lacking(r, "execute-workflow" :> {"workflowId", "input", "context"}
                    @@ "validate-workflow" :> {"workflow"}
                    @@ [op \in {"pause-workflow", "resume-workflow", "cancel-workflow"} |->
                            {"executionId"}])

WorkflowExecute(o) == Counting(o, One("totalExecutions"))
ValidateWorkflow(o) ==
    Counting(o, Each({"totalValidations",
                      IF o = "yes" THEN "validWorkflows" ELSE "invalidWorkflows"}))
PauseWorkflow(o) == CountingIf(o, One("totalPauses"))
ResumeWorkflow(o) == CountingIf(o, One("totalResumes"))
CancelWorkflow(o) == CountingIf(o, One("totalCancellations"))

WorkflowEffect(r, o) ==
    CASE r.operation = "execute-workflow" -> WorkflowExecute(o)
      [] r.operation = "validate-workflow" -> ValidateWorkflow(o)
      [] r.operation = "pause-workflow" -> PauseWorkflow(o)
      [] r.operation = "resume-workflow" -> ResumeWorkflow(o)
      [] r.operation = "cancel-workflow" -> CancelWorkflow(o)

NewWorkflowAgent == Construct(WorkflowOperations, WorkflowFields)

WorkflowAgentExecute(c) ==
    \/ NotBegun(c) /\ \E r \in WorkflowRequests :
        IF WorkflowParses(r) THEN ExecuteBegin(c, r) ELSE ExecuteMalformed(c, r)
    \/ /\ Waiting(c)
       /\ \E o \in Outcomes : Answer(c, WorkflowEffect(calls[c].request, o))

WorkflowLifecycle ==
    \/ Initialize
    \/ Shutdown
    \/ GetHealth("healthy")
    \/ \E status \in Statuses : UpdateStatus(status)

\* getWorkflowAgentHealth()
WorkflowAgentHealth ==
    [status |-> OwnStatus, total |-> stats["totalExecutions"],
     completed |-> successCounts["execute-workflow"], failed |-> errorCounts["execute-workflow"]]

\* getMetrics(), workflowStats and operationStats
WorkflowStats ==
    [validations |-> stats["totalValidations"],
     verdicts |-> stats["validWorkflows"] + stats["invalidWorkflows"],
     paused |-> stats["totalPauses"], resumed |-> stats["totalResumes"]]

\* Every validation that ended found the workflow valid or not.
WorkflowStatsAgree ==
    /\ WorkflowStats.validations = WorkflowStats.verdicts
    /\ WorkflowStats.validations = Succeeded("validate-workflow")
    /\ WorkflowStats.paused <= Succeeded("pause-workflow")
    /\ WorkflowStats.resumed <= Succeeded("resume-workflow")
    /\ WorkflowAgentHealth.completed <= WorkflowAgentHealth.total
    /\ WorkflowAgentHealth.failed > 0 => WorkflowAgentHealth.status = "unhealthy"
============================================================================
