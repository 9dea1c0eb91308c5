------------------------------ MODULE ToolAgent ------------------------------
(* The tool agent (agents/builtin/tool-agent/): the tools of a registry and an *)
(* executor behind execute(), singly and in batches.                           *)
EXTENDS BuiltinAgent

VARIABLE strays     \* executions of tools whose batch has answered without them

ToolOperations == {"discover", "find", "list", "execute", "execute_batch", "validate"}
\* toolUsage, over all tools
ToolFields == {"executions", "successes", "failures"}

\* The modes of a batch: all at once, the same awaited one by one (maxConcurrency 1),
\* and in turn; each with failFast or without.
Parallel == {"parallel", "limited", "limited failFast"}
Sequential == {"sequential", "sequential failFast"}
FailFast == {"limited failFast", "sequential failFast"}

ToolRequests ==
    {Request(op, {}, 1, "") : op \in ToolOperations \ {"execute_batch"}}
        \cup {Request("execute_batch", {}, 2, mode) : mode \in Parallel \cup Sequential}
        \cup {Request("execute_batch", {}, 0, "parallel"),
              Request("execute_batch", {"mode"}, 2, ""), Request("execute", {"input"}, 1, "")}

ToolParses(r) ==
    ~Lacking(r, [find |-> {"toolName"}, execute |-> {"toolName", "input"},
                 execute_batch |-> {"executions", "mode"}, validate |-> {"toolName", "input"}])

\* recordToolUsage(): a tool that answers without success is recorded for its answer,
\* and once more for the exception made of it.
ToolUsage(o) ==
    CASE o = "yes" -> Each({"executions", "successes"})
      [] o = "no" -> "executions" :> 2 @@ "failures" :> 2
      [] o = "throws" -> Each({"executions", "failures"})

DiscoverTools(o) == Counting(o, Nothing)
FindTool(o) == Counting(o, Nothing)
ListTools(o) == Counting(o, Nothing)
ExecuteTool(o) == IF o = "yes" THEN Returns(ToolUsage(o)) ELSE Throws(ToolUsage(o))
\* An invalid input is a result, and not one of success.
ValidateToolInput(o) ==
    CASE o = "throws" -> Throws(Nothing) [] o = "yes" -> Returns(Nothing) [] o = "no" -> Declines(Nothing)

ToolEffect(r, o) ==
    CASE r.operation = "discover" -> DiscoverTools(o)
      [] r.operation = "find" -> FindTool(o)
      [] r.operation = "list" -> ListTools(o)
      [] r.operation = "execute" -> ExecuteTool(o)
      [] r.operation = "validate" -> ValidateToolInput(o)

\* executeBatch(): in parallel every tool is started now, whatever the limit.
BatchBegin(c) ==
    /\ SetCall(c, [at |-> "batch", request |-> calls[c].request, awaited |-> 0,
                   results |-> [i \in 1 .. calls[c].request.n |-> "pending"]])
    /\ UNCHANGED <<agent, available, agentStatus, agentHealth, failed, recordVars, stats, strays>>

\* One tool of the batch ends; in sequence, the first that has not.
BatchSettles(c, i, o) ==
    /\ calls[c].results[i] = "pending"
    /\ calls[c].request.tag \in Sequential => i = calls[c].awaited + 1
    /\ Adding(ToolUsage(o))
    /\ SetCall(c, [calls[c] EXCEPT !.results[i] = IF o = "yes" THEN "ok" ELSE "failed"])
    /\ UNCHANGED <<agent, available, agentStatus, agentHealth, failed, recordVars, strays>>

\* How far the batch waits next: to the end, or one further.
NextAwaited(c) ==
    IF calls[c].request.tag = "parallel" THEN calls[c].request.n ELSE calls[c].awaited + 1
Seen(c, upto, result) == {i \in 1 .. upto : calls[c].results[i] = result}
StopsEarly(c, upto) == calls[c].request.tag \in FailFast /\ Seen(c, upto, "failed") # {}

\* Mutant: the batch waits for the same tool again.
BatchGoesOn_Stuck(c, upto) ==
    /\ upto < calls[c].request.n
    /\ ~StopsEarly(c, upto)
    /\ UNCHANGED <<builtinVars, strays>>

BatchGoesOn(c, upto) ==
    /\ upto < calls[c].request.n
    /\ ~StopsEarly(c, upto)
    /\ SetCall(c, [calls[c] EXCEPT !.awaited = upto])
    /\ UNCHANGED <<agent, available, agentStatus, agentHealth, failed, recordVars, stats, strays>>

\* The batch answers, of the tools it waited for; the others run on unseen.
BatchEnds(c, upto) ==
    LET succeeds == \/ Seen(c, upto, "failed") = {}
                    \/ calls[c].request.tag \notin FailFast /\ Seen(c, upto, "ok") # {}
    IN  /\ upto = calls[c].request.n \/ StopsEarly(c, upto)
        /\ Answer(c, IF succeeds THEN Returns(Nothing) ELSE Declines(Nothing))
        /\ strays' = IF calls[c].request.tag \in Parallel
                     THEN strays + Cardinality(Seen(c, calls[c].request.n, "pending"))
                     ELSE strays

BatchAwaits(c) ==
    LET upto == IF calls[c].request.n = 0 THEN 0 ELSE NextAwaited(c)
    IN  /\ Seen(c, upto, "pending") = {}
        /\ BatchGoesOn(c, upto) \/ BatchEnds(c, upto)

\* An execution nobody waits for any more ends, and counts.
StraySettles(o) ==
    /\ strays > 0
    /\ strays' = strays - 1
    /\ Adding(ToolUsage(o))
    /\ UNCHANGED <<agent, available, agentStatus, agentHealth, failed, recordVars, calls>>

\* The call waits for a tool, with no timer: the executor hands the input to
\* tool.execute() and does not look at the timeout it was given.
WaitsForTool(c) ==
    \/ calls[c].at = "waiting" /\ calls[c].request.operation = "execute"
    \/ /\ calls[c].at = "batch"
       /\ calls[c].request.n > 0
       /\ Seen(c, NextAwaited(c), "pending") # {}

NewToolAgent == Construct(ToolOperations, ToolFields)

ToolAnswers(c) ==
    \/ /\ calls[c].request.operation = "execute_batch"
       /\ BatchBegin(c)
    \/ /\ calls[c].request.operation # "execute_batch"
       /\ \E o \in Outcomes : Answer(c, ToolEffect(calls[c].request, o))
       /\ UNCHANGED strays

ToolAgentExecute(c) ==
    \/ /\ NotBegun(c)
       /\ \E r \in ToolRequests :
            IF ToolParses(r) THEN ExecuteBegin(c, r) ELSE ExecuteMalformed(c, r)
       /\ UNCHANGED strays
    \/ Waiting(c) /\ ToolAnswers(c)
    \/ /\ calls[c].at = "batch"
       /\ \/ \E i \in 1 .. calls[c].request.n, o \in Outcomes : BatchSettles(c, i, o)
          \/ BatchAwaits(c)

\* getHealth() asks the registry for its tools, before it sees whether it has one.
ToolLifecycle ==
    /\ \/ Initialize
       \/ Shutdown
       \/ \E tools \in {"healthy", "degraded", "throws"} :
            (available \/ tools = "throws") /\ GetHealth(tools)
       \/ \E status \in Statuses : UpdateStatus(status)
    /\ UNCHANGED strays

\* getToolAgentHealth() over the registry's tools: with none enabled it is degraded, and
\* without a registry the question fails.
ToolAgentHealth(enabled) ==
    [status |-> StatusWith(IF enabled = 0 THEN "degraded" ELSE "healthy"),
     registered |-> available]

\* getMetrics(), toolUsageStats
ToolUsageStats == [executions |-> stats["executions"], successes |-> stats["successes"],
                   failures |-> stats["failures"]]

\* Each execution recorded succeeded or failed; every call that executed one tool,
\* and every tool a batch started and did not lose sight of, is recorded.
ToolStatsAgree ==
    LET settled == Cardinality({<<c, i>> \in Calls \X (1 .. 2) :
                                /\ calls[c].at = "batch"
                                /\ i \in DOMAIN calls[c].results
                                /\ calls[c].results[i] # "pending"})
    IN  /\ ToolUsageStats.executions = ToolUsageStats.successes + ToolUsageStats.failures
        /\ ToolUsageStats.executions >= Ended({"returns", "throws"}, {"execute"}) + settled
        /\ ToolUsageStats.successes >= Succeeded("execute")
    /\ errorCounts["execute"] > 0 => ToolAgentHealth(1).status = "unhealthy"
=============================================================================
