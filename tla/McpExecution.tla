---------------------------- MODULE McpExecution ----------------------------
(***************************************************************************)
(* Executions of MCP tools: the execution manager                          *)
(* (mcp/manager/mcp-execution-manager.ts) with its limit, timeout, retries *)
(* and cancellation, batches, the MCPManager underneath                    *)
(* (mcp/manager/mcp-manager.ts), the metrics and the MCPRuntime on top     *)
(* (mcp/runtime/).                                                         *)
(***************************************************************************)
EXTENDS Naturals, Sequences, FiniteSets, SequencesExt, FiniteSetsExt

CONSTANTS
    ToolCalls,              \* calls of execute()
    ToolOf,                 \* the server and the tool of each
    ExecutionIds,           \* request, tool and millisecond: two calls may get the same
    ServerCalls,            \* calls of the manager's connect() and disconnect()
    MaxConcurrentExecutions,
    Retries,
    NoToolCall

ASSUME ExecutionAssumption ==
    /\ MaxConcurrentExecutions \in Nat
    /\ Retries \in Nat
    /\ DOMAIN ToolOf = ToolCalls
    /\ NoToolCall \notin ToolCalls \cup ExecutionIds

VARIABLES
    toolCalls,      \* per call: where it is, its id, attempts, and how it ended
    active,         \* activeExecutions: the call whose controller is under each id
    metrics,        \* the collector's totals of each tool
    registered,     \* the manager's registry has the server
    serverCalls,
    batch,          \* the batch: requests admitted, still queued, and settled
    runtime         \* the MCPRuntime's flags

executionVars == <<toolCalls, active, metrics>>
mcpExecutionVars == <<executionVars, registered, serverCalls, batch, runtime>>

Unstarted == [at |-> "idle", attempt |-> 0, runs |-> 0, timedOut |-> FALSE, aborted |-> FALSE,
              ok |-> FALSE, placeholder |-> FALSE, id |-> NoToolCall]
InFlight(e) == toolCalls[e].at \notin {"idle", "done", "limited"}
Awaiting(e) == toolCalls[e].at \in {"security", "health", "tool"}

ExecutionInit ==
    /\ toolCalls = [e \in ToolCalls |-> Unstarted]
    /\ active = [i \in ExecutionIds |-> NoToolCall]
    /\ metrics = [t \in Range(ToolOf) |->
                    [executions |-> 0, successes |-> 0, failures |-> 0, timeouts |-> 0,
                     retries |-> 0]]
    /\ registered = TRUE
    /\ serverCalls = [s \in ServerCalls |-> "idle"]
    /\ batch = [at |-> "idle", requests |-> {}, stopOnError |-> FALSE, admitted |-> {},
                queue |-> <<>>, settled |-> {}, ok |-> FALSE]
    /\ runtime = [initialized |-> FALSE, shutdownInitiated |-> FALSE, at |-> "idle"]

ToolGoes(e, place) == toolCalls' = [toolCalls EXCEPT ![e].at = place]

-----------------------------------------------------------------------------
(* execute().                                                              *)

Tracked == {i \in ExecutionIds : active[i] # NoToolCall}
LimitReached == Cardinality(Tracked) >= MaxConcurrentExecutions

ExecuteTool(e, i, placeholder) ==
    /\ toolCalls[e].at = "idle"
    /\ IF LimitReached
       THEN /\ toolCalls' = [toolCalls EXCEPT ![e].at = "limited", ![e].id = i]
            /\ UNCHANGED active
       ELSE /\ toolCalls' = [toolCalls EXCEPT ![e].at = "security", ![e].id = i, ![e].runs = 1,
                                             ![e].placeholder = placeholder]
            /\ active' = [active EXCEPT ![i] = e]
    /\ UNCHANGED <<metrics, registered, serverCalls, batch, runtime>>

\* recordExecution()
RecordExecution(e, success, attempt, timedOut) ==
    [metrics EXCEPT ![ToolOf[e]] =
        [executions |-> @.executions + 1,
         successes |-> @.successes + (IF success THEN 1 ELSE 0),
         failures |-> @.failures + (IF success THEN 0 ELSE 1),
         timeouts |-> @.timeouts + (IF timedOut THEN 1 ELSE 0),
         retries |-> @.retries + (IF attempt > 0 THEN 1 ELSE 0)]]

\* getAllMetrics(), getServerMetrics(): only tools that were executed are there.
ToolsMetered == {t \in DOMAIN metrics : metrics[t].executions > 0}
ToolsOfServer(server) == {t \in ToolsMetered : t[1] = server}

Column(field) == [t \in DOMAIN metrics |-> metrics[t][field]]
Total(field, tools) == SumFunctionOnSet(Column(field), tools)
Aggregate(tools) ==
    [executions |-> Total("executions", tools), successes |-> Total("successes", tools),
     failures |-> Total("failures", tools), timeouts |-> Total("timeouts", tools),
     retries |-> Total("retries", tools), toolCount |-> Cardinality(tools)]
\* The averages, and the global count of servers, are left out.
GetAggregatedServerMetrics(server) == Aggregate(ToolsOfServer(server))
GetGlobalMetrics == Aggregate(ToolsMetered)

\* Mutant: a failed call stays tracked.
Untrack_Skip(e) == UNCHANGED active
\* The finally block deletes what is under the id, be it another call's.
Untrack(e) == active' = [active EXCEPT ![toolCalls[e].id] = NoToolCall]

\* A result is returned, as a success or not, and is never tried again.
ToolReturns(e, ok) ==
    /\ toolCalls' = [toolCalls EXCEPT ![e].at = "done", ![e].ok = ok]
    /\ metrics' = RecordExecution(e, ok, toolCalls[e].attempt, FALSE)
    /\ Untrack(e)

\* The loop is left without a result.
ToolFails(e) ==
    /\ toolCalls' = [toolCalls EXCEPT ![e].at = "done"]
    /\ metrics' = RecordExecution(e, FALSE, Retries, toolCalls[e].timedOut)
    /\ Untrack(e)

\* executeInternal(): the security manager, then MCPManager.executeTool(), which looks
\* the server up, asks its health and runs the tool, and returns every error it meets.
\* The MCPRuntime's own execution manager has a placeholder for the MCPManager.
Authorize(e, allowed) ==
    /\ toolCalls[e].at = "security"
    /\ IF ~allowed \/ toolCalls[e].placeholder THEN ToolFails(e)
       ELSE IF registered
       THEN ToolGoes(e, "health") /\ UNCHANGED <<active, metrics>>
       ELSE ToolReturns(e, FALSE)
    /\ UNCHANGED <<registered, serverCalls, batch, runtime>>

ServerHealth(e, healthy) ==
    /\ toolCalls[e].at = "health"
    /\ IF healthy
       THEN ToolGoes(e, "tool") /\ UNCHANGED <<active, metrics>>
       ELSE ToolReturns(e, FALSE)
    /\ UNCHANGED <<registered, serverCalls, batch, runtime>>

ToolAnswers(e, ok) ==
    /\ toolCalls[e].at = "tool"
    /\ ToolReturns(e, ok)
    /\ UNCHANGED <<registered, serverCalls, batch, runtime>>

\* The one timer of the call: the run goes on unheeded, and "timeout" is an error
\* worth a retry.
ExecutionTimeout(e) ==
    /\ Awaiting(e)
    /\ IF Retries > 0
       THEN /\ toolCalls' = [toolCalls EXCEPT ![e].at = "delay", ![e].timedOut = TRUE]
            /\ UNCHANGED <<active, metrics>>
       ELSE /\ toolCalls' = [toolCalls EXCEPT ![e].at = "done", ![e].timedOut = TRUE]
            /\ metrics' = RecordExecution(e, FALSE, Retries, TRUE)
            /\ Untrack(e)
    /\ UNCHANGED <<registered, serverCalls, batch, runtime>>

\* After the delay the tool is run again, to no avail: the promise of the timer it
\* races is rejected already.  That the call was cancelled meanwhile is seen now.
RetryTool(e) ==
    LET t == toolCalls[e]
    IN  /\ t.at = "delay"
        /\ toolCalls' = [toolCalls EXCEPT ![e].attempt = @ + 1, ![e].runs = @ + 1,
                            ![e].at = IF t.aborted \/ t.attempt + 1 >= Retries
                                      THEN "done" ELSE "delay"]
        /\ IF t.aborted \/ t.attempt + 1 >= Retries
           THEN metrics' = RecordExecution(e, FALSE, Retries, TRUE) /\ Untrack(e)
           ELSE UNCHANGED <<active, metrics>>
        /\ UNCHANGED <<registered, serverCalls, batch, runtime>>

-----------------------------------------------------------------------------
(* cancel() and cancelAll(): the controllers of these calls abort.         *)

\* A call that waits fails at once, its run goes on; one in a delay notices later.
Abort(calls) ==
    LET waiting == {e \in calls : Awaiting(e)}
    IN  /\ toolCalls' = [e \in ToolCalls |->
                IF e \in waiting THEN [toolCalls[e] EXCEPT !.aborted = TRUE, !.at = "cancelled"]
                ELSE IF e \in calls THEN [toolCalls[e] EXCEPT !.aborted = TRUE]
                ELSE toolCalls[e]]

CancelTool(i) ==
    /\ active[i] # NoToolCall
    /\ Abort({active[i]})
    /\ UNCHANGED <<active, metrics, registered, serverCalls, batch, runtime>>

CancelAll ==
    /\ Abort({active[i] : i \in Tracked})
    /\ active' = [i \in ExecutionIds |-> NoToolCall]

CancelAllTools ==
    /\ Tracked # {}
    /\ CancelAll
    /\ UNCHANGED <<metrics, registered, serverCalls, batch, runtime>>

ToolCancelled(e) ==
    /\ toolCalls[e].at = "cancelled"
    /\ ToolFails(e)
    /\ UNCHANGED <<registered, serverCalls, batch, runtime>>

-----------------------------------------------------------------------------
(* executeBatch(): in parallel under a semaphore, or one after the other.  *)

BatchBegins(requests, limit, stopOnError) ==
    /\ batch.at = "idle"
    /\ batch' = [batch EXCEPT !.at = "running", !.requests = ToSet(requests),
                    !.stopOnError = stopOnError,
                    !.admitted = ToSet(SubSeq(requests, 1, limit)),
                    !.queue = SubSeq(requests, limit + 1, Len(requests))]
    /\ UNCHANGED <<executionVars, registered, serverCalls, runtime>>

ToolSettled(e) == toolCalls[e].at \in {"done", "limited"}

\* A request has its result: its slot goes to the next one, unless an error stops a
\* sequential batch.
BatchGoesOn(e) ==
    /\ e \in batch.admitted \ batch.settled
    /\ ToolSettled(e)
    /\ LET stops == batch.queue = <<>> \/ (batch.stopOnError /\ ~toolCalls[e].ok)
       IN  batch' = [batch EXCEPT !.settled = @ \cup {e},
                        !.admitted = IF stops THEN @ ELSE @ \cup {Head(batch.queue)},
                        !.queue = IF stops THEN <<>> ELSE Tail(@)]
    /\ UNCHANGED <<executionVars, registered, serverCalls, runtime>>

BatchSuccess == \A e \in batch.settled : toolCalls[e].ok

BatchReturns ==
    /\ batch.at = "running"
    /\ batch.queue = <<>>
    /\ batch.admitted = batch.settled
    /\ batch' = [batch EXCEPT !.at = "done", !.ok = BatchSuccess]
    /\ UNCHANGED <<executionVars, registered, serverCalls, runtime>>

-----------------------------------------------------------------------------
(* MCPManager.connect() and disconnect(), and the MCPRuntime.              *)

ServerCall(s) ==
    /\ serverCalls[s] = "idle"
    /\ \/ serverCalls' = [serverCalls EXCEPT ![s] = "connect"]
       \/ registered /\ serverCalls' = [serverCalls EXCEPT ![s] = "disconnect"]
    /\ UNCHANGED <<executionVars, registered, batch, runtime>>

\* connect() registers what it connected; disconnect() removes whatever is there by now,
\* also when the server's own disconnect failed.
ServerCallEnds(s, ok) ==
    /\ serverCalls[s] \in {"connect", "disconnect"}
    /\ registered' = CASE serverCalls[s] = "disconnect" -> FALSE
                       [] serverCalls[s] = "connect" -> registered \/ ok
    /\ serverCalls' = [serverCalls EXCEPT ![s] = "done"]
    /\ UNCHANGED <<executionVars, batch, runtime>>

\* initialize(), with or without the refresh of all servers, which never fails.
RuntimeInitialize ==
    /\ ~runtime.initialized
    /\ runtime.at = "idle"
    /\ runtime' = [runtime EXCEPT !.initialized = TRUE]
    /\ UNCHANGED <<executionVars, registered, serverCalls, batch>>

\* shutdown(): the executions are cancelled, then the sessions shut down.
RuntimeShutdown ==
    /\ ~runtime.shutdownInitiated
    /\ runtime' = [runtime EXCEPT !.shutdownInitiated = TRUE, !.at = "sessions"]
    /\ CancelAll
    /\ UNCHANGED <<metrics, registered, serverCalls, batch>>

RuntimeShutdownEnds ==
    /\ runtime.at = "sessions"
    /\ runtime' = [runtime EXCEPT !.initialized = FALSE, !.at = "idle"]
    /\ UNCHANGED <<executionVars, registered, serverCalls, batch>>

\* ensureInitialized(), then execute() of the runtime's own execution manager.
EnsureInitialized == runtime.initialized /\ ~runtime.shutdownInitiated
RuntimeExecute(e, i) == EnsureInitialized /\ ExecuteTool(e, i, TRUE)

-----------------------------------------------------------------------------
ToolStep(e) ==
    \/ RetryTool(e) \/ ToolCancelled(e) \/ ExecutionTimeout(e)
    \/ \E ok \in BOOLEAN : Authorize(e, ok)
ToolServer(e) == \E ok \in BOOLEAN : ServerHealth(e, ok) \/ ToolAnswers(e, ok)
ServerCallStep == \E s \in ServerCalls, ok \in BOOLEAN : ServerCallEnds(s, ok)

\* The limit holds for what is tracked; every call in flight is tracked unless an id was
\* given twice or all were cancelled; the metrics count each call once, of its tool, of
\* its server and over all, as a success when it returned one; a cancelled call
\* never reports success; no call runs its tool more often than it may; and a batch
\* succeeds only when every one of its requests ran and did.
ExecutionSound ==
    /\ Cardinality(Tracked) <= MaxConcurrentExecutions
    /\ \A i \in Tracked : toolCalls[active[i]].id = i /\ InFlight(active[i])
    /\ \A e \in ToolCalls :
        InFlight(e) /\ ~toolCalls[e].aborted
            /\ (\A f \in ToolCalls \ {e} : toolCalls[f].id # toolCalls[e].id)
          => active[toolCalls[e].id] = e
    /\ LET global == GetGlobalMetrics
           ended == {e \in ToolCalls : toolCalls[e].at = "done"}
       IN  /\ global.executions = Cardinality(ended)
           /\ global.successes = Cardinality({e \in ended : toolCalls[e].ok})
           /\ global.executions = global.successes + global.failures
           /\ global.timeouts <= global.failures
           /\ Retries > 0 => global.timeouts <= global.retries
           /\ global.toolCount = Cardinality({ToolOf[e] : e \in ended})
           /\ \A e \in ended :
                GetAggregatedServerMetrics(ToolOf[e][1]).executions =
                    Cardinality({f \in ended : ToolOf[f][1] = ToolOf[e][1]})
    /\ \A e \in ToolCalls : /\ toolCalls[e].ok => ~toolCalls[e].aborted
                            /\ toolCalls[e].runs <= Retries + 1
    /\ batch.ok => \A e \in batch.requests : toolCalls[e].ok
=============================================================================
