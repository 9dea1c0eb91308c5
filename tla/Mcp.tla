-------------------------------- MODULE Mcp --------------------------------
(***************************************************************************)
(* The MCP client side as a whole: a session over its transport, the       *)
(* executions of tools, discovery, and authorization.  Discovery asks the  *)
(* session whether it is healthy; the runtime's shutdown cancels the       *)
(* executions and then shuts the sessions down.                            *)
(***************************************************************************)
EXTENDS McpSession, McpExecution, McpDiscovery, McpPermissions

CONSTANTS
    Workloads,      \* sets of calls and features that act together
    BatchRequests   \* the requests of the batch, in order

ASSUME BatchAssumption == BatchRequests \in Seq(ToolCalls) /\ BatchRequests # <<>>

VARIABLE workload   \* the calls and features that act in this behaviour

mcpVars == <<workload, sessionVars, mcpExecutionVars, discoveryVars, permissionVars>>

McpInit ==
    /\ workload \in Workloads
    /\ SessionInit /\ ExecutionInit /\ DiscoveryInit /\ PermissionsInit
    /\ SessionCalls \cap workload = {} => ~connected

OnlySession == UNCHANGED <<workload, mcpExecutionVars, discoveryVars, permissionVars>>
OnlyExecution == UNCHANGED <<workload, sessionVars, discoveryVars, permissionVars>>
OnlyDiscovery == UNCHANGED <<workload, sessionVars, mcpExecutionVars, permissionVars>>
OnlyPermissions == UNCHANGED <<workload, sessionVars, mcpExecutionVars, discoveryVars>>

\* sessionManager.shutdown() as part of the runtime's shutdown; there is nothing to do
\* when no session is kept.
ShutdownCalls == {c \in SessionCalls : asked[c].op = "shutdown"}
ShutdownSessions(c) ==
    /\ runtime.at = "sessions"
    /\ ShutdownCalls = {}
    /\ DisconnectBegin(c, "shutdown")
SessionsShutDown ==
    /\ ~kept \/ \E c \in ShutdownCalls : asked[c].at = "done"
    /\ RuntimeShutdownEnds

\* isHealthy()
IsHealthy == status = "CONNECTED" /\ connected

\* The runtime's health(): a rate below nine in ten counts after ten executions, and makes
\* it unhealthy below one in two.
Issues ==
    LET global == GetGlobalMetrics
        metered == global.executions > 10
        sessions == IF kept THEN 1 ELSE 0
    IN  {i \in {"no active servers"} : RegistryStats.active = 0}
        \cup {i \in {"no active sessions"} : sessions = 0 /\ RegistryStats.active > 0}
        \cup {i \in {"low success rate"} :
                metered /\ 10 * global.successes < 9 * global.executions}
        \cup {i \in {"very low success rate"} :
                metered /\ 2 * global.successes < global.executions}
RuntimeStatus ==
    IF Issues \cap {"no active servers", "no active sessions", "very low success rate"} # {}
    THEN "unhealthy" ELSE IF Issues # {} THEN "degraded" ELSE "healthy"

Discovery(c) ==
    /\ \E s \in Servers :
        \/ RegisterServer(c, s, IsHealthy) \/ RefreshServer(c, s, IsHealthy)
        \/ RefreshDiscovery(c, s, IsHealthy) \/ DiscoverOne(c, s, IsHealthy)
    /\ OnlyDiscovery

Executing ==
    \/ \E e \in ToolCalls \cap workload, i \in ExecutionIds :
            \/ workload \cap {"batch", "runtime"} = {} /\ ExecuteTool(e, i, FALSE)
            \/ "runtime" \in workload /\ RuntimeExecute(e, i)
    \/ \E e \in ToolCalls \cap workload : ToolServer(e)
    \/ \E i \in ExecutionIds : CancelTool(i)
    \/ CancelAllTools
    \/ /\ "batch" \in workload
       /\ \/ \E limit \in 1..Len(BatchRequests) : BatchBegins(BatchRequests, limit, FALSE)
          \/ BatchBegins(BatchRequests, 1, TRUE)
    \/ \E s \in ServerCalls \cap workload : ServerCall(s)
    \/ "runtime" \in workload /\ (RuntimeInitialize \/ RuntimeShutdown)

ExecutionGoesOn(e) == ToolStep(e) /\ OnlyExecution
\* A request that is admitted is executed, and its result collected.
BatchStep(e) ==
    /\ \/ e \in batch.admitted /\ \E i \in ExecutionIds : ExecuteTool(e, i, FALSE)
       \/ BatchGoesOn(e)
    /\ OnlyExecution
RuntimeGoesOn == (BatchReturns \/ ServerCallStep \/ SessionsShutDown) /\ OnlyExecution
SessionGoesOn(c) == SessionStep(c) /\ OnlySession
SessionTimeout(c) == RequestTimeout(c) /\ OnlySession
DiscoveryGoesOn(c) == DiscoveryStep(c) /\ OnlyDiscovery
AuthorizationGoesOn(a) == AuthorizeEnd(a) /\ OnlyPermissions
\* The runtime's shutdown calls the session manager without delay.
ShutdownGoesOn(c) == ShutdownSessions(c) /\ OnlySession

McpNext ==
    \/ \E c \in SessionCalls \cap workload :
        \/ SessionBegins(c) /\ ("runtime" \in workload => asked'[c].op = "create") /\ OnlySession
        \/ SessionGoesOn(c) \/ ShutdownGoesOn(c)
    \/ SessionCalls \cap workload # {} /\ (Server \/ SessionTimers \/ OpenTransport) /\ OnlySession
    \/ Executing /\ OnlyExecution
    \/ \E e \in ToolCalls \cap workload : ExecutionGoesOn(e) \/ BatchStep(e)
    \/ RuntimeGoesOn
    \/ \E c \in DiscoveryCalls \cap workload : Discovery(c) \/ DiscoveryGoesOn(c)
    \/ DiscoveryCalls \cap workload # {} /\ DiscoveryOwner /\ OnlyDiscovery
    \/ \E a \in AuthCalls \cap workload, key \in RequestKeys : 
            (AuthorizeBegin(a, key) \/ ValidateWorkspaceAccess(a, key)) /\ OnlyPermissions
    \/ \E a \in AuthCalls \cap workload : AuthorizationGoesOn(a)
    \/ AuthCalls \cap workload # {} /\ PermissionOwner /\ OnlyPermissions

McpSpec == McpInit /\ [][McpNext]_mcpVars

\* Continuations and timers run.  Servers need not answer, nor exit when told to.
McpFairness ==
    /\ \A c \in SessionCalls : WF_mcpVars(SessionGoesOn(c)) /\ WF_mcpVars(SessionTimeout(c))
    /\ WF_mcpVars(\E c \in SessionCalls \cap workload : ShutdownGoesOn(c))
    /\ \A e \in ToolCalls : WF_mcpVars(ExecutionGoesOn(e)) /\ WF_mcpVars(BatchStep(e))
    /\ WF_mcpVars(RuntimeGoesOn)
    /\ \A c \in DiscoveryCalls : WF_mcpVars(DiscoveryGoesOn(c))
    /\ \A a \in AuthCalls : WF_mcpVars(AuthorizationGoesOn(a))

McpFairSpec == McpSpec /\ McpFairness
-----------------------------------------------------------------------------
\* A disconnect waits for the exit of a server that was told to end and lives on, and
\* the runtime's shutdown for a disconnect.
WaitsForExit(c) == asked[c].at = "closing" /\ process = "ending"

Settled ==
    /\ \A c \in SessionCalls : asked[c].at \in {"idle", "done"} \/ WaitsForExit(c)
    /\ runtime.at = "sessions" => \E c \in ShutdownCalls : WaitsForExit(c)
    /\ \A e \in ToolCalls : ~InFlight(e)
    /\ batch.at # "running"
    /\ \A c \in DiscoveryCalls : discoveries[c].at \in {"idle", "done"}
    /\ \A a \in AuthCalls : authCalls[a].at \in {"idle", "done"}
    /\ \A s \in ServerCalls : serverCalls[s] \in {"idle", "done"}

\* The registry and its discoveries are sound, and as no discovery succeeds the runtime
\* calls itself unhealthy whatever servers, sessions and executions there are.
DiscoverySound == RegistrationsSound /\ RuntimeStatus = "unhealthy"

\* Everything asked of the MCP client comes to an end, though servers fall silent, write
\* errors or exit at any time, calls are cancelled and the runtime is shut down: of the
\* finitely many calls none waits for ever, but a disconnect whose server does not exit,
\* and a shutdown for that disconnect.
McpSettles == <>[]Settled

\* "Force kill after timeout": a disconnect ends, if need be because the server is
\* killed five seconds after it was told to end.  It is violated: no SIGKILL is ever sent.
DisconnectSettles == \A c \in SessionCalls : asked[c].at = "closing" ~> asked[c].at # "closing"
=============================================================================
