---------------------------- MODULE StoringAgents ----------------------------
(***************************************************************************)
(* The memory agent (agents/builtin/memory-agent/): the agents' memories   *)
(* behind execute(), for an agent whose calls share them with other        *)
(* clients; and the plugin agent (agents/builtin/plugin-agent/): the       *)
(* plugin loader behind execute().  As the runtime initializer wires it,   *)
(* the plugin registry the agent asks is the loader again.                 *)
(***************************************************************************)
EXTENDS BuiltinAgent, AgentMemory, PluginLoader

ASSUME CallsAreLoaderCalls == Calls = LoaderCalls

(***************************************************************************)
(* The memory agent                                                        *)
(***************************************************************************)
MemoryOperations ==
    {"load_conversation", "save_conversation", "load_workspace", "save_workspace",
     "load_scratchpad", "save_scratchpad", "load_shared", "save_shared", "summary", "clear"}
MemoryFields == {}
Loads == {"load_conversation", "load_workspace", "load_scratchpad", "load_shared"}
Saves == {"save_conversation", "save_workspace", "save_scratchpad", "save_shared"}

MemoryRequests ==
    {Request(op, {}, 1, "") : op \in Loads \cup {"summary"} \cup Saves}
        \cup {Request("clear", {}, 1, type) : type \in {"conversation", "shared"} \cup Stores}
        \cup {Request("save_shared", {"value"}, 1, ""), Request("load_shared", {"userId"}, 1, ""),
              Request("save_conversation", {"object"}, 1, "")}

MemoryParses(r) ==
    ~Lacking(r, [op \in Loads |-> {"key"}] @@ [op \in Saves |-> {"key", "value"}]
                    @@ [op \in {"summary", "clear"} |-> {"type"}])

\* Of the memories the agent makes those it is not given, so none is ever missing.
NewMemoryAgent == available = TRUE /\ Construct(MemoryOperations, MemoryFields)

\* buildMemoryContext()
HasMemoryContext(r) == r.lacks \cap {"requestId", "traceId", "workspaceId", "userId"} = {}

\* There is no summary to be had.
SummarizeConversation(c) ==
    /\ calls[c].request.operation = "summary"
    /\ Answer(c, Throws(Nothing))
    /\ UNCHANGED memoryVars

\* What fails before a memory is asked.
MemoryRefuses(c) ==
    LET r == calls[c].request
    IN  /\ \/ ~HasMemoryContext(r) /\ r.operation # "summary"
           \/ r.operation = "save_conversation" /\ "object" \in r.lacks
        /\ Answer(c, Throws(Nothing))
        /\ UNCHANGED memoryVars

\* What a memory has under a key is returned, found or not.
Loaded(c, op) ==
    /\ calls[c].request.operation = op
    /\ HasMemoryContext(calls[c].request)
    /\ Answer(c, Returns(Nothing))
    /\ UNCHANGED memoryVars
LoadConversation(c) == Loaded(c, "load_conversation")
LoadWorkspace(c) == Loaded(c, "load_workspace")
LoadScratchpad(c) == Loaded(c, "load_scratchpad")
LoadShared(c) == Loaded(c, "load_shared")
LoadMemory(c) == LoadConversation(c) \/ LoadWorkspace(c) \/ LoadScratchpad(c) \/ LoadShared(c)

Asks(c, op) == calls[c].request.operation = op /\ UNCHANGED builtinVars

SaveConversation(c) ==
    Asks(c, "save_conversation") /\ "object" \notin calls[c].request.lacks /\ AppendBegin(c)
SaveWorkspace(c) == Asks(c, "save_workspace") /\ \E k \in Keys : Save(c, "workspace", k)
SaveScratchpad(c) == Asks(c, "save_scratchpad") /\ \E k \in Keys : Save(c, "scratchpad", k)

\* The version expected is always 0: the agent creates the entry or is refused.
SaveShared(c) == Asks(c, "save_shared") /\ WriteBegin(c, 0)

\* What save stored in a workspace or a scratchpad stays: clear has another storage.
ClearMemory(c) ==
    /\ Asks(c, "clear")
    /\ \/ calls[c].request.tag = "conversation" /\ ClearConversation(c)
       \/ \E s \in Stores : calls[c].request.tag = s /\ ClearScoped(c, s)
       \/ calls[c].request.tag = "shared" /\ ClearShared(c)

AskMemory(c) ==
    SaveConversation(c) \/ SaveWorkspace(c) \/ SaveScratchpad(c) \/ SaveShared(c) \/ ClearMemory(c)

\* The memory's answer is not looked at: a refused write was saved, says the result.
MemoryAnswers(c) ==
    /\ ops[c].at = "done"
    /\ Answer(c, Returns(Nothing))
    /\ UNCHANGED memoryVars

MemoryExecute(c) ==
    \/ /\ NotBegun(c)
       /\ \E r \in MemoryRequests :
            IF MemoryParses(r) THEN ExecuteBegin(c, r) ELSE ExecuteMalformed(c, r)
       /\ UNCHANGED memoryVars
    \/ /\ Waiting(c)
       /\ MemoryRefuses(c) \/ SummarizeConversation(c) \/ LoadMemory(c) \/ AskMemory(c) \/ MemoryAnswers(c)

MemoryLifecycle ==
    /\ \/ Initialize
       \/ Shutdown
       \/ \E components \in {"healthy", "degraded", "unhealthy", "throws"} : GetHealth(components)
       \/ \E status \in Statuses : UpdateStatus(status)
    /\ UNCHANGED memoryVars

\* getMemoryAgentHealth(), of the worst of its four memories.
MemoryAgentHealth(memories) ==
    [status |-> IF "unhealthy" \in memories THEN "unhealthy"
                ELSE StatusWith(IF memories = {"healthy"} THEN "healthy" ELSE "degraded")]

\* getMetrics()
MemoryTotal(counts) == MapThenSumSet(LAMBDA op : counts[op], MemoryOperations)
MemoryMetrics ==
    [operations |-> MemoryTotal(operationCounts), successes |-> MemoryTotal(successCounts)]

\* What the agent writes to the shared memory creates an entry, whatever overlaps;
\* its success rate is no more than 1, a summary never succeeds, and after the first
\* error it calls itself unhealthy, healthy as the memories may be.
MemoryStatsAgree ==
    /\ \A w \in written : w[1] \in Calls => w[2] = 1
    /\ MemoryMetrics.successes <= MemoryMetrics.operations
    /\ successCounts["summary"] = 0
    /\ MemoryTotal(errorCounts) > 0 => MemoryAgentHealth({"healthy"}).status = "unhealthy"

(***************************************************************************)
(* The plugin agent                                                        *)
(***************************************************************************)
PluginOperations == {"discover", "load", "unload", "reload", "validate", "list"}
PluginFields == {"totalDiscoveries", "discoveryAttempts", "totalPluginsDiscovered", "totalLoads",
                 "totalUnloads", "totalReloads", "totalValidations", "totalPlugins"}

PluginRequests ==
    {Request(op, {}, 1, "") : op \in PluginOperations}
        \cup {Request("discover", {}, 1, "strict"), Request("load", {}, 1, "overwrite"),
              Request("discover", {"searchPaths"}, 1, ""), Request("load", {"pluginId"}, 1, "")}

PluginParses(r) ==
    ~Lacking(r, [op \in {"load", "unload", "reload", "validate"} |-> {"pluginId"}]
                    @@ [discover |-> {"discoveryOptions"}])

\* validateDiscoveryOptions()
ValidDiscoveryOptions(r) == r.lacks \cap {"searchPaths"} = {}

\* The component is missing, or refuses; an attempt to discover counts all the same.
PluginRefuses(c) ==
    LET op == calls[c].request.operation
    IN  /\ ~available \/ (op = "discover" /\ ~ValidDiscoveryOptions(calls[c].request))
        /\ Answer(c, Throws(IF op = "discover" THEN One("discoveryAttempts") ELSE Nothing))
        /\ UNCHANGED loaderVars

AskLoader(c) ==
    LET r == calls[c].request
    IN  /\ available
        /\ \/ r.operation = "discover" /\ ValidDiscoveryOptions(r) /\ DiscoverBegin(c, r.tag = "strict")
           \/ r.operation = "load" /\ LoadBegin(c, r.tag = "overwrite")
           \/ r.operation = "unload" /\ UnloadBegin(c, "return")
           \/ r.operation = "reload" /\ UnloadBegin(c, "reload")
        /\ UNCHANGED builtinVars

DiscoverPlugins(result) ==
    IF result = "throws" THEN Throws(One("discoveryAttempts"))
    ELSE Returns(Each({"totalDiscoveries", "discoveryAttempts"})
                    @@ ("totalPluginsDiscovered" :> IF result = "one" THEN 1 ELSE 0))
LoadPlugin(result) == Counting(result, Each({"totalLoads", "totalPlugins"}))
UnloadPlugin(result) ==
    Returns(IF result = "true" THEN "totalUnloads" :> 1 @@ "totalPlugins" :> -1 ELSE Nothing)
ReloadPlugin(result) == Counting(result, One("totalReloads"))

LoaderEffect(op, result) ==
    CASE op = "discover" -> DiscoverPlugins(result)
      [] op = "load" -> LoadPlugin(result)
      [] op = "unload" -> UnloadPlugin(result)
      [] op = "reload" -> ReloadPlugin(result)

LoaderAnswers(c) ==
    /\ loaders[c].at = "done"
    /\ Answer(c, LoaderEffect(calls[c].request.operation, loaders[c].result))
    /\ UNCHANGED loaderVars

\* validate(): an unknown plugin throws; a known one is counted, and then the answer
\* of the second registry, a boolean, has no errors to count.
ValidatePlugin(c) ==
    /\ available /\ calls[c].request.operation = "validate"
    /\ Answer(c, Throws(IF plugin = NoPlugin THEN Nothing ELSE One("totalValidations")))
    /\ UNCHANGED loaderVars

ListPlugins(c) ==
    /\ available /\ calls[c].request.operation = "list"
    /\ Answer(c, Returns(Nothing))
    /\ UNCHANGED loaderVars

NewPluginAgent == Construct(PluginOperations, PluginFields)

PluginExecute(c) ==
    \/ /\ NotBegun(c)
       /\ \E r \in PluginRequests :
            IF PluginParses(r) THEN ExecuteBegin(c, r) ELSE ExecuteMalformed(c, r)
       /\ UNCHANGED loaderVars
    \/ /\ Waiting(c)
       /\ PluginRefuses(c) \/ AskLoader(c) \/ LoaderAnswers(c) \/ ValidatePlugin(c) \/ ListPlugins(c)

PluginLifecycle ==
    /\ \/ Initialize
       \/ Shutdown
       \/ GetHealth("healthy")
       \/ \E status \in Statuses : UpdateStatus(status)
    /\ UNCHANGED loaderVars

\* getPluginAgentHealth() counts the loader's plugins anew.
PluginAgentHealth ==
    [status |-> OwnStatus,
     total |-> IF plugin = NoPlugin THEN 0 ELSE 1,
     loaded |-> IF plugin # NoPlugin /\ descriptors[plugin].status \in {"loaded", "active"}
                THEN 1 ELSE 0]

\* getMetrics(), pluginStats and discoveryStats
PluginStats ==
    [attempts |-> stats["discoveryAttempts"], discoveries |-> stats["totalDiscoveries"],
     loads |-> stats["totalLoads"], unloads |-> stats["totalUnloads"],
     plugins |-> stats["totalPlugins"], validations |-> stats["totalValidations"]]

\* An attempt to discover is counted once, however it ends.  The plugins counted are
\* no fewer than those loaded and not unloaded, and more when an unload came before
\* its load was counted; no validation succeeds.
\* A plugin is loaded by a call that loads or reloads it.
PluginStatsAgree ==
    /\ PluginStats.attempts = Ended({"returns", "throws"}, {"discover"})
    /\ PluginStats.discoveries = Succeeded("discover")
    /\ PluginStats.plugins \in PluginStats.loads - PluginStats.unloads .. PluginStats.loads
    /\ PluginStats.unloads <= Succeeded("unload")
    /\ Succeeded("validate") = 0
    /\ PluginAgentHealth.loaded <= PluginAgentHealth.total
    /\ PluginAgentHealth.loaded > 0 =>
        \E c \in Calls : calls[c].at # "idle" /\ calls[c].request.operation \in {"load", "reload"}
==============================================================================
