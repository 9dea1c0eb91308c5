----------------------------- MODULE PluginLoader -----------------------------
(***************************************************************************)
(* The plugin loader and its registry (agents/plugins/), for one plugin    *)
(* id.  A descriptor is named by the call that discovered it, an agent by  *)
(* the call that loaded the plugin; the agent registry holds one agent     *)
(* under the plugin's agent id.  Every step is what happens between two    *)
(* awaits; files and imports answer as they will, and what the validator   *)
(* says of the descriptor a call discovers is Validate's.                  *)
(***************************************************************************)
EXTENDS Integers, FiniteSets

-----------------------------------------------------------------------------
\* What the validator says of a descriptor, which is the set of what is wrong with it

\* A field is missing, malformed, or of the wrong kind, or a function throws.
MetadataErrors == {"no id", "odd id", "no name", "no version", "no agentType", "no priority",
                   "no createdAt", "no updatedAt"}
MetadataWarnings == {"loose version", "no description", "odd author", "odd homepage",
                     "odd keywords"}
CapabilityErrors == {"no capabilities", "odd capability", "unnamed capability",
                     "undescribed capability", "no input types", "no output types",
                     "odd maxConcurrentExecutions", "odd timeoutMs", "odd retryAttempts"}
CapabilityWarnings == {"empty capabilities", "empty input types", "empty output types"}
FactoryErrors == {"no factory", "no createAgent"}
FactoryWarnings == {"odd validateConfig", "odd getDefaultConfig", "odd default config",
                    "getDefaultConfig throws"}
SchemaErrors == {"odd configSchema"}
DependencyErrors == {"odd dependency"}

Flaws == MetadataErrors \cup MetadataWarnings \cup CapabilityErrors \cup CapabilityWarnings
            \cup FactoryErrors \cup FactoryWarnings \cup SchemaErrors \cup DependencyErrors

\* A field that is missing has no other flaw, and a function that is none is not called
\* with success.
Excluded == {{"no id", "odd id"}, {"no version", "loose version"},
             {"no input types", "empty input types"}, {"no output types", "empty output types"},
             {"odd default config", "odd getDefaultConfig"},
             {"odd default config", "getDefaultConfig throws"},
             {"odd getDefaultConfig", "getDefaultConfig throws"}}
    \cup {{f, g} : f \in {"no capabilities", "empty capabilities"},
                   g \in {"odd capability", "unnamed capability", "undescribed capability"}}
    \cup {{"no capabilities", "empty capabilities"}, {"odd capability", "unnamed capability"}}
    \cup {{"no factory", f} : f \in FactoryWarnings \cup {"no createAgent"}}

\* The descriptors told apart: those with at most two flaws.
Manifests == {{f, g} : f, g \in Flaws} \cup {{}}
SoundManifests == {m \in Manifests : \A e \in Excluded : ~(e \subseteq m)}

Finding(errors, warnings) ==
    [isValid |-> errors = {}, errors |-> errors, warnings |-> warnings]

\* validateMetadata(): an id that is not there is not looked at further.
ValidateMetadata(m) == Finding(m \cap MetadataErrors, m \cap MetadataWarnings)

\* validateCapabilities(): no list is checked further that is not one or is empty.
ValidateCapabilities(m) == Finding(m \cap CapabilityErrors, m \cap CapabilityWarnings)

\* validateFactory(): it calls getDefaultConfig, in a try: what is no function warns twice.
ValidateFactory(m) ==
    Finding(m \cap FactoryErrors,
            (m \cap FactoryWarnings)
              \cup {w \in {"getDefaultConfig throws"} : "odd getDefaultConfig" \in m})

\* validate()
Validate(m) ==
    LET metadata == ValidateMetadata(m)
        capabilities == ValidateCapabilities(m)
        factory == ValidateFactory(m)
        errors == metadata.errors \cup capabilities.errors \cup factory.errors
                     \cup (m \cap SchemaErrors) \cup (m \cap DependencyErrors)
        warnings == metadata.warnings \cup capabilities.warnings \cup factory.warnings
    IN  [isValid |-> errors = {}, errors |-> errors, warnings |-> warnings,
         status |-> IF errors # {} THEN "invalid" ELSE IF warnings # {} THEN "warning" ELSE "valid",
         checks |-> [metadataValid |-> metadata.isValid, capabilitiesValid |-> capabilities.isValid,
                     factoryValid |-> factory.isValid,
                     configSchemaValid |-> m \cap SchemaErrors = {},
                     dependenciesResolved |-> m \cap DependencyErrors = {}]]

-----------------------------------------------------------------------------
\* Every flaw is found and counted on one side only, a descriptor is valid exactly when
\* each of its checks is, and what is valid can make an agent.
ValidatorSound ==
    \A m \in SoundManifests :
       LET result == Validate(m)
       IN  /\ m \subseteq result.errors \cup result.warnings
           /\ result.errors \cap result.warnings = {}
           /\ result.isValid <=> \A check \in DOMAIN result.checks : result.checks[check]
           /\ result.isValid => {"no factory", "no createAgent", "no id"} \cap m = {}
           /\ result.status = "valid" <=> m = {}

-----------------------------------------------------------------------------
\* The loader and the registry

CONSTANTS LoaderCalls, NoPlugin

VARIABLES
    plugin,         \* the descriptor the registry holds
    descriptors,    \* status and agentInstance of each descriptor
    pluginAgent,    \* the agent under the plugin's agent id in the agent registry
    loaders,        \* what each call is doing
    crowded         \* history: has a call begun while another was under way?

loaderVars == <<plugin, descriptors, pluginAgent, loaders, crowded>>

LoaderInit ==
    /\ plugin = NoPlugin
    /\ descriptors = [c \in LoaderCalls |-> [status |-> "discovered", agentInstance |-> NoPlugin]]
    /\ pluginAgent = NoPlugin
    /\ loaders = [c \in LoaderCalls |-> [at |-> "idle"]]
    /\ crowded = FALSE

UnderWay == {c \in LoaderCalls : loaders[c].at \notin {"idle", "done"}}

Goes(c, at) == loaders' = [loaders EXCEPT ![c].at = at]
Done(c, result) == loaders' = [loaders EXCEPT ![c] = [at |-> "done", result |-> result]]
Begins(c, state) ==
    /\ loaders[c].at = "idle"
    /\ loaders' = [loaders EXCEPT ![c] = state]
    /\ crowded' = (crowded \/ UnderWay # {})

\* updateStatus(), of the plugin the registry holds now.
UpdatePluginStatus(status) == descriptors' = [descriptors EXCEPT ![plugin].status = status]

-----------------------------------------------------------------------------
\* discover(): strict is validateOnDiscovery.  The files are read first.
DiscoverBegin(c, strict) ==
    /\ Begins(c, [at |-> "reading", strict |-> strict])
    /\ UNCHANGED <<plugin, descriptors, pluginAgent>>

\* A path that cannot be read, and a file that is no plugin, are passed over.
DiscoverNothing(c) ==
    /\ loaders[c].at = "reading"
    /\ Done(c, "none")
    /\ UNCHANGED <<plugin, descriptors, pluginAgent, crowded>>

\* What cannot be registered is discovered all the same, unless the call is strict.
NotRegistered(c) ==
    /\ Done(c, IF loaders[c].strict THEN "throws" ELSE "one")
    /\ UNCHANGED <<plugin, descriptors, pluginAgent, crowded>>

\* register() looks for the id, and then waits for the validator.
DiscoverFinds(c) ==
    /\ loaders[c].at = "reading"
    /\ IF plugin # NoPlugin THEN NotRegistered(c)
       ELSE /\ \E m \in SoundManifests :
                 loaders' = [loaders EXCEPT ![c] =
                               [at |-> "registering", strict |-> @.strict,
                                valid |-> Validate(m).isValid]]
            /\ UNCHANGED <<plugin, descriptors, pluginAgent, crowded>>

DiscoverInvalid(c) ==
    /\ loaders[c].at = "registering"
    /\ ~loaders[c].valid
    /\ NotRegistered(c)

\* It does not look again: a descriptor registered meanwhile is replaced.
DiscoverRegisters(c) ==
    /\ loaders[c].at = "registering"
    /\ loaders[c].valid
    /\ plugin' = c
    /\ Done(c, "one")
    /\ UNCHANGED <<descriptors, pluginAgent, crowded>>

-----------------------------------------------------------------------------
\* unload(), first: the descriptor is found.  A reload unloads and then loads.
UnloadBegin(c, then) ==
    /\ Begins(c, [at |-> "unloading", plugin |-> plugin, then |-> then])
    /\ UNCHANGED <<plugin, descriptors, pluginAgent>>

\* After the unload the call returns, or goes on to load.
Unloaded(c, answer) ==
    IF loaders[c].then = "return" THEN Done(c, answer)
    ELSE loaders' = [loaders EXCEPT ![c] = [at |-> IF @.then = "reload" THEN "loading" ELSE "marking",
                                            plugin |-> IF @.then = "reload" THEN plugin ELSE @.plugin,
                                            overwrite |-> FALSE]]

UnloadUnknown(c) ==
    /\ loaders[c].at = "unloading"
    /\ loaders[c].plugin = NoPlugin
    /\ Unloaded(c, "false")
    /\ UNCHANGED <<plugin, descriptors, pluginAgent, crowded>>

\* The agent is shut down, if there is one; then removed.
UnloadMarks(c) ==
    /\ loaders[c].at = "unloading"
    /\ loaders[c].plugin # NoPlugin
    /\ UpdatePluginStatus("unloading")
    /\ Goes(c, "removing")
    /\ UNCHANGED <<plugin, pluginAgent, crowded>>

\* remove() takes away what is under the id, whichever load it came from.
UnloadEnds(c) ==
    LET d == loaders[c].plugin
    IN  /\ loaders[c].at = "removing"
        /\ pluginAgent' = IF descriptors[d].agentInstance = NoPlugin THEN pluginAgent ELSE NoPlugin
        /\ descriptors' = [e \in LoaderCalls |->
                             [status |-> IF e = plugin THEN "unloaded" ELSE descriptors[e].status,
                              agentInstance |-> IF e = d THEN NoPlugin
                                                ELSE descriptors[e].agentInstance]]
        /\ Unloaded(c, "true")
        /\ UNCHANGED <<plugin, crowded>>

-----------------------------------------------------------------------------
\* load(): the descriptor is found, and its status looked at.
LoadBegin(c, overwrite) ==
    /\ Begins(c, [at |-> "loading", plugin |-> plugin, overwrite |-> overwrite])
    /\ UNCHANGED <<plugin, descriptors, pluginAgent>>

IsLoaded(d) == descriptors[d].status \in {"loaded", "active"}

LoadRefused(c) ==
    /\ loaders[c].at = "loading"
    /\ IF loaders[c].plugin = NoPlugin THEN TRUE
       ELSE IsLoaded(loaders[c].plugin) /\ ~loaders[c].overwrite
    /\ Done(c, "throws")
    /\ UNCHANGED <<plugin, descriptors, pluginAgent, crowded>>

\* One that is loaded is unloaded first.
LoadOverwrites(c) ==
    /\ loaders[c].at = "loading"
    /\ loaders[c].plugin # NoPlugin
    /\ IsLoaded(loaders[c].plugin) /\ loaders[c].overwrite
    /\ loaders' = [loaders EXCEPT ![c] = [at |-> "unloading", plugin |-> @.plugin,
                                          then |-> "overwrite"]]
    /\ UNCHANGED <<plugin, descriptors, pluginAgent, crowded>>

LoadMarks(c) ==
    /\ IF loaders[c].at = "loading" /\ loaders[c].plugin # NoPlugin
       THEN ~IsLoaded(loaders[c].plugin) ELSE loaders[c].at = "marking"
    /\ UpdatePluginStatus("loading")
    /\ Goes(c, "importing")
    /\ UNCHANGED <<plugin, pluginAgent, crowded>>

\* It is not valid, or its exports cannot be imported.
LoadFails(c) ==
    /\ loaders[c].at = "importing"
    /\ UpdatePluginStatus("failed")
    /\ Done(c, "throws")
    /\ UNCHANGED <<plugin, pluginAgent, crowded>>

\* It gives no agent, or none is wanted.
LoadWithoutAgent(c) ==
    /\ loaders[c].at = "importing"
    /\ UpdatePluginStatus("loaded")
    /\ Done(c, "yes")
    /\ UNCHANGED <<plugin, pluginAgent, crowded>>

\* Its agent is the descriptor's now; the registry takes it if the id is free.
LoadRegisters(c) ==
    /\ loaders[c].at = "importing"
    /\ descriptors' = [descriptors EXCEPT ![loaders[c].plugin].agentInstance = c]
    /\ pluginAgent' = IF pluginAgent = NoPlugin THEN c ELSE pluginAgent
    /\ Goes(c, IF pluginAgent = NoPlugin THEN "activating" ELSE "settling")
    /\ UNCHANGED <<plugin, crowded>>

\* Mutant: a plugin whose agent was registered is not marked active.
LoadEnds_Loaded(c) ==
    /\ loaders[c].at \in {"activating", "settling"}
    /\ UpdatePluginStatus("loaded")
    /\ Done(c, "yes")
    /\ UNCHANGED <<plugin, pluginAgent, crowded>>

LoadEnds(c) ==
    /\ loaders[c].at \in {"activating", "settling"}
    /\ UpdatePluginStatus(IF loaders[c].at = "activating" THEN "active" ELSE "loaded")
    /\ Done(c, "yes")
    /\ UNCHANGED <<plugin, pluginAgent, crowded>>

LoaderStep(c) ==
    \/ DiscoverNothing(c) \/ DiscoverFinds(c) \/ DiscoverInvalid(c) \/ DiscoverRegisters(c)
    \/ UnloadUnknown(c) \/ UnloadMarks(c) \/ UnloadEnds(c)
    \/ LoadRefused(c) \/ LoadOverwrites(c) \/ LoadMarks(c)
    \/ LoadFails(c) \/ LoadWithoutAgent(c) \/ LoadRegisters(c) \/ LoadEnds(c)

-----------------------------------------------------------------------------
\* A plugin is active exactly while its agent is registered, for clients that wait
\* for one call before they begin the next; an agent that is registered was loaded
\* by a call of the loader even when they do not.
SerialPlugins ==
    /\ pluginAgent # NoPlugin => loaders[pluginAgent].at \in {"activating", "done"}
    /\ ~crowded /\ UnderWay = {} /\ plugin # NoPlugin =>
        /\ descriptors[plugin].status = "active" <=> pluginAgent # NoPlugin
        /\ descriptors[plugin].agentInstance = pluginAgent
        /\ descriptors[plugin].status \notin {"loading", "unloading"}
=============================================================================
