CONSTANTS
    Agents = {"builtin", "user"}
    Removers = {"b", "b2"}
    Executions = {"x", "y", "w", "p"}
    Type <- MCType
    AgentOf <- MCAgentOf
    Tasks = 1
    Controllers = {"b", "b2", "c"}
    Bootstraps = {"b", "b2"}
    BuiltinAgents <- MCBuiltin
    HealthChecks = {"h", "h2"}
    Workloads <- MCWorkloads
SPECIFICATION PlatformFairSpec
CHECK_DEADLOCK FALSE
INVARIANTS StoppedIsQuiet OneExecutionPerAgent HealthTellsTrouble
PROPERTIES ShutdownEmptiesRegistry PlatformSettles
