SPECIFICATION AgentsFairSpec
CONSTANTS
    t1 = t1
    t2 = t2
    t3 = t3
    Tasks <- MCTasks
    BlockDeps <- MCBlockDeps
    AgentOf <- MCAgentOf
    CreatedAt <- MCCreatedAt
    InitPriority <- MCInitPriority
    Priorities = {1}
    MaxConcurrency = 2
    Strategies = {"PRIORITY", "FIFO", "FAIR"}
    Batches <- MCBatches
    Agents = {a1}
    Removers = {r1}
    Calls = {c1, c2}
    e1 = e1
    e2 = e2
    e3 = e3
    BatchRequests <- MCBatchRequests
    Limit = 2
    FailFast = FALSE
    Timed = {e1}
    Cancellers = {x1}
    Parts = {"scheduler", "lifecycle", "runtime"}
INVARIANTS
    TypeOK ConcurrencyBound TaskPlacement NoLostWakeup StartedAfterDeps
    LifecycleTypeOK NoOrphanTransient LiveWasInitialized
    SlotsConserved SettledIsInactive BatchSuccessSound
PROPERTIES
    StartsMostUrgent BoardSpec TransitionsFollowTable TransientResolves BatchSettles
