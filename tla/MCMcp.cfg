SPECIFICATION McpFairSpec
CONSTANTS
    SessionCalls = {"c1", "c2", "c3"}
    MaxReconnectAttempts = 2
    MaxOpens = 1
    ToolCalls = {"e1", "e2"}
    ToolOf <- MCToolOf
    ExecutionIds = {"i1", "i2"}
    ServerCalls = {"s1"}
    MaxConcurrentExecutions = 1
    Retries = 2
    NoToolCall = NoToolCall
    DiscoveryCalls = {"d1", "d2"}
    Servers = {"server"}
    DiscoveryIds = {"n1", "n2"}
    ConcurrentDiscoveries = 1
    DiscoveryRetries = 1
    NoServer = NoServer
    AuthCalls = {"a1", "a2"}
    Users = {"u1", "u2"}
    MaxCacheSize = 1
    MaxChanges = 2
    Workloads <- MCWorkloads
    BatchRequests <- MCBatchRequests
INVARIANTS
    SessionSound
    ExecutionSound
    DiscoverySound
    CacheCoherent
PROPERTY McpSettles
CHECK_DEADLOCK FALSE
