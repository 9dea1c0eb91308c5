CONSTANTS
    Providers = {"ollama", "claude"}
    Names = {"ollama", "claude", "other"}
    Calls <- MCCalls
    Probes = {"boot", "h1", "h2"}
    Expiration = 2
    HealthTimeout = 1
    RetryAttempts = 2
    MaxToolExecutions = 3
    Renders = {"r1", "r2", "r3"}
    Editors = {"e", "f"}
    Prompts = {"p", "q"}
    NameOf <- MCNameOf
    WorkspaceOf <- MCWorkspaceOf
    Matches <- MCMatches
    Keys = {"k", "key"}
    Workspaces = {"w1", "w2"}
    MaxVersion = 2
    MaxEntries = 2
    Ttl = 1
    RequestTimeout = 1
    RequestAttempts = 2
    Published = Published
    Requests = {"r1", "r2", "r3"}
    Direct = {"d1", "d2", "d3"}
    BootProbe = "boot"
    LlmAttempts = 2
    ChatAttempts = 2
    Workloads <- MCWorkloads
SPECIFICATION FairSpec
CHECK_DEADLOCK FALSE
INVARIANT KernelSound
PROPERTY KernelSettles
