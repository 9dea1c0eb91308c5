SPECIFICATION TeamSpec
CONSTANTS
    Agents = {"a1", "a2", "a3"}
    Calls = {"c", "d"}
    Requests <- MCRequests
    Ids = {"k", "l"}
    Handoffs = {"h"}
    NoId = "none"
    Parties = {"a1", "a2", "a3", "coordinator"}
    Mail <- MCMail
    Everyone = "all"
    MaxSize = 2
    MaxAttempts = 3
    Channels = {"ch"}
    Subscriptions = {"s"}
    Unregistrations = {"u", "v"}
    MaxRegistrations = 2
    MaxSends = 3
    Coordinator = "coordinator"
    Broadcasts = {"b"}
    Workloads <- MCWorkloads
INVARIANT AllSuccessSucceeds
CHECK_DEADLOCK FALSE
