SPECIFICATION BuiltinFairSpec
CONSTANTS
    Calls = {"c1", "c2", "c3"}
    LoaderCalls = {"c1", "c2", "c3"}
    Operations = {"c1", "o1", "o2"}
    AgentOf <- MCAgentOf
    Keys = {"k", "l"}
    MaxKeys = 1
    MaxHistory = 2
    MaxLatencies = 1
    MaxOpened = 2
    PlanTasks = {"t1", "t2", "t3"}
    MissingTask = "missing"
    Absent = Absent
    NoPlugin = NoPlugin
    NoOperation = NoOperation
    Workloads <- MCWorkloads
INVARIANTS StatisticsAgree ComponentsSound
PROPERTY ExecuteSettles
CHECK_DEADLOCK FALSE
