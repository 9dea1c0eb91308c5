------------------------- MODULE AgentOrchestrator -------------------------
(***************************************************************************)
(* The orchestrator (agents/orchestrator/agent-orchestrator.ts) on top of  *)
(* the registry and the lifecycle manager it calls.  A call of execute,    *)
(* executeWorkflow or executePlan is a process, and so is a call of start, *)
(* stop, pause or resume; each action runs from one await to the next.     *)
(* The runtime and the workflow engine give their executions ids of their  *)
(* own, so a cancel, pause or resume that passes on the orchestrator's id  *)
(* finds nothing there: the runtime throws, the engine answers false.      *)
(***************************************************************************)
EXTENDS Naturals, Sequences, FiniteSets, SequencesExt

CONSTANTS
    Agents, Removers,   \* of the registry
    Executions,         \* calls of execute, executeWorkflow and executePlan
    Type,               \* the ExecutionType of each
    AgentOf,            \* the agent of a single-agent execution
    Tasks,              \* how many tasks a plan has
    Controllers         \* calls of start, stop, pause and resume

VARIABLES
    agents, removal,                                \* of the registry
    agentStates, call, initialized, disturbed,      \* of the lifecycle manager
    state,          \* OrchestratorState
    executions,     \* the status of each record, "none" before it is made
    created,        \* the map's keys, in insertion order
    at,             \* where each call of execute is
    progress,       \* the plan tasks scheduled, then the polls made
    control,        \* per call of start, stop, pause or resume: what is left to do
    isPaused,       \* the scheduler's flag
    unhealthy       \* agents whose getHealth reports errors (they are never cleared)

ExecutionType == {"SINGLE_AGENT", "WORKFLOW", "PLAN"}

ASSUME OrchestratorAssumption ==
    /\ Type \in [Executions -> ExecutionType]
    /\ AgentOf \in [Executions -> Agents]
    /\ Tasks \in Nat
    /\ Executions \cap Controllers = {}

\* Every process may call the lifecycle manager.
Callers == Executions \cup Controllers

Lifecycle == INSTANCE AgentLifecycle WITH Calls <- Callers

managerVars == <<agentStates, call, initialized, disturbed>>
lifecycleVars == <<agents, removal, managerVars>>
executionVars == <<executions, created, at, progress>>
orchestratorVars == <<state, executionVars, control, isPaused, unhealthy>>

Idle == [op |-> "idle"]
OrchestratorInit ==
    /\ Lifecycle!LifecycleInit
    /\ state = "STOPPED"
    /\ executions = [e \in Executions |-> "none"]
    /\ created = <<>>
    /\ at = [e \in Executions |-> "idle"]
    /\ progress = [e \in Executions |-> 0]
    /\ control = [c \in Controllers |-> Idle]
    /\ isPaused = FALSE
    /\ unhealthy = {}

-----------------------------------------------------------------------------
(* Executions.                                                             *)

MoveTo(e, place) == at' = [at EXCEPT ![e] = place]

\* The catch block: the record fails, whatever cancel or pause wrote to it.
Fail(e) == MoveTo(e, "threw") /\ executions' = [executions EXCEPT ![e] = "FAILED"]

\* createExecution; the status is RUNNING before anything is awaited.
CreateExecution(e, place) ==
    /\ created' = Append(created, e)
    /\ executions' = [executions EXCEPT ![e] = "RUNNING"]
    /\ MoveTo(e, place)

Execute(e) ==
    /\ at[e] = "idle"
    /\ Type[e] = "SINGLE_AGENT"
    /\ state = "RUNNING"
    /\ CreateExecution(e, "find")
    /\ UNCHANGED <<lifecycleVars, state, progress, control, isPaused, unhealthy>>

ExecuteWorkflow(e) ==
    /\ at[e] = "idle"
    /\ Type[e] = "WORKFLOW"
    /\ state = "RUNNING"
    /\ CreateExecution(e, "memory")
    /\ UNCHANGED <<lifecycleVars, state, progress, control, isPaused, unhealthy>>

\* A plan has to be passed: loading one by its id is an error.
ExecutePlan(e, passed) ==
    /\ at[e] = "idle"
    /\ Type[e] = "PLAN"
    /\ state = "RUNNING"
    /\ IF passed THEN CreateExecution(e, "memory")
                 ELSE created' = Append(created, e) /\ Fail(e)
    /\ UNCHANGED <<lifecycleVars, state, progress, control, isPaused, unhealthy>>

\* validateAndInitializeAgent: the registry, the agent's health, then the
\* lifecycle manager's initialize, whose steps are those of AgentLifecycle.
FindAgent(e) ==
    /\ at[e] = "find"
    /\ IF AgentOf[e] \in agents
       THEN MoveTo(e, "health") /\ UNCHANGED executions ELSE Fail(e)
    /\ UNCHANGED <<lifecycleVars, state, created, progress, control, isPaused, unhealthy>>

CheckHealth(e) ==
    /\ at[e] = "health"
    /\ IF AgentOf[e] \in unhealthy
       THEN Fail(e) /\ UNCHANGED lifecycleVars
       ELSE /\ Lifecycle!Begin(e, AgentOf[e], "initialize")
            /\ MoveTo(e, "initialize")
            /\ UNCHANGED executions
    /\ UNCHANGED <<state, created, progress, control, isPaused, unhealthy>>

\* Mutant: a refused or failed initialize is not noticed.
InitializeAgent_Unanswered(e) ==
    /\ at[e] = "initialize"
    /\ \/ Lifecycle!Resolve(e) /\ MoveTo(e, "memory")
       \/ (Lifecycle!Find(e) \/ Lifecycle!Check(e) \/ Lifecycle!Reject(e)) /\ UNCHANGED at
    /\ UNCHANGED <<state, executions, created, progress, control, isPaused, unhealthy>>

InitializeAgent(e) ==
    /\ at[e] = "initialize"
    /\ \/ Lifecycle!Resolve(e) /\ MoveTo(e, "memory") /\ UNCHANGED executions
       \/ /\ Lifecycle!Find(e) \/ Lifecycle!Check(e) \/ Lifecycle!Reject(e)
          /\ IF call'[e] = Lifecycle!Idle THEN Fail(e) ELSE UNCHANGED <<at, executions>>
    /\ UNCHANGED <<state, created, progress, control, isPaused, unhealthy>>

\* Errors of the memory are warnings.
LoadMemoryContext(e) ==
    /\ at[e] = "memory"
    /\ MoveTo(e, IF Type[e] # "PLAN" THEN "run" ELSE IF Tasks = 0 THEN "record" ELSE "schedule")
    /\ UNCHANGED <<lifecycleVars, state, executions, created, progress, control, isPaused,
                   unhealthy>>

\* One task of the plan is handed to the scheduler.
SchedulePlanTask(e) ==
    /\ at[e] = "schedule"
    /\ progress' = [progress EXCEPT ![e] = (progress[e] + 1) % Tasks]
    /\ IF progress[e] + 1 = Tasks THEN MoveTo(e, "wait") ELSE UNCHANGED at
    /\ UNCHANGED <<lifecycleVars, state, executions, created, control, isPaused, unhealthy>>

\* The wait counts one task as completed per poll, whatever the scheduler did.
PollPlan(e) ==
    /\ at[e] = "wait"
    /\ progress' = [progress EXCEPT ![e] = @ + 1]
    /\ IF progress[e] + 1 = Tasks THEN MoveTo(e, "record") ELSE UNCHANGED at
    /\ UNCHANGED <<lifecycleVars, state, executions, created, control, isPaused, unhealthy>>

\* executeAgent or the engine's execute returned; a result without success is a
\* result like any other.
RunReturns(e) ==
    /\ at[e] = "run"
    /\ MoveTo(e, "record")
    /\ UNCHANGED <<lifecycleVars, state, executions, created, progress, control, isPaused,
                   unhealthy>>

\* executeAgent, the engine or the scheduler threw (a task scheduled twice).
RunThrows(e) ==
    /\ at[e] \in {"run", "schedule"}
    /\ Fail(e)
    /\ UNCHANGED <<lifecycleVars, state, created, progress, control, isPaused, unhealthy>>

\* persistRuntimeState and publishCompletionEvent are awaited, their errors
\* swallowed; the record then completes, whatever cancel or pause wrote to it.
Complete(e) ==
    /\ at[e] = "record"
    /\ MoveTo(e, "returned")
    /\ executions' = [executions EXCEPT ![e] = "COMPLETED"]
    /\ UNCHANGED <<lifecycleVars, state, created, progress, control, isPaused, unhealthy>>

ExecutionStep(e) ==
    \/ FindAgent(e) \/ CheckHealth(e) \/ InitializeAgent(e) \/ LoadMemoryContext(e)
    \/ SchedulePlanTask(e) \/ PollPlan(e) \/ RunReturns(e) \/ RunThrows(e) \/ Complete(e)

-----------------------------------------------------------------------------
(* cancel, and the operations on the orchestrator.                         *)

Cancellable(e) == executions[e] \in {"RUNNING", "PAUSED"}

\* cancel up to its await; what it awaits changes no record.
Cancel(e) ==
    /\ Cancellable(e)
    /\ executions' = [executions EXCEPT ![e] = "CANCELLED"]
    /\ UNCHANGED <<lifecycleVars, state, created, at, progress, control, isPaused, unhealthy>>

Doing(c, op) == control[c].op = op
Goto(c, op, todo) == control' = [control EXCEPT ![c] = [op |-> op, todo |-> todo]]
Return(c) == control' = [control EXCEPT ![c] = Idle]

\* The records of this status, in the map's order.
WithStatus(s) ==
    LET found[n \in 0..Len(created)] ==
            IF n = 0 THEN <<>>
            ELSE IF executions[created[n]] = s THEN Append(found[n-1], created[n]) ELSE found[n-1]
    IN  found[Len(created)]

\* start: the components are those the initializer passed in, all of them there.
Start(c) ==
    /\ Doing(c, "idle")
    /\ state # "RUNNING"
    /\ state' = "INITIALIZING"
    /\ Goto(c, "start", <<>>)
    /\ UNCHANGED <<lifecycleVars, executionVars, isPaused, unhealthy>>

StartEnd(c) ==
    /\ Doing(c, "start")
    /\ state' = "RUNNING"
    /\ Return(c)
    /\ UNCHANGED <<lifecycleVars, executionVars, isPaused, unhealthy>>

\* stop cancels the running executions one after the other ...
Stop(c) ==
    /\ Doing(c, "idle")
    /\ state # "STOPPED"
    /\ state' = "STOPPING"
    /\ Goto(c, "stop", WithStatus("RUNNING"))
    /\ UNCHANGED <<lifecycleVars, executionVars, isPaused, unhealthy>>

\* Mutant: stop goes on without cancelling.
StopCancel_Skip(c) ==
    LET todo == control[c].todo
    IN  /\ Doing(c, "stop")
        /\ todo # <<>>
        /\ Goto(c, "cancelling", todo)
        /\ UNCHANGED <<lifecycleVars, state, executionVars, isPaused, unhealthy>>

StopCancel(c) ==
    LET todo == control[c].todo
        e == Head(todo)
    IN  /\ Doing(c, "stop")
        /\ todo # <<>>
        /\ IF Cancellable(e)
           THEN /\ executions' = [executions EXCEPT ![e] = "CANCELLED"]
                /\ Goto(c, IF Type[e] = "SINGLE_AGENT" THEN "failing" ELSE "cancelling", todo)
           ELSE Goto(c, "cancelling", todo) /\ UNCHANGED executions
        /\ UNCHANGED <<lifecycleVars, state, created, at, progress, isPaused, unhealthy>>

StopCancelled(c) ==
    /\ Doing(c, "cancelling")
    /\ Goto(c, "stop", Tail(control[c].todo))
    /\ UNCHANGED <<lifecycleVars, state, executionVars, isPaused, unhealthy>>

\* ... the runtime knows no execution by that id: cancel throws, stop gives up ...
StopFails(c) ==
    /\ Doing(c, "failing")
    /\ state' = "ERROR"
    /\ Return(c)
    /\ UNCHANGED <<lifecycleVars, executionVars, isPaused, unhealthy>>

\* ... and the scheduler is paused last.
StopPauseScheduler(c) ==
    /\ Doing(c, "stop")
    /\ control[c].todo = <<>>
    /\ isPaused' = TRUE
    /\ Goto(c, "stopping", <<>>)
    /\ UNCHANGED <<lifecycleVars, state, executionVars, unhealthy>>

StopEnd(c) ==
    /\ Doing(c, "stopping")
    /\ state' = "STOPPED"
    /\ Return(c)
    /\ UNCHANGED <<lifecycleVars, executionVars, isPaused, unhealthy>>

\* The loop of pause and resume over the records it has collected: it runs up
\* to its next await, the engine's pause or resume of a workflow.
Awaits(todo) == {i \in DOMAIN todo : Type[todo[i]] = "WORKFLOW"}
Segment(todo) ==
    IF Awaits(todo) = {} THEN Len(todo) ELSE CHOOSE i \in Awaits(todo) : \A j \in Awaits(todo) : i <= j
SetStatuses(c, op, todo, status, final) ==
    LET n == Segment(todo)
    IN  /\ executions' = [e \in Executions |->
                            IF e \in ToSet(SubSeq(todo, 1, n)) THEN status ELSE executions[e]]
        /\ IF Awaits(todo) = {}
           THEN state' = final /\ Return(c)
           ELSE Goto(c, op, SubSeq(todo, n + 1, Len(todo))) /\ UNCHANGED state

Pause(c) ==
    /\ Doing(c, "idle")
    /\ state = "RUNNING"
    /\ isPaused' = TRUE
    /\ Goto(c, "pause", <<>>)
    /\ UNCHANGED <<lifecycleVars, state, executionVars, unhealthy>>

PauseExecutions(c) ==
    /\ \/ Doing(c, "pause") /\ SetStatuses(c, "pausing", WithStatus("RUNNING"), "PAUSED", "PAUSED")
       \/ Doing(c, "pausing") /\ SetStatuses(c, "pausing", control[c].todo, "PAUSED", "PAUSED")
    /\ UNCHANGED <<lifecycleVars, created, at, progress, isPaused, unhealthy>>

Resume(c) ==
    /\ Doing(c, "idle")
    /\ state = "PAUSED"
    /\ isPaused' = FALSE
    /\ Goto(c, "resume", <<>>)
    /\ UNCHANGED <<lifecycleVars, state, executionVars, unhealthy>>

ResumeExecutions(c) ==
    /\ \/ Doing(c, "resume") /\ SetStatuses(c, "resuming", WithStatus("PAUSED"), "RUNNING", "RUNNING")
       \/ Doing(c, "resuming") /\ SetStatuses(c, "resuming", control[c].todo, "RUNNING", "RUNNING")
    /\ UNCHANGED <<lifecycleVars, created, at, progress, isPaused, unhealthy>>

StartStopStep(c) ==
    \/ StartEnd(c) \/ StopCancel(c) \/ StopCancelled(c) \/ StopFails(c)
    \/ StopPauseScheduler(c) \/ StopEnd(c)
ControlStep(c) == StartStopStep(c) \/ PauseExecutions(c) \/ ResumeExecutions(c)

ControlBegin(c) == Start(c) \/ Stop(c) \/ Pause(c) \/ Resume(c)
ExecutionBegin(e) == 
    \/ Execute(e) \/ ExecuteWorkflow(e)
    \/ \E passed \in BOOLEAN : ExecutePlan(e, passed)
=============================================================================
