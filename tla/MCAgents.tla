------------------------------ MODULE MCAgents ------------------------------
(* Small instances for TLC of the scheduler, of the lifecycle manager and of *)
(* the runtime with its batches, one of them in each behaviour; the three    *)
(* act on each other in RuntimeBootstrap.                                    *)
EXTENDS AgentScheduler, AgentLifecycle, AgentRuntime, TLC

CONSTANTS t1, t2, t3, e1, e2, e3, Parts

\* The scheduler's three tasks: t3 is blocked by t1.  t1 and t2 belong to the same
\* agent; t3 is the oldest.  The batch lists a task before what it depends on.
MCTasks == {t1, t2, t3}
MCBlockDeps == (t1 :> {}) @@ (t2 :> {}) @@ (t3 :> {t1})
MCAgentOf == (t1 :> "a") @@ (t2 :> "a") @@ (t3 :> "b")
MCCreatedAt == (t1 :> 2) @@ (t2 :> 3) @@ (t3 :> 1)
MCInitPriority == (t1 :> 2) @@ (t2 :> 0) @@ (t3 :> 2)
MCBatches == {<<t3, t1>>}

\* The runtime's batch of three requests.
MCBatchRequests == <<e1, e2, e3>>

VARIABLE part   \* which of the three acts in this behaviour

agentsVars == <<part, vars, agentVars, runtimeVars>>

OnlyScheduler == UNCHANGED <<part, agentVars, runtimeVars>>
OnlyLifecycle == UNCHANGED <<part, vars, runtimeVars>>
OnlyRuntime == UNCHANGED <<part, vars, agentVars>>

AgentsInit ==
    /\ part \in Parts
    /\ Init /\ LifecycleInit /\ RuntimeInit
    /\ part # "scheduler" => strategy = "FIFO"

AgentsNext ==
    \/ part = "scheduler" /\ Next /\ OnlyScheduler
    \/ part = "lifecycle" /\ LifecycleNext /\ OnlyLifecycle
    \/ part = "runtime" /\ RuntimeNext /\ OnlyRuntime

AgentsSpec == AgentsInit /\ [][AgentsNext]_agentsVars

\* The fairness of LifecycleFairSpec and of RuntimeFairSpec.
AgentsFairSpec ==
    /\ AgentsSpec
    /\ \A c \in Calls : WF_agentsVars(Advance(c) /\ OnlyLifecycle)
    /\ \A e \in Requests : WF_agentsVars(Progress(e) /\ OnlyRuntime)
    /\ WF_agentsVars(EndBatch /\ OnlyRuntime)
=============================================================================
