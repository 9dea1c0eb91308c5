----------------------------- MODULE PlannerAgent -----------------------------
(* The planner agent (agents/builtin/planner-agent/): the AgentPlanner behind   *)
(* execute(), and the plans it keeps.                                           *)
EXTENDS BuiltinAgent, AgentPlanner

CONSTANTS PlanTasks, MissingTask

VARIABLES
    dependencies,   \* of the tasks of the plan the requests carry
    activePlans,    \* the plans kept, each named by the call that made it
    replaced        \* history: the plans a replan was made of

plannerVars == <<dependencies, activePlans, replaced>>

PlannerOperations == {"plan", "replan", "validate", "estimate"}
PlannerFields == {"totalPlansCreated", "totalReplans", "totalValidations", "validPlans",
                  "invalidPlans"}

PlannerRequests ==
    {Request(op, {}, Cardinality(PlanTasks), "") : op \in PlannerOperations}
        \cup {Request("plan", {"tasks"}, 1, ""), Request("replan", {"existingPlan"}, 1, ""),
              Request("validate", {"plan"}, 1, "")}

PlannerParses(r) ==
    ~Lacking(r, [plan |-> {"agentId", "workspaceId", "name", "tasks"}, replan |-> {"existingPlan"},
                 validate |-> {"plan"}, estimate |-> {"plan"}])

\* The plan is kept before its duration is estimated.
CreatePlanFor(c, add) ==
    /\ activePlans' = activePlans \cup {c}
    /\ Adding(add)
    /\ SetCall(c, [calls[c] EXCEPT !.at = "estimating"])
    /\ UNCHANGED <<agent, available, agentStatus, agentHealth, failed, recordVars, dependencies,
                   replaced>>

MakePlan(c) ==
    /\ calls[c].request.operation = "plan"
    /\ CreatePlanFor(c, One("totalPlansCreated"))

\* The plans a client can have: what a call returned, and plans of other planners.
KnownPlans == {p \in Calls : calls[p].at = "done"} \cup {NoOperation}

\* replan(): the plan it replaces is forgotten, if it was kept.
Replan(c) ==
    /\ calls[c].request.operation = "replan"
    /\ \E original \in KnownPlans :
        /\ activePlans' = (activePlans \cup {c}) \ {original}
        /\ replaced' = replaced \cup {original}
    /\ Adding(One("totalReplans"))
    /\ SetCall(c, [calls[c] EXCEPT !.at = "estimating"])
    /\ UNCHANGED <<agent, available, agentStatus, agentHealth, failed, recordVars, dependencies>>

\* The estimate may fail the call, and the plan is kept.
EstimateNewPlan(c) ==
    /\ \E effect \in {Returns(Nothing), Throws(Nothing)} : Answer(c, effect)
    /\ UNCHANGED plannerVars

\* What requests say of their tasks: every graph, and one with an unknown task.
Graphs ==
    [PlanTasks -> SUBSET PlanTasks]
        \cup {[t \in PlanTasks |-> IF t = u THEN {MissingTask} ELSE {}] : u \in PlanTasks}

\* AgentPlanner's verdict on them; every timeout is positive.
ValidGraphs == {d \in Graphs : ValidPlan(SetToSeq(PlanTasks), d, [t \in PlanTasks |-> 1])}

ValidatePlan(c) ==
    LET verdict == IF dependencies \in ValidGraphs THEN "validPlans" ELSE "invalidPlans"
    IN  /\ calls[c].request.operation = "validate"
        /\ Answer(c, Returns(Each({"totalValidations", verdict})))
        /\ UNCHANGED plannerVars

EstimatePlan(c) ==
    /\ calls[c].request.operation = "estimate"
    /\ Answer(c, Returns(Nothing))
    /\ UNCHANGED plannerVars

\* The planner throws, or there is none.
PlannerThrows(c) ==
    /\ Answer(c, Throws(Nothing))
    /\ UNCHANGED plannerVars

NewPlannerAgent ==
    /\ Construct(PlannerOperations, PlannerFields)
    /\ activePlans = {}

PlannerExecute(c) ==
    \/ /\ NotBegun(c)
       /\ \E r \in PlannerRequests :
            IF PlannerParses(r) THEN ExecuteBegin(c, r) ELSE ExecuteMalformed(c, r)
       /\ UNCHANGED plannerVars
    \/ /\ Waiting(c)
       /\ \/ PlannerThrows(c)
          \/ available /\ (MakePlan(c) \/ Replan(c) \/ ValidatePlan(c) \/ EstimatePlan(c))
    \/ calls[c].at = "estimating" /\ EstimateNewPlan(c)

PlannerLifecycle ==
    \/ /\ Initialize \/ GetHealth("healthy") \/ \E status \in Statuses : UpdateStatus(status)
       /\ UNCHANGED plannerVars
    \/ /\ Shutdown
       /\ activePlans' = {}
       /\ UNCHANGED <<dependencies, replaced>>

\* getPlannerAgentHealth(): a mean over the plans kept, 0 where there is none.
PlannerAgentHealth ==
    [status |-> OwnStatus, active |-> Cardinality(activePlans),
     created |-> stats["totalPlansCreated"]]

\* getMetrics(), planningStats and validationStats
PlanningStats ==
    [created |-> stats["totalPlansCreated"] + stats["totalReplans"],
     validations |-> stats["totalValidations"],
     verdicts |-> stats["validPlans"] + stats["invalidPlans"],
     active |-> Cardinality(activePlans)]

\* The planner keeps a plan from the moment it is made until it is replaced or the
\* agent shuts down, also when the call that made it failed; one it never made it
\* does not keep, and one that is kept was counted.  A plan found valid has no
\* dependency that is missing and none on itself.
PlanningStatsAgree ==
    /\ activePlans \cap replaced = {}
    /\ \A c \in activePlans : /\ calls[c].at \in {"estimating", "answered", "done"}
                              /\ calls[c].request.operation \in {"plan", "replan"}
    /\ PlanningStats.active <= PlanningStats.created
    /\ PlanningStats.created <= Cardinality(Calls)
    /\ PlannerAgentHealth.active > 0 => PlanningStats.created > 0
    /\ PlanningStats.validations = PlanningStats.verdicts
    /\ PlanningStats.validations = Succeeded("validate")
    /\ stats["validPlans"] > 0 =>
        \A t \in PlanTasks : MissingTask \notin dependencies[t] /\ t \notin dependencies[t]

\* The plan of this behaviour as two plans to merge: the first task is in both, with
\* what it depends on in the second, and the tasks' priorities are these.
PlanOf(ids, priorities, knows) ==
    [tasks |-> [i \in DOMAIN ids |->
                  [id |-> ids[i], type |-> "execution", priority |-> priorities[ids[i]],
                   needs |-> IF knows THEN dependencies[ids[i]] ELSE {}, timeout |-> 1]],
     groups |-> <<>>, priority |-> "normal"]

\* The planner's algorithms on the plan of this behaviour: the sort does what it is
\* for; a plan it creates has its tasks in the order they came in, whatever they
\* depend on, and lasts no longer in parallel than in sequence; splitting a task of
\* any type and merging plans, whichever task is the urgent one, do what they are for.
PlannerSound ==
    LET tasks == SetToSeq(PlanTasks)
        one == [t \in PlanTasks |-> 1]
    IN  /\ SortSound(tasks, dependencies)
        /\ CreatePlan(tasks, "sequential").order = tasks
        /\ CreatePlan(tasks, "parallel").groups = <<tasks>>
        /\ Estimate(tasks, <<tasks>>, "parallel", one) <= Estimate(tasks, <<>>, "mixed", one)
        /\ \A type \in TaskType, timeout \in 1..4 :
             SplitSound([id |-> tasks[1], type |-> type, priority |-> "normal",
                         needs |-> dependencies[tasks[1]], timeout |-> timeout])
        /\ \A urgent \in PlanTasks :
             LET priorities == [t \in PlanTasks |-> IF t = urgent THEN "critical" ELSE "low"]
                 whole == PlanOf(tasks, priorities, TRUE)
                 part == PlanOf(<<tasks[1]>>, priorities, FALSE)
             IN  MergeSound(part, whole) /\ MergeSound(whole, part)
=============================================================================
