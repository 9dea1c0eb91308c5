---------------------------- MODULE AgentPlanner ----------------------------
(* The planner (agents/planner/): how tasks with dependencies are ordered,     *)
(* validated and estimated.  A plan is its tasks, in their order, the tasks    *)
(* each depends on, and their timeouts.                                        *)
EXTENDS Integers, Sequences, FiniteSets, TLC, SequencesExt, FiniteSetsExt, Relation

\* visit(): depth first; a task met again while it is being visited is a cycle.
\* One no task of the plan has is visited too, and put in the order.
RECURSIVE Visit(_, _, _)
Visit(state, id, dependencies) ==
    CASE state.circular \/ id \in ToSet(state.result) -> state
      [] id \in state.visiting -> [state EXCEPT !.circular = TRUE]
      [] OTHER ->
           LET entered == [state EXCEPT !.visiting = @ \cup {id}]
               needs == IF id \in DOMAIN dependencies THEN SetToSeq(dependencies[id]) ELSE <<>>
               after == FoldLeft(LAMBDA s, d : Visit(s, d, dependencies), entered, needs)
           IN  [after EXCEPT !.visiting = @ \ {id}, !.result = Append(@, id)]

\* topologicalSort()
TopologicalSort(tasks, dependencies) ==
    FoldLeft(LAMBDA s, t : Visit(s, t, dependencies),
             [visiting |-> {}, result |-> <<>>, circular |-> FALSE], tasks)

HasCircularDependencies(tasks, dependencies) == TopologicalSort(tasks, dependencies).circular

\* buildExecutionPlan()
TaskOrder(tasks, dependencies, mode) ==
    IF mode = "parallel" THEN <<>> ELSE TopologicalSort(tasks, dependencies).result
ParallelGroups(tasks, mode) == IF mode = "parallel" THEN <<tasks>> ELSE <<>>

\* createPlan() builds its tasks anew, without the dependencies they came with.
CreatedDependencies(tasks) == [t \in ToSet(tasks) |-> {}]
CreatePlan(tasks, mode) ==
    [tasks |-> tasks, mode |-> mode,
     order |-> TaskOrder(tasks, CreatedDependencies(tasks), mode),
     groups |-> ParallelGroups(tasks, mode)]

\* validatePlan(), of a plan whose order and groups are its own tasks.
ValidPlan(tasks, dependencies, timeout) ==
    /\ tasks # <<>>
    /\ \A t \in ToSet(tasks) : dependencies[t] \subseteq ToSet(tasks)
    /\ ~HasCircularDependencies(tasks, dependencies)
    /\ \A t \in ToSet(tasks) : timeout[t] > 0

\* estimate(), before the tenth is added: the sum, or the longest; in a mixed plan the
\* tasks of no group, and the longest of each group.
Estimate(tasks, groups, mode, timeout) ==
    LET Longest(some) == Max({timeout[t] : t \in some})
        Total(some) == FoldLeft(LAMBDA sum, t : sum + timeout[t], 0, some)
        grouped == UNION {ToSet(g) : g \in ToSet(groups)}
    IN  CASE mode = "sequential" -> Total(tasks)
          [] mode = "parallel" -> Longest(ToSet(tasks))
          [] OTHER -> FoldLeft(LAMBDA sum, g : sum + Longest(ToSet(g)),
                               Total(SelectSeq(tasks, LAMBDA t : t \notin grouped)), groups)

-----------------------------------------------------------------------------
(* What follows works on the tasks' records: their id, type, priority,         *)
(* dependencies and timeout.                                                   *)

TaskType == {"execution", "communication", "memory", "analysis", "coordination"}
PriorityOrder == [critical |-> 0, high |-> 1, normal |-> 2, low |-> 3]

\* createSubtask(): the builder starts without dependencies, and none are added.
CreateSubtask(task, suffix) ==
    [task EXCEPT !.id = <<task.id, suffix>>, !.needs = {}, !.timeout = (task.timeout + 2) \div 3]

\* splitTasks()
SubtaskNames(type, maxSubtasks) ==
    CASE type = "execution" -> <<"prepare", "execute", "cleanup">>
      [] type = "communication" -> <<"send", "receive">>
      [] type = "analysis" -> <<"collect", "process", "report">>
      [] OTHER -> SubSeq(<<"step_1", "step_2", "step_3">>, 1, Min({maxSubtasks, 3}))
SplitTasks(task, maxSubtasks) ==
    LET names == SubtaskNames(task.type, maxSubtasks)
        subtasks == [i \in DOMAIN names |-> CreateSubtask(task, names[i])]
    IN  [subtasks |-> subtasks,
         groups |-> IF task.type = "analysis" THEN <<<<subtasks[1].id, subtasks[2].id>>>> ELSE <<>>]

\* prioritize(): a stable sort; the tasks are made in the order they come in.
Precedes(a, b) ==
    LET rank == [t \in {a, b} |-> PriorityOrder[t.priority]]
    IN  \/ rank[a] < rank[b]
        \/ rank[a] = rank[b] /\ Cardinality(a.needs) < Cardinality(b.needs)
Prioritize(tasks) ==
    LET Before(i, j) == \/ Precedes(tasks[i], tasks[j])
                        \/ ~Precedes(tasks[j], tasks[i]) /\ i < j
        order == SortSeq([i \in DOMAIN tasks |-> i], Before)
    IN  [i \in DOMAIN order |-> tasks[order[i]]]

\* getHighestPriority()
GetHighestPriority(priorities) ==
    CHOOSE p \in priorities : \A q \in priorities : PriorityOrder[p] <= PriorityOrder[q]

\* The tasks by id: a later one takes the place of an earlier one of its id.
UniqueTasks(tasks) ==
    LET Put(unique, t) ==
            IF \E i \in DOMAIN unique : unique[i].id = t.id
            THEN [i \in DOMAIN unique |-> IF unique[i].id = t.id THEN t ELSE unique[i]]
            ELSE Append(unique, t)
    IN  FoldLeft(Put, <<>>, tasks)

\* build(): the plan, or none when the order names a task the plan does not have.
Build(plan) == {p \in {plan} : ToSet(p.order) \subseteq {t.id : t \in ToSet(p.tasks)}}

\* merge(), of at least one plan: the plan it returns, or none where it throws.  The
\* groups are added after the build.
Merge(plans) ==
    LET merged == Prioritize(UniqueTasks(FlattenSeq([i \in DOMAIN plans |-> plans[i].tasks])))
        ids == [i \in DOMAIN merged |-> merged[i].id]
        needs == [id \in ToSet(ids) |->
                    (CHOOSE t \in ToSet(merged) : t.id = id).needs]
    IN  IF Len(plans) = 1 THEN {plans[1]}
        ELSE IF HasCircularDependencies(ids, needs) THEN {}
        ELSE Build([mode |-> "mixed", tasks |-> merged, order |-> TaskOrder(ids, needs, "mixed"),
                    groups |-> FlattenSeq([i \in DOMAIN plans |-> plans[i].groups]),
                    priority |-> GetHighestPriority({p.priority : p \in ToSet(plans)})])

-----------------------------------------------------------------------------
\* Which tasks depend on which, directly or not.
DependsOn(tasks, dependencies) ==
    TransitiveClosure([p \in ToSet(tasks) \X ToSet(tasks) |-> p[2] \in dependencies[p[1]]],
                      ToSet(tasks))

\* The sort, against what it is for: it finds a cycle exactly when a task depends on
\* itself; otherwise every task is in the order once, after the tasks it depends on,
\* and what else is there is a dependency the plan does not have.
SortSound(tasks, dependencies) ==
    LET sort == TopologicalSort(tasks, dependencies)
        closure == DependsOn(tasks, dependencies)
        at == [id \in ToSet(sort.result) |-> CHOOSE i \in DOMAIN sort.result : sort.result[i] = id]
    IN  /\ sort.circular <=> \E t \in ToSet(tasks) : closure[t, t]
        /\ ~sort.circular =>
            /\ IsInjective(sort.result)
            /\ ToSet(sort.result) = ToSet(tasks) \cup UNION {dependencies[t] : t \in ToSet(tasks)}
            /\ \A t \in ToSet(tasks) : \A d \in dependencies[t] : at[d] < at[t]

\* A split leaves no task without time: its subtasks, all of the task's type and of
\* ids of their own, get no more than a third of its time each, rounded up, and the
\* three steps of an execution together no less than all of it.  The order the steps
\* have to be taken in is only the list's: none depends on the one before.
SplitSound(task) ==
    LET split == SplitTasks(task, 5)
        ids == [i \in DOMAIN split.subtasks |-> split.subtasks[i].id]
        total == FoldLeft(LAMBDA sum, t : sum + t.timeout, 0, split.subtasks)
    IN  /\ IsInjective(ids)
        /\ \A g \in ToSet(split.groups) : ToSet(g) \subseteq ToSet(ids)
        /\ total < task.timeout + Len(ids)
        /\ (Len(ids) = 3) => total >= task.timeout
        /\ \A t \in ToSet(split.subtasks) : t.type = task.type /\ t.needs = {}

\* Two plans merge exactly when their tasks, the second plan's in the place of the
\* first's where they share an id, depend on each other only and in no circle.  Every
\* task is then in the merged plan once, in an order in which what a task depends on
\* comes before it, although the tasks were sorted by their priority first: two tasks
\* that depend on nothing are in the order of theirs.
MergeSound(first, second) ==
    LET merged == Merge(<<first, second>>)
        kept == ToSet(second.tasks)
                   \cup {t \in ToSet(first.tasks) : \A u \in ToSet(second.tasks) : u.id # t.id}
        ids == {t.id : t \in kept}
        needs == [id \in ids |-> (CHOOSE t \in kept : t.id = id).needs]
        closure == DependsOn(SetToSeq(ids), needs)
    IN  /\ merged = {} <=> \/ \E id \in ids : closure[id, id]
                             \/ \E t \in kept : ~(t.needs \subseteq ids)
        /\ \A plan \in merged :
            LET at == [id \in ids |-> CHOOSE i \in DOMAIN plan.order : plan.order[i] = id]
            IN  /\ ToSet(plan.tasks) = kept /\ Len(plan.tasks) = Cardinality(kept)
                /\ ToSet(plan.order) = ids /\ Len(plan.order) = Cardinality(ids)
                /\ \A t \in kept : \A d \in t.needs : at[d] < at[t.id]
                /\ \A t, u \in kept :
                     /\ t.needs = {} /\ u.needs = {} /\ \A v \in kept : u.id \notin v.needs
                     /\ PriorityOrder[t.priority] < PriorityOrder[u.priority]
                     => at[t.id] < at[u.id]
=============================================================================
