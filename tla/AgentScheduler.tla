--------------------------- MODULE AgentScheduler ---------------------------
(***************************************************************************)
(* The agent scheduler (agents/scheduler/agent-scheduler.ts): five queues, *)
(* the map of running tasks and the operations on them.  Every public      *)
(* method runs to its end without an await that yields in between, so each *)
(* is one action; enqueue, which awaits between its tasks, is one action   *)
(* per task.                                                               *)
(*                                                                         *)
(* The priority and waiting queues are sequences, because their order      *)
(* decides what runs next.  Nothing reads the order of the execution,      *)
(* completed and failed queues: they are functions from a task to its      *)
(* number of entries.  The lists of error and warning texts are left out.  *)
(***************************************************************************)
EXTENDS Naturals, FiniteSets, SequencesExt

CONSTANTS
    Tasks,          \* task ids
    BlockDeps,      \* BlockDeps[t]: the ids t names in "blocking" dependencies
    AgentOf,        \* the agent of a task
    CreatedAt,      \* its creation time
    InitPriority,   \* its priority when it is built: 0 = critical .. 3 = low
    Priorities,     \* priorities a reschedule may ask for
    MaxConcurrency,
    Strategies,     \* strategies a scheduler may be constructed with
    Batches         \* task lists an enqueue may be called with

ASSUME SchedulerAssumption ==
    /\ BlockDeps \in [Tasks -> SUBSET Tasks]
    /\ CreatedAt \in [Tasks -> Nat]
    /\ Priorities \subseteq 0..3
    /\ InitPriority \in [Tasks -> 0..3]
    /\ MaxConcurrency \in Nat
    /\ Batches \subseteq Seq(Tasks)
    /\ Strategies \subseteq {"PRIORITY", "FIFO", "FAIR", "DEPENDENCY"}

VARIABLES
    queues,         \* the five queues
    running,        \* runningTasksMap, as the set of its keys
    state,          \* task.state
    priority,       \* task.priority
    isPaused,
    strategy,       \* fixed at construction
    batch,          \* what an enqueue in flight has still to schedule
    everSucceeded   \* history: tasks that completed with success at least once

vars == <<queues, running, state, priority, isPaused, strategy, batch, everSucceeded>>

TaskState == {"PENDING", "READY", "WAITING", "RUNNING", "SUCCESS", "FAILED", "CANCELLED"}

TypeOK ==
    /\ queues \in [priority : Seq(Tasks), waiting : Seq(Tasks),
                   execution : [Tasks -> Nat], completed : [Tasks -> Nat],
                   failed : [Tasks -> Nat]]
    /\ running \in SUBSET Tasks
    /\ state \in [Tasks -> TaskState]
    /\ priority \in [Tasks -> 0..3]
    /\ isPaused \in BOOLEAN
    /\ strategy \in Strategies
    /\ batch \in Seq(Tasks)
    /\ everSucceeded \in SUBSET Tasks

-----------------------------------------------------------------------------
(* Helpers of the scheduler.  q is a value of queues.                      *)

Add(count, t) == [count EXCEPT ![t] = @ + 1]
Drop(count, t) == [count EXCEPT ![t] = @ - 1]

\* The ids findTaskInQueues finds: in any queue, or in the running map.
FoundTasks(q, run) ==
    ToSet(q.priority) \cup ToSet(q.waiting) \cup run
      \cup {t \in Tasks : q.execution[t] + q.completed[t] + q.failed[t] > 0}

\* findIndex by task id, for a queue that holds the task.
FindIndex(seq, t) == Min({i \in 1..Len(seq) : seq[i] = t})

\* Mutant: the entry found is returned but not spliced out.
RemoveTaskFromQueues_NoSplice(q, t) == q

\* The first entry of t, queues in the order the code lists them, is spliced out.
RemoveTaskFromQueues(q, t) ==
    IF Contains(q.priority, t)     THEN [q EXCEPT !.priority = RemoveAt(@, FindIndex(@, t))]
    ELSE IF q.execution[t] > 0     THEN [q EXCEPT !.execution = Drop(@, t)]
    ELSE IF Contains(q.waiting, t) THEN [q EXCEPT !.waiting = RemoveAt(@, FindIndex(@, t))]
    ELSE IF q.completed[t] > 0     THEN [q EXCEPT !.completed = Drop(@, t)]
    ELSE IF q.failed[t] > 0        THEN [q EXCEPT !.failed = Drop(@, t)]
    ELSE q

\* Mutants: a dependency that was never scheduled does not block; a dependency
\* that ended in any way does not block.
CanExecuteNow_IgnoreUnknown(t, found, st) ==
    \A d \in BlockDeps[t] : d \in found => st[d] = "SUCCESS"
CanExecuteNow_AnyEnd(t, found, st) ==
    \A d \in BlockDeps[t] : d \in found /\ st[d] \in {"SUCCESS", "FAILED"}

CanExecuteNow(t, found, st) == \A d \in BlockDeps[t] : d \in found /\ st[d] = "SUCCESS"

\* Mutant: the insertion point is never searched for.
AddToPriorityQueue_AtEnd(pq, t, prio) == Append(pq, t)

\* Before the first entry of a lower priority, else at the end.
AddToPriorityQueue(pq, t, prio) ==
    LET later == {i \in 1..Len(pq) : prio[t] < prio[pq[i]]}
        index == IF later = {} THEN Len(pq) + 1 ELSE Min(later)
    IN  InsertAt(pq, index, t)

\* promoteWaitingTasks scans the waiting queue, of the given size, from its end:
\* what can execute is inserted into the priority queue, the rest stays.  The
\* value at n is the result once the last n entries have been looked at.
PromotionScan(q, size, run, st, prio) ==
    LET found == FoundTasks(q, run)
        scan[n \in 0..size] ==
            IF n = 0
            THEN [priority |-> q.priority, waiting |-> <<>>]
            ELSE LET t == q.waiting[size - n + 1]
                 IN  IF CanExecuteNow(t, found, st)
                     THEN [scan[n-1] EXCEPT !.priority = AddToPriorityQueue(@, t, prio)]
                     ELSE [scan[n-1] EXCEPT !.waiting = <<t>> \o @]
    IN  scan

\* Mutant: nothing is promoted.
PromoteWaitingTasks_None(q, run, st, prio) == q

PromoteWaitingTasks(q, run, st, prio) ==
    LET scanned == PromotionScan(q, Len(q.waiting), run, st, prio)[Len(q.waiting)]
    IN  [q EXCEPT !.priority = scanned.priority, !.waiting = scanned.waiting]

\* addToPriorityQueue also writes the state of what it inserts.
ReadyIn(q, st) == [t \in Tasks |-> IF Contains(q.priority, t) THEN "READY" ELSE st[t]]

\* The body of schedule once the duplicate check has passed.
Place(q, run, st, prio, t) ==
    IF CanExecuteNow(t, FoundTasks(q, run), st)
    THEN /\ queues' = [q EXCEPT !.priority = AddToPriorityQueue(@, t, prio)]
         /\ state' = [st EXCEPT ![t] = "READY"]
    ELSE /\ queues' = [q EXCEPT !.waiting = Append(@, t)]
         /\ state' = [st EXCEPT ![t] = "WAITING"]

-----------------------------------------------------------------------------
(* The choice dequeue makes, as an index into a nonempty priority queue.   *)

RunningOf(run, a) == Cardinality({t \in run : AgentOf[t] = a})

\* The first index whose weight is least.
FirstLeast(pq, weight) ==
    Min({i \in 1..Len(pq) : \A j \in 1..Len(pq) : weight[pq[i]] =< weight[pq[j]]})

DequeueByFIFO(pq) == FirstLeast(pq, CreatedAt)
DequeueByFairness(pq, run) ==
    FirstLeast(pq, [t \in Tasks |-> RunningOf(run, AgentOf[t])])

NextIndex(pq, run) ==
    CASE strategy = "FIFO" -> DequeueByFIFO(pq)
      [] strategy = "FAIR" -> DequeueByFairness(pq, run)
      [] OTHER -> 1

-----------------------------------------------------------------------------
Init ==
    /\ queues = [priority |-> <<>>, waiting |-> <<>>,
                 execution |-> [t \in Tasks |-> 0], completed |-> [t \in Tasks |-> 0],
                 failed |-> [t \in Tasks |-> 0]]
    /\ running = {}
    /\ state = [t \in Tasks |-> "PENDING"]
    /\ priority = InitPriority
    /\ isPaused = FALSE
    /\ strategy \in Strategies
    /\ batch = <<>>
    /\ everSucceeded = {}

\* schedule(task); a duplicate is rejected with an exception and changes nothing.
Schedule(t) ==
    /\ t \notin FoundTasks(queues, running)
    /\ Place(queues, running, state, priority, t)
    /\ UNCHANGED <<running, priority, isPaused, strategy, batch, everSucceeded>>

\* enqueue(tasks) is called.
EnqueueCall(ts) ==
    /\ batch = <<>>
    /\ batch' = ts
    /\ UNCHANGED <<queues, running, state, priority, isPaused, strategy, everSucceeded>>

\* Its next await schedule(task): a duplicate throws out of the loop, and the
\* tasks after it are never scheduled.
EnqueueStep ==
    /\ batch # <<>>
    /\ IF Head(batch) \in FoundTasks(queues, running)
       THEN batch' = <<>> /\ UNCHANGED <<queues, state>>
       ELSE batch' = Tail(batch) /\ Place(queues, running, state, priority, Head(batch))
    /\ UNCHANGED <<running, priority, isPaused, strategy, everSucceeded>>

\* Mutant: the limit itself is let through.
HasCapacity_OffByOne == Cardinality(running) =< MaxConcurrency

HasCapacity == Cardinality(running) < MaxConcurrency

\* dequeue(): promote, choose by the strategy, start.  With nothing to start it
\* returns undefined after the promotion.
Dequeue ==
    /\ ~isPaused
    /\ HasCapacity
    /\ LET q == PromoteWaitingTasks(queues, running, state, priority)
           st == ReadyIn(q, state)
           pq == q.priority
       IN  IF pq = <<>>
           THEN queues' = q /\ state' = st /\ UNCHANGED running
           ELSE LET i == NextIndex(pq, running)
                    t == pq[i]
                IN  /\ queues' = [q EXCEPT !.priority = RemoveAt(pq, i),
                                           !.execution = Add(@, t)]
                    /\ state' = [st EXCEPT ![t] = "RUNNING"]
                    /\ running' = running \cup {t}
    /\ UNCHANGED <<priority, isPaused, strategy, batch, everSucceeded>>

\* cancel(taskId): a running task leaves the running map but not the
\* execution queue; any other one leaves the first queue that holds it.
Cancel(t) ==
    /\ t \in FoundTasks(queues, running)
    /\ LET q == IF t \in running THEN queues ELSE RemoveTaskFromQueues(queues, t)
       IN  queues' = [q EXCEPT !.failed = Add(@, t)]
    /\ running' = running \ {t}
    /\ state' = [state EXCEPT ![t] = "CANCELLED"]
    /\ UNCHANGED <<priority, isPaused, strategy, batch, everSucceeded>>

Pause ==
    /\ isPaused' = TRUE
    /\ UNCHANGED <<queues, running, state, priority, strategy, batch, everSucceeded>>

Resume ==
    /\ isPaused' = FALSE
    /\ UNCHANGED <<queues, running, state, priority, strategy, batch, everSucceeded>>

\* reschedule(taskId, newPriority): the new priority is written and one entry is
\* removed before schedule looks for a duplicate.  When another entry or the
\* running map still holds the task, schedule throws and neither is undone.
Reschedule(t, p) ==
    LET q == RemoveTaskFromQueues(queues, t)
        prio == [priority EXCEPT ![t] = p]
    IN  /\ t \in FoundTasks(queues, running)
        /\ priority' = prio
        /\ IF t \in FoundTasks(q, running)
           THEN queues' = q /\ UNCHANGED state
           ELSE Place(q, running, state, prio, t)
        /\ UNCHANGED <<running, isPaused, strategy, batch, everSucceeded>>

\* Mutant: findIndex is not tested for -1 before the splice.
LeaveExecution_Unchecked(q, t) == [q EXCEPT !.execution = Drop(@, t)]

LeaveExecution(q, t) ==
    IF q.execution[t] > 0 THEN [q EXCEPT !.execution = Drop(@, t)] ELSE q

\* completeTask(taskId, success): ignored when the task is not running.
CompleteTask(t, success) ==
    LET run == running \ {t}
        st == [state EXCEPT ![t] = IF success THEN "SUCCESS" ELSE "FAILED"]
        q == LeaveExecution(queues, t)
        promoted == PromoteWaitingTasks([q EXCEPT !.completed = Add(@, t)], run, st, priority)
    IN  /\ t \in running
        /\ running' = run
        /\ IF success
           THEN /\ queues' = promoted
                /\ state' = ReadyIn(promoted, st)
                /\ everSucceeded' = everSucceeded \cup {t}
           ELSE /\ queues' = [q EXCEPT !.failed = Add(@, t)]
                /\ state' = st
                /\ UNCHANGED everSucceeded
        /\ UNCHANGED <<priority, isPaused, strategy, batch>>

Next ==
    \/ \E t \in Tasks : Schedule(t)
    \/ \E ts \in Batches : EnqueueCall(ts)
    \/ EnqueueStep
    \/ Dequeue
    \/ \E t \in Tasks : Cancel(t)
    \/ Pause
    \/ Resume
    \/ \E t \in Tasks, p \in Priorities : Reschedule(t, p)
    \/ \E t \in Tasks, success \in BOOLEAN : CompleteTask(t, success)

Spec == Init /\ [][Next]_vars

-----------------------------------------------------------------------------
(* Safety.                                                                 *)

\* dequeue never lets more than maxConcurrency tasks run at once, whatever
\* cancel, reschedule and completeTask do to the queues around it.
ConcurrencyBound == Cardinality(running) =< MaxConcurrency

\* The number of entries of t in a queue that is a sequence.
Entries(seq, t) == Cardinality({i \in 1..Len(seq) : seq[i] = t})

\* The entries of t in the five queues, in the order of QueueSizes.
Slots(t) == <<Entries(queues.priority, t), queues.execution[t],
              Entries(queues.waiting, t), queues.completed[t], queues.failed[t]>>

\* Where a task in each state may be filed.  A running task loses its execution
\* entry when a reschedule of it is refused; a task cancelled while it ran keeps
\* one, or a second entry in the failed queue once it is cancelled again.
Filing ==
    [PENDING   |-> {<<0, 0, 0, 0, 0>>},
     READY     |-> {<<1, 0, 0, 0, 0>>},
     WAITING   |-> {<<0, 0, 1, 0, 0>>},
     RUNNING   |-> {<<0, 1, 0, 0, 0>>, <<0, 0, 0, 0, 0>>},
     SUCCESS   |-> {<<0, 0, 0, 1, 0>>},
     FAILED    |-> {<<0, 0, 0, 0, 1>>},
     CANCELLED |-> {<<0, 0, 0, 0, 1>>, <<0, 1, 0, 0, 1>>, <<0, 0, 0, 0, 2>>}]

\* No sequence of schedule, cancel, reschedule and completeTask loses a task,
\* duplicates one in a queue that starts work, or leaves task.state and the
\* queues telling different stories.
TaskPlacement ==
    \A t \in Tasks : /\ Slots(t) \in Filing[state[t]]
                     /\ t \in running <=> state[t] = "RUNNING"

\* A waiting task is always waiting for something: no completion, cancellation or
\* reschedule leaves a task in the waiting queue whose blocking dependencies have
\* all succeeded, so promotion never depends on a later dequeue.
NoLostWakeup ==
    \A t \in ToSet(queues.waiting) : ~CanExecuteNow(t, FoundTasks(queues, running), state)

\* Dependency order: a task is ready or runs only if each of its blocking
\* dependencies has completed with success at some time before.
StartedAfterDeps ==
    \A t \in ToSet(queues.priority) \cup running : BlockDeps[t] \subseteq everSucceeded

\* Under the strategies that take the head of the queue, dequeue starts a task
\* of the most urgent priority among all that are ready at that time, although
\* reschedule rewrites priorities in place.
StartsMostUrgent ==
    [][\A t \in running' \ running :
          strategy \in {"PRIORITY", "DEPENDENCY"} =>
             \A u \in Tasks : state[u] = "READY" => priority[t] =< priority[u]]_vars

-----------------------------------------------------------------------------
(* Refinement: the queues implement the task board.                        *)

PhaseOf(t) ==
    IF t \in running THEN "running"
    ELSE IF Contains(queues.priority, t) THEN "ready"
    ELSE IF Contains(queues.waiting, t) THEN "waiting"
    ELSE IF queues.completed[t] > 0 THEN "completed"
    ELSE IF queues.failed[t] > 0 THEN "failed"
    ELSE "absent"

Board == INSTANCE TaskBoard WITH phase <- [t \in Tasks |-> PhaseOf(t)]

\* Seen from outside, the scheduler is a task board: entries left behind in the
\* execution and failed queues never make a task start, finish or wait twice.
BoardSpec == Board!Spec
=============================================================================
