------------------------ MODULE AgentSchedulerProofs ------------------------
(* Theorems about the agent scheduler, for any tasks, limits and batches.  *)
EXTENDS AgentScheduler, CollectionLemmas, FiniteSetTheorems, TLAPS

-----------------------------------------------------------------------------
(* The concurrency limit.                                                  *)

\* The limit is on a finite set: a dequeue adds one task at a time.
RunningOK ==
    /\ IsFiniteSet(running)
    /\ Cardinality(running) \in Nat
    /\ ConcurrencyBound

LEMMA RemoveKeepsBound ==
    ASSUME RunningOK, NEW t, running' = running \ {t}
    PROVE  RunningOK'
  <1>1. IsFiniteSet(running \ {t}) /\ Cardinality(running \ {t}) \in Nat
          /\ Cardinality(running \ {t}) =< Cardinality(running)
    BY FS_Subset, FS_CardinalityType DEF RunningOK
  <1> QED BY <1>1, SchedulerAssumption DEF RunningOK, ConcurrencyBound

LEMMA NextRunningOK == RunningOK /\ [Next]_vars => RunningOK'
  <1> SUFFICES ASSUME RunningOK, [Next]_vars PROVE RunningOK'
    OBVIOUS
  <1>1. CASE UNCHANGED running
    BY <1>1 DEF RunningOK, ConcurrencyBound
  <1>2. CASE Dequeue
    <2>1. CASE UNCHANGED running
      BY <1>1, <2>1
    <2>2. ASSUME NEW t, running' = running \cup {t}
          PROVE  RunningOK'
      <3>1. /\ IsFiniteSet(running \cup {t})
            /\ Cardinality(running \cup {t}) \in Nat
            /\ Cardinality(running \cup {t}) =< Cardinality(running) + 1
        BY FS_AddElement DEF RunningOK
      <3>2. Cardinality(running) < MaxConcurrency
        BY <1>2 DEF Dequeue, HasCapacity
      <3> QED BY <2>2, <3>1, <3>2, SchedulerAssumption DEF RunningOK, ConcurrencyBound
    <2> QED BY <1>2, <2>1, <2>2 DEF Dequeue
  <1>3. ASSUME NEW t \in Tasks, Cancel(t)
        PROVE  RunningOK'
    BY <1>3, RemoveKeepsBound DEF Cancel
  <1>4. ASSUME NEW t \in Tasks, NEW success \in BOOLEAN, CompleteTask(t, success)
        PROVE  RunningOK'
    BY <1>4, RemoveKeepsBound DEF CompleteTask
  <1> QED BY <1>1, <1>2, <1>3, <1>4
          DEF Next, vars, Schedule, EnqueueCall, EnqueueStep, Pause, Resume, Reschedule

\* At most maxConcurrency tasks run at once, for every limit, set of tasks and
\* strategy.
THEOREM BoundedConcurrency == Spec => []ConcurrencyBound
  <1>1. Init => RunningOK
    BY FS_EmptySet, SchedulerAssumption DEF Init, RunningOK, ConcurrencyBound
  <1>2. RunningOK => ConcurrencyBound
    BY DEF RunningOK
  <1> QED BY <1>1, <1>2, NextRunningOK, PTL DEF Spec
-----------------------------------------------------------------------------
(* The operations on the queues.  QueuesOver(S) are the queues whose       *)
(* priority queue holds only elements of S: with S the set of all tasks    *)
(* that is their type, with S the tasks whose dependencies have succeeded  *)
(* it is what the order of dependencies rests on.                          *)

QueuesOver(S) == [priority : Seq(S), waiting : Seq(Tasks), execution : [Tasks -> Nat],
                  completed : [Tasks -> Nat], failed : [Tasks -> Nat]]

LEMMA AddToPriorityQueueSeq ==
    ASSUME NEW S, NEW pq \in Seq(S), NEW t \in S, NEW prio
    PROVE  AddToPriorityQueue(pq, t, prio) \in Seq(S)
  <1> DEFINE later == {i \in 1..Len(pq) : prio[t] < prio[pq[i]]}
             index == IF later = {} THEN Len(pq) + 1 ELSE Min(later)
  <1>1. AddToPriorityQueue(pq, t, prio) = InsertAt(pq, index, t)
    BY DEF AddToPriorityQueue
  <1>2. later \in SUBSET Nat /\ later \subseteq 1..Len(pq)
    OBVIOUS
  <1>3. index \in 1..(Len(pq) + 1)
    <2> HIDE DEF later
    <2>1. CASE later = {}
      BY <2>1
    <2>2. CASE later # {}
      <3>1. Min(later) \in 1..Len(pq)
        BY <1>2, <2>2, MinIn
      <3> QED BY <2>2, <3>1
    <2> QED BY <2>1, <2>2
  <1> HIDE DEF index
  <1> QED BY <1>1, <1>3, InsertAtSeq

LEMMA SpliceFound ==
    ASSUME NEW S, NEW s \in Seq(S), NEW e, Contains(s, e)
    PROVE  RemoveAt(s, FindIndex(s, e)) \in Seq(S)
  <1> DEFINE I == {i \in 1..Len(s) : s[i] = e}
  <1>1. I \in SUBSET Nat /\ I \subseteq 1..Len(s) /\ I # {}
    BY DEF Contains
  <1>2. FindIndex(s, e) = Min(I)
    BY DEF FindIndex
  <1> HIDE DEF I
  <1>3. Min(I) \in 1..Len(s)
    BY <1>1, MinIn
  <1> QED BY <1>2, <1>3, RemoveAtSeq

LEMMA RemoveTaskFromQueuesOver ==
    ASSUME NEW S, NEW q \in QueuesOver(S), NEW t \in Tasks
    PROVE  RemoveTaskFromQueues(q, t) \in QueuesOver(S)
  <1>1. /\ Contains(q.priority, t) => RemoveAt(q.priority, FindIndex(q.priority, t)) \in Seq(S)
        /\ Contains(q.waiting, t) => RemoveAt(q.waiting, FindIndex(q.waiting, t)) \in Seq(Tasks)
    BY SpliceFound DEF QueuesOver
  <1>2. CASE Contains(q.priority, t)
    BY <1>1, <1>2 DEF RemoveTaskFromQueues, QueuesOver
  <1>3. CASE ~Contains(q.priority, t) /\ q.execution[t] > 0
    <2>1. Drop(q.execution, t) \in [Tasks -> Nat]
      BY <1>3 DEF QueuesOver, Drop
    <2> QED BY <1>3, <2>1 DEF RemoveTaskFromQueues, QueuesOver
  <1>4. CASE ~Contains(q.priority, t) /\ ~(q.execution[t] > 0) /\ Contains(q.waiting, t)
    BY <1>1, <1>4 DEF RemoveTaskFromQueues, QueuesOver
  <1>5. CASE ~Contains(q.priority, t) /\ ~(q.execution[t] > 0) /\ ~Contains(q.waiting, t)
    <2>1. /\ q.completed[t] > 0 => Drop(q.completed, t) \in [Tasks -> Nat]
          /\ q.failed[t] > 0 => Drop(q.failed, t) \in [Tasks -> Nat]
      BY DEF QueuesOver, Drop
    <2> QED BY <1>5, <2>1 DEF RemoveTaskFromQueues, QueuesOver
  <1> QED BY <1>2, <1>3, <1>4, <1>5

LEMMA LeaveExecutionOver ==
    ASSUME NEW S, NEW q \in QueuesOver(S), NEW t \in Tasks
    PROVE  LeaveExecution(q, t) \in QueuesOver(S)
  <1>1. CASE q.execution[t] > 0
    <2>1. Drop(q.execution, t) \in [Tasks -> Nat]
      BY <1>1 DEF QueuesOver, Drop
    <2> QED BY <1>1, <2>1 DEF LeaveExecution, QueuesOver
  <1>2. CASE ~(q.execution[t] > 0)
    BY <1>2 DEF LeaveExecution
  <1> QED BY <1>1, <1>2

\* What the scan makes of the queues x when it looks at the waiting task t.
LookAt(t, x, found, st, prio) ==
    IF CanExecuteNow(t, found, st)
    THEN [x EXCEPT !.priority = AddToPriorityQueue(@, t, prio)]
    ELSE [x EXCEPT !.waiting = <<t>> \o @]

\* A scan that starts with the priority queue of q and looks at one task after
\* another, from the end of the waiting queue.
Scans(scan, q, size, found, st, prio) ==
    /\ scan[0] = [priority |-> q.priority, waiting |-> <<>>]
    /\ \A n \in 1..size : scan[n] = LookAt(q.waiting[size - n + 1], scan[n-1], found, st, prio)

\* The scan of the waiting queue is a well-defined recursion, which looks at its
\* tasks one by one.  What it moves to the priority queue can execute.
LEMMA PromotionScanType ==
    ASSUME NEW S, NEW q \in QueuesOver(S), NEW size \in Nat, NEW run, NEW st, NEW prio,
           NEW X, X = [priority : Seq(S), waiting : Seq(Tasks)],
           \A n \in 1..size : q.waiting[size - n + 1] \in Tasks,
           \A t \in Tasks : CanExecuteNow(t, FoundTasks(q, run), st) => t \in S
    PROVE  LET scan == PromotionScan(q, size, run, st, prio)
           IN  scan \in [0..size -> X] /\ Scans(scan, q, size, FoundTasks(q, run), st, prio)
  <1> DEFINE Base == [priority |-> q.priority, waiting |-> <<>>]
             Look(n, x) == LookAt(q.waiting[size - n + 1], x, FoundTasks(q, run), st, prio)
             F == [n \in 1..size |-> [x \in X |-> Look(n, x)]]
             Fits(f) == f = [n \in 0..size |-> IF n = 0 THEN Base ELSE Look(n, f[n-1])]
  <1>1. Base \in X
    BY DEF QueuesOver
  <1>2. ASSUME NEW n \in 1..size, NEW x \in X
        PROVE  Look(n, x) \in X
    <2>1. q.waiting[size - n + 1] \in Tasks
      OBVIOUS
    <2>2. CASE CanExecuteNow(q.waiting[size - n + 1], FoundTasks(q, run), st)
      <3>1. q.waiting[size - n + 1] \in S
        BY <2>1, <2>2
      <3>2. AddToPriorityQueue(x.priority, q.waiting[size - n + 1], prio) \in Seq(S)
        BY <3>1, AddToPriorityQueueSeq
      <3> QED BY <2>2, <3>2 DEF LookAt
    <2>3. CASE ~CanExecuteNow(q.waiting[size - n + 1], FoundTasks(q, run), st)
      <3>1. <<q.waiting[size - n + 1]>> \o x.waiting \in Seq(Tasks)
        BY <2>1, ConcatProperties
      <3> QED BY <2>3, <3>1 DEF LookAt
    <2> QED BY <2>2, <2>3
  <1>3. F \in StepFunctions(size, X)
    <2> HIDE DEF Look
    <2> QED BY <1>2 DEF StepFunctions
  <1>4. PICK f : Follows(f, size, X, Base, F)
    <2> HIDE DEF F, Base
    <2> QED BY <1>1, <1>3, BoundedRecursion
  <1>5. Fits(f)
    <2> HIDE DEF Look, Base
    <2>1. ASSUME NEW n \in 1..size
          PROVE  f[n] = Look(n, f[n-1])
      <3>1. f[n-1] \in X
        BY <1>4 DEF Follows
      <3>2. f[n] = F[n][f[n-1]]
        BY <1>4 DEF Follows
      <3>3. \A x \in X : F[n][x] = Look(n, x)
        OBVIOUS
      <3> HIDE DEF F
      <3> QED BY <3>1, <3>2, <3>3
    <2>2. f \in [0..size -> X] /\ f[0] = Base
      BY <1>4 DEF Follows
    <2>3. \A n \in 0..size : f[n] = IF n = 0 THEN Base ELSE Look(n, f[n-1])
      BY <2>1, <2>2
    <2> QED BY <2>2, <2>3
  <1> DEFINE scan == PromotionScan(q, size, run, st, prio)
  <1>6. scan = CHOOSE g : Fits(g)
    BY DEF PromotionScan, LookAt
  <1>7. Fits(scan)
    <2> HIDE DEF Fits, scan
    <2> QED BY <1>5, <1>6
  <1> HIDE DEF scan, Base, Look
  <1>8. scan[0] = Base /\ \A n \in 1..size : scan[n] = Look(n, scan[n-1])
    BY <1>7
  <1> DEFINE D == {n \in 0..size : scan[n] \in X}
  <1>9. \A n \in 0..size : n \in D
    <2>1. 0 \in D
      BY <1>1, <1>8
    <2>2. ASSUME NEW n \in 1..size, n - 1 \in D
          PROVE  n \in D
      BY <1>2, <1>8, <2>2
    <2> HIDE DEF D
    <2> QED BY <2>1, <2>2, BoundedInduction
  <1> QED BY <1>7, <1>8, <1>9 DEF scan, Base, Look, Scans

\* A promotion files every waiting task that can execute in the priority queue
\* and keeps the others.
LEMMA PromoteWaitingTasksOver ==
    ASSUME NEW S, NEW q \in QueuesOver(S), NEW run, NEW st, NEW prio,
           \A t \in Tasks : CanExecuteNow(t, FoundTasks(q, run), st) => t \in S
    PROVE  PromoteWaitingTasks(q, run, st, prio) \in QueuesOver(S)
  <1>1. PICK size \in Nat : size = Len(q.waiting)
    BY DEF QueuesOver
  <1>2. \A n \in 1..size : q.waiting[size - n + 1] \in Tasks
    BY <1>1 DEF QueuesOver
  <1>3. PICK X : X = [priority : Seq(S), waiting : Seq(Tasks)]
    OBVIOUS
  <1>4. PromotionScan(q, size, run, st, prio) \in [0..size -> X]
    BY <1>2, <1>3, PromotionScanType
  <1>5. PromotionScan(q, size, run, st, prio)[size] \in [priority : Seq(S), waiting : Seq(Tasks)]
    BY <1>3, <1>4
  <1>6. PICK scanned \in [priority : Seq(S), waiting : Seq(Tasks)] :
           PromoteWaitingTasks(q, run, st, prio) =
              [q EXCEPT !.priority = scanned.priority, !.waiting = scanned.waiting]
    BY <1>1, <1>5 DEF PromoteWaitingTasks
  <1> QED BY <1>6 DEF QueuesOver
-----------------------------------------------------------------------------
(* Types and the order of dependencies.  The inductive invariant says that *)
(* whatever is ready or runs has only dependencies that once succeeded,    *)
(* and that the state SUCCESS is never seen before the completion that the *)
(* history records.                                                        *)

Cleared == {t \in Tasks : BlockDeps[t] \subseteq everSucceeded}

SuccessRecorded == \A t \in Tasks : state[t] = "SUCCESS" => t \in everSucceeded

FieldTypes ==
    /\ state \in [Tasks -> TaskState]
    /\ priority \in [Tasks -> 0..3]
    /\ isPaused \in BOOLEAN
    /\ strategy \in Strategies
    /\ batch \in Seq(Tasks)
    /\ everSucceeded \in SUBSET Tasks

IInv ==
    /\ FieldTypes
    /\ RunningOK
    /\ queues \in QueuesOver(Cleared)
    /\ running \subseteq Cleared
    /\ SuccessRecorded

\* What canExecuteNow lets through is cleared.
LEMMA CanExecuteIsCleared ==
    ASSUME NEW st, NEW E, NEW found, NEW t \in Tasks, CanExecuteNow(t, found, st),
           \A u \in Tasks : st[u] = "SUCCESS" => u \in E
    PROVE  BlockDeps[t] \subseteq E
  BY SchedulerAssumption DEF CanExecuteNow

\* schedule files a task in one of the two queues that wait for a dequeue.
LEMMA PlaceFiles ==
    ASSUME NEW q \in QueuesOver(Cleared), NEW st \in [Tasks -> TaskState], NEW run, NEW prio,
           NEW t \in Tasks, Place(q, run, st, prio, t),
           \A u \in Tasks : st[u] = "SUCCESS" => u \in everSucceeded
    PROVE  /\ queues' \in QueuesOver(Cleared)
           /\ state' \in [Tasks -> TaskState]
           /\ \A u \in Tasks : state'[u] = "SUCCESS" => u \in everSucceeded
  <1>1. CASE CanExecuteNow(t, FoundTasks(q, run), st)
    <2>1. t \in Cleared
      BY <1>1, CanExecuteIsCleared DEF Cleared
    <2>2. AddToPriorityQueue(q.priority, t, prio) \in Seq(Cleared)
      BY <2>1, AddToPriorityQueueSeq DEF QueuesOver
    <2>3. /\ queues' = [q EXCEPT !.priority = AddToPriorityQueue(q.priority, t, prio)]
          /\ state' = [st EXCEPT ![t] = "READY"]
      BY <1>1 DEF Place
    <2>4. queues' \in QueuesOver(Cleared)
      BY <2>2, <2>3 DEF QueuesOver
    <2> QED BY <2>3, <2>4 DEF TaskState
  <1>2. CASE ~CanExecuteNow(t, FoundTasks(q, run), st)
    <2>1. /\ queues' = [q EXCEPT !.waiting = Append(q.waiting, t)]
          /\ state' = [st EXCEPT ![t] = "WAITING"]
      BY <1>2 DEF Place
    <2>2. Append(q.waiting, t) \in Seq(Tasks)
      BY DEF QueuesOver
    <2>3. queues' \in QueuesOver(Cleared)
      BY <2>1, <2>2 DEF QueuesOver
    <2> QED BY <2>1, <2>3 DEF TaskState
  <1> QED BY <1>1, <1>2

\* Every strategy chooses an index of the queue.
LEMMA NextIndexInQueue ==
    ASSUME NEW pq \in Seq(Tasks), pq # <<>>, NEW run, IsFiniteSet(run)
    PROVE  NextIndex(pq, run) \in 1..Len(pq)
  <1>1. Len(pq) \in Nat \ {0}
    OBVIOUS
  <1>2. PICK n \in Nat \ {0} : n = Len(pq)
    BY <1>1
  <1>3. DequeueByFIFO(pq) \in 1..n
    <2> DEFINE w == [i \in 1..n |-> CreatedAt[pq[i]]]
    <2>1. w \in [1..n -> Nat]
      BY <1>2, SchedulerAssumption
    <2>2. DequeueByFIFO(pq) = Min({i \in 1..n : \A j \in 1..n : w[i] =< w[j]})
      BY <1>2 DEF DequeueByFIFO, FirstLeast
    <2> HIDE DEF w
    <2> QED BY <2>1, <2>2, LeastWeight
  <1>4. DequeueByFairness(pq, run) \in 1..n
    <2> DEFINE w == [i \in 1..n |-> RunningOf(run, AgentOf[pq[i]])]
    <2>1. \A a : RunningOf(run, a) \in Nat
      <3> SUFFICES ASSUME NEW a PROVE RunningOf(run, a) \in Nat
        OBVIOUS
      <3>1. IsFiniteSet({t \in run : AgentOf[t] = a})
        BY FS_Subset
      <3> QED BY <3>1, FS_CardinalityType DEF RunningOf
    <2>2. w \in [1..n -> Nat]
      BY <2>1
    <2>3. DequeueByFairness(pq, run) = Min({i \in 1..n : \A j \in 1..n : w[i] =< w[j]})
      <3>1. \A i \in 1..n : pq[i] \in Tasks
        BY <1>2
      <3> QED BY <1>2, <3>1 DEF DequeueByFairness, FirstLeast
    <2> HIDE DEF w
    <2> QED BY <2>2, <2>3, LeastWeight
  <1> QED BY <1>2, <1>3, <1>4 DEF NextIndex

\* Steps that leave the history alone leave what is cleared alone.
LEMMA SameCleared ==
    ASSUME UNCHANGED everSucceeded
    PROVE  Cleared' = Cleared
  BY DEF Cleared

LEMMA NextIInv == IInv /\ [Next]_vars => IInv'
  <1> SUFFICES ASSUME IInv, [Next]_vars PROVE IInv'
    OBVIOUS
  <1>0. RunningOK'
    BY NextRunningOK DEF IInv
  <1>1. ASSUME NEW t \in Tasks, Schedule(t)
        PROVE  IInv'
    <2>1. Cleared' = Cleared
      BY <1>1, SameCleared DEF Schedule
    <2>2. /\ queues' \in QueuesOver(Cleared)
          /\ state' \in [Tasks -> TaskState]
          /\ \A u \in Tasks : state'[u] = "SUCCESS" => u \in everSucceeded
      BY <1>1, PlaceFiles DEF Schedule, IInv, FieldTypes, SuccessRecorded
    <2>3. queues' \in QueuesOver(Cleared)'
      BY <2>1, <2>2 DEF QueuesOver
    <2> QED BY <1>0, <1>1, <2>1, <2>2, <2>3 DEF Schedule, IInv, FieldTypes, SuccessRecorded
  <1>2. ASSUME NEW ts \in Batches, EnqueueCall(ts)
        PROVE  IInv'
    <2>1. Cleared' = Cleared
      BY <1>2, SameCleared DEF EnqueueCall
    <2>2. ts \in Seq(Tasks)
      BY SchedulerAssumption
    <2>3. queues' \in QueuesOver(Cleared)'
      BY <1>2, <2>1 DEF QueuesOver, EnqueueCall, IInv
    <2> QED BY <1>0, <1>2, <2>1, <2>2, <2>3 DEF EnqueueCall, IInv, FieldTypes, SuccessRecorded
  <1>3. ASSUME EnqueueStep
        PROVE  IInv'
    <2>1. Cleared' = Cleared
      BY <1>3, SameCleared DEF EnqueueStep
    <2>2. batch \in Seq(Tasks) /\ batch # <<>>
      BY <1>3 DEF EnqueueStep, IInv, FieldTypes
    <2>3. Head(batch) \in Tasks /\ Tail(batch) \in Seq(Tasks)
      BY <2>2
    <2>4. CASE Head(batch) \in FoundTasks(queues, running)
      <3>1. batch' = <<>> /\ UNCHANGED <<queues, state>>
        BY <1>3, <2>4 DEF EnqueueStep
      <3>2. queues' \in QueuesOver(Cleared)'
        BY <2>1, <3>1 DEF QueuesOver, IInv
      <3> QED BY <1>0, <1>3, <2>1, <3>1, <3>2 DEF EnqueueStep, IInv, FieldTypes, SuccessRecorded
    <2>5. CASE Head(batch) \notin FoundTasks(queues, running)
      <3>1. batch' = Tail(batch) /\ Place(queues, running, state, priority, Head(batch))
        BY <1>3, <2>5 DEF EnqueueStep
      <3>2. /\ queues' \in QueuesOver(Cleared)
            /\ state' \in [Tasks -> TaskState]
            /\ \A u \in Tasks : state'[u] = "SUCCESS" => u \in everSucceeded
        BY <2>3, <3>1, PlaceFiles DEF IInv, FieldTypes, SuccessRecorded
      <3>3. queues' \in QueuesOver(Cleared)'
        BY <2>1, <3>2 DEF QueuesOver
      <3> QED BY <1>0, <1>3, <2>1, <2>3, <3>1, <3>2, <3>3
              DEF EnqueueStep, IInv, FieldTypes, SuccessRecorded
    <2> QED BY <2>4, <2>5
  <1>4. ASSUME Dequeue
        PROVE  IInv'
    <2> DEFINE q == PromoteWaitingTasks(queues, running, state, priority)
               st == ReadyIn(q, state)
               pq == q.priority
               i == NextIndex(pq, running)
    <2>1. Cleared' = Cleared
      BY <1>4, SameCleared DEF Dequeue
    <2>2. q \in QueuesOver(Cleared)
      <3>1. \A t \in Tasks : CanExecuteNow(t, FoundTasks(queues, running), state) => t \in Cleared
        BY CanExecuteIsCleared DEF IInv, SuccessRecorded, Cleared
      <3> QED BY <3>1, PromoteWaitingTasksOver DEF IInv
    <2>3. /\ st \in [Tasks -> TaskState]
          /\ \A u \in Tasks : st[u] = "SUCCESS" => u \in everSucceeded
      BY DEF ReadyIn, IInv, FieldTypes, SuccessRecorded, TaskState
    <2>4. CASE pq = <<>>
      <3>1. queues' = q /\ state' = st /\ UNCHANGED running
        BY <1>4, <2>4 DEF Dequeue
      <3> HIDE DEF q, st
      <3>2. queues' \in QueuesOver(Cleared)'
        BY <2>1, <2>2, <3>1 DEF QueuesOver
      <3> QED BY <1>0, <1>4, <2>1, <2>3, <3>1, <3>2 DEF Dequeue, IInv, FieldTypes, SuccessRecorded
    <2>5. CASE pq # <<>>
      <3>1. /\ queues' = [q EXCEPT !.priority = RemoveAt(pq, i), !.execution = Add(@, pq[i])]
            /\ state' = [st EXCEPT ![pq[i]] = "RUNNING"]
            /\ running' = running \cup {pq[i]}
        BY <1>4, <2>5 DEF Dequeue
      <3>2. pq \in Seq(Cleared) /\ pq \in Seq(Tasks)
        BY <2>2, SeqMonotonic DEF QueuesOver, Cleared
      <3>3. i \in 1..Len(pq)
        BY <2>5, <3>2, NextIndexInQueue DEF IInv, RunningOK
      <3> HIDE DEF q, st, pq, i
      <3>4. pq[i] \in Cleared /\ pq[i] \in Tasks
        BY <3>2, <3>3
      <3>5. RemoveAt(pq, i) \in Seq(Cleared)
        BY <3>2, <3>3, RemoveAtSeq
      <3>6. queues' \in QueuesOver(Cleared)
        <4>1. Add(q.execution, pq[i]) \in [Tasks -> Nat]
          BY <2>2, <3>4 DEF QueuesOver, Add
        <4> QED BY <2>2, <3>1, <3>5, <4>1 DEF QueuesOver
      <3>7. queues' \in QueuesOver(Cleared)'
        BY <2>1, <3>6 DEF QueuesOver
      <3>8. state' \in [Tasks -> TaskState] /\ SuccessRecorded'
        BY <1>4, <2>3, <3>1, <3>4 DEF Dequeue, SuccessRecorded, TaskState
      <3> QED BY <1>0, <1>4, <2>1, <3>1, <3>4, <3>7, <3>8 DEF Dequeue, IInv, FieldTypes
    <2> QED BY <2>4, <2>5
  <1>5. ASSUME NEW t \in Tasks, Cancel(t)
        PROVE  IInv'
    <2>1. Cleared' = Cleared
      BY <1>5, SameCleared DEF Cancel
    <2>2. PICK q \in QueuesOver(Cleared) : queues' = [q EXCEPT !.failed = Add(@, t)]
      <3>1. RemoveTaskFromQueues(queues, t) \in QueuesOver(Cleared)
        BY RemoveTaskFromQueuesOver DEF IInv
      <3> QED BY <1>5, <3>1 DEF Cancel, IInv
    <2>3. queues' \in QueuesOver(Cleared)
      <3>1. Add(q.failed, t) \in [Tasks -> Nat]
        BY DEF QueuesOver, Add
      <3> QED BY <2>2, <3>1 DEF QueuesOver
    <2>4. queues' \in QueuesOver(Cleared)'
      BY <2>1, <2>3 DEF QueuesOver
    <2>5. state' \in [Tasks -> TaskState] /\ SuccessRecorded'
      BY <1>5 DEF Cancel, IInv, FieldTypes, SuccessRecorded, TaskState
    <2> QED BY <1>0, <1>5, <2>1, <2>4, <2>5 DEF Cancel, IInv, FieldTypes
  <1>6. CASE Pause \/ Resume \/ UNCHANGED vars
    <2>1. Cleared' = Cleared
      BY <1>6, SameCleared DEF Pause, Resume, vars
    <2>2. queues' \in QueuesOver(Cleared)'
      BY <1>6, <2>1 DEF QueuesOver, IInv, Pause, Resume, vars
    <2> QED BY <1>0, <1>6, <2>1, <2>2 DEF Pause, Resume, vars, IInv, FieldTypes, SuccessRecorded
  <1>7. ASSUME NEW t \in Tasks, NEW p \in Priorities, Reschedule(t, p)
        PROVE  IInv'
    <2> DEFINE q == RemoveTaskFromQueues(queues, t)
               prio == [priority EXCEPT ![t] = p]
    <2>1. Cleared' = Cleared
      BY <1>7, SameCleared DEF Reschedule
    <2>2. q \in QueuesOver(Cleared)
      BY RemoveTaskFromQueuesOver DEF IInv
    <2>3. priority' \in [Tasks -> 0..3]
      BY <1>7, SchedulerAssumption DEF Reschedule, IInv, FieldTypes
    <2>4. /\ queues' \in QueuesOver(Cleared)
          /\ state' \in [Tasks -> TaskState]
          /\ \A u \in Tasks : state'[u] = "SUCCESS" => u \in everSucceeded
      <3>1. CASE t \in FoundTasks(q, running)
        BY <1>7, <2>2, <3>1 DEF Reschedule, IInv, FieldTypes, SuccessRecorded
      <3>2. CASE t \notin FoundTasks(q, running)
        <4>1. Place(q, running, state, prio, t)
          BY <1>7, <3>2 DEF Reschedule
        <4> HIDE DEF q, prio
        <4> QED BY <2>2, <4>1, PlaceFiles DEF IInv, FieldTypes, SuccessRecorded
      <3> QED BY <3>1, <3>2
    <2>5. queues' \in QueuesOver(Cleared)'
      BY <2>1, <2>4 DEF QueuesOver
    <2> QED BY <1>0, <1>7, <2>1, <2>3, <2>4, <2>5
            DEF Reschedule, IInv, FieldTypes, SuccessRecorded
  <1>8. ASSUME NEW t \in Tasks, CompleteTask(t, FALSE)
        PROVE  IInv'
    <2>1. Cleared' = Cleared
      BY <1>8, SameCleared DEF CompleteTask
    <2>2. LeaveExecution(queues, t) \in QueuesOver(Cleared)
      BY LeaveExecutionOver DEF IInv
    <2>3. PICK q \in QueuesOver(Cleared) : queues' = [q EXCEPT !.failed = Add(@, t)]
      BY <1>8, <2>2 DEF CompleteTask
    <2>4. queues' \in QueuesOver(Cleared)
      <3>1. Add(q.failed, t) \in [Tasks -> Nat]
        BY DEF QueuesOver, Add
      <3> QED BY <2>3, <3>1 DEF QueuesOver
    <2>5. queues' \in QueuesOver(Cleared)'
      BY <2>1, <2>4 DEF QueuesOver
    <2>6. state' \in [Tasks -> TaskState] /\ SuccessRecorded'
      BY <1>8 DEF CompleteTask, IInv, FieldTypes, SuccessRecorded, TaskState
    <2> QED BY <1>0, <1>8, <2>1, <2>5, <2>6 DEF CompleteTask, IInv, FieldTypes
  <1>9. ASSUME NEW t \in Tasks, CompleteTask(t, TRUE)
        PROVE  IInv'
    <2> DEFINE run == running \ {t}
               st == [state EXCEPT ![t] = "SUCCESS"]
               q == [LeaveExecution(queues, t) EXCEPT !.completed = Add(@, t)]
               promoted == PromoteWaitingTasks(q, run, st, priority)
    <2>1. /\ queues' = promoted
          /\ state' = ReadyIn(promoted, st)
          /\ everSucceeded' = everSucceeded \cup {t}
          /\ running' = run
          /\ UNCHANGED <<priority, isPaused, strategy, batch>>
      BY <1>9 DEF CompleteTask
    <2>2. PICK C : C = {u \in Tasks : BlockDeps[u] \subseteq everSucceeded \cup {t}}
      OBVIOUS
    <2>3. Cleared' = C /\ Cleared \subseteq C
      BY <2>1, <2>2 DEF Cleared
    <2>4. q \in QueuesOver(C)
      <3>1. PICK left \in QueuesOver(Cleared) : left = LeaveExecution(queues, t)
        BY LeaveExecutionOver DEF IInv
      <3>2. left.priority \in Seq(C)
        BY <2>3, SeqMonotonic DEF QueuesOver
      <3>3. Add(left.completed, t) \in [Tasks -> Nat]
        BY DEF QueuesOver, Add
      <3> QED BY <3>1, <3>2, <3>3 DEF QueuesOver
    <2>5. /\ st \in [Tasks -> TaskState]
          /\ \A u \in Tasks : st[u] = "SUCCESS" => u \in everSucceeded \cup {t}
      BY DEF IInv, FieldTypes, SuccessRecorded, TaskState
    <2> HIDE DEF q, st
    <2>6. promoted \in QueuesOver(C)
      <3>1. \A u \in Tasks : CanExecuteNow(u, FoundTasks(q, run), st) => u \in C
        BY <2>2, <2>5, CanExecuteIsCleared
      <3> HIDE DEF run
      <3> QED BY <2>4, <3>1, PromoteWaitingTasksOver
    <2> HIDE DEF promoted
    <2>7. queues' \in QueuesOver(Cleared)'
      BY <2>1, <2>3, <2>6 DEF QueuesOver
    <2>8. state' \in [Tasks -> TaskState] /\ SuccessRecorded'
      BY <2>1, <2>5 DEF ReadyIn, SuccessRecorded, TaskState
    <2>9. running' \subseteq Cleared'
      BY <2>1, <2>3 DEF IInv
    <2> QED BY <1>0, <2>1, <2>7, <2>8, <2>9 DEF IInv, FieldTypes
  <1> QED BY <1>1, <1>2, <1>3, <1>4, <1>5, <1>6, <1>7, <1>8, <1>9 DEF Next

LEMMA InitIInv == Init => IInv
  <1> SUFFICES ASSUME Init PROVE IInv
    OBVIOUS
  <1>1. RunningOK
    BY FS_EmptySet, SchedulerAssumption DEF Init, RunningOK, ConcurrencyBound
  <1>2. <<>> \in Seq(Cleared) /\ <<>> \in Seq(Tasks)
    OBVIOUS
  <1>3. queues \in QueuesOver(Cleared)
    BY <1>2 DEF Init, QueuesOver
  <1> QED BY <1>1, <1>2, <1>3, SchedulerAssumption
          DEF Init, IInv, FieldTypes, SuccessRecorded, TaskState

\* The scheduler's state keeps its types: no count of entries turns negative, and
\* the queues hold tasks only.
THEOREM TypeCorrect == Spec => []TypeOK
  <1>1. IInv => TypeOK
    <2> SUFFICES ASSUME IInv PROVE TypeOK
      OBVIOUS
    <2>1. queues.priority \in Seq(Tasks)
      BY SeqMonotonic DEF IInv, QueuesOver, Cleared
    <2> QED BY <2>1 DEF IInv, FieldTypes, QueuesOver, Cleared, TypeOK
  <1> QED BY <1>1, InitIInv, NextIInv, PTL DEF Spec

\* The order of dependencies holds for every set of tasks and dependencies,
\* circular ones included, and every use of cancel and reschedule.
THEOREM DependencyOrder == Spec => []StartedAfterDeps
  <1>1. IInv => StartedAfterDeps
    <2> SUFFICES ASSUME IInv PROVE StartedAfterDeps
      OBVIOUS
    <2>1. \A t \in ToSet(queues.priority) : t \in Cleared
      BY DEF IInv, QueuesOver, ToSet
    <2> QED BY <2>1 DEF IInv, Cleared, StartedAfterDeps
  <1> QED BY <1>1, InitIInv, NextIInv, PTL DEF Spec
-----------------------------------------------------------------------------
(* Where tasks are filed.  Counted entries are replaced by membership: the *)
(* two sequences repeat nothing, so a task is in one of them or it is not. *)

Sorted(pq, prio) ==
    \A i, j \in 1..Len(pq) : i < j => prio[pq[i]] =< prio[pq[j]]

Priority == [Tasks -> 0..3]

\* What an insertion leaves: its place is before the first lower priority.
LEMMA AddToPriorityQueueFiles ==
    ASSUME NEW pq \in Seq(Tasks), NEW t \in Tasks, NEW prio \in Priority,
           NoRepeats(pq), Sorted(pq, prio), t \notin ToSet(pq)
    PROVE  LET r == AddToPriorityQueue(pq, t, prio)
           IN  r \in Seq(Tasks) /\ ToSet(r) = ToSet(pq) \cup {t} /\ NoRepeats(r) /\ Sorted(r, prio)
  <1> DEFINE later == {i \in 1..Len(pq) : prio[t] < prio[pq[i]]}
             index == IF later = {} THEN Len(pq) + 1 ELSE Min(later)
             r == InsertAt(pq, index, t)
  <1>1. AddToPriorityQueue(pq, t, prio) = r
    BY DEF AddToPriorityQueue
  <1>2. later \in SUBSET Nat /\ later \subseteq 1..Len(pq)
    OBVIOUS
  <1>3. /\ index \in 1..(Len(pq) + 1)
        /\ \A i \in 1..Len(pq) : i < index => prio[pq[i]] =< prio[t]
        /\ index =< Len(pq) => prio[t] =< prio[pq[index]]
    <2>0. \A i \in 1..Len(pq) : prio[pq[i]] \in 0..3 /\ prio[t] \in 0..3
      BY DEF Priority
    <2>1. CASE later = {}
      BY <2>0, <2>1
    <2>2. CASE later # {}
      <3>1. Min(later) \in later /\ \A m \in later : Min(later) =< m
        <4> HIDE DEF later
        <4> QED BY <1>2, <2>2, MinIn
      <3>2. index = Min(later)
        BY <2>2
      <3> HIDE DEF index
      <3>3. index \in later /\ \A m \in later : index =< m
        BY <3>1, <3>2
      <3> QED BY <2>0, <3>3
    <2> QED BY <2>1, <2>2
  <1> HIDE DEF later, index
  <1>4. /\ r \in Seq(Tasks)
        /\ Len(r) = Len(pq) + 1
        /\ \A j \in 1..(Len(pq) + 1) :
              r[j] = IF j < index THEN pq[j] ELSE IF j = index THEN t ELSE pq[j-1]
        /\ ToSet(r) = ToSet(pq) \cup {t}
        /\ NoRepeats(r)
    BY <1>3, InsertAtSeq, InsertAtElements, InsertAtSet, InsertAtNoRepeats
  <1> HIDE DEF r
  <1>5. ASSUME NEW i \in 1..Len(r), NEW j \in 1..Len(r), i < j
        PROVE  prio[r[i]] =< prio[r[j]]
    <2>0. Len(pq) \in Nat /\ index \in Nat
      BY <1>3
    <2>1. \A k \in 1..Len(pq) : pq[k] \in Tasks /\ prio[pq[k]] \in 0..3
      BY DEF Priority
    <2>2. prio[t] \in 0..3
      BY DEF Priority
    <2>3. \A k \in 1..Len(pq) : index =< k => prio[t] =< prio[pq[k]]
      <3> SUFFICES ASSUME NEW k \in 1..Len(pq), index =< k PROVE prio[t] =< prio[pq[k]]
        OBVIOUS
      <3>1. index \in 1..Len(pq) /\ prio[t] =< prio[pq[index]]
        BY <1>3, <2>0
      <3>2. index = k \/ prio[pq[index]] =< prio[pq[k]]
        BY <2>0, <3>1 DEF Sorted
      <3> QED BY <2>1, <2>2, <3>1, <3>2, SMTT(30)
    <2>4. CASE j < index
      <3>1. i \in 1..Len(pq) /\ j \in 1..Len(pq) /\ r[i] = pq[i] /\ r[j] = pq[j]
        BY <1>3, <1>4, <1>5, <2>0, <2>4
      <3> QED BY <1>5, <3>1 DEF Sorted
    <2>5. CASE j = index
      <3>1. i \in 1..Len(pq) /\ r[i] = pq[i] /\ r[j] = t
        BY <1>3, <1>4, <1>5, <2>0, <2>5
      <3> QED BY <1>3, <1>5, <2>5, <3>1
    <2>6. CASE j > index
      <3>1. j - 1 \in 1..Len(pq) /\ r[j] = pq[j-1] /\ index =< j - 1
        BY <1>4, <1>3, <2>0, <2>6
      <3>2. CASE i < index
        <4>1. i \in 1..Len(pq) /\ r[i] = pq[i] /\ i < j - 1
          BY <1>3, <1>4, <2>0, <2>6, <3>2
        <4> QED BY <3>1, <4>1 DEF Sorted
      <3>3. CASE i = index
        BY <1>4, <2>3, <3>1, <3>3
      <3>4. CASE i > index
        <4>1. i - 1 \in 1..Len(pq) /\ r[i] = pq[i-1] /\ i - 1 < j - 1
          BY <1>4, <1>3, <1>5, <2>0, <3>4
        <4> QED BY <3>1, <4>1 DEF Sorted
      <3> QED BY <2>0, <3>2, <3>3, <3>4
    <2> QED BY <2>0, <2>4, <2>5, <2>6
  <1>6. Sorted(r, prio)
    BY <1>5 DEF Sorted
  <1> QED BY <1>1, <1>4, <1>6 DEF r

LEMMA RemoveAtSorted ==
    ASSUME NEW pq \in Seq(Tasks), NEW i \in 1..Len(pq), NEW prio, Sorted(pq, prio)
    PROVE  Sorted(RemoveAt(pq, i), prio)
  <1> DEFINE r == RemoveAt(pq, i)
  <1>1. /\ Len(r) = Len(pq) - 1
        /\ \A j \in 1..(Len(pq) - 1) : r[j] = IF j < i THEN pq[j] ELSE pq[j+1]
    BY RemoveAtElements
  <1> HIDE DEF r
  <1>2. ASSUME NEW j \in 1..Len(r), NEW k \in 1..Len(r), j < k
        PROVE  prio[r[j]] =< prio[r[k]]
    <2>1. PICK j1 \in 1..Len(pq), k1 \in 1..Len(pq) : r[j] = pq[j1] /\ r[k] = pq[k1] /\ j1 < k1
      <3>1. CASE k < i
        BY <1>1, <1>2, <3>1, SMTT(30)
      <3>2. CASE j < i /\ ~(k < i)
        <4>1. k + 1 \in 1..Len(pq) /\ r[k] = pq[k+1] /\ r[j] = pq[j] /\ j < k + 1 /\ j \in 1..Len(pq)
          BY <1>1, <1>2, <3>2
        <4> QED BY <4>1
      <3>3. CASE ~(j < i)
        <4>1. /\ k + 1 \in 1..Len(pq) /\ r[k] = pq[k+1] /\ j + 1 < k + 1
              /\ j + 1 \in 1..Len(pq) /\ r[j] = pq[j+1]
          BY <1>1, <1>2, <3>3
        <4> QED BY <4>1
      <3> QED BY <1>2, <3>1, <3>2, <3>3
    <2> QED BY <2>1 DEF Sorted
  <1>3. Sorted(r, prio)
    BY <1>2 DEF Sorted
  <1> QED BY <1>3 DEF r

\* Splicing out the entry found takes just that task out of a queue.
LEMMA SpliceFoundFiles ==
    ASSUME NEW s \in Seq(Tasks), NEW e, NoRepeats(s), e \in ToSet(s)
    PROVE  LET r == RemoveAt(s, FindIndex(s, e))
           IN  /\ r \in Seq(Tasks) /\ ToSet(r) = ToSet(s) \ {e} /\ NoRepeats(r)
               /\ \A prio : Sorted(s, prio) => Sorted(r, prio)
  <1> DEFINE I == {i \in 1..Len(s) : s[i] = e}
  <1>1. I \in SUBSET Nat /\ I # {}
    BY DEF ToSet
  <1>2. FindIndex(s, e) = Min(I)
    BY DEF FindIndex
  <1>3. Min(I) \in I
    <2> HIDE DEF I
    <2> QED BY <1>1, MinIn
  <1>4. PICK i \in 1..Len(s) : s[i] = e /\ FindIndex(s, e) = i
    BY <1>2, <1>3
  <1> QED BY <1>4, RemoveAtSeq, RemoveAtSet, RemoveAtSorted

\* Two queues that repeat nothing, the first in the order of priorities.
Tidy(x, prio) ==
    /\ x.priority \in Seq(Tasks) /\ NoRepeats(x.priority) /\ Sorted(x.priority, prio)
    /\ x.waiting \in Seq(Tasks) /\ NoRepeats(x.waiting)

\* y is x with t filed in the priority queue if it may move, else in the other.
Files(y, x, t, moves) ==
    /\ y \in [priority : Seq(Tasks), waiting : Seq(Tasks)]
    /\ moves => ToSet(y.priority) = ToSet(x.priority) \cup {t} /\ ToSet(y.waiting) = ToSet(x.waiting)
    /\ ~moves => ToSet(y.priority) = ToSet(x.priority) /\ ToSet(y.waiting) = ToSet(x.waiting) \cup {t}

LEMMA LookAtFiles ==
    ASSUME NEW x \in [priority : Seq(Tasks), waiting : Seq(Tasks)], NEW prio \in Priority,
           Tidy(x, prio), NEW found, NEW st,
           NEW t \in Tasks, t \notin ToSet(x.priority), t \notin ToSet(x.waiting)
    PROVE  LET y == LookAt(t, x, found, st, prio)
           IN  Tidy(y, prio) /\ Files(y, x, t, CanExecuteNow(t, found, st))
  <1>1. CASE CanExecuteNow(t, found, st)
    <2>1. PICK r : r = AddToPriorityQueue(x.priority, t, prio)
      OBVIOUS
    <2>2. r \in Seq(Tasks) /\ ToSet(r) = ToSet(x.priority) \cup {t} /\ NoRepeats(r) /\ Sorted(r, prio)
      BY <2>1, AddToPriorityQueueFiles DEF Tidy
    <2>3. LookAt(t, x, found, st, prio) = [x EXCEPT !.priority = r]
      BY <1>1, <2>1 DEF LookAt
    <2> QED BY <1>1, <2>2, <2>3 DEF Tidy, Files
  <1>2. CASE ~CanExecuteNow(t, found, st)
    <2>1. PICK r : r = <<t>> \o x.waiting
      OBVIOUS
    <2>2. r \in Seq(Tasks) /\ ToSet(r) = ToSet(x.waiting) \cup {t} /\ NoRepeats(r)
      BY <2>1, PrependSet DEF Tidy
    <2>3. LookAt(t, x, found, st, prio) = [x EXCEPT !.waiting = r]
      BY <1>2, <2>1 DEF LookAt
    <2> QED BY <1>2, <2>2, <2>3 DEF Tidy, Files
  <1> QED BY <1>1, <1>2

\* A promotion moves exactly the waiting tasks that can execute.
LEMMA PromotionFiles ==
    ASSUME NEW q \in QueuesOver(Tasks), NEW prio \in Priority, Tidy(q, prio),
           ToSet(q.priority) \cap ToSet(q.waiting) = {}, NEW run, NEW st,
           NEW M, M = {t \in ToSet(q.waiting) : CanExecuteNow(t, FoundTasks(q, run), st)}
    PROVE  LET r == PromoteWaitingTasks(q, run, st, prio)
           IN  /\ r \in QueuesOver(Tasks) /\ Tidy(r, prio)
               /\ ToSet(r.priority) = ToSet(q.priority) \cup M
               /\ ToSet(r.waiting) = ToSet(q.waiting) \ M
               /\ r.execution = q.execution /\ r.completed = q.completed /\ r.failed = q.failed
  <1>1. PICK size \in Nat : size = Len(q.waiting)
    BY DEF QueuesOver
  <1>2. \A n \in 1..size : /\ size - n + 1 \in 1..size
                           /\ q.waiting[size - n + 1] \in Tasks
                           /\ q.waiting[size - n + 1] \in ToSet(q.waiting)
    BY <1>1, SMTT(30) DEF QueuesOver, ToSet
  <1>3. PICK X : X = [priority : Seq(Tasks), waiting : Seq(Tasks)]
    OBVIOUS
  <1>4. PICK scan : scan = PromotionScan(q, size, run, st, prio)
    OBVIOUS
  <1>5. /\ scan \in [0..size -> X]
        /\ scan[0] = [priority |-> q.priority, waiting |-> <<>>]
        /\ \A n \in 1..size :
             scan[n] = LookAt(q.waiting[size - n + 1], scan[n-1], FoundTasks(q, run), st, prio)
    <2>1. scan \in [0..size -> X] /\ Scans(scan, q, size, FoundTasks(q, run), st, prio)
      BY <1>2, <1>3, <1>4, PromotionScanType
    <2> QED BY <2>1 DEF Scans
  <1> DEFINE Seen(n) == {q.waiting[k] : k \in (size - n + 1)..size}
             Moved(n) == /\ Tidy(scan[n], prio)
                         /\ ToSet(scan[n].priority) = ToSet(q.priority) \cup (Seen(n) \cap M)
                         /\ ToSet(scan[n].waiting) = Seen(n) \ M
             D == {n \in 0..size : Moved(n)}
  <1>6. 0 \in D
    <2>1. Seen(0) = {}
      OBVIOUS
    <2>2. <<>> \in Seq(Tasks) /\ NoRepeats(<<>>) /\ ToSet(<<>>) = {}
      BY DEF NoRepeats, ToSet
    <2>3. scan[0].priority = q.priority /\ scan[0].waiting = <<>>
      BY <1>5
    <2>4. Tidy(scan[0], prio)
      BY <2>2, <2>3 DEF Tidy
    <2>5. Moved(0)
      <3> HIDE DEF Seen
      <3> QED BY <2>1, <2>2, <2>3, <2>4
    <2> QED BY <2>5
  <1>7. ASSUME NEW n \in 1..size, n - 1 \in D
        PROVE  n \in D
    <2>1. PICK t \in Tasks : t = q.waiting[size - n + 1]
      BY <1>2
    <2>2. Seen(n) = Seen(n-1) \cup {t}
      <3>1. (size - n + 1)..size = ((size - (n-1) + 1)..size) \cup {size - n + 1}
        OBVIOUS
      <3> QED BY <2>1, <3>1
    <2>3. t \notin Seen(n-1)
      <3> SUFFICES ASSUME NEW k \in (size - (n-1) + 1)..size, q.waiting[k] = t
                   PROVE  FALSE
        OBVIOUS
      <3>1. k \in 1..size /\ size - n + 1 \in 1..size /\ k # size - n + 1
        OBVIOUS
      <3> QED BY <1>1, <2>1, <3>1 DEF Tidy, NoRepeats
    <2>4. t \in ToSet(q.waiting) /\ t \notin ToSet(q.priority)
      BY <1>2, <2>1
    <2>5. Moved(n-1)
      BY <1>7
    <2> HIDE DEF Seen
    <2>6. scan[n-1] \in X /\ t \notin ToSet(scan[n-1].priority) /\ t \notin ToSet(scan[n-1].waiting)
      <3>1. n - 1 \in 0..size
        OBVIOUS
      <3> QED BY <1>5, <2>3, <2>4, <2>5, <3>1
    <2>7. PICK y : y = LookAt(t, scan[n-1], FoundTasks(q, run), st, prio)
      OBVIOUS
    <2>8. scan[n] = y
      BY <1>5, <2>1, <2>7
    <2>9. /\ Tidy(y, prio)
          /\ t \in M => /\ ToSet(y.priority) = ToSet(scan[n-1].priority) \cup {t}
                        /\ ToSet(y.waiting) = ToSet(scan[n-1].waiting)
          /\ t \notin M => /\ ToSet(y.priority) = ToSet(scan[n-1].priority)
                           /\ ToSet(y.waiting) = ToSet(scan[n-1].waiting) \cup {t}
      <3>1. t \in M <=> CanExecuteNow(t, FoundTasks(q, run), st)
        BY <2>4
      <3>2. PICK x \in [priority : Seq(Tasks), waiting : Seq(Tasks)] : x = scan[n-1]
        BY <1>3, <2>6
      <3>3. Tidy(x, prio) /\ t \notin ToSet(x.priority) /\ t \notin ToSet(x.waiting)
        BY <2>5, <2>6, <3>2
      <3>4. Tidy(y, prio) /\ Files(y, x, t, CanExecuteNow(t, FoundTasks(q, run), st))
        BY <2>7, <3>2, <3>3, LookAtFiles
      <3> QED BY <3>1, <3>2, <3>4 DEF Files
    <2>10. Moved(n)
      <3>1. CASE t \in M
        BY <2>2, <2>3, <2>5, <2>8, <2>9, <3>1
      <3>2. CASE t \notin M
        BY <2>2, <2>3, <2>5, <2>8, <2>9, <3>2
      <3> QED BY <3>1, <3>2
    <2> QED BY <2>10
  <1>8. Moved(size)
    <2>1. \A n \in 0..size : n \in D
      <3> HIDE DEF D
      <3> QED BY <1>6, <1>7, BoundedInduction
    <2>2. size \in D
      BY <2>1
    <2> QED BY <2>2
  <1>9. Seen(size) = ToSet(q.waiting)
    BY <1>1 DEF ToSet
  <1>10. PICK z : z = scan[size]
    OBVIOUS
  <1>11. /\ z \in X /\ Tidy(z, prio)
         /\ ToSet(z.priority) = ToSet(q.priority) \cup M
         /\ ToSet(z.waiting) = ToSet(q.waiting) \ M
    <2>1. M \subseteq ToSet(q.waiting)
      OBVIOUS
    <2> HIDE DEF Seen
    <2> QED BY <1>5, <1>8, <1>9, <1>10, <2>1
  <1>12. PromoteWaitingTasks(q, run, st, prio) =
            [q EXCEPT !.priority = z.priority, !.waiting = z.waiting]
    BY <1>1, <1>4, <1>10 DEF PromoteWaitingTasks
  <1> QED BY <1>3, <1>11, <1>12 DEF QueuesOver, Tidy

LEMMA AddCount ==
    ASSUME NEW count \in [Tasks -> Nat], NEW t \in Tasks
    PROVE  /\ Add(count, t) \in [Tasks -> Nat] /\ Add(count, t)[t] = count[t] + 1
           /\ \A u \in Tasks \ {t} : Add(count, t)[u] = count[u]
  BY DEF Add

\* The entries that may be left in the queues nothing starts work from.
Leftover(execution, completed, failed, s) ==
    \/ s \in {"PENDING", "READY", "WAITING"} /\ execution = 0 /\ completed = 0 /\ failed = 0
    \/ s = "RUNNING" /\ execution \in {0, 1} /\ completed = 0 /\ failed = 0
    \/ s = "SUCCESS" /\ execution = 0 /\ completed = 1 /\ failed = 0
    \/ s = "FAILED" /\ execution = 0 /\ completed = 0 /\ failed = 1
    \/ s = "CANCELLED" /\ completed = 0 /\ failed \in {1, 2} /\ execution \in {0, 1}
                       /\ execution + failed =< 2

\* The queues and the running map file the task t as its state s says.
FiledAs(q, run, t, s) ==
    /\ t \in ToSet(q.priority) <=> s = "READY"
    /\ t \in ToSet(q.waiting) <=> s = "WAITING"
    /\ t \in run <=> s = "RUNNING"
    /\ Leftover(q.execution[t], q.completed[t], q.failed[t], s)

\* Every task but those of Out is filed as the states st say.
FiledBut(Out, q, run, st) == \A u \in Tasks \ Out : FiledAs(q, run, u, st[u])

Shape(q, prio) == q \in QueuesOver(Tasks) /\ Tidy(q, prio)

\* What waits is blocked by a dependency that is not completed.
Awake(q, st) == \A w \in ToSet(q.waiting) : \E d \in BlockDeps[w] : st[d] # "SUCCESS"

States == [Tasks -> TaskState]

LEMMA FoundUnlessPending ==
    ASSUME NEW q \in QueuesOver(Tasks), NEW run, NEW t \in Tasks, NEW s \in TaskState,
           FiledAs(q, run, t, s)
    PROVE  t \in FoundTasks(q, run) <=> s # "PENDING"
  <1>1. t \in FoundTasks(q, run) <=>
            \/ t \in ToSet(q.priority) \/ t \in ToSet(q.waiting) \/ t \in run
            \/ q.execution[t] + q.completed[t] + q.failed[t] > 0
    BY DEF FoundTasks
  <1>2. q.execution[t] \in Nat /\ q.completed[t] \in Nat /\ q.failed[t] \in Nat
    BY DEF QueuesOver
  <1>3. CASE s \in {"READY", "WAITING", "RUNNING"}
    BY <1>1, <1>3 DEF FiledAs
  <1>4. CASE s \in {"PENDING", "SUCCESS", "FAILED", "CANCELLED"}
    <2> DEFINE e == q.execution[t]
               c == q.completed[t]
               f == q.failed[t]
    <2>1. e \in Nat /\ c \in Nat /\ f \in Nat /\ Leftover(e, c, f, s)
      BY <1>2 DEF FiledAs
    <2> HIDE DEF e, c, f
    <2>2. e + c + f > 0 <=> s # "PENDING"
      BY <1>4, <2>1 DEF Leftover
    <2> QED BY <1>1, <1>4, <2>2 DEF FiledAs, e, c, f
  <1> QED BY <1>3, <1>4 DEF TaskState

\* canExecuteNow asks for the success of every dependency; t itself is in no
\* queue yet, so a task that depends on itself is blocked.
LEMMA CanExecuteFiled ==
    ASSUME NEW q \in QueuesOver(Tasks), NEW run, NEW st \in States, NEW t \in Tasks, NEW Out,
           FiledBut(Out, q, run, st), NEW w \in Tasks, \A o \in Out : o \notin FoundTasks(q, run)
    PROVE  CanExecuteNow(w, FoundTasks(q, run), st) <=>
             \A d \in BlockDeps[w] : d \notin Out /\ st[d] = "SUCCESS"
  <1>1. \A d \in BlockDeps[w] : d \in Tasks
    BY SchedulerAssumption
  <1>2. ASSUME NEW d \in Tasks, st[d] = "SUCCESS", d \notin Out
        PROVE  d \in FoundTasks(q, run)
    <2>1. FiledAs(q, run, d, st[d]) /\ st[d] \in TaskState
      BY <1>2 DEF FiledBut, States
    <2> QED BY <1>2, <2>1, FoundUnlessPending
  <1> QED BY <1>1, <1>2 DEF CanExecuteNow

LEMMA NotFound ==
    ASSUME NEW q \in QueuesOver(Tasks), NEW run, NEW t \in Tasks, t \notin FoundTasks(q, run)
    PROVE  /\ t \notin ToSet(q.priority) /\ t \notin ToSet(q.waiting) /\ t \notin run
           /\ q.execution[t] = 0 /\ q.completed[t] = 0 /\ q.failed[t] = 0
  BY DEF FoundTasks, QueuesOver

\* schedule, once the duplicate check has passed, files the task as what it becomes.
LEMMA PlaceFiled ==
    ASSUME NEW prio \in Priority, NEW q, Shape(q, prio), NEW run, NEW st \in States,
           NEW t \in Tasks, t \notin FoundTasks(q, run), FiledBut({t}, q, run, st),
           Awake(q, st), Place(q, run, st, prio, t)
    PROVE  /\ Shape(queues', prio) /\ FiledBut({}, queues', run, state') /\ Awake(queues', state')
           /\ state' = [st EXCEPT ![t] =
                          IF \A d \in BlockDeps[t] : d # t /\ st[d] = "SUCCESS"
                          THEN "READY" ELSE "WAITING"]
  <1>1. CanExecuteNow(t, FoundTasks(q, run), st) <=>
          \A d \in BlockDeps[t] : d # t /\ st[d] = "SUCCESS"
    <2>1. PICK Out : Out = {t}
      OBVIOUS
    <2>2. FiledBut(Out, q, run, st) /\ \A o \in Out : o \notin FoundTasks(q, run)
      BY <2>1
    <2>3. CanExecuteNow(t, FoundTasks(q, run), st) <=>
            \A d \in BlockDeps[t] : d \notin Out /\ st[d] = "SUCCESS"
      BY <2>2, CanExecuteFiled DEF Shape
    <2> QED BY <2>1, <2>3
  <1>2. /\ t \notin ToSet(q.priority) /\ t \notin ToSet(q.waiting) /\ t \notin run
        /\ q.execution[t] = 0 /\ q.completed[t] = 0 /\ q.failed[t] = 0
    BY NotFound DEF Shape
  <1>3. CASE CanExecuteNow(t, FoundTasks(q, run), st)
    <2>1. PICK pq : pq = AddToPriorityQueue(q.priority, t, prio)
      OBVIOUS
    <2>2. pq \in Seq(Tasks) /\ ToSet(pq) = ToSet(q.priority) \cup {t} /\ NoRepeats(pq) /\ Sorted(pq, prio)
      BY <1>2, <2>1, AddToPriorityQueueFiles DEF Shape, Tidy
    <2>3. queues' = [q EXCEPT !.priority = pq] /\ state' = [st EXCEPT ![t] = "READY"]
      BY <1>3, <2>1 DEF Place
    <2>4. /\ queues' \in QueuesOver(Tasks) /\ queues'.priority = pq /\ queues'.waiting = q.waiting
          /\ queues'.execution = q.execution /\ queues'.completed = q.completed
          /\ queues'.failed = q.failed
      BY <2>2, <2>3 DEF Shape, QueuesOver
    <2>5. Shape(queues', prio)
      BY <2>2, <2>4 DEF Shape, Tidy
    <2>6. FiledAs(queues', run, t, "READY")
      BY <1>2, <2>2, <2>4 DEF FiledAs, Leftover
    <2>7. \A u \in Tasks \ {t} : FiledAs(queues', run, u, st[u])
      BY <2>2, <2>4 DEF FiledAs, FiledBut
    <2>8. FiledBut({}, queues', run, state')
      BY <2>3, <2>6, <2>7 DEF FiledBut, States
    <2>9. Awake(queues', state')
      BY <2>3, <2>4, SchedulerAssumption DEF Awake, States
    <2> QED BY <1>1, <1>3, <2>3, <2>5, <2>8, <2>9
  <1>4. CASE ~CanExecuteNow(t, FoundTasks(q, run), st)
    <2>1. PICK wq : wq = Append(q.waiting, t)
      OBVIOUS
    <2>2. wq \in Seq(Tasks) /\ ToSet(wq) = ToSet(q.waiting) \cup {t} /\ NoRepeats(wq)
      BY <1>2, <2>1, AppendSet DEF Shape, Tidy
    <2>3. queues' = [q EXCEPT !.waiting = wq] /\ state' = [st EXCEPT ![t] = "WAITING"]
      BY <1>4, <2>1 DEF Place
    <2>4. /\ queues' \in QueuesOver(Tasks) /\ queues'.priority = q.priority /\ queues'.waiting = wq
          /\ queues'.execution = q.execution /\ queues'.completed = q.completed
          /\ queues'.failed = q.failed
      BY <2>2, <2>3 DEF Shape, QueuesOver
    <2>5. Shape(queues', prio)
      BY <2>2, <2>4 DEF Shape, Tidy
    <2>6. FiledAs(queues', run, t, "WAITING")
      BY <1>2, <2>2, <2>4 DEF FiledAs, Leftover
    <2>7. \A u \in Tasks \ {t} : FiledAs(queues', run, u, st[u])
      BY <2>2, <2>4 DEF FiledAs, FiledBut
    <2>8. FiledBut({}, queues', run, state')
      BY <2>3, <2>6, <2>7 DEF FiledBut, States
    <2>9. ASSUME NEW w \in ToSet(queues'.waiting)
          PROVE  \E d \in BlockDeps[w] : state'[d] # "SUCCESS"
      <3>1. CASE w = t
        <4>1. PICK d \in BlockDeps[t] : d = t \/ st[d] # "SUCCESS"
          BY <1>1, <1>4
        <4>2. d \in Tasks
          BY SchedulerAssumption
        <4> QED BY <2>3, <3>1, <4>1, <4>2 DEF States
      <3>2. CASE w # t
        <4>1. PICK d \in BlockDeps[w] : st[d] # "SUCCESS"
          BY <2>2, <2>4, <3>2 DEF Awake
        <4>2. w \in Tasks
          BY <2>2, <2>4 DEF ToSet
        <4>3. d \in Tasks
          BY <4>2, SchedulerAssumption
        <4> QED BY <2>3, <4>1, <4>3 DEF States
      <3> QED BY <3>1, <3>2
    <2>10. Awake(queues', state')
      BY <2>9 DEF Awake
    <2> QED BY <1>1, <1>4, <2>3, <2>5, <2>8, <2>10
  <1> QED BY <1>3, <1>4

\* A promotion turns waiting tasks into ready ones, those whose dependencies have
\* all succeeded, and none is left behind.
LEMMA PromoteFiled ==
    ASSUME NEW prio \in Priority, NEW q, Shape(q, prio), NEW run, NEW st \in States,
           FiledBut({}, q, run, st), NEW r, r = PromoteWaitingTasks(q, run, st, prio)
    PROVE  /\ Shape(r, prio) /\ FiledBut({}, r, run, ReadyIn(r, st)) /\ Awake(r, ReadyIn(r, st))
           /\ ReadyIn(r, st) = [t \in Tasks |->
                 IF st[t] = "WAITING" /\ (\A d \in BlockDeps[t] : st[d] = "SUCCESS")
                 THEN "READY" ELSE st[t]]
  <1> DEFINE moves(t) == \A d \in BlockDeps[t] : st[d] = "SUCCESS"
  <1>1. \A t \in Tasks : CanExecuteNow(t, FoundTasks(q, run), st) <=> moves(t)
    <2>1. PICK Out : Out = {}
      OBVIOUS
    <2>2. FiledBut(Out, q, run, st) /\ \A o \in Out : o \notin FoundTasks(q, run)
      BY <2>1
    <2> SUFFICES ASSUME NEW t \in Tasks
                 PROVE  CanExecuteNow(t, FoundTasks(q, run), st) <=> moves(t)
      OBVIOUS
    <2>3. CanExecuteNow(t, FoundTasks(q, run), st) <=>
            \A d \in BlockDeps[t] : d \notin Out /\ st[d] = "SUCCESS"
      BY <2>2, CanExecuteFiled DEF Shape
    <2> QED BY <2>1, <2>3
  <1> HIDE DEF moves
  <1>2. PICK M : M = {t \in ToSet(q.waiting) : CanExecuteNow(t, FoundTasks(q, run), st)}
    OBVIOUS
  <1>3. \A t \in ToSet(q.waiting) : t \in Tasks
    BY DEF Shape, Tidy, ToSet
  <1>4. \A t \in Tasks : FiledAs(q, run, t, st[t])
    BY DEF FiledBut
  <1>5. \A t \in Tasks : t \in M <=> st[t] = "WAITING" /\ moves(t)
    BY <1>1, <1>2, <1>4 DEF FiledAs
  <1>6. /\ r \in QueuesOver(Tasks) /\ Tidy(r, prio)
        /\ ToSet(r.priority) = ToSet(q.priority) \cup M
        /\ ToSet(r.waiting) = ToSet(q.waiting) \ M
        /\ r.execution = q.execution /\ r.completed = q.completed /\ r.failed = q.failed
    <2>1. ToSet(q.priority) \cap ToSet(q.waiting) = {}
      BY <1>3, <1>4 DEF FiledAs
    <2> QED BY <1>2, <2>1, PromotionFiles DEF Shape
  <1>7. ReadyIn(r, st) = [t \in Tasks |-> IF st[t] = "WAITING" /\ moves(t) THEN "READY" ELSE st[t]]
    <2>1. \A t \in Tasks : Contains(r.priority, t) <=> t \in ToSet(r.priority)
      BY <1>6 DEF Contains, ToSet, Tidy
    <2>2. \A t \in Tasks : t \in ToSet(r.priority) <=> st[t] = "READY" \/ t \in M
      BY <1>4, <1>6 DEF FiledAs
    <2> QED BY <1>5, <2>1, <2>2 DEF ReadyIn
  <1>8. PICK ready \in [Tasks -> TaskState] : ready = ReadyIn(r, st)
    BY <1>7 DEF States, TaskState
  <1>9. \A t \in Tasks : ready[t] = IF t \in M THEN "READY" ELSE st[t]
    BY <1>5, <1>7, <1>8
  <1>10. ASSUME NEW t \in Tasks
         PROVE  FiledAs(r, run, t, ready[t])
    <2>1. CASE t \in M
      <3>1. st[t] = "WAITING" /\ ready[t] = "READY"
        BY <1>5, <1>9, <2>1
      <3> QED BY <1>4, <1>6, <2>1, <3>1 DEF FiledAs, Leftover
    <2>2. CASE t \notin M
      BY <1>4, <1>6, <1>9, <2>2 DEF FiledAs
    <2> QED BY <2>1, <2>2
  <1>11. ASSUME NEW w \in ToSet(r.waiting)
         PROVE  \E d \in BlockDeps[w] : ready[d] # "SUCCESS"
    <2>1. w \in Tasks /\ w \notin M /\ st[w] = "WAITING"
      BY <1>3, <1>4, <1>6 DEF FiledAs
    <2>2. PICK d \in BlockDeps[w] : st[d] # "SUCCESS"
      BY <1>5, <2>1 DEF moves
    <2>3. d \in Tasks
      BY <2>1, SchedulerAssumption
    <2> QED BY <1>9, <2>2, <2>3
  <1> QED BY <1>6, <1>7, <1>8, <1>10, <1>11 DEF Shape, FiledBut, Awake, moves

\* What is left of a task once one entry of it is removed: nothing, the running
\* task itself, or an entry of a task that was cancelled.
LeftOf(q, run, t, s) ==
    \/ t \notin FoundTasks(q, run) /\ s \notin {"PENDING", "RUNNING"}
    \/ s = "RUNNING" /\ FiledAs(q, run, t, s)
    \/ s = "CANCELLED" /\ FiledAs(q, run, t, s) /\ q.execution[t] = 0 /\ q.failed[t] = 1

LEMMA RemoveFiled ==
    ASSUME NEW prio, NEW q, Shape(q, prio), NEW run, NEW st \in States,
           FiledBut({}, q, run, st), NEW t \in Tasks, t \in FoundTasks(q, run),
           NEW r, r = RemoveTaskFromQueues(q, t)
    PROVE  /\ Shape(r, prio) /\ FiledBut({t}, r, run, st)
           /\ ToSet(r.waiting) \subseteq ToSet(q.waiting)
           /\ t \notin ToSet(r.priority) /\ t \notin ToSet(r.waiting)
           /\ LeftOf(r, run, t, st[t])
  <1>1. \A u \in Tasks : FiledAs(q, run, u, st[u])
    BY DEF FiledBut
  <1>2. st[t] \in TaskState /\ FiledAs(q, run, t, st[t])
    BY <1>1 DEF States
  <1>3. q \in QueuesOver(Tasks) /\ Tidy(q, prio)
    BY DEF Shape
  <1>4. st[t] # "PENDING"
    BY <1>2, <1>3, FoundUnlessPending
  <1>5. /\ Contains(q.priority, t) <=> t \in ToSet(q.priority)
        /\ Contains(q.waiting, t) <=> t \in ToSet(q.waiting)
    BY <1>3 DEF Contains, ToSet, Tidy
  <1>6. q.execution[t] \in Nat /\ q.completed[t] \in Nat /\ q.failed[t] \in Nat
    BY <1>3 DEF QueuesOver
  <1>7. CASE st[t] = "READY"
    <2>1. PICK pq : pq = RemoveAt(q.priority, FindIndex(q.priority, t))
      OBVIOUS
    <2>2. t \in ToSet(q.priority) /\ t \notin ToSet(q.waiting) /\ t \notin run
      BY <1>2, <1>7 DEF FiledAs
    <2>3. pq \in Seq(Tasks) /\ ToSet(pq) = ToSet(q.priority) \ {t} /\ NoRepeats(pq) /\ Sorted(pq, prio)
      BY <1>3, <2>1, <2>2, SpliceFoundFiles DEF Tidy
    <2>4. r = [q EXCEPT !.priority = pq]
      BY <1>5, <2>1, <2>2 DEF RemoveTaskFromQueues
    <2>5. /\ r \in QueuesOver(Tasks) /\ r.priority = pq /\ r.waiting = q.waiting
          /\ r.execution = q.execution /\ r.completed = q.completed /\ r.failed = q.failed
      BY <1>3, <2>3, <2>4 DEF QueuesOver
    <2>6. Shape(r, prio)
      BY <1>3, <2>3, <2>5 DEF Shape, Tidy
    <2>7. FiledBut({t}, r, run, st)
      BY <1>1, <2>3, <2>5 DEF FiledBut, FiledAs
    <2>8. t \notin FoundTasks(r, run)
      <3>1. q.execution[t] = 0 /\ q.completed[t] = 0 /\ q.failed[t] = 0
        BY <1>2, <1>7 DEF FiledAs, Leftover
      <3> QED BY <2>2, <2>3, <2>5, <3>1 DEF FoundTasks
    <2> QED BY <1>7, <2>2, <2>3, <2>5, <2>6, <2>7, <2>8 DEF LeftOf
  <1>8. CASE st[t] = "WAITING"
    <2>1. PICK wq : wq = RemoveAt(q.waiting, FindIndex(q.waiting, t))
      OBVIOUS
    <2>2. t \notin ToSet(q.priority) /\ t \in ToSet(q.waiting) /\ t \notin run
      BY <1>2, <1>8 DEF FiledAs
    <2>3. wq \in Seq(Tasks) /\ ToSet(wq) = ToSet(q.waiting) \ {t} /\ NoRepeats(wq)
      BY <1>3, <2>1, <2>2, SpliceFoundFiles DEF Tidy
    <2>4. q.execution[t] = 0 /\ q.completed[t] = 0 /\ q.failed[t] = 0
      BY <1>2, <1>8 DEF FiledAs, Leftover
    <2>5. r = [q EXCEPT !.waiting = wq]
      BY <1>5, <2>1, <2>2, <2>4 DEF RemoveTaskFromQueues
    <2>6. /\ r \in QueuesOver(Tasks) /\ r.priority = q.priority /\ r.waiting = wq
          /\ r.execution = q.execution /\ r.completed = q.completed /\ r.failed = q.failed
      BY <1>3, <2>3, <2>5 DEF QueuesOver
    <2>7. Shape(r, prio)
      BY <1>3, <2>3, <2>6 DEF Shape, Tidy
    <2>8. FiledBut({t}, r, run, st)
      BY <1>1, <2>3, <2>6 DEF FiledBut, FiledAs
    <2>9. t \notin FoundTasks(r, run)
      BY <2>2, <2>3, <2>4, <2>6 DEF FoundTasks
    <2> QED BY <1>8, <2>2, <2>3, <2>6, <2>7, <2>8, <2>9 DEF LeftOf
  <1>9. CASE st[t] \in {"RUNNING", "SUCCESS", "FAILED", "CANCELLED"}
    <2>1. t \notin ToSet(q.priority) /\ t \notin ToSet(q.waiting) /\ (t \in run <=> st[t] = "RUNNING")
      BY <1>2, <1>9 DEF FiledAs
    <2> DEFINE e == q.execution[t]
               c == q.completed[t]
               f == q.failed[t]
    <2>2. PICK e1 \in Nat, c1 \in Nat, f1 \in Nat :
             /\ r = [q EXCEPT !.execution = [@ EXCEPT ![t] = e1], !.completed = [@ EXCEPT ![t] = c1],
                              !.failed = [@ EXCEPT ![t] = f1]]
             /\ e1 = IF e > 0 THEN e - 1 ELSE e
             /\ c1 = IF ~(e > 0) /\ c > 0 THEN c - 1 ELSE c
             /\ f1 = IF ~(e > 0) /\ ~(c > 0) /\ f > 0 THEN f - 1 ELSE f
      <3>1. \A g \in [Tasks -> Nat] : g = [g EXCEPT ![t] = g[t]]
        OBVIOUS
      <3>2. q = [q EXCEPT !.execution = [@ EXCEPT ![t] = e], !.completed = [@ EXCEPT ![t] = c],
                          !.failed = [@ EXCEPT ![t] = f]]
        BY <1>3 DEF QueuesOver
      <3>3. CASE e > 0
        <4>1. r = [q EXCEPT !.execution = [@ EXCEPT ![t] = e - 1], !.completed = [@ EXCEPT ![t] = c],
                            !.failed = [@ EXCEPT ![t] = f]]
          BY <1>3, <1>5, <2>1, <3>3 DEF RemoveTaskFromQueues, Drop, QueuesOver
        <4>2. e - 1 \in Nat
          BY <1>6, <3>3
        <4> QED BY <1>6, <3>3, <4>1, <4>2
      <3>4. CASE ~(e > 0) /\ c > 0
        <4>1. r = [q EXCEPT !.execution = [@ EXCEPT ![t] = e], !.completed = [@ EXCEPT ![t] = c - 1],
                            !.failed = [@ EXCEPT ![t] = f]]
          BY <1>3, <1>5, <2>1, <3>4 DEF RemoveTaskFromQueues, Drop, QueuesOver
        <4>2. c - 1 \in Nat
          BY <1>6, <3>4
        <4> QED BY <1>6, <3>4, <4>1, <4>2
      <3>5. CASE ~(e > 0) /\ ~(c > 0) /\ f > 0
        <4>1. r = [q EXCEPT !.execution = [@ EXCEPT ![t] = e], !.completed = [@ EXCEPT ![t] = c],
                            !.failed = [@ EXCEPT ![t] = f - 1]]
          BY <1>3, <1>5, <2>1, <3>5 DEF RemoveTaskFromQueues, Drop, QueuesOver
        <4>2. f - 1 \in Nat
          BY <1>6, <3>5
        <4> QED BY <1>6, <3>5, <4>1, <4>2
      <3>6. CASE ~(e > 0) /\ ~(c > 0) /\ ~(f > 0)
        <4>1. r = q
          BY <1>5, <2>1, <3>6 DEF RemoveTaskFromQueues
        <4> QED BY <1>6, <3>2, <3>6, <4>1
      <3> QED BY <3>3, <3>4, <3>5, <3>6
    <2>3. /\ r \in QueuesOver(Tasks) /\ r.priority = q.priority /\ r.waiting = q.waiting
          /\ r.execution[t] = e1 /\ r.completed[t] = c1 /\ r.failed[t] = f1
      <3>1. PICK x \in [Tasks -> Nat], y \in [Tasks -> Nat], z \in [Tasks -> Nat] :
               /\ x = [q.execution EXCEPT ![t] = e1] /\ y = [q.completed EXCEPT ![t] = c1]
               /\ z = [q.failed EXCEPT ![t] = f1]
        BY <1>3 DEF QueuesOver
      <3>2. r = [q EXCEPT !.execution = x, !.completed = y, !.failed = z]
        BY <2>2, <3>1
      <3>3. /\ r \in QueuesOver(Tasks) /\ r.priority = q.priority /\ r.waiting = q.waiting
            /\ r.execution = x /\ r.completed = y /\ r.failed = z
        BY <1>3, <3>2 DEF QueuesOver
      <3>4. x[t] = e1 /\ y[t] = c1 /\ z[t] = f1
        BY <1>3, <3>1 DEF QueuesOver
      <3> QED BY <3>3, <3>4
    <2>4. \A u \in Tasks \ {t} : /\ r.execution[u] = q.execution[u] /\ r.completed[u] = q.completed[u]
                                 /\ r.failed[u] = q.failed[u]
      BY <1>3, <2>2 DEF QueuesOver
    <2>5. Shape(r, prio)
      BY <1>3, <2>3 DEF Shape, Tidy
    <2>6. FiledBut({t}, r, run, st)
      BY <1>1, <2>3, <2>4 DEF FiledBut, FiledAs
    <2>7. e \in Nat /\ c \in Nat /\ f \in Nat /\ Leftover(e, c, f, st[t])
      BY <1>2, <1>6 DEF FiledAs
    <2>8. t \in FoundTasks(r, run) <=> t \in run \/ e1 + c1 + f1 > 0
      BY <2>1, <2>3 DEF FoundTasks
    <2>9. LeftOf(r, run, t, st[t])
      <3> HIDE DEF e, c, f
      <3>1. CASE st[t] = "RUNNING"
        <4>1. Leftover(e1, c1, f1, st[t])
          BY <2>2, <2>7, <3>1 DEF Leftover
        <4> QED BY <2>1, <2>3, <3>1, <4>1 DEF LeftOf, FiledAs
      <3>2. CASE st[t] \in {"SUCCESS", "FAILED"}
        <4>1. e1 + c1 + f1 = 0
          BY <2>2, <2>7, <3>2 DEF Leftover
        <4> QED BY <2>1, <2>8, <3>2, <4>1 DEF LeftOf
      <3>3. CASE st[t] = "CANCELLED"
        <4>1. \/ e1 + c1 + f1 = 0
              \/ e1 = 0 /\ c1 = 0 /\ f1 = 1
          BY <2>2, <2>7, <3>3 DEF Leftover
        <4>2. CASE e1 + c1 + f1 = 0
          BY <2>1, <2>8, <3>3, <4>2 DEF LeftOf
        <4>3. CASE e1 = 0 /\ c1 = 0 /\ f1 = 1
          <5>1. Leftover(e1, c1, f1, st[t])
            BY <3>3, <4>3 DEF Leftover
          <5> QED BY <2>1, <2>3, <3>3, <4>3, <5>1 DEF LeftOf, FiledAs
        <4> QED BY <4>1, <4>2, <4>3
      <3> QED BY <1>9, <3>1, <3>2, <3>3
    <2> QED BY <2>1, <2>3, <2>5, <2>6, <2>9
  <1> QED BY <1>2, <1>4, <1>7, <1>8, <1>9 DEF TaskState
-----------------------------------------------------------------------------
(* Each operation keeps every task filed as its state says and nothing     *)
(* that could run asleep, and changes the states in one of five ways.      *)

Placed == Shape(queues, priority) /\ FiledBut({}, queues, running, state) /\ Awake(queues, state)

Entered(t) ==
    /\ state[t] # "RUNNING"
    /\ state' = [state EXCEPT ![t] =
                   IF \A d \in BlockDeps[t] : d # t /\ state[d] = "SUCCESS" THEN "READY" ELSE "WAITING"]

Started(t) ==
    /\ state[t] = "READY"
    /\ state' = [state EXCEPT ![t] = "RUNNING"]
    /\ HasCapacity

Failed(t) ==
    /\ state[t] = "RUNNING"
    /\ state' = [state EXCEPT ![t] = "FAILED"]

Succeeded(t) ==
    LET st == [state EXCEPT ![t] = "SUCCESS"]
    IN  /\ state[t] = "RUNNING"
        /\ state' = [u \in Tasks |->
                       IF st[u] = "WAITING" /\ (\A d \in BlockDeps[u] : st[d] = "SUCCESS")
                       THEN "READY" ELSE st[u]]

Withdrawn(t) ==
    /\ state[t] # "PENDING"
    /\ state' = [state EXCEPT ![t] = "CANCELLED"]

StateStep ==
    \/ UNCHANGED state
    \/ \E t \in Tasks : Entered(t) \/ Started(t) \/ Failed(t) \/ Succeeded(t) \/ Withdrawn(t)

LEMMA FiledTypes ==
    ASSUME IInv, Placed
    PROVE  /\ queues \in QueuesOver(Tasks) /\ state \in States /\ priority \in Priority
           /\ \A t \in Tasks : state[t] \in TaskState /\ FiledAs(queues, running, t, state[t])
  BY DEF IInv, Placed, FieldTypes, States, Priority, Shape, FiledBut

\* The body of schedule, for the task t that is in no queue.
LEMMA PlaceStep ==
    ASSUME NEW q, NEW t \in Tasks, NEW prio \in Priority,
           state \in States, Shape(q, prio), FiledBut({t}, q, running, state), Awake(q, state),
           t \notin FoundTasks(q, running), state[t] # "RUNNING",
           Place(q, running, state, prio, t), UNCHANGED running, priority' = prio
    PROVE  Placed' /\ Entered(t)
  <1>1. /\ Shape(queues', prio) /\ FiledBut({}, queues', running, state') /\ Awake(queues', state')
        /\ state' = [state EXCEPT ![t] =
              IF \A d \in BlockDeps[t] : d # t /\ state[d] = "SUCCESS" THEN "READY" ELSE "WAITING"]
    BY PlaceFiled
  <1>2. Shape(queues, priority)'
    BY <1>1 DEF Shape, QueuesOver, Tidy
  <1>3. FiledBut({}, queues, running, state)'
    BY <1>1 DEF FiledBut, FiledAs
  <1>4. Awake(queues, state)'
    BY <1>1 DEF Awake
  <1> QED BY <1>1, <1>2, <1>3, <1>4 DEF Placed, Entered

LEMMA ScheduleStep ==
    ASSUME IInv, Placed, NEW t \in Tasks, t \notin FoundTasks(queues, running),
           Place(queues, running, state, priority, t), UNCHANGED <<running, priority>>
    PROVE  Placed' /\ Entered(t)
  <1>1. FiledBut({t}, queues, running, state)
    BY DEF Placed, FiledBut
  <1>2. state[t] # "RUNNING"
    <2>1. t \notin running
      BY DEF FoundTasks
    <2> QED BY <2>1, FiledTypes DEF FiledAs
  <1> QED BY <1>1, <1>2, FiledTypes, PlaceStep DEF Placed

LEMMA DequeueStep ==
    ASSUME IInv, Placed, Dequeue
    PROVE  /\ Placed'
           /\ \/ UNCHANGED <<state, running>>
              \/ \E t \in Tasks :
                   /\ Started(t) /\ running' = running \cup {t}
                   /\ strategy \in {"PRIORITY", "DEPENDENCY"} =>
                        \A u \in Tasks : state[u] = "READY" => priority[t] =< priority[u]
  <1>1. PICK q : q = PromoteWaitingTasks(queues, running, state, priority)
    OBVIOUS
  <1>2. /\ Shape(q, priority) /\ FiledBut({}, q, running, ReadyIn(q, state))
        /\ Awake(q, ReadyIn(q, state))
        /\ ReadyIn(q, state) = [t \in Tasks |->
              IF state[t] = "WAITING" /\ (\A d \in BlockDeps[t] : state[d] = "SUCCESS")
              THEN "READY" ELSE state[t]]
    BY <1>1, FiledTypes, PromoteFiled DEF Placed
  <1>3. ReadyIn(q, state) = state
    <2>1. \A t \in Tasks : state[t] = "WAITING" => \E d \in BlockDeps[t] : state[d] # "SUCCESS"
      BY FiledTypes DEF Placed, Awake, FiledAs
    <2> QED BY <1>2, <2>1, FiledTypes DEF States
  <1>4. q \in QueuesOver(Tasks) /\ Tidy(q, priority) /\ UNCHANGED <<priority, strategy>>
    BY <1>2 DEF Shape, Dequeue
  <1>5. \A t \in Tasks : FiledAs(q, running, t, state[t])
    BY <1>2, <1>3 DEF FiledBut
  <1>6. CASE q.priority = <<>>
    <2>1. queues' = q /\ state' = state /\ UNCHANGED running
      BY <1>1, <1>3, <1>6 DEF Dequeue
    <2>2. Placed'
      BY <1>2, <1>3, <1>4, <2>1, ZenonT(60) DEF Placed, Shape, QueuesOver, FiledBut, FiledAs, Awake
    <2> QED BY <2>1, <2>2
  <1>7. CASE q.priority # <<>>
    <2>1. PICK pq \in Seq(Tasks) : pq = q.priority
      BY <1>4 DEF Tidy
    <2>2. PICK i : i = NextIndex(pq, running)
      OBVIOUS
    <2>3. i \in 1..Len(pq)
      BY <1>7, <2>1, <2>2, NextIndexInQueue DEF IInv, RunningOK
    <2>4. PICK t \in Tasks : t = pq[i]
      BY <2>3
    <2>5. PICK rest : rest = RemoveAt(pq, i)
      OBVIOUS
    <2>6. PICK ex : ex = Add(q.execution, t)
      OBVIOUS
    <2>7. /\ queues' = [q EXCEPT !.priority = rest, !.execution = ex]
          /\ state' = [state EXCEPT ![t] = "RUNNING"]
          /\ running' = running \cup {t}
          /\ HasCapacity
      BY <1>1, <1>3, <1>7, <2>1, <2>2, <2>4, <2>5, <2>6 DEF Dequeue
    <2>8. /\ rest \in Seq(Tasks) /\ ToSet(rest) = ToSet(pq) \ {t} /\ NoRepeats(rest)
          /\ Sorted(rest, priority)
      BY <1>4, <2>1, <2>3, <2>4, <2>5, RemoveAtSeq, RemoveAtSet, RemoveAtSorted DEF Tidy
    <2>9. t \in ToSet(q.priority)
      BY <2>1, <2>3, <2>4 DEF ToSet
    <2>10. state[t] = "READY" /\ q.execution[t] = 0 /\ q.completed[t] = 0 /\ q.failed[t] = 0
      BY <1>5, <2>9 DEF FiledAs, Leftover
    <2>11. ex \in [Tasks -> Nat] /\ ex[t] = 1 /\ \A u \in Tasks \ {t} : ex[u] = q.execution[u]
      BY <1>4, <2>6, <2>10 DEF Add, QueuesOver
    <2>12. /\ queues' \in QueuesOver(Tasks) /\ queues'.priority = rest /\ queues'.waiting = q.waiting
           /\ queues'.execution = ex /\ queues'.completed = q.completed /\ queues'.failed = q.failed
      BY <1>4, <2>7, <2>8, <2>11 DEF QueuesOver
    <2>13. Shape(queues, priority)'
      BY <1>4, <2>8, <2>12 DEF Shape, Tidy, QueuesOver
    <2>14. FiledAs(queues', running', t, "RUNNING")
      BY <1>5, <2>7, <2>8, <2>10, <2>11, <2>12 DEF FiledAs, Leftover
    <2>15. \A u \in Tasks \ {t} : FiledAs(queues', running', u, state[u])
      BY <1>5, <2>1, <2>7, <2>8, <2>11, <2>12 DEF FiledAs
    <2>16. FiledBut({}, queues, running, state)'
      <3>1. \A u \in Tasks : FiledAs(queues', running', u, state'[u])
        BY <2>7, <2>14, <2>15, FiledTypes DEF States
      <3> QED BY <3>1 DEF FiledBut, FiledAs
    <2>17. Awake(queues, state)'
      <3>1. ASSUME NEW w \in ToSet(q.waiting)
            PROVE  \E d \in BlockDeps[w] : state'[d] # "SUCCESS"
        <4>1. PICK d \in BlockDeps[w] : state[d] # "SUCCESS"
          BY <1>2, <1>3 DEF Awake
        <4>2. d \in Tasks
          <5>1. w \in Tasks
            BY <1>4 DEF Tidy, ToSet
          <5> QED BY <5>1, SchedulerAssumption
        <4> QED BY <2>7, <4>1, <4>2, FiledTypes DEF States
      <3> QED BY <2>12, <3>1 DEF Awake
    <2>18. Started(t)
      BY <2>7, <2>10 DEF Started
    <2>19. ASSUME strategy \in {"PRIORITY", "DEPENDENCY"}, NEW u \in Tasks, state[u] = "READY"
           PROVE  priority[t] =< priority[u]
      <3>1. i = 1
        BY <2>2, <2>19 DEF NextIndex
      <3>2. PICK j \in 1..Len(pq) : pq[j] = u
        BY <1>5, <2>1, <2>19 DEF FiledAs, ToSet
      <3>3. priority[pq[1]] =< priority[pq[j]]
        <4>1. CASE j = 1
          <5>1. priority[u] \in 0..3
            BY FiledTypes DEF Priority
          <5> QED BY <3>2, <4>1, <5>1
        <4>2. CASE j # 1
          BY <1>4, <2>1, <2>3, <3>1, <4>2 DEF Tidy, Sorted
        <4> QED BY <4>1, <4>2
      <3> QED BY <2>4, <3>1, <3>2, <3>3
    <2> QED BY <2>7, <2>13, <2>16, <2>17, <2>18, <2>19 DEF Placed
  <1> QED BY <1>6, <1>7

LEMMA CancelStep ==
    ASSUME IInv, Placed, NEW t \in Tasks, Cancel(t)
    PROVE  Placed' /\ Withdrawn(t)
  <1>1. /\ t \in FoundTasks(queues, running) /\ running' = running \ {t}
        /\ state' = [state EXCEPT ![t] = "CANCELLED"] /\ UNCHANGED priority
    BY DEF Cancel
  <1>2. state[t] # "PENDING"
    BY <1>1, FiledTypes, FoundUnlessPending
  <1>3. PICK q : /\ q = IF t \in running THEN queues ELSE RemoveTaskFromQueues(queues, t)
                 /\ queues' = [q EXCEPT !.failed = Add(q.failed, t)]
    BY DEF Cancel
  <1>4. /\ Shape(q, priority) /\ FiledBut({t}, q, running, state) /\ Awake(q, state)
        /\ t \notin ToSet(q.priority) /\ t \notin ToSet(q.waiting)
        /\ q.completed[t] = 0 /\ q.failed[t] \in {0, 1} /\ q.execution[t] \in {0, 1}
        /\ q.execution[t] + q.failed[t] =< 1
    <2>1. CASE t \in running
      <3>1. q = queues /\ FiledAs(queues, running, t, "RUNNING")
        <4>1. FiledAs(queues, running, t, state[t])
          BY FiledTypes
        <4>2. state[t] = "RUNNING"
          BY <2>1, <4>1 DEF FiledAs
        <4> QED BY <1>3, <2>1, <4>1, <4>2
      <3>2. /\ t \notin ToSet(q.priority) /\ t \notin ToSet(q.waiting)
            /\ q.completed[t] = 0 /\ q.failed[t] = 0 /\ q.execution[t] \in {0, 1}
        BY <3>1 DEF FiledAs, Leftover
      <3> QED BY <3>1, <3>2 DEF Placed, FiledBut
    <2>2. CASE t \notin running
      <3>1. q = RemoveTaskFromQueues(queues, t)
        BY <1>3, <2>2
      <3>2. /\ Shape(q, priority) /\ FiledBut({t}, q, running, state)
            /\ ToSet(q.waiting) \subseteq ToSet(queues.waiting)
            /\ t \notin ToSet(q.priority) /\ t \notin ToSet(q.waiting)
            /\ LeftOf(q, running, t, state[t])
        BY <1>1, <3>1, FiledTypes, RemoveFiled DEF Placed
      <3>3. state[t] # "RUNNING"
        BY <2>2, FiledTypes DEF FiledAs
      <3>4. q \in QueuesOver(Tasks)
        BY <3>2 DEF Shape
      <3>5. q.completed[t] = 0 /\ q.failed[t] \in {0, 1} /\ q.execution[t] = 0
        <4>1. CASE t \notin FoundTasks(q, running)
          BY <3>4, <4>1, NotFound
        <4>2. CASE /\ state[t] = "CANCELLED" /\ FiledAs(q, running, t, state[t])
                   /\ q.execution[t] = 0 /\ q.failed[t] = 1
          BY <4>2 DEF FiledAs, Leftover
        <4> QED BY <3>2, <3>3, <4>1, <4>2 DEF LeftOf
      <3>6. Awake(q, state)
        BY <3>2 DEF Awake, Placed
      <3> QED BY <3>2, <3>5, <3>6
    <2> QED BY <2>1, <2>2
  <1>5. q \in QueuesOver(Tasks) /\ Tidy(q, priority)
    BY <1>4 DEF Shape
  <1>6. PICK fl \in [Tasks -> Nat] : /\ fl = Add(q.failed, t) /\ fl[t] = q.failed[t] + 1
                                     /\ \A u \in Tasks \ {t} : fl[u] = q.failed[u]
    <2>1. q.failed \in [Tasks -> Nat]
      BY <1>5 DEF QueuesOver
    <2> QED BY <2>1, AddCount
  <1>7. /\ queues' \in QueuesOver(Tasks) /\ queues'.priority = q.priority /\ queues'.waiting = q.waiting
        /\ queues'.execution = q.execution /\ queues'.completed = q.completed /\ queues'.failed = fl
    BY <1>3, <1>5, <1>6 DEF QueuesOver
  <1>8. Shape(queues, priority)'
    BY <1>1, <1>5, <1>7 DEF Shape, Tidy, QueuesOver
  <1>9. FiledBut({}, queues, running, state)'
    <2>1. FiledAs(queues', running', t, "CANCELLED")
      <3>1. Leftover(q.execution[t], q.completed[t], fl[t], "CANCELLED")
        BY <1>4, <1>6 DEF Leftover
      <3> QED BY <1>1, <1>4, <1>7, <3>1 DEF FiledAs
    <2>2. \A u \in Tasks \ {t} : FiledAs(queues', running', u, state[u])
      BY <1>1, <1>4, <1>6, <1>7 DEF FiledAs, FiledBut
    <2>3. \A u \in Tasks : FiledAs(queues', running', u, state'[u])
      BY <1>1, <2>1, <2>2, FiledTypes DEF States
    <2> QED BY <2>3 DEF FiledBut, FiledAs
  <1>10. Awake(queues, state)'
    <2>1. ASSUME NEW w \in ToSet(q.waiting)
          PROVE  \E d \in BlockDeps[w] : state'[d] # "SUCCESS"
      <3>1. PICK d \in BlockDeps[w] : state[d] # "SUCCESS"
        BY <1>4 DEF Awake
      <3>2. d \in Tasks
        <4>1. w \in Tasks
          BY <1>5 DEF Tidy, ToSet
        <4> QED BY <4>1, SchedulerAssumption
      <3> QED BY <1>1, <3>1, <3>2, FiledTypes DEF States
    <2> QED BY <1>7, <2>1 DEF Awake
  <1> QED BY <1>1, <1>2, <1>8, <1>9, <1>10 DEF Placed, Withdrawn

LEMMA RescheduleStep ==
    ASSUME IInv, Placed, NEW t \in Tasks, NEW p \in Priorities, Reschedule(t, p)
    PROVE  Placed' /\ (UNCHANGED state \/ Entered(t))
  <1>1. PICK q, prio : q = RemoveTaskFromQueues(queues, t) /\ prio = [priority EXCEPT ![t] = p]
    OBVIOUS
  <1>2. /\ t \in FoundTasks(queues, running) /\ priority' = prio /\ UNCHANGED running
        /\ t \in FoundTasks(q, running) => queues' = q /\ UNCHANGED state
        /\ t \notin FoundTasks(q, running) => Place(q, running, state, prio, t)
    BY <1>1 DEF Reschedule
  <1>3. prio \in Priority
    BY <1>1, FiledTypes, SchedulerAssumption DEF Priority
  <1>4. /\ Shape(q, priority) /\ FiledBut({t}, q, running, state)
        /\ ToSet(q.waiting) \subseteq ToSet(queues.waiting)
        /\ t \notin ToSet(q.priority) /\ t \notin ToSet(q.waiting)
        /\ LeftOf(q, running, t, state[t])
    BY <1>1, <1>2, FiledTypes, RemoveFiled DEF Placed
  <1>5. Shape(q, prio)
    <2>1. \A i \in 1..Len(q.priority) : prio[q.priority[i]] = priority[q.priority[i]]
      <3>1. q.priority \in Seq(Tasks)
        BY <1>4 DEF Shape, Tidy
      <3>2. \A i \in 1..Len(q.priority) : q.priority[i] \in Tasks /\ q.priority[i] # t
        BY <1>4, <3>1 DEF ToSet
      <3> QED BY <1>1, <3>2, FiledTypes DEF Priority
    <2> QED BY <1>4, <2>1 DEF Shape, Tidy, Sorted
  <1>6. Awake(q, state)
    BY <1>4 DEF Awake, Placed
  <1>7. CASE t \in FoundTasks(q, running)
    <2>1. FiledAs(q, running, t, state[t])
      BY <1>4, <1>7 DEF LeftOf
    <2>2. queues' = q /\ state' = state
      BY <1>2, <1>7
    <2>3. Shape(queues, priority)'
      BY <1>2, <1>5, <2>2 DEF Shape, QueuesOver, Tidy
    <2>4. FiledBut({}, queues, running, state)'
      BY <1>2, <1>4, <2>1, <2>2 DEF FiledBut, FiledAs
    <2>5. Awake(queues, state)'
      BY <1>6, <2>2 DEF Awake
    <2> QED BY <2>2, <2>3, <2>4, <2>5 DEF Placed
  <1>8. CASE t \notin FoundTasks(q, running)
    <2>1. state[t] # "RUNNING"
      <3>1. t \notin running
        BY <1>8 DEF FoundTasks
      <3> QED BY <3>1, FiledTypes DEF FiledAs
    <2> QED BY <1>2, <1>3, <1>4, <1>5, <1>6, <1>8, <2>1, FiledTypes, PlaceStep
  <1> QED BY <1>7, <1>8

\* What a completion leaves: no entry of the task, which has left the running map.
LEMMA LeaveExecutionFiled ==
    ASSUME IInv, Placed, NEW t \in Tasks, t \in running, NEW q, q = LeaveExecution(queues, t)
    PROVE  /\ Shape(q, priority) /\ FiledBut({t}, q, running \ {t}, state) /\ Awake(q, state)
           /\ state[t] = "RUNNING"
           /\ t \notin ToSet(q.priority) /\ t \notin ToSet(q.waiting)
           /\ q.execution[t] = 0 /\ q.completed[t] = 0 /\ q.failed[t] = 0
  <1>1. FiledAs(queues, running, t, "RUNNING") /\ state[t] = "RUNNING"
    <2>1. FiledAs(queues, running, t, state[t])
      BY FiledTypes
    <2>2. state[t] = "RUNNING"
      BY <2>1 DEF FiledAs
    <2> QED BY <2>1, <2>2
  <1>2. /\ t \notin ToSet(queues.priority) /\ t \notin ToSet(queues.waiting)
        /\ queues.execution[t] \in {0, 1} /\ queues.completed[t] = 0 /\ queues.failed[t] = 0
    BY <1>1 DEF FiledAs, Leftover
  <1>3. queues \in QueuesOver(Tasks)
    BY FiledTypes
  <1>4. PICK ex \in [Tasks -> Nat] : /\ ex = [queues.execution EXCEPT ![t] = 0]
                                     /\ ex[t] = 0 /\ \A u \in Tasks \ {t} : ex[u] = queues.execution[u]
    <2>1. PICK g \in [Tasks -> Nat] : g = queues.execution
      BY <1>3 DEF QueuesOver
    <2>2. [g EXCEPT ![t] = 0] \in [Tasks -> Nat]
      OBVIOUS
    <2> QED BY <2>1, <2>2
  <1>5. q = [queues EXCEPT !.execution = ex]
    <2>1. CASE queues.execution[t] = 1
      BY <1>4, <2>1 DEF LeaveExecution, Drop
    <2>2. CASE queues.execution[t] = 0
      <3>1. ex = queues.execution
        BY <1>3, <1>4, <2>2 DEF QueuesOver
      <3> QED BY <1>3, <2>2, <3>1 DEF LeaveExecution, QueuesOver
    <2> QED BY <1>2, <2>1, <2>2
  <1>6. /\ q \in QueuesOver(Tasks) /\ q.priority = queues.priority /\ q.waiting = queues.waiting
        /\ q.execution = ex /\ q.completed = queues.completed /\ q.failed = queues.failed
    BY <1>3, <1>4, <1>5 DEF QueuesOver
  <1>7. Shape(q, priority) /\ Awake(q, state)
    BY <1>6 DEF Placed, Shape, Tidy, Awake
  <1>8. FiledBut({t}, q, running \ {t}, state)
    BY <1>4, <1>6 DEF Placed, FiledBut, FiledAs
  <1> QED BY <1>1, <1>2, <1>4, <1>6, <1>7, <1>8

LEMMA CompleteStep ==
    ASSUME IInv, Placed, NEW t \in Tasks, NEW success \in BOOLEAN, CompleteTask(t, success)
    PROVE  Placed' /\ (Succeeded(t) \/ Failed(t))
  <1>1. t \in running /\ running' = running \ {t} /\ UNCHANGED priority
    BY DEF CompleteTask
  <1>2. PICK run : run = running \ {t}
    OBVIOUS
  <1>3. PICK q : q = LeaveExecution(queues, t)
    OBVIOUS
  <1>4. /\ Shape(q, priority) /\ FiledBut({t}, q, run, state) /\ Awake(q, state)
        /\ state[t] = "RUNNING"
        /\ t \notin ToSet(q.priority) /\ t \notin ToSet(q.waiting)
        /\ q.execution[t] = 0 /\ q.completed[t] = 0 /\ q.failed[t] = 0
    BY <1>1, <1>2, <1>3, LeaveExecutionFiled
  <1>5. q \in QueuesOver(Tasks) /\ Tidy(q, priority)
    BY <1>4 DEF Shape
  <1>6. CASE success
    <2>1. PICK st \in States : st = [state EXCEPT ![t] = "SUCCESS"]
      BY FiledTypes DEF States, TaskState
    <2>2. PICK co \in [Tasks -> Nat] : /\ co = Add(q.completed, t) /\ co[t] = 1
                                       /\ \A u \in Tasks \ {t} : co[u] = q.completed[u]
      <3>1. q.completed \in [Tasks -> Nat] /\ q.completed[t] + 1 = 1
        BY <1>4, <1>5 DEF QueuesOver
      <3> QED BY <3>1, AddCount
    <2>3. PICK q1 : q1 = [q EXCEPT !.completed = co]
      OBVIOUS
    <2>4. /\ q1 \in QueuesOver(Tasks) /\ q1.priority = q.priority /\ q1.waiting = q.waiting
          /\ q1.execution = q.execution /\ q1.completed = co /\ q1.failed = q.failed
      BY <1>5, <2>2, <2>3 DEF QueuesOver
    <2>5. PICK r : r = PromoteWaitingTasks(q1, run, st, priority)
      OBVIOUS
    <2>6. queues' = r /\ state' = ReadyIn(r, st)
      <3>1. q1 = [q EXCEPT !.completed = Add(@, t)]
        BY <2>2, <2>3
      <3> QED BY <1>2, <1>3, <1>6, <2>1, <2>5, <3>1 DEF CompleteTask
    <2>7. Shape(q1, priority)
      BY <1>5, <2>4 DEF Shape, Tidy
    <2>8. FiledBut({}, q1, run, st)
      <3>1. FiledAs(q1, run, t, "SUCCESS")
        BY <1>2, <1>4, <2>2, <2>4 DEF FiledAs, Leftover
      <3>2. \A u \in Tasks \ {t} : FiledAs(q1, run, u, state[u])
        BY <1>4, <2>2, <2>4 DEF FiledAs, FiledBut
      <3>3. \A u \in Tasks : FiledAs(q1, run, u, st[u])
        BY <2>1, <3>1, <3>2, FiledTypes DEF States
      <3> QED BY <3>3 DEF FiledBut
    <2>9. /\ Shape(r, priority) /\ FiledBut({}, r, run, ReadyIn(r, st)) /\ Awake(r, ReadyIn(r, st))
          /\ ReadyIn(r, st) = [u \in Tasks |->
               IF st[u] = "WAITING" /\ (\A d \in BlockDeps[u] : st[d] = "SUCCESS")
               THEN "READY" ELSE st[u]]
      BY <2>5, <2>7, <2>8, FiledTypes, PromoteFiled
    <2>10. Placed'
      BY <1>1, <1>2, <2>6, <2>9 DEF Placed, Shape, Tidy, QueuesOver, FiledBut, FiledAs, Awake
    <2>11. Succeeded(t)
      BY <1>4, <2>1, <2>6, <2>9 DEF Succeeded
    <2> QED BY <2>10, <2>11
  <1>7. CASE ~success
    <2>1. state' = [state EXCEPT ![t] = "FAILED"] /\ queues' = [q EXCEPT !.failed = Add(q.failed, t)]
      BY <1>3, <1>7 DEF CompleteTask
    <2>2. PICK fl \in [Tasks -> Nat] : /\ fl = Add(q.failed, t) /\ fl[t] = 1
                                       /\ \A u \in Tasks \ {t} : fl[u] = q.failed[u]
      <3>1. q.failed \in [Tasks -> Nat] /\ q.failed[t] + 1 = 1
        BY <1>4, <1>5 DEF QueuesOver
      <3> QED BY <3>1, AddCount
    <2>3. /\ queues' \in QueuesOver(Tasks) /\ queues'.priority = q.priority
          /\ queues'.waiting = q.waiting /\ queues'.execution = q.execution
          /\ queues'.completed = q.completed /\ queues'.failed = fl
      BY <1>5, <2>1, <2>2 DEF QueuesOver
    <2>4. Shape(queues, priority)'
      BY <1>1, <1>5, <2>3 DEF Shape, Tidy, QueuesOver
    <2>5. FiledBut({}, queues, running, state)'
      <3>1. FiledAs(queues', running', t, "FAILED")
        BY <1>1, <1>4, <2>2, <2>3 DEF FiledAs, Leftover
      <3>2. \A u \in Tasks \ {t} : FiledAs(queues', running', u, state[u])
        BY <1>1, <1>2, <1>4, <2>2, <2>3 DEF FiledAs, FiledBut
      <3>3. \A u \in Tasks : FiledAs(queues', running', u, state'[u])
        BY <2>1, <3>1, <3>2, FiledTypes DEF States
      <3> QED BY <3>3 DEF FiledBut, FiledAs
    <2>6. Awake(queues, state)'
      <3>1. ASSUME NEW w \in ToSet(q.waiting)
            PROVE  \E d \in BlockDeps[w] : state'[d] # "SUCCESS"
        <4>1. PICK d \in BlockDeps[w] : state[d] # "SUCCESS"
          BY <1>4 DEF Awake
        <4>2. d \in Tasks
          <5>1. w \in Tasks
            BY <1>5 DEF Tidy, ToSet
          <5> QED BY <5>1, SchedulerAssumption
        <4> QED BY <2>1, <4>1, <4>2, FiledTypes DEF States
      <3> QED BY <2>3, <3>1 DEF Awake
    <2> QED BY <1>4, <2>1, <2>4, <2>5, <2>6 DEF Placed, Failed
  <1> QED BY <1>6, <1>7

LEMMA NextPlaced == IInv /\ Placed /\ [Next]_vars => Placed' /\ StateStep
  <1> SUFFICES ASSUME IInv, Placed, [Next]_vars PROVE Placed' /\ StateStep
    OBVIOUS
  <1>1. ASSUME UNCHANGED <<queues, running, state, priority>>
        PROVE  Placed' /\ StateStep
    BY <1>1 DEF StateStep, Placed, Shape, Tidy, QueuesOver, FiledBut, FiledAs, Awake
  <1>2. ASSUME NEW t \in Tasks, Schedule(t)
        PROVE  Placed' /\ StateStep
    <2>1. Placed' /\ Entered(t)
      BY <1>2, ScheduleStep DEF Schedule
    <2> QED BY <2>1 DEF StateStep
  <1>3. ASSUME EnqueueStep
        PROVE  Placed' /\ StateStep
    <2>1. CASE Head(batch) \in FoundTasks(queues, running)
      BY <1>1, <1>3, <2>1 DEF EnqueueStep
    <2>2. CASE Head(batch) \notin FoundTasks(queues, running)
      <3>1. PICK t \in Tasks : t = Head(batch)
        <4>1. batch \in Seq(Tasks) /\ batch # <<>>
          BY <1>3 DEF EnqueueStep, IInv, FieldTypes
        <4> QED BY <4>1
      <3>2. Placed' /\ Entered(t)
        BY <1>3, <2>2, <3>1, ScheduleStep DEF EnqueueStep
      <3> QED BY <3>2 DEF StateStep
    <2> QED BY <2>1, <2>2
  <1>4. ASSUME Dequeue
        PROVE  Placed' /\ StateStep
    BY <1>4, DequeueStep DEF StateStep
  <1>5. ASSUME NEW t \in Tasks, Cancel(t)
        PROVE  Placed' /\ StateStep
    BY <1>5, CancelStep DEF StateStep
  <1>6. ASSUME NEW t \in Tasks, NEW p \in Priorities, Reschedule(t, p)
        PROVE  Placed' /\ StateStep
    BY <1>6, RescheduleStep DEF StateStep
  <1>7. ASSUME NEW t \in Tasks, NEW success \in BOOLEAN, CompleteTask(t, success)
        PROVE  Placed' /\ StateStep
    BY <1>7, CompleteStep DEF StateStep
  <1> QED BY <1>1, <1>2, <1>3, <1>4, <1>5, <1>6, <1>7 DEF Next, vars, EnqueueCall, Pause, Resume

LEMMA InitPlaced == Init => Placed
  <1> SUFFICES ASSUME Init PROVE Placed
    OBVIOUS
  <1>1. Shape(queues, priority)
    <2>1. <<>> \in Seq(Tasks) /\ NoRepeats(<<>>) /\ Sorted(<<>>, priority)
      BY DEF NoRepeats, Sorted
    <2> QED BY <2>1 DEF Init, Shape, QueuesOver, Tidy
  <1>2. ToSet(queues.priority) = {} /\ ToSet(queues.waiting) = {}
    BY DEF Init, ToSet
  <1>3. FiledBut({}, queues, running, state)
    BY <1>2 DEF Init, FiledBut, FiledAs, Leftover
  <1> QED BY <1>1, <1>2, <1>3 DEF Placed, Awake

\* A sequence without repetitions has an element once or not at all.
LEMMA EntriesOnce ==
    ASSUME NEW s \in Seq(Tasks), NoRepeats(s), NEW t
    PROVE  Entries(s, t) = IF t \in ToSet(s) THEN 1 ELSE 0
  <1> DEFINE I == {i \in 1..Len(s) : s[i] = t}
  <1>1. CASE t \in ToSet(s)
    <2>1. PICK k \in 1..Len(s) : s[k] = t
      BY <1>1 DEF ToSet
    <2>2. I = {k}
      BY <2>1 DEF NoRepeats
    <2> QED BY <1>1, <2>2, FS_Singleton DEF Entries
  <1>2. CASE t \notin ToSet(s)
    <2>1. I = {}
      BY <1>2 DEF ToSet
    <2> QED BY <1>2, <2>1, FS_EmptySet DEF Entries
  <1> QED BY <1>1, <1>2

\* Every task is where its state says it is, in every reachable state.
THEOREM Placement == Spec => []TaskPlacement
  <1>1. IInv /\ Placed => TaskPlacement
    <2> SUFFICES ASSUME IInv, Placed, NEW t \in Tasks
                 PROVE  Slots(t) \in Filing[state[t]] /\ (t \in running <=> state[t] = "RUNNING")
      BY DEF TaskPlacement
    <2>1. FiledAs(queues, running, t, state[t]) /\ state[t] \in TaskState
      BY FiledTypes
    <2>2. PICK e, c, f : e = queues.execution[t] /\ c = queues.completed[t] /\ f = queues.failed[t]
      OBVIOUS
    <2>3. PICK pr, wt : pr = Entries(queues.priority, t) /\ wt = Entries(queues.waiting, t)
      OBVIOUS
    <2>4. /\ pr = IF state[t] = "READY" THEN 1 ELSE 0
          /\ wt = IF state[t] = "WAITING" THEN 1 ELSE 0
      BY <2>1, <2>3, EntriesOnce DEF Placed, Shape, Tidy, FiledAs
    <2>5. Leftover(e, c, f, state[t])
      BY <2>1, <2>2 DEF FiledAs
    <2>6. Slots(t) = <<pr, e, wt, c, f>>
      BY <2>2, <2>3 DEF Slots
    <2>7. PICK s \in TaskState : s = state[t]
      BY <2>1
    <2>8. <<pr, e, wt, c, f>> \in Filing[s]
      <3>1. CASE s = "PENDING"
        BY <2>4, <2>5, <2>7, <3>1 DEF Leftover, Filing
      <3>2. CASE s = "READY"
        BY <2>4, <2>5, <2>7, <3>2 DEF Leftover, Filing
      <3>3. CASE s = "WAITING"
        BY <2>4, <2>5, <2>7, <3>3 DEF Leftover, Filing
      <3>4. CASE s = "RUNNING"
        BY <2>4, <2>5, <2>7, <3>4 DEF Leftover, Filing
      <3>5. CASE s = "SUCCESS"
        BY <2>4, <2>5, <2>7, <3>5 DEF Leftover, Filing
      <3>6. CASE s = "FAILED"
        BY <2>4, <2>5, <2>7, <3>6 DEF Leftover, Filing
      <3>7. CASE s = "CANCELLED"
        BY <2>4, <2>5, <2>7, <3>7 DEF Leftover, Filing
      <3> QED BY <3>1, <3>2, <3>3, <3>4, <3>5, <3>6, <3>7 DEF TaskState
    <2> QED BY <2>1, <2>6, <2>7, <2>8 DEF FiledAs
  <1> QED BY <1>1, InitIInv, NextIInv, InitPlaced, NextPlaced, PTL DEF Spec

\* No step leaves a task waiting for nothing.
THEOREM NoTaskSleeps == Spec => []NoLostWakeup
  <1>1. IInv /\ Placed => NoLostWakeup
    <2> SUFFICES ASSUME IInv, Placed, NEW t \in ToSet(queues.waiting)
                 PROVE  ~CanExecuteNow(t, FoundTasks(queues, running), state)
      BY DEF NoLostWakeup
    <2> QED BY DEF Placed, Awake, CanExecuteNow
  <1> QED BY <1>1, InitIInv, NextIInv, InitPlaced, NextPlaced, PTL DEF Spec

\* What dequeue starts under the strategies that take the head of the queue is of
\* the most urgent priority, whatever reschedules rewrote before.
THEOREM MostUrgentFirst == Spec => StartsMostUrgent
  <1> DEFINE Urgent == \A t \in running' \ running :
                          strategy \in {"PRIORITY", "DEPENDENCY"} =>
                             \A u \in Tasks : state[u] = "READY" => priority[t] =< priority[u]
  <1>1. IInv /\ Placed /\ [Next]_vars => [Urgent]_vars
    <2> SUFFICES ASSUME IInv, Placed, Next PROVE Urgent
      OBVIOUS
    <2>1. CASE running' \subseteq running
      BY <2>1
    <2>2. CASE Dequeue
      BY <2>2, DequeueStep
    <2>3. ~(running' \subseteq running) => Dequeue
      BY DEF Next, Schedule, EnqueueCall, EnqueueStep, Cancel, Pause, Resume, Reschedule, CompleteTask
    <2> QED BY <2>1, <2>2, <2>3
  <1> QED BY <1>1, InitIInv, NextIInv, InitPlaced, NextPlaced, PTL DEF Spec, StartsMostUrgent
-----------------------------------------------------------------------------
(* The scheduler implements the task board: the phase of a task is read    *)
(* off its state, and each change of states is a step of the board.        *)

Phase(s) ==
    IF s = "PENDING" THEN "absent" ELSE IF s = "READY" THEN "ready"
    ELSE IF s = "WAITING" THEN "waiting" ELSE IF s = "RUNNING" THEN "running"
    ELSE IF s = "SUCCESS" THEN "completed" ELSE "failed"

\* The value that the refinement mapping gives to phase.
Phases == [t \in Tasks |-> PhaseOf(t)]

LEMMA PhaseOfState ==
    ASSUME IInv, Placed
    PROVE  Phases = [t \in Tasks |-> Phase(state[t])]
  <1> SUFFICES ASSUME NEW t \in Tasks PROVE PhaseOf(t) = Phase(state[t])
    BY DEF Phases
  <1>1. FiledAs(queues, running, t, state[t]) /\ state[t] \in TaskState
    BY FiledTypes
  <1>2. /\ Contains(queues.priority, t) <=> t \in ToSet(queues.priority)
        /\ Contains(queues.waiting, t) <=> t \in ToSet(queues.waiting)
    BY DEF Placed, Shape, Tidy, Contains, ToSet
  <1>3. CASE state[t] \in {"READY", "WAITING", "RUNNING"}
    BY <1>1, <1>2, <1>3 DEF FiledAs, PhaseOf, Phase
  <1>4. CASE state[t] \in {"PENDING", "SUCCESS", "FAILED", "CANCELLED"}
    <2>1. /\ t \notin running /\ ~Contains(queues.priority, t) /\ ~Contains(queues.waiting, t)
          /\ Leftover(queues.execution[t], queues.completed[t], queues.failed[t], state[t])
      BY <1>1, <1>2, <1>4 DEF FiledAs
    <2>2. PhaseOf(t) = IF queues.completed[t] > 0 THEN "completed"
                       ELSE IF queues.failed[t] > 0 THEN "failed" ELSE "absent"
      BY <2>1 DEF PhaseOf
    <2> QED BY <1>4, <2>1, <2>2 DEF Leftover, Phase
  <1> QED BY <1>1, <1>3, <1>4 DEF TaskState

LEMMA PhaseOfNextState == IInv' /\ Placed' => (Phases = [t \in Tasks |-> Phase(state[t])])'
  <1>1. IInv /\ Placed => Phases = [t \in Tasks |-> Phase(state[t])]
    BY PhaseOfState
  <1> QED BY <1>1, PTL

\* A step of the states is a step of the board, or none.
LEMMA StateStepIsBoardStep ==
    ASSUME IInv, Placed, StateStep, Phases' = [t \in Tasks |-> Phase(state'[t])]
    PROVE  Board!Next \/ UNCHANGED Phases
  <1>1. PICK ph : ph = Phases /\ ph = [t \in Tasks |-> Phase(state[t])]
    BY PhaseOfState
  <1>2. PICK ph1 : ph1 = Phases' /\ ph1 = [t \in Tasks |-> Phase(state'[t])]
    OBVIOUS
  <1>3. state \in [Tasks -> TaskState] /\ \A t \in Tasks : BlockDeps[t] \subseteq Tasks
    BY FiledTypes, SchedulerAssumption DEF States
  <1>4. \A t \in Tasks : /\ ph[t] = "completed" <=> state[t] = "SUCCESS"
                         /\ ph[t] = "running" <=> state[t] = "RUNNING"
                         /\ ph[t] = "ready" <=> state[t] = "READY"
                         /\ ph[t] = "waiting" <=> state[t] = "WAITING"
                         /\ ph[t] = "absent" <=> state[t] = "PENDING"
    BY <1>1, <1>3 DEF Phase, TaskState
  <1>5. CASE UNCHANGED state
    BY <1>1, <1>2, <1>5
  <1>6. ASSUME NEW t \in Tasks, Entered(t)
        PROVE  Board!Enter(t)
    <2>1. Board!Blocked([ph EXCEPT ![t] = "absent"], t) <=>
            ~(\A d \in BlockDeps[t] : d # t /\ state[d] = "SUCCESS")
      BY <1>1, <1>3, <1>4 DEF Board!Blocked
    <2>2. ph1 = [ph EXCEPT ![t] = IF Board!Blocked([ph EXCEPT ![t] = "absent"], t)
                                  THEN "waiting" ELSE "ready"]
      <3>1. CASE \A d \in BlockDeps[t] : d # t /\ state[d] = "SUCCESS"
        BY <1>1, <1>2, <1>3, <1>6, <2>1, <3>1 DEF Entered, Phase
      <3>2. CASE ~(\A d \in BlockDeps[t] : d # t /\ state[d] = "SUCCESS")
        BY <1>1, <1>2, <1>3, <1>6, <2>1, <3>2, ZenonT(60) DEF Entered, Phase
      <3> QED BY <3>1, <3>2
    <2>3. ph[t] # "running"
      BY <1>4, <1>6 DEF Entered
    <2> QED BY <1>1, <1>2, <2>2, <2>3 DEF Board!Enter, Phases
  <1>7. ASSUME NEW t \in Tasks, Started(t)
        PROVE  Board!Start(t)
    <2>1. ph[t] = "ready" /\ ph1 = [ph EXCEPT ![t] = "running"]
      BY <1>1, <1>2, <1>3, <1>4, <1>7 DEF Started, Phase
    <2>2. {u \in Tasks : ph[u] = "running"} = running
      BY <1>4, FiledTypes DEF FiledAs, IInv, Cleared
    <2>3. Board!RunningTasks = running
      BY <1>1, <2>2 DEF Board!RunningTasks, Phases
    <2>4. Board!Cardinality(Board!RunningTasks) < MaxConcurrency
      <3>1. Board!Cardinality(running) = Cardinality(running)
        BY DEF Board!Cardinality, Cardinality
      <3> QED BY <1>7, <2>3, <3>1 DEF Started, HasCapacity
    <2>5. Phases[t] = "ready" /\ Phases' = [Phases EXCEPT ![t] = "running"]
      BY <1>1, <1>2, <2>1
    <2> QED BY <2>4, <2>5 DEF Board!Start, Phases
  <1>8. ASSUME NEW t \in Tasks, Failed(t)
        PROVE  Board!Finish(t)
    <2>1. ph[t] = "running" /\ ph1 = [ph EXCEPT ![t] = "failed"]
      BY <1>1, <1>2, <1>3, <1>4, <1>8 DEF Failed, Phase
    <2> QED BY <1>1, <1>2, <2>1 DEF Board!Finish, Phases
  <1>9. ASSUME NEW t \in Tasks, Succeeded(t)
        PROVE  Board!Finish(t)
    <2>1. PICK st \in [Tasks -> TaskState] : st = [state EXCEPT ![t] = "SUCCESS"]
      BY <1>3 DEF TaskState
    <2>2. PICK sph : sph = [ph EXCEPT ![t] = "completed"]
      OBVIOUS
    <2>3. sph = [u \in Tasks |-> Phase(st[u])]
      BY <1>1, <1>3, <2>1, <2>2 DEF Phase
    <2>4. \A u \in Tasks : /\ sph[u] = "completed" <=> st[u] = "SUCCESS"
                           /\ sph[u] = "waiting" <=> st[u] = "WAITING"
      BY <2>1, <2>3 DEF Phase, TaskState
    <2>5. \A u \in Tasks : Board!Blocked(sph, u) <=> ~(\A d \in BlockDeps[u] : st[d] = "SUCCESS")
      BY <1>3, <2>4 DEF Board!Blocked
    <2>6. \A u \in Tasks : state'[u] =
            IF st[u] = "WAITING" /\ (\A d \in BlockDeps[u] : st[d] = "SUCCESS") THEN "READY" ELSE st[u]
      BY <1>9, <2>1 DEF Succeeded
    <2>7. ph1 = Board!Settle(sph)
      <3>1. \A u \in Tasks : ph1[u] =
              IF sph[u] = "waiting" /\ ~Board!Blocked(sph, u) THEN "ready" ELSE sph[u]
        <4> SUFFICES ASSUME NEW u \in Tasks
                     PROVE  ph1[u] = IF sph[u] = "waiting" /\ ~Board!Blocked(sph, u)
                                     THEN "ready" ELSE sph[u]
          OBVIOUS
        <4>1. CASE sph[u] = "waiting" /\ ~Board!Blocked(sph, u)
          <5>1. state'[u] = "READY"
            BY <2>4, <2>5, <2>6, <4>1
          <5> QED BY <1>2, <4>1, <5>1 DEF Phase
        <4>2. CASE ~(sph[u] = "waiting" /\ ~Board!Blocked(sph, u))
          <5>1. state'[u] = st[u]
            BY <2>4, <2>5, <2>6, <4>2
          <5> QED BY <1>2, <2>3, <4>2, <5>1
        <4> QED BY <4>1, <4>2
      <3> QED BY <1>2, <3>1 DEF Board!Settle
    <2>8. ph[t] = "running"
      BY <1>4, <1>9 DEF Succeeded
    <2> QED BY <1>1, <1>2, <2>2, <2>7, <2>8 DEF Board!Finish, Phases
  <1>10. ASSUME NEW t \in Tasks, Withdrawn(t)
         PROVE  Board!Withdraw(t)
    <2>1. ph[t] # "absent" /\ ph1 = [ph EXCEPT ![t] = "failed"]
      BY <1>1, <1>2, <1>3, <1>4, <1>10 DEF Withdrawn, Phase
    <2> QED BY <1>1, <1>2, <2>1 DEF Board!Withdraw, Phases
  <1> QED BY <1>5, <1>6, <1>7, <1>8, <1>9, <1>10 DEF StateStep, Board!Next

LEMMA NextIsBoardNext ==
    ASSUME IInv, Placed, [Next]_vars
    PROVE  [Board!Next]_Phases
  <1>1. IInv' /\ Placed' /\ StateStep
    BY NextIInv, NextPlaced
  <1>2. Phases' = [t \in Tasks |-> Phase(state'[t])]
    <2>1. (Phases = [t \in Tasks |-> Phase(state[t])])'
      BY <1>1, PhaseOfNextState
    <2>2. [t \in Tasks |-> Phase(state[t])]' = [t \in Tasks |-> Phase(state'[t])]
      BY DEF Phase
    <2> QED BY <1>1, <2>1, <2>2
  <1> QED BY <1>1, <1>2, StateStepIsBoardStep

\* Every behaviour of the scheduler is, seen through the phases of its tasks, a
\* behaviour of the task board.
THEOREM ImplementsBoard == Spec => BoardSpec
  <1>1. Init => Board!Init
    <2> SUFFICES ASSUME Init PROVE Board!Init
      OBVIOUS
    <2>1. Phases = [t \in Tasks |-> Phase(state[t])]
      BY InitIInv, InitPlaced, PhaseOfState
    <2>2. \A t \in Tasks : Phase(state[t]) = "absent"
      BY DEF Init, Phase
    <2> QED BY <2>1, <2>2 DEF Board!Init, Phases
  <1>2. IInv /\ Placed /\ [Next]_vars => [Board!Next]_Phases
    BY NextIsBoardNext
  <1> QED BY <1>1, <1>2, InitIInv, NextIInv, InitPlaced, NextPlaced, PTL
          DEF Spec, BoardSpec, Board!Spec, Phases
=============================================================================
