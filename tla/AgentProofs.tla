----------------------------- MODULE AgentProofs -----------------------------
(***************************************************************************)
(* Theorems about what happens to one agent, for any agents, calls and     *)
(* requests: its lifecycle under operations that overlap, and the batches  *)
(* of requests the runtime has it execute.                                 *)
(***************************************************************************)
EXTENDS AgentLifecycle, AgentRuntime, FiniteSetTheorems, SequenceTheorems, TLAPS

-----------------------------------------------------------------------------
(* The runtime.                                                            *)

\* The semaphore's queue holds each request that waits, once.
QueueSound ==
    /\ \A i, j \in 1..Len(waitQueue) : waitQueue[i] = waitQueue[j] => i = j
    /\ \A e \in Requests : at[e] = "queued" <=> \E i \in 1..Len(waitQueue) : waitQueue[i] = e

\* The active set and the statuses never disagree, and what is about to be stored
\* as a final status is one.
RecordsSound ==
    /\ \A e \in Requests : e \in activeExecutions <=> executions[e] \in ActiveStatus
    /\ \A e \in Requests : at[e] = "finishing" => result[e] \in {"CANCELLED", "COMPLETED"}
    /\ \A e \in Requests :
          at[e] \in {"returned", "rejected", "done"} => executions[e] \notin ActiveStatus

\* What is done has been recorded, and when the batch is over all of it is done.
OutcomesRecorded ==
    /\ \A e \in Requests : at[e] = "done" => e \in results \cup errors
    /\ batchResult # "none" => \A e \in Requests : at[e] = "done"

IInv == RuntimeTypeOK /\ SlotsConserved /\ QueueSound

-----------------------------------------------------------------------------
LEMMA RequestsFinite == IsFiniteSet(Requests)
  <1> DEFINE f == [i \in 1..Len(BatchRequests) |-> BatchRequests[i]]
  <1>1. Len(BatchRequests) \in Nat /\ DOMAIN BatchRequests = 1..Len(BatchRequests)
    BY RuntimeAssumption
  <1>2. IsFiniteSet(1..Len(BatchRequests))
    BY <1>1, FS_Interval
  <1>3. f \in Surjection(1..Len(BatchRequests), Requests)
    BY <1>1 DEF Surjection, Requests, ToSet
  <1> QED BY <1>2, <1>3, FS_Surjection

LEMMA HoldersFinite == IsFiniteSet(Holders) /\ Cardinality(Holders) \in Nat
  <1>1. Holders \in SUBSET Requests
    BY DEF Holders
  <1> QED BY <1>1, RequestsFinite, FS_Subset, FS_CardinalityType

\* A prefix of the batch has as many requests as places.
LEMMA PrefixSize ==
    ASSUME NEW n \in 0..Len(BatchRequests)
    PROVE  Cardinality({BatchRequests[i] : i \in 1..n}) = n
  <1> DEFINE S == {BatchRequests[i] : i \in 1..n}
             f == [i \in 1..n |-> BatchRequests[i]]
  <1>1. Len(BatchRequests) \in Nat /\ DOMAIN BatchRequests = 1..Len(BatchRequests)
    BY RuntimeAssumption
  <1>2. IsFiniteSet(1..n) /\ Cardinality(1..n) = n
    BY <1>1, FS_Interval
  <1>3. \A i, j \in 1..n : f[i] = f[j] => i = j
    BY <1>1, RuntimeAssumption
  <1>4. f \in Bijection(1..n, S)
    BY <1>1, <1>3 DEF Bijection, Injection, Surjection, IsInjective
  <1> QED BY <1>2, <1>4, FS_Bijection DEF ExistsBijection

LEMMA Suffix ==
    ASSUME NEW S, NEW s \in Seq(S), NEW n \in 0..Len(s)
    PROVE  /\ SubSeq(s, n + 1, Len(s)) \in Seq(S)
           /\ Len(SubSeq(s, n + 1, Len(s))) = Len(s) - n
           /\ \A i \in 1..(Len(s) - n) : SubSeq(s, n + 1, Len(s))[i] = s[n + i]
  OBVIOUS

LEMMA AdmittedRange ==
    /\ Admitted \in 0..Len(BatchRequests) /\ Admitted \in Nat
    /\ Admitted =< Limit
    /\ Len(BatchRequests) - Admitted # 0 => Admitted = Limit
  BY RuntimeAssumption DEF Admitted

LEMMA InitIInv == RuntimeInit => IInv
  <1> SUFFICES ASSUME RuntimeInit PROVE IInv
    OBVIOUS
  <1>1. RuntimeTypeOK
    BY RuntimeAssumption DEF RuntimeInit, RuntimeTypeOK, Places
  <1>2. Holders = {}
    BY DEF RuntimeInit, Holders
  <1>3. SlotsConserved
    BY <1>2, FS_EmptySet, RuntimeAssumption DEF RuntimeInit, SlotsConserved
  <1>4. QueueSound
    BY DEF RuntimeInit, QueueSound
  <1> QED BY <1>1, <1>3, <1>4 DEF IInv

\* A step of a request that holds a slot before and after leaves the semaphore alone.
LEMMA MoveIInv ==
    ASSUME IInv, NEW e \in Requests, NEW place \in Places,
           at[e] \notin {"idle", "queued", "done"}, place \notin {"idle", "queued", "done"},
           MoveTo(e, place), UNCHANGED batchVars, RuntimeTypeOK'
    PROVE  IInv'
  <1>1. at \in [Requests -> Places]
    BY DEF IInv, RuntimeTypeOK
  <1>2. Holders' = Holders
    BY <1>1 DEF Holders, MoveTo
  <1>3. SlotsConserved'
    BY <1>2 DEF IInv, SlotsConserved, batchVars
  <1>4. QueueSound'
    BY <1>1 DEF IInv, QueueSound, MoveTo, batchVars
  <1> QED BY <1>3, <1>4 DEF IInv

LEMMA UnmovedIInv ==
    ASSUME IInv, UNCHANGED <<at, batchVars>>, RuntimeTypeOK'
    PROVE  IInv'
  <1>1. Holders' = Holders
    BY DEF Holders
  <1> QED BY <1>1 DEF IInv, SlotsConserved, QueueSound, batchVars

LEMMA UpdateType ==
    ASSUME RuntimeTypeOK, NEW e \in Requests, NEW status \in ExecutionStatus,
           UpdateExecution(e, status)
    PROVE  /\ executions' \in [Requests -> ExecutionStatus \cup {"none"}]
           /\ activeExecutions' \in SUBSET Requests
  BY DEF RuntimeTypeOK, UpdateExecution

LEMMA StartBatchIInv ==
    ASSUME IInv, StartBatch
    PROVE  IInv'
  <1> DEFINE N == Len(BatchRequests)
             Shorter == {BatchRequests[i] : i \in 1..Admitted}
  <1>1. N \in Nat /\ DOMAIN BatchRequests = 1..N
        /\ \A i \in 1..N : BatchRequests[i] \in Requests
    BY RuntimeAssumption
  <1>2. Admitted \in 0..N /\ Admitted \in Nat
    BY AdmittedRange
  <1>3. SubSeq(BatchRequests, 1, Admitted) \in Seq(Requests)
    BY RuntimeAssumption, <1>2
  <1>4. ToSet(SubSeq(BatchRequests, 1, Admitted)) = Shorter
    <2>1. Len(SubSeq(BatchRequests, 1, Admitted)) = Admitted
      BY RuntimeAssumption, <1>2, SubSeqProperties
    <2>2. \A i \in 1..Admitted : SubSeq(BatchRequests, 1, Admitted)[i] = BatchRequests[i]
      BY RuntimeAssumption, <1>2, SubSeqProperties
    <2> QED BY <1>3, <2>1, <2>2 DEF ToSet
  <1>5. waitQueue' \in Seq(Requests)
    BY RuntimeAssumption, <1>2 DEF StartBatch
  <1>6. /\ Len(waitQueue') = N - Admitted
        /\ \A i \in 1..(N - Admitted) : waitQueue'[i] = BatchRequests[Admitted + i]
    BY RuntimeAssumption, <1>2, Suffix DEF StartBatch
  <1>7. at' = [e \in Requests |-> IF e \in Shorter THEN "admitted" ELSE "queued"]
    BY <1>4 DEF StartBatch
  <1>8. RuntimeTypeOK'
    <2>1. at' \in [Requests -> Places]
      BY <1>7 DEF Places
    <2>2. count' \in 0..Limit
      BY <1>2, AdmittedRange, RuntimeAssumption DEF StartBatch
    <2> QED BY <1>5, <2>1, <2>2 DEF StartBatch, IInv, RuntimeTypeOK, registryVars
  <1>9. SlotsConserved'
    <2>1. Shorter \in SUBSET Requests
      BY <1>1, <1>2
    <2>2. Holders' = Shorter
      BY <1>7, <2>1 DEF Holders
    <2>3. Cardinality(Holders') = count'
      BY <2>2, <1>2, PrefixSize DEF StartBatch
    <2>4. waitQueue' # <<>> => count' = Limit
      <3>1. waitQueue' # <<>> => N - Admitted # 0
        BY <1>5, <1>6, EmptySeq
      <3>2. count' = Admitted
        BY DEF StartBatch
      <3> QED BY <3>1, <3>2, AdmittedRange
    <2> QED BY <2>3, <2>4, AdmittedRange DEF SlotsConserved, StartBatch
  <1>10. QueueSound'
    <2>1. ASSUME NEW i \in 1..Len(waitQueue'), NEW j \in 1..Len(waitQueue'),
                 waitQueue'[i] = waitQueue'[j]
          PROVE  i = j
      <3>1. Admitted + i \in 1..N /\ Admitted + j \in 1..N
        BY <1>1, <1>2, <1>6
      <3>2. BatchRequests[Admitted + i] = BatchRequests[Admitted + j]
        BY <1>1, <1>2, <1>6, <2>1
      <3>3. Admitted + i = Admitted + j
        BY <1>1, <3>1, <3>2, RuntimeAssumption
      <3> QED BY <1>1, <1>2, <1>6, <3>3
    <2>2. ASSUME NEW e \in Requests
          PROVE  at'[e] = "queued" <=> \E i \in 1..Len(waitQueue') : waitQueue'[i] = e
      <3>1. PICK k \in 1..N : BatchRequests[k] = e
        BY <1>1 DEF Requests, ToSet
      <3>2. \A k2 \in 1..N : BatchRequests[k2] = e => k2 = k
        BY <1>1, <3>1, RuntimeAssumption
      <3>3. e \in Shorter <=> k =< Admitted
        BY <1>1, <1>2, <3>1, <3>2
      <3>4. k > Admitted => k - Admitted \in 1..(N - Admitted) /\ waitQueue'[k - Admitted] = e
        BY <1>1, <1>2, <1>6, <3>1
      <3>5. \A i \in 1..(N - Admitted) : waitQueue'[i] = e => k > Admitted
        BY <1>1, <1>2, <1>6, <3>2
      <3>6. at'[e] = "queued" <=> ~(k =< Admitted)
        BY <1>7, <3>3
      <3>7. Len(waitQueue') = N - Admitted
        BY <1>6
      <3>8. CASE k =< Admitted
        <4>1. ~(k > Admitted)
          BY <3>8, <1>2
        <4> QED BY <3>5, <3>6, <3>7, <3>8, <4>1
      <3>9. CASE ~(k =< Admitted)
        <4>1. k > Admitted
          BY <3>9, <1>2
        <4> QED BY <3>4, <3>6, <3>7, <3>9, <4>1
      <3> QED BY <3>8, <3>9
    <2> QED BY <2>1, <2>2 DEF QueueSound
  <1> QED BY <1>8, <1>9, <1>10 DEF IInv

LEMMA SettleIInv ==
    ASSUME IInv, NEW e \in Requests, Settle(e)
    PROVE  IInv'
  <1>1. /\ at \in [Requests -> Places] /\ waitQueue \in Seq(Requests)
        /\ count \in 0..Limit /\ Limit \in Nat
    BY RuntimeAssumption DEF IInv, RuntimeTypeOK
  <1>2. e \in Holders
    BY DEF Settle, Holders
  <1>3. Cardinality(Holders) = count
    BY DEF IInv, SlotsConserved
  <1>4. results' \in SUBSET Requests /\ errors' \in SUBSET Requests
    BY DEF Settle, IInv, RuntimeTypeOK
  <1>5. CASE waitQueue = <<>>
    <2>1. at' = [at EXCEPT ![e] = "done"] /\ count' = count - 1 /\ waitQueue' = <<>>
      BY <1>5 DEF Settle, ReleaseSlot
    <2>2. Holders' = Holders \ {e}
      BY <1>1, <2>1 DEF Holders
    <2>3. Cardinality(Holders') = count'
      BY <1>2, <1>3, <2>1, <2>2, HoldersFinite, FS_RemoveElement
    <2>4. count' \in 0..Limit
      <3>1. count # 0
        BY <1>2, <1>3, HoldersFinite, FS_EmptySet
      <3> QED BY <3>1, <1>1, <2>1
    <2>5. RuntimeTypeOK'
      BY <1>1, <1>4, <2>1, <2>4 DEF IInv, RuntimeTypeOK, Settle, Places, registryVars
    <2>6. SlotsConserved'
      BY <2>1, <2>3, <2>4, <1>1 DEF SlotsConserved
    <2>7. QueueSound'
      <3>1. \A r \in Requests : at[r] # "queued"
        BY <1>5 DEF IInv, QueueSound
      <3>2. Len(waitQueue') = 0
        BY <2>1
      <3> QED BY <1>1, <2>1, <3>1, <3>2 DEF QueueSound
    <2> QED BY <2>5, <2>6, <2>7 DEF IInv
  <1>6. CASE waitQueue # <<>>
    <2> DEFINE h == waitQueue[1]
    <2>1. /\ at' = [at EXCEPT ![e] = "done", ![h] = "admitted"]
          /\ waitQueue' = Tail(waitQueue) /\ count' = count
      BY <1>6 DEF Settle, ReleaseSlot
    <2>2. Len(waitQueue) \in Nat \ {0} /\ h \in Requests
      BY <1>1, <1>6
    <2>3. at[h] = "queued"
      BY <2>2 DEF IInv, QueueSound
    <2>4. at[e] # "queued" /\ e # h /\ h \notin Holders
      BY <2>3 DEF Settle, Holders
    <2>5. Holders' = (Holders \ {e}) \cup {h}
      BY <1>1, <2>1, <2>2, <2>4 DEF Holders
    <2>6. Cardinality(Holders') = count'
      <3>1. IsFiniteSet(Holders \ {e}) /\ Cardinality(Holders \ {e}) = count - 1
        BY <1>2, <1>3, HoldersFinite, FS_RemoveElement
      <3>2. Cardinality((Holders \ {e}) \cup {h}) = (count - 1) + 1
        BY <3>1, <2>4, FS_AddElement
      <3> QED BY <3>2, <2>1, <2>5, <1>1
    <2>7. /\ waitQueue' \in Seq(Requests) /\ Len(waitQueue') = Len(waitQueue) - 1
          /\ \A i \in 1..(Len(waitQueue) - 1) : waitQueue'[i] = waitQueue[i + 1]
      BY <1>1, <1>6, <2>1
    <2>8. RuntimeTypeOK'
      <3>1. at' \in [Requests -> Places]
        BY <1>1, <2>1, <2>2 DEF Places
      <3> QED BY <3>1, <1>4, <2>1, <2>7 DEF IInv, RuntimeTypeOK, Settle, registryVars
    <2>9. SlotsConserved'
      BY <1>6, <2>1, <2>6 DEF IInv, SlotsConserved
    <2>10. QueueSound'
      <3>1. ASSUME NEW i \in 1..Len(waitQueue'), NEW j \in 1..Len(waitQueue'),
                   waitQueue'[i] = waitQueue'[j]
            PROVE  i = j
        <4>1. i + 1 \in 1..Len(waitQueue) /\ j + 1 \in 1..Len(waitQueue)
          BY <2>2, <2>7
        <4>2. waitQueue[i + 1] = waitQueue[j + 1]
          BY <2>2, <2>7, <3>1
        <4> QED BY <4>1, <4>2, <2>2, <2>7 DEF IInv, QueueSound
      <3>2. ASSUME NEW r \in Requests
            PROVE  at'[r] = "queued" <=> \E i \in 1..Len(waitQueue') : waitQueue'[i] = r
        <4>1. at'[r] = "queued" <=> at[r] = "queued" /\ r # h
          BY <1>1, <2>1, <2>2, <2>4
        <4>2. at[r] = "queued" <=> \E i \in 1..Len(waitQueue) : waitQueue[i] = r
          BY DEF IInv, QueueSound
        <4>3. ASSUME NEW i \in 1..Len(waitQueue), waitQueue[i] = r, r # h
              PROVE  i - 1 \in 1..Len(waitQueue') /\ waitQueue'[i - 1] = r
          BY <4>3, <2>2, <2>7
        <4>4. ASSUME NEW i \in 1..Len(waitQueue'), waitQueue'[i] = r
              PROVE  i + 1 \in 1..Len(waitQueue) /\ waitQueue[i + 1] = r /\ r # h
          <5>1. i + 1 \in 1..Len(waitQueue) /\ waitQueue[i + 1] = r /\ i + 1 # 1
            BY <4>4, <2>2, <2>7
          <5>2. 1 \in 1..Len(waitQueue)
            BY <2>2
          <5> QED BY <5>1, <5>2 DEF IInv, QueueSound
        <4> QED BY <4>1, <4>2, <4>3, <4>4
      <3> QED BY <3>1, <3>2 DEF QueueSound
    <2> QED BY <2>8, <2>9, <2>10 DEF IInv
  <1> QED BY <1>5, <1>6

\* One lemma per action of a request between its two dealings with the semaphore.
LEMMA RegisterIInv ==
    ASSUME IInv, NEW e \in Requests, RegisterExecution(e)
    PROVE  IInv'
  <1>1. UpdateExecution(e, "PENDING") /\ MoveTo(e, "registered")
    BY DEF RegisterExecution
  <1>2. RuntimeTypeOK'
    BY <1>1, UpdateType DEF RegisterExecution, IInv, RuntimeTypeOK, MoveTo, Places,
                            ExecutionStatus, batchVars
  <1> QED BY <1>1, <1>2, MoveIInv DEF RegisterExecution, Places

LEMMA FindIInv ==
    ASSUME IInv, NEW e \in Requests, FindAgent(e)
    PROVE  IInv'
  <1>1. CASE MoveTo(e, "failing") /\ UNCHANGED registryVars
    <2>1. RuntimeTypeOK'
      BY <1>1 DEF FindAgent, IInv, RuntimeTypeOK, MoveTo, Places, registryVars, batchVars
    <2> QED BY <1>1, <2>1, MoveIInv DEF FindAgent, Places
  <1>2. CASE UpdateExecution(e, "RUNNING") /\ MoveTo(e, "validating")
    <2>1. RuntimeTypeOK'
      BY <1>2, UpdateType DEF FindAgent, IInv, RuntimeTypeOK, MoveTo, Places,
                              ExecutionStatus, batchVars
    <2> QED BY <1>2, <2>1, MoveIInv DEF FindAgent, Places
  <1> QED BY <1>1, <1>2 DEF FindAgent

LEMMA ValidateIInv ==
    ASSUME IInv, NEW e \in Requests, Validate(e)
    PROVE  IInv'
  <1>1. PICK place \in {"failing", "finishing", "executing"} : MoveTo(e, place)
    BY DEF Validate
  <1>2. result' \in [Requests -> ExecutionStatus \cup {"none"}]
    BY DEF Validate, IInv, RuntimeTypeOK, ExecutionStatus
  <1>3. RuntimeTypeOK'
    BY <1>1, <1>2 DEF Validate, IInv, RuntimeTypeOK, MoveTo, Places, registryVars, batchVars
  <1> QED BY <1>1, <1>3, MoveIInv DEF Validate, Places

LEMMA ReturnsIInv ==
    ASSUME IInv, NEW e \in Requests, AgentReturns(e)
    PROVE  IInv'
  <1>1. result' \in [Requests -> ExecutionStatus \cup {"none"}]
    BY DEF AgentReturns, IInv, RuntimeTypeOK, ExecutionStatus
  <1>2. RuntimeTypeOK'
    BY <1>1 DEF AgentReturns, IInv, RuntimeTypeOK, MoveTo, Places, registryVars, batchVars
  <1> QED BY <1>2, MoveIInv DEF AgentReturns, Places

LEMMA FinishIInv ==
    ASSUME IInv, RecordsSound, NEW e \in Requests, Finish(e)
    PROVE  IInv'
  <1>1. CASE Known(e)
    <2>1. UpdateExecution(e, result[e]) /\ MoveTo(e, "returned")
      BY <1>1 DEF Finish
    <2>2. result[e] \in ExecutionStatus
      BY DEF RecordsSound, Finish, ExecutionStatus
    <2>3. RuntimeTypeOK'
      BY <2>1, <2>2, UpdateType DEF Finish, IInv, RuntimeTypeOK, MoveTo, Places, batchVars
    <2> QED BY <2>1, <2>3, MoveIInv DEF Finish, Places
  <1>2. CASE ~Known(e)
    <2>1. MoveTo(e, "failing") /\ UNCHANGED registryVars
      BY <1>2 DEF Finish
    <2>2. RuntimeTypeOK'
      BY <2>1 DEF Finish, IInv, RuntimeTypeOK, MoveTo, Places, registryVars, batchVars
    <2> QED BY <2>1, <2>2, MoveIInv DEF Finish, Places
  <1> QED BY <1>1, <1>2

LEMMA FailIInv ==
    ASSUME IInv, NEW e \in Requests, Fail(e)
    PROVE  IInv'
  <1>1. /\ executions' \in [Requests -> ExecutionStatus \cup {"none"}]
        /\ activeExecutions' \in SUBSET Requests
    <2>1. CASE Known(e)
      BY <2>1, UpdateType DEF Fail, IInv, ExecutionStatus
    <2>2. CASE ~Known(e)
      BY <2>2 DEF Fail, IInv, RuntimeTypeOK, registryVars
    <2> QED BY <2>1, <2>2
  <1>2. RuntimeTypeOK'
    BY <1>1 DEF Fail, IInv, RuntimeTypeOK, MoveTo, Places, batchVars
  <1> QED BY <1>2, MoveIInv DEF Fail, Places

LEMMA CancelEndIInv ==
    ASSUME IInv, NEW c \in Cancellers, CancelEnd(c)
    PROVE  IInv'
  <1> DEFINE e == cancelling[c]
  <1>1. e \in Requests
    BY DEF CancelEnd, IInv, RuntimeTypeOK
  <1>2. /\ executions' \in [Requests -> ExecutionStatus \cup {"none"}]
        /\ activeExecutions' \in SUBSET Requests
    <2>1. CASE Known(e)
      BY <1>1, <2>1, UpdateType DEF CancelEnd, IInv, ExecutionStatus
    <2>2. CASE ~Known(e)
      BY <2>2 DEF CancelEnd, IInv, RuntimeTypeOK, registryVars
    <2> QED BY <2>1, <2>2
  <1>3. RuntimeTypeOK'
    BY <1>2 DEF CancelEnd, IInv, RuntimeTypeOK, batchVars
  <1> QED BY <1>3, UnmovedIInv DEF CancelEnd

LEMMA NextIInv ==
    ASSUME IInv, RecordsSound, [RuntimeNext]_runtimeVars
    PROVE  IInv'
  <1>1. CASE StartBatch
    BY <1>1, StartBatchIInv
  <1>2. CASE EndBatch
    <2>1. RuntimeTypeOK'
      BY <1>2 DEF EndBatch, IInv, RuntimeTypeOK, registryVars
    <2>2. Holders' = Holders
      BY <1>2 DEF EndBatch, Holders
    <2> QED BY <1>2, <2>1, <2>2 DEF EndBatch, IInv, SlotsConserved, QueueSound
  <1>3. ASSUME NEW e \in Requests, Progress(e)
        PROVE  IInv'
    BY <1>3, RegisterIInv, FindIInv, ValidateIInv, ReturnsIInv, FinishIInv, FailIInv,
       SettleIInv DEF Progress
  <1>4. ASSUME NEW e \in Requests, TimeoutFires(e)
        PROVE  IInv'
    <2>1. RuntimeTypeOK'
      BY <1>4 DEF TimeoutFires, IInv, RuntimeTypeOK, registryVars, batchVars
    <2> QED BY <1>4, <2>1, UnmovedIInv DEF TimeoutFires
  <1>5. ASSUME NEW old \in SUBSET Requests, Cleanup(old)
        PROVE  IInv'
    <2>1. RuntimeTypeOK'
      BY <1>5 DEF Cleanup, IInv, RuntimeTypeOK, batchVars
    <2> QED BY <1>5, <2>1, UnmovedIInv DEF Cleanup
  <1>6. ASSUME NEW c \in Cancellers, NEW e \in Requests, CancelBegin(c, e)
        PROVE  IInv'
    <2>1. RuntimeTypeOK'
      BY <1>6 DEF CancelBegin, ExecutorCancel, IInv, RuntimeTypeOK, registryVars, batchVars
    <2> QED BY <1>6, <2>1, UnmovedIInv DEF CancelBegin
  <1>7. ASSUME NEW c \in Cancellers, CancelEnd(c)
        PROVE  IInv'
    BY <1>7, CancelEndIInv
  <1>8. CASE UNCHANGED runtimeVars
    <2>1. Holders' = Holders
      BY <1>8 DEF runtimeVars, Holders
    <2> QED BY <1>8, <2>1 DEF runtimeVars, IInv, RuntimeTypeOK, SlotsConserved, QueueSound,
                              registryVars, batchVars
  <1> QED BY <1>1, <1>2, <1>3, <1>4, <1>5, <1>6, <1>7, <1>8 DEF RuntimeNext

-----------------------------------------------------------------------------
LEMMA InitRecords == RuntimeInit => RecordsSound
  BY DEF RuntimeInit, RecordsSound, ActiveStatus

LEMMA NextRecords ==
    ASSUME RuntimeTypeOK, RecordsSound, [RuntimeNext]_runtimeVars
    PROVE  RecordsSound'
  <1> USE DEF RuntimeTypeOK, RecordsSound, ActiveStatus
  <1>1. CASE StartBatch
    BY <1>1 DEF StartBatch, registryVars
  <1>2. CASE EndBatch
    BY <1>2 DEF EndBatch, registryVars
  <1>3. ASSUME NEW e \in Requests, Progress(e)
        PROVE  RecordsSound'
    <2>1. CASE RegisterExecution(e)
      BY <2>1 DEF RegisterExecution, UpdateExecution, MoveTo
    <2>2. CASE FindAgent(e)
      BY <2>2 DEF FindAgent, UpdateExecution, MoveTo, registryVars
    <2>3. CASE Validate(e)
      BY <2>3 DEF Validate, MoveTo, registryVars
    <2>4. CASE AgentReturns(e)
      BY <2>4 DEF AgentReturns, MoveTo, registryVars
    <2>5. CASE Finish(e)
      BY <2>5 DEF Finish, UpdateExecution, MoveTo, registryVars
    <2>6. CASE Fail(e)
      BY <2>6 DEF Fail, Known, UpdateExecution, MoveTo, registryVars
    <2>7. CASE Settle(e)
      BY <2>7 DEF Settle, ReleaseSlot, registryVars
    <2> QED BY <1>3, <2>1, <2>2, <2>3, <2>4, <2>5, <2>6, <2>7 DEF Progress
  <1>4. ASSUME NEW e \in Requests, TimeoutFires(e)
        PROVE  RecordsSound'
    BY <1>4 DEF TimeoutFires, registryVars
  <1>5. ASSUME NEW old \in SUBSET Requests, Cleanup(old)
        PROVE  RecordsSound'
    BY <1>5 DEF Cleanup
  <1>6. ASSUME NEW c \in Cancellers, NEW e \in Requests, CancelBegin(c, e)
        PROVE  RecordsSound'
    BY <1>6 DEF CancelBegin, registryVars
  <1>7. ASSUME NEW c \in Cancellers, CancelEnd(c)
        PROVE  RecordsSound'
    BY <1>7 DEF CancelEnd, UpdateExecution, registryVars
  <1>8. CASE UNCHANGED runtimeVars
    BY <1>8 DEF runtimeVars, registryVars
  <1> QED BY <1>1, <1>2, <1>3, <1>4, <1>5, <1>6, <1>7, <1>8 DEF RuntimeNext

-----------------------------------------------------------------------------
LEMMA InitOutcomes == RuntimeInit => OutcomesRecorded /\ BatchSuccessSound
  BY DEF RuntimeInit, OutcomesRecorded, BatchSuccessSound

LEMMA NextOutcomes ==
    ASSUME RuntimeTypeOK, OutcomesRecorded, BatchSuccessSound, [RuntimeNext]_runtimeVars
    PROVE  OutcomesRecorded' /\ BatchSuccessSound'
  <1> USE DEF RuntimeTypeOK, OutcomesRecorded, BatchSuccessSound
  <1>1. CASE StartBatch
    BY <1>1 DEF StartBatch
  <1>2. CASE EndBatch
    BY <1>2 DEF EndBatch, BatchSucceeded
  <1>3. ASSUME NEW e \in Requests, Progress(e)
        PROVE  OutcomesRecorded' /\ BatchSuccessSound'
    <2>1. CASE RegisterExecution(e)
      BY <2>1 DEF RegisterExecution, MoveTo, batchVars
    <2>2. CASE FindAgent(e)
      BY <2>2 DEF FindAgent, MoveTo, batchVars
    <2>3. CASE Validate(e)
      BY <2>3 DEF Validate, MoveTo, batchVars
    <2>4. CASE AgentReturns(e)
      BY <2>4 DEF AgentReturns, MoveTo, batchVars
    <2>5. CASE Finish(e)
      BY <2>5 DEF Finish, MoveTo, batchVars
    <2>6. CASE Fail(e)
      BY <2>6 DEF Fail, MoveTo, batchVars
    <2>7. CASE Settle(e)
      BY <2>7 DEF Settle, ReleaseSlot, InError
    <2> QED BY <1>3, <2>1, <2>2, <2>3, <2>4, <2>5, <2>6, <2>7 DEF Progress
  <1>4. ASSUME NEW e \in Requests, TimeoutFires(e)
        PROVE  OutcomesRecorded' /\ BatchSuccessSound'
    BY <1>4 DEF TimeoutFires, batchVars
  <1>5. ASSUME NEW old \in SUBSET Requests, Cleanup(old)
        PROVE  OutcomesRecorded' /\ BatchSuccessSound'
    BY <1>5 DEF Cleanup, batchVars
  <1>6. ASSUME NEW c \in Cancellers, NEW e \in Requests, CancelBegin(c, e)
        PROVE  OutcomesRecorded' /\ BatchSuccessSound'
    BY <1>6 DEF CancelBegin, batchVars
  <1>7. ASSUME NEW c \in Cancellers, CancelEnd(c)
        PROVE  OutcomesRecorded' /\ BatchSuccessSound'
    BY <1>7 DEF CancelEnd, batchVars
  <1>8. CASE UNCHANGED runtimeVars
    BY <1>8 DEF runtimeVars, batchVars
  <1> QED BY <1>1, <1>2, <1>3, <1>4, <1>5, <1>6, <1>7, <1>8 DEF RuntimeNext

-----------------------------------------------------------------------------
LEMMA Invariance == RuntimeSpec => [](IInv /\ RecordsSound)
  <1>1. RuntimeInit => IInv /\ RecordsSound
    BY InitIInv, InitRecords
  <1>2. IInv /\ RecordsSound /\ [RuntimeNext]_runtimeVars => (IInv /\ RecordsSound)'
    BY NextIInv, NextRecords DEF IInv
  <1> QED BY <1>1, <1>2, PTL DEF RuntimeSpec

\* The runtime's state keeps its types, for any batch, limit and callers of
\* cancelExecution.
THEOREM TypeCorrect == RuntimeSpec => []RuntimeTypeOK
  <1>1. IInv => RuntimeTypeOK
    BY DEF IInv
  <1> QED BY Invariance, <1>1, PTL

\* The batch's semaphore neither over-admits nor loses a slot: its count is the
\* number of requests between acquire and release, at most the limit, and while
\* a request waits every slot is taken.
THEOREM Semaphore == RuntimeSpec => []SlotsConserved
  <1>1. IInv => SlotsConserved
    BY DEF IInv
  <1> QED BY Invariance, <1>1, PTL

\* A request whose call is over is inactive in the execution registry, whatever
\* cancellations, timeouts and cleanups went on beside it.
THEOREM SettledInactive == RuntimeSpec => []SettledIsInactive
  <1>1. RecordsSound => SettledIsInactive
    BY DEF RecordsSound, SettledIsInactive
  <1> QED BY Invariance, <1>1, PTL

\* executeBatch reports success only if each of its requests completed.
THEOREM BatchSuccess == RuntimeSpec => []BatchSuccessSound
  <1>1. RuntimeInit => OutcomesRecorded /\ BatchSuccessSound
    BY InitOutcomes
  <1>2. RuntimeTypeOK /\ OutcomesRecorded /\ BatchSuccessSound /\ [RuntimeNext]_runtimeVars
           => (OutcomesRecorded /\ BatchSuccessSound)'
    BY NextOutcomes
  <1> QED BY TypeCorrect, <1>1, <1>2, PTL DEF RuntimeSpec

-----------------------------------------------------------------------------
(* The lifecycle manager.                                                  *)

\* What the steps of a call look like: there is always one to do, an agent's
\* shutdown is awaited at once, and the shutdown step itself is never awaited.
CallShape ==
    \A c \in Calls :
       call[c].at # "idle" =>
          /\ call[c].todo # <<>>
          /\ \A i \in 2..Len(call[c].todo) : call[c].todo[i] # "shutdown"
          /\ call[c].at \in {"find", "check"} => Head(call[c].todo) # "agentShutdown"
          /\ call[c].at = "await" => Head(call[c].todo) # "shutdown"

LifecycleInv == LifecycleTypeOK /\ CallShape

USE DEF Operations, Steps, AgentLifecycleState

LEMMA InitLifecycle == LifecycleInit => LifecycleInv
  BY DEF LifecycleInit, RegistryInit, LifecycleInv, LifecycleTypeOK, RegistryTypeOK, CallShape, Idle, InFlight

LEMMA StepsOfShape ==
    ASSUME NEW a \in Agents, NEW op \in Operations
    PROVE  /\ StepsOf(a, op) \in Seq(Steps)
           /\ StepsOf(a, op) # <<>>
           /\ Head(StepsOf(a, op)) # "agentShutdown"
           /\ \A i \in 2..Len(StepsOf(a, op)) : StepsOf(a, op)[i] # "shutdown"
  <1>1. CASE op = "restart" /\ Live(a)
    BY <1>1 DEF StepsOf
  <1>2. CASE op = "restart" /\ ~Live(a)
    BY <1>2 DEF StepsOf
  <1>3. CASE op = "resume"
    BY <1>3 DEF StepsOf
  <1>4. CASE op \notin {"restart", "resume"}
    BY <1>4 DEF StepsOf
  <1> QED BY <1>1, <1>2, <1>3, <1>4

LEMMA ShutdownStepsShape ==
    ASSUME NEW a \in Agents
    PROVE  /\ ShutdownSteps(a) \in Seq(Steps)
           /\ ShutdownSteps(a) # <<>>
           /\ \A i \in 1..Len(ShutdownSteps(a)) : ShutdownSteps(a)[i] # "shutdown"
           /\ Head(ShutdownSteps(a)) = IF Live(a) THEN "stop" ELSE "agentShutdown"
  <1>1. CASE Live(a)
    BY <1>1 DEF ShutdownSteps
  <1>2. CASE ~Live(a)
    BY <1>2 DEF ShutdownSteps
  <1> QED BY <1>1, <1>2

LEMMA BeginIInv ==
    ASSUME LifecycleInv, NEW c \in Calls, NEW a \in Agents, NEW op \in Operations, Begin(c, a, op)
    PROVE  LifecycleInv'
  <1>1. LifecycleTypeOK'
    BY StepsOfShape DEF Begin, LifecycleInv, LifecycleTypeOK, RegistryTypeOK, InFlight, agentRegistryVars
  <1>2. CallShape'
    BY StepsOfShape DEF Begin, LifecycleInv, CallShape, LifecycleTypeOK, InFlight
  <1> QED BY <1>1, <1>2 DEF LifecycleInv

LEMMA ThrowIInv ==
    ASSUME LifecycleInv, NEW c \in Calls, call[c].at # "idle", Throw(c),
           UNCHANGED <<agentRegistryVars, initialized, disturbed>>
    PROVE  LifecycleInv'
  <1>1. call[c].agent \in Agents
    BY DEF LifecycleInv, LifecycleTypeOK, InFlight, Idle
  <1>2. LifecycleTypeOK'
    BY <1>1 DEF Throw, SetState, LifecycleInv, LifecycleTypeOK, RegistryTypeOK, agentRegistryVars
  <1>3. CallShape'
    BY DEF Throw, LifecycleInv, CallShape, Idle, LifecycleTypeOK
  <1> QED BY <1>2, <1>3 DEF LifecycleInv

LEMMA AdvanceIInv ==
    ASSUME LifecycleInv, NEW c \in Calls, Advance(c)
    PROVE  LifecycleInv'
  <1> DEFINE k == call[c]
  <1>0. ASSUME k.at # "idle"
        PROVE  k \in InFlight /\ k.todo # <<>> /\ Head(k.todo) \in Steps
    BY <1>0 DEF LifecycleInv, LifecycleTypeOK, CallShape, InFlight, Idle
  <1>1. CASE Find(c)
    <2>1. CASE call[c].agent \in agents
      <3>1. k \in InFlight /\ k.at = "find"
        BY <1>0, <1>1 DEF Find
      <3>2. call' = [call EXCEPT ![c] = [k EXCEPT !.at = "check"]]
        BY <1>1, <2>1 DEF Find
      <3>3. LifecycleTypeOK'
        BY <1>1, <2>1, <3>1, <3>2
           DEF Find, LifecycleInv, LifecycleTypeOK, RegistryTypeOK, InFlight, agentRegistryVars
      <3>4. CallShape'
        BY <3>1, <3>2 DEF LifecycleInv, LifecycleTypeOK, CallShape, InFlight
      <3> QED BY <3>3, <3>4 DEF LifecycleInv
    <2>2. CASE call[c].agent \notin agents
      BY <1>1, <2>2, ThrowIInv DEF Find
    <2> QED BY <2>1, <2>2
  <1>2. CASE Check(c)
    <2>1. CASE IsValidTransition(GetAgentState(k.agent), Target[Head(k.todo)])
      <3>1. Head(k.todo) \in {"initialize", "start", "stop", "pause"}
        BY <1>0, <1>2 DEF Check, LifecycleInv, CallShape
      <3>2. Target[Head(k.todo)] \in AgentLifecycleState
        BY <3>1 DEF Target
      <3> QED BY <1>0, <1>2, <2>1, <3>1, <3>2, SMTT(30)
              DEF Check, SetState, LifecycleInv, LifecycleTypeOK, RegistryTypeOK, CallShape, InFlight,
                  agentRegistryVars
    <2>2. CASE ~IsValidTransition(GetAgentState(k.agent), Target[Head(k.todo)])
      BY <1>2, <2>2, ThrowIInv DEF Check
    <2> QED BY <2>1, <2>2
  <1>3. CASE CheckShutdown(c)
    <2>1. LifecycleTypeOK'
      BY <1>0, <1>3, ShutdownStepsShape
         DEF CheckShutdown, LifecycleInv, LifecycleTypeOK, RegistryTypeOK, InFlight, agentRegistryVars
    <2>2. CallShape'
      BY <1>0, <1>3, ShutdownStepsShape DEF CheckShutdown, LifecycleInv, LifecycleTypeOK, CallShape, InFlight
    <2> QED BY <2>1, <2>2 DEF LifecycleInv
  <1>4. CASE Resolve(c)
    <2> DEFINE rest == Tail(k.todo)
               next == [k EXCEPT !.todo = rest,
                                 !.at = IF Head(rest) = "agentShutdown" THEN "await" ELSE "find"]
    <2>1. k \in InFlight /\ k.todo # <<>> /\ Head(k.todo) \in Steps
      BY <1>0, <1>4 DEF Resolve
    <2>2. k.todo \in Seq(Steps) /\ k.agent \in Agents
      BY <2>1 DEF InFlight
    <2>3. /\ rest \in Seq(Steps)
          /\ \A i \in 1..Len(rest) : rest[i] # "shutdown"
      BY <1>4, <2>1, <2>2 DEF Resolve, LifecycleInv, CallShape
    <2>4. call' = [call EXCEPT ![c] = IF rest = <<>> THEN Idle ELSE next]
      BY <1>4 DEF Resolve
    <2>5. next \in InFlight
      BY <2>1, <2>3 DEF InFlight
    <2>6. Outcome(Head(k.todo), agentStates[k.agent]) \in AgentLifecycleState \cup {"none"}
      BY <2>1, <2>2 DEF Outcome, LifecycleInv, LifecycleTypeOK
    <2>7. LifecycleTypeOK'
      <3> HIDE DEF next
      <3> QED BY <1>4, <2>2, <2>4, <2>5, <2>6
              DEF Resolve, SetState, LifecycleInv, LifecycleTypeOK, RegistryTypeOK, agentRegistryVars
    <2>8. CallShape'
      <3>1. rest # <<>> => Head(rest) = rest[1] /\ 1 \in 1..Len(rest)
        BY <2>3
      <3>2. next.todo = rest /\ next.at = IF Head(rest) = "agentShutdown" THEN "await" ELSE "find"
        BY <2>1 DEF InFlight
      <3> HIDE DEF next, rest
      <3> QED BY <2>3, <2>4, <3>1, <3>2 DEF LifecycleInv, LifecycleTypeOK, CallShape, Idle
    <2> QED BY <2>7, <2>8 DEF LifecycleInv
  <1>5. CASE Reject(c)
    BY <1>0, <1>5 DEF Reject, SetState, LifecycleInv, LifecycleTypeOK, RegistryTypeOK, CallShape, Idle,
                      InFlight, agentRegistryVars
  <1> QED BY <1>1, <1>2, <1>3, <1>4, <1>5 DEF Advance

LEMMA RegistryIInv ==
    ASSUME LifecycleInv, RegistryNext, UNCHANGED lifecycleVars
    PROVE  LifecycleInv'
  <1>1. RegistryTypeOK'
    BY DEF RegistryNext, Register, RemoveBegin, RemoveEnd, LifecycleInv, LifecycleTypeOK, RegistryTypeOK
  <1> QED BY <1>1 DEF LifecycleInv, LifecycleTypeOK, CallShape, lifecycleVars

LEMMA NextLifecycle == LifecycleInv /\ [LifecycleNext]_agentVars => LifecycleInv'
  <1> SUFFICES ASSUME LifecycleInv, [LifecycleNext]_agentVars PROVE LifecycleInv'
    OBVIOUS
  <1>1. CASE UNCHANGED agentVars
    BY <1>1 DEF agentVars, agentRegistryVars, lifecycleVars, LifecycleInv, LifecycleTypeOK, RegistryTypeOK, CallShape
  <1>2. CASE LifecycleNext
    BY <1>2, BeginIInv, AdvanceIInv, RegistryIInv DEF LifecycleNext
  <1> QED BY <1>1, <1>2

\* Type correctness of the registry and the lifecycle manager: the map of states
\* holds lifecycle states only, and a call in flight has a step to carry out.
THEOREM StatesCorrect == LifecycleSpec => []LifecycleTypeOK
  <1>1. LifecycleInv => LifecycleTypeOK
    BY DEF LifecycleInv
  <1> QED BY <1>1, InitLifecycle, NextLifecycle, PTL DEF LifecycleSpec

-----------------------------------------------------------------------------
(* No transient state without the call that will leave it.                 *)

LEMMA AdvanceNoOrphan ==
    ASSUME LifecycleInv, NoOrphanTransient, NEW c \in Calls, Advance(c)
    PROVE  NoOrphanTransient'
  <1> DEFINE k == call[c]
             b == call[c].agent
  <1>0. call \in [Calls -> InFlight \cup {Idle}] /\ agentStates \in [Agents -> AgentLifecycleState \cup {"none"}]
    BY DEF LifecycleInv, LifecycleTypeOK
  <1>1. k.at # "idle" /\ k \in InFlight /\ b \in Agents
    BY <1>0 DEF Advance, Find, Check, CheckShutdown, Resolve, Reject, InFlight, Idle
  <1>2. \A d \in Calls : d # c => call'[d] = call[d]
    BY <1>0 DEF Advance, Find, Check, CheckShutdown, Resolve, Reject, Throw
  <1>3. \A a \in Agents : a # b => agentStates'[a] = agentStates[a]
    BY <1>0, <1>1 DEF Advance, Find, Check, CheckShutdown, Resolve, Reject, Throw, SetState
  <1>4. ASSUME NEW a \in Agents, NEW step \in {"initialize", "stop"}, NEW d \in Calls,
               Working(d, a, step), agentStates'[a] = Target[step]
        PROVE  Working(d, a, step)'
    <2>1. CASE d # c
      BY <1>2, <1>4, <2>1 DEF Working
    <2>2. CASE d = c
      <3>1. k.at = "await" /\ b = a /\ Head(k.todo) = step
        BY <1>4, <2>2 DEF Working
      <3>2. Resolve(c) \/ Reject(c)
        BY <3>1 DEF Advance, Find, Check, CheckShutdown
      <3>3. agentStates'[a] \in {"READY", "STOPPED", "FAILED"}
        BY <1>0, <1>4, <3>1, <3>2 DEF Resolve, Reject, SetState, Outcome
      <3> QED BY <1>4, <3>3 DEF Target
    <2> QED BY <2>1, <2>2
  <1>5. ASSUME NEW a \in Agents, a = b, NEW step \in {"initialize", "stop"},
               agentStates'[a] = Target[step], agentStates[a] # Target[step]
        PROVE  Working(c, a, step)'
    <2>1. Check(c)
      BY <1>0, <1>1, <1>5 DEF Advance, Find, CheckShutdown, Resolve, Reject, Throw, SetState,
                              Outcome, Target
    <2>2. IsValidTransition(GetAgentState(b), Target[Head(k.todo)])
      BY <1>0, <1>1, <1>5, <2>1 DEF Check, Throw, SetState, Target
    <2>3. /\ agentStates'[b] = Target[Head(k.todo)]
          /\ call' = [call EXCEPT ![c].at = "await"]
      BY <1>0, <1>1, <2>1, <2>2 DEF Check, SetState
    <2>4. Head(k.todo) \in {"initialize", "start", "stop", "pause"}
      BY <1>1, <2>1 DEF Check, LifecycleInv, CallShape, InFlight
    <2>5. Head(k.todo) = step
      BY <1>5, <2>3, <2>4 DEF Target
    <2> QED BY <1>0, <1>1, <1>5, <2>3, <2>5 DEF Working, InFlight
  <1>6. ASSUME NEW a \in Agents, NEW step \in {"initialize", "stop"},
               agentStates'[a] = Target[step]
        PROVE  \E d \in Calls : Working(d, a, step)'
    <2>1. CASE agentStates[a] = Target[step]
      <3>1. PICK d \in Calls : Working(d, a, step)
        BY <2>1 DEF NoOrphanTransient, Target
      <3> QED BY <1>4, <1>6, <3>1
    <2>2. CASE agentStates[a] # Target[step]
      <3>1. a = b
        BY <1>3, <1>6, <2>2
      <3> QED BY <1>5, <1>6, <2>2, <3>1
    <2> QED BY <2>1, <2>2
  <1> QED BY <1>6 DEF NoOrphanTransient, Target

LEMMA NextNoOrphan == LifecycleInv /\ NoOrphanTransient /\ [LifecycleNext]_agentVars => NoOrphanTransient'
  <1> SUFFICES ASSUME LifecycleInv, NoOrphanTransient, [LifecycleNext]_agentVars PROVE NoOrphanTransient'
    OBVIOUS
  <1>1. CASE UNCHANGED lifecycleVars
    BY <1>1 DEF lifecycleVars, NoOrphanTransient, Working
  <1>2. ASSUME NEW c \in Calls, NEW a \in Agents, NEW op \in Operations, Begin(c, a, op)
        PROVE  NoOrphanTransient'
    <2>1. \A d \in Calls : call[d].at = "await" => call'[d] = call[d]
      BY <1>2 DEF Begin, Idle, LifecycleInv, LifecycleTypeOK
    <2> QED BY <1>2, <2>1 DEF Begin, NoOrphanTransient, Working
  <1> QED BY <1>1, <1>2, AdvanceNoOrphan DEF LifecycleNext, agentVars, lifecycleVars

\* No overlap of lifecycle calls strands an agent in INITIALIZING or STOPPING.
THEOREM NoOrphan == LifecycleSpec => []NoOrphanTransient
  <1>1. LifecycleInit => NoOrphanTransient
    BY DEF LifecycleInit, NoOrphanTransient
  <1> QED BY <1>1, InitLifecycle, NextLifecycle, NextNoOrphan, PTL DEF LifecycleSpec

-----------------------------------------------------------------------------
(* Only initialised agents run.                                            *)

LEMMA AdvanceLive ==
    ASSUME LifecycleInv, LiveWasInitialized, NEW c \in Calls, Advance(c)
    PROVE  LiveWasInitialized'
  <1> DEFINE k == call[c]
             b == call[c].agent
             Running == {"READY", "RUNNING", "PAUSED", "STOPPING"}
  <1>0. call \in [Calls -> InFlight \cup {Idle}] /\ agentStates \in [Agents -> AgentLifecycleState \cup {"none"}]
    BY DEF LifecycleInv, LifecycleTypeOK
  <1>1. k \in InFlight /\ b \in Agents
    BY <1>0 DEF Advance, Find, Check, CheckShutdown, Resolve, Reject, InFlight, Idle
  <1>2. \A a \in Agents : a # b => agentStates'[a] = agentStates[a]
    BY <1>0, <1>1 DEF Advance, Find, Check, CheckShutdown, Resolve, Reject, Throw, SetState
  <1>3. initialized \subseteq initialized'
    BY DEF Advance, Find, Check, CheckShutdown, Resolve, Reject
  <1>4. agentStates'[b] \in Running => b \in initialized'
    <2>1. CASE Check(c)
      <3>1. Head(k.todo) \in {"initialize", "start", "stop", "pause"}
        BY <1>1, <2>1 DEF Check, LifecycleInv, CallShape, InFlight
      <3>2. agentStates'[b] \in {"FAILED", agentStates[b], Target[Head(k.todo)]}
        BY <1>0, <1>1, <2>1 DEF Check, Throw, SetState
      <3>3. agentStates'[b] = Target[Head(k.todo)] /\ agentStates'[b] # agentStates[b]
               /\ agentStates'[b] # "FAILED"
               => Target[Head(k.todo)] \in ValidTransitions[GetAgentState(b)]
        BY <1>0, <1>1, <2>1 DEF Check, Throw, SetState, IsValidTransition
      <3>4. Target[Head(k.todo)] \in Running /\ Target[Head(k.todo)] \in ValidTransitions[GetAgentState(b)]
               => agentStates[b] \in Running
        BY <1>0, <1>1, <3>1 DEF Target, ValidTransitions, GetAgentState
      <3> QED BY <1>1, <1>3, <3>2, <3>3, <3>4 DEF LiveWasInitialized
    <2>2. CASE Resolve(c)
      BY <1>0, <1>1, <1>3, <2>2 DEF Resolve, SetState, Outcome, LiveWasInitialized
    <2>3. CASE Find(c) \/ CheckShutdown(c) \/ Reject(c)
      BY <1>0, <1>1, <1>3, <2>3 DEF Find, CheckShutdown, Reject, Throw, SetState, LiveWasInitialized
    <2> QED BY <2>1, <2>2, <2>3 DEF Advance
  <1> QED BY <1>2, <1>3, <1>4 DEF LiveWasInitialized

LEMMA NextLive == LifecycleInv /\ LiveWasInitialized /\ [LifecycleNext]_agentVars => LiveWasInitialized'
  <1> SUFFICES ASSUME LifecycleInv, LiveWasInitialized, [LifecycleNext]_agentVars PROVE LiveWasInitialized'
    OBVIOUS
  <1>1. CASE UNCHANGED <<agentStates, initialized>>
    BY <1>1 DEF LiveWasInitialized
  <1>2. CASE \E c \in Calls : Advance(c)
    BY <1>2, AdvanceLive
  <1> QED BY <1>1, <1>2 DEF LifecycleNext, agentVars, lifecycleVars, Begin

\* No agent is ready, runs or is paused that was not initialised.
THEOREM LiveInitialized == LifecycleSpec => []LiveWasInitialized
  <1>1. LifecycleInit => LiveWasInitialized
    BY DEF LifecycleInit, LiveWasInitialized
  <1> QED BY <1>1, InitLifecycle, NextLifecycle, NextLive, PTL DEF LifecycleSpec

-----------------------------------------------------------------------------
(* State changes follow the transition table.                              *)

\* Only shutdown calls the agent's shutdown.
ShutdownOnly ==
    \A c \in Calls :
       call[c].at # "idle" /\ call[c].op # "shutdown" =>
          \A i \in 1..Len(call[c].todo) : call[c].todo[i] \notin {"agentShutdown", "shutdown"}

\* On an agent that was not disturbed no shutdown is in flight, and a call that
\* initialises or stops it is alone in doing so and finds the state it has written.
Exclusive ==
    \A a \in Agents \ disturbed : \A c \in Calls :
       /\ call[c].at # "idle" /\ call[c].agent = a => call[c].op # "shutdown"
       /\ \A step \in {"initialize", "stop"} :
             Working(c, a, step) =>
                /\ agentStates[a] = Target[step]
                /\ \A d \in Calls : Working(d, a, "initialize") \/ Working(d, a, "stop") => d = c

XInv == LifecycleInv /\ ShutdownOnly /\ Exclusive

LEMMA AdvanceFrame ==
    ASSUME LifecycleInv, NEW c \in Calls, Advance(c)
    PROVE  /\ call \in [Calls -> InFlight \cup {Idle}]
           /\ agentStates \in [Agents -> AgentLifecycleState \cup {"none"}]
           /\ call[c].at # "idle" /\ call[c] \in InFlight /\ call[c].agent \in Agents
           /\ call[c].todo \in Seq(Steps) /\ call[c].todo # <<>>
           /\ Head(call[c].todo) = call[c].todo[1] /\ 1 \in 1..Len(call[c].todo)
           /\ call' \in [Calls -> InFlight \cup {Idle}]
           /\ \A d \in Calls : d # c => call'[d] = call[d]
           /\ call'[c] = Idle \/ (call'[c].op = call[c].op /\ call'[c].agent = call[c].agent)
           /\ \A a \in Agents : a # call[c].agent => agentStates'[a] = agentStates[a]
           /\ disturbed \subseteq disturbed'
  <1> DEFINE k == call[c]
  <1>0. call \in [Calls -> InFlight \cup {Idle}] /\ agentStates \in [Agents -> AgentLifecycleState \cup {"none"}]
    BY DEF LifecycleInv, LifecycleTypeOK
  <1>1. k.at # "idle" /\ k \in InFlight /\ k.agent \in Agents
    BY <1>0 DEF Advance, Find, Check, CheckShutdown, Resolve, Reject, InFlight, Idle
  <1>2. k.todo \in Seq(Steps) /\ k.todo # <<>>
    BY <1>1 DEF LifecycleInv, CallShape, InFlight
  <1>3. Head(k.todo) = k.todo[1] /\ 1 \in 1..Len(k.todo)
    BY <1>2
  <1>4. call' \in [Calls -> InFlight \cup {Idle}]
    BY AdvanceIInv DEF LifecycleInv, LifecycleTypeOK
  <1>5. \A d \in Calls : d # c => call'[d] = call[d]
    BY <1>0 DEF Advance, Find, Check, CheckShutdown, Resolve, Reject, Throw
  <1>6. call'[c] = Idle \/ (call'[c].op = k.op /\ call'[c].agent = k.agent)
    <2>1. CASE Find(c)
      BY <1>0, <1>1, <2>1 DEF Find, Throw, InFlight
    <2>2. CASE Check(c)
      BY <1>0, <1>1, <2>2 DEF Check, Throw, InFlight
    <2>3. CASE CheckShutdown(c)
      BY <1>0, <1>1, <2>3 DEF CheckShutdown, InFlight
    <2>4. CASE Resolve(c)
      BY <1>0, <1>1, <2>4 DEF Resolve, InFlight
    <2>5. CASE Reject(c)
      BY <1>0, <2>5 DEF Reject
    <2> QED BY <2>1, <2>2, <2>3, <2>4, <2>5 DEF Advance
  <1>7. \A a \in Agents : a # k.agent => agentStates'[a] = agentStates[a]
    BY <1>0, <1>1 DEF Advance, Find, Check, CheckShutdown, Resolve, Reject, Throw, SetState
  <1>8. disturbed \subseteq disturbed'
    BY DEF Advance, Find, Check, CheckShutdown, Resolve, Reject
  <1> QED BY <1>0, <1>1, <1>2, <1>3, <1>4, <1>5, <1>6, <1>7, <1>8

LEMMA AdvanceShutdownOnly ==
    ASSUME LifecycleInv, ShutdownOnly, NEW c \in Calls, Advance(c)
    PROVE  ShutdownOnly'
  <1> DEFINE k == call[c]
  <1> SUFFICES ASSUME call'[c].at # "idle", call'[c].op # "shutdown",
                      NEW i \in 1..Len(call'[c].todo)
               PROVE  call'[c].todo[i] \notin {"agentShutdown", "shutdown"}
    BY AdvanceFrame DEF ShutdownOnly
  <1>1. k.op # "shutdown" /\ k \in InFlight
    BY AdvanceFrame DEF Idle
  <1>2. \A j \in 1..Len(k.todo) : k.todo[j] \notin {"agentShutdown", "shutdown"}
    BY <1>1, AdvanceFrame DEF ShutdownOnly
  <1>3. CASE call'[c].todo = k.todo
    BY <1>2, <1>3
  <1>4. CASE call'[c].todo = Tail(k.todo)
    BY <1>2, <1>4, AdvanceFrame
  <1>5. call'[c].todo \in {k.todo, Tail(k.todo)}
    <2>1. ~CheckShutdown(c)
      BY <1>2, AdvanceFrame DEF CheckShutdown
    <2>2. call'[c] # Idle
      BY DEF Idle
    <2>3. CASE Find(c)
      BY <1>1, <2>2, <2>3, AdvanceFrame DEF Find, Throw, InFlight
    <2>4. CASE Check(c)
      BY <1>1, <2>2, <2>4, AdvanceFrame DEF Check, Throw, InFlight
    <2>5. CASE Resolve(c)
      BY <1>1, <2>2, <2>5, AdvanceFrame DEF Resolve, InFlight
    <2>6. ~Reject(c)
      BY <2>2, AdvanceFrame DEF Reject
    <2> QED BY <2>1, <2>3, <2>4, <2>5, <2>6 DEF Advance
  <1> QED BY <1>3, <1>4, <1>5

\* A step of a call on an agent that stays undisturbed either leaves its state or
\* moves it along the table; and it keeps the agent's calls exclusive.
LEMMA AdvanceExclusive ==
    ASSUME XInv, NEW c \in Calls, Advance(c), call[c].agent \notin disturbed'
    PROVE  LET b == call[c].agent
               step == Head(call[c].todo)
           IN  \/ /\ agentStates'[b] = agentStates[b]
                  /\ ~Working(c, b, "initialize") /\ ~Working(c, b, "stop")
                  /\ \A s \in {"initialize", "stop"} : call'[c].at = "await" => Head(call'[c].todo) # s
               \/ /\ call[c].at = "check" /\ step \in {"initialize", "start", "stop", "pause"}
                  /\ agentStates'[b] = Target[step]
                  /\ Target[step] \in ValidTransitions[GetAgentState(b)]
                  /\ call'[c] = [call[c] EXCEPT !.at = "await"]
               \/ /\ Working(c, b, "initialize") /\ agentStates'[b] \in {"READY", "FAILED"}
                  /\ call'[c].at # "await"
               \/ /\ Working(c, b, "stop") /\ agentStates'[b] \in {"STOPPED", "FAILED"}
                  /\ call'[c].at # "await"
  <1> DEFINE k == call[c]
             b == call[c].agent
             step == Head(call[c].todo)
  <1>0. LifecycleInv /\ ShutdownOnly /\ Exclusive
    BY DEF XInv
  <1>a. k \in InFlight /\ k.at # "idle" /\ b \in Agents \ disturbed
    BY <1>0, AdvanceFrame
  <1>b. k.op # "shutdown"
    BY <1>0, <1>a DEF Exclusive
  <1>c. \A j \in 1..Len(k.todo) : k.todo[j] \notin {"agentShutdown", "shutdown"}
    BY <1>0, <1>a, <1>b DEF ShutdownOnly
  <1>d. step = k.todo[1] /\ 1 \in 1..Len(k.todo) /\ k.todo \in Seq(Steps) /\ k.todo # <<>>
    BY <1>0, AdvanceFrame
  <1>1. /\ k \in InFlight /\ b \in Agents \ disturbed /\ k.op # "shutdown"
        /\ step \in Steps \ {"agentShutdown", "shutdown"}
        /\ k.todo \in Seq(Steps) /\ k.todo # <<>>
        /\ \A j \in 1..Len(k.todo) : k.todo[j] # "agentShutdown"
    BY <1>a, <1>b, <1>c, <1>d
  <1>2. CASE Find(c)
    BY <1>0, <1>1, <1>2, AdvanceFrame DEF Find, Throw, SetState, Working, Idle, InFlight
  <1>3. CASE Check(c)
    BY <1>0, <1>1, <1>3, AdvanceFrame
       DEF Check, Throw, SetState, Working, Idle, InFlight, IsValidTransition
  <1>4. CASE CheckShutdown(c)
    BY <1>1, <1>4 DEF CheckShutdown
  <1>5. CASE Resolve(c)
    <2>1. Tail(k.todo) # <<>> => Head(Tail(k.todo)) # "agentShutdown"
      BY <1>1
    <2>2. call'[c].at # "await"
      BY <1>0, <1>1, <1>5, <2>1, AdvanceFrame DEF Resolve, Idle, InFlight
    <2>3. agentStates'[b] = Outcome(step, agentStates[b])
      BY <1>0, <1>1, <1>5, AdvanceFrame DEF Resolve, SetState
    <2>4. CASE step \in {"start", "pause"}
      BY <1>5, <2>2, <2>3, <2>4 DEF Resolve, Outcome, Working
    <2>5. CASE step = "initialize"
      BY <1>5, <2>2, <2>3, <2>5 DEF Resolve, Outcome, Working
    <2>6. CASE step = "stop"
      BY <1>5, <2>2, <2>3, <2>6 DEF Resolve, Outcome, Working
    <2> QED BY <1>1, <2>4, <2>5, <2>6
  <1>6. CASE Reject(c)
    BY <1>0, <1>1, <1>6, AdvanceFrame DEF Reject, SetState, Working, Idle
  <1> QED BY <1>2, <1>3, <1>4, <1>5, <1>6 DEF Advance

LEMMA AdvanceXInv ==
    ASSUME XInv, NEW c \in Calls, Advance(c)
    PROVE  XInv'
  <1> DEFINE k == call[c]
             Busy(d, a) == Working(d, a, "initialize") \/ Working(d, a, "stop")
  <1>0. LifecycleInv /\ ShutdownOnly /\ Exclusive
    BY DEF XInv
  <1>1. LifecycleInv' /\ ShutdownOnly'
    BY <1>0, AdvanceIInv, AdvanceShutdownOnly
  <1>2. SUFFICES ASSUME NEW a \in Agents \ disturbed', NEW d \in Calls
                 PROVE  /\ (call[d].at # "idle" /\ call[d].agent = a => call[d].op # "shutdown")'
                        /\ \A step \in {"initialize", "stop"} :
                              Working(d, a, step)' =>
                                 /\ agentStates'[a] = Target[step]
                                 /\ \A e \in Calls : Busy(e, a)' => e = d
    BY <1>1 DEF XInv, Exclusive
  <1>3. a \in Agents \ disturbed
    BY <1>0, AdvanceFrame
  <1>4. (call[d].at # "idle" /\ call[d].agent = a => call[d].op # "shutdown")'
    BY <1>0, <1>3, AdvanceFrame DEF Exclusive, Idle
  <1>5. \A e \in Calls : e # c => (Busy(e, a)' <=> Busy(e, a))
    BY <1>0, AdvanceFrame DEF Working
  <1>6. \A e \in Calls, step \in {"initialize", "stop"} :
           e # c => (Working(e, a, step)' <=> Working(e, a, step))
    BY <1>0, AdvanceFrame DEF Working
  <1>7. \A e \in Calls, step \in {"initialize", "stop"} :
           Working(e, a, step) => /\ agentStates[a] = Target[step]
                                  /\ \A f \in Calls : Busy(f, a) => f = e
    BY <1>0, <1>3 DEF Exclusive
  <1>8. CASE a # k.agent
    <2>1. ~Busy(c, a) /\ ~Busy(c, a)' /\ agentStates'[a] = agentStates[a]
      BY <1>0, <1>3, <1>8, AdvanceFrame DEF Working, Idle
    <2> QED BY <1>4, <1>5, <1>6, <1>7, <2>1
  <1>9. CASE a = k.agent /\ ~Busy(c, a) /\ agentStates'[a] = agentStates[a] /\ ~Busy(c, a)'
    BY <1>4, <1>5, <1>6, <1>7, <1>9
  <1>10. CASE Busy(c, a) /\ call'[c].at # "await"
    <2>1. \A e \in Calls : ~Busy(e, a)'
      BY <1>5, <1>7, <1>10 DEF Working
    <2> QED BY <1>4, <2>1
  <1>11. ASSUME a = k.agent, k.at = "check",
                NEW s \in {"initialize", "start", "stop", "pause"}, s = Head(k.todo),
                agentStates'[a] = Target[s], Target[s] \in ValidTransitions[GetAgentState(a)],
                call'[c] = [k EXCEPT !.at = "await"]
         PROVE  \A step \in {"initialize", "stop"} :
                   Working(d, a, step)' => /\ agentStates'[a] = Target[step]
                                           /\ \A e \in Calls : Busy(e, a)' => e = d
    <2>1. \A e \in Calls : ~Busy(e, a)
      BY <1>7, <1>11 DEF ValidTransitions, GetAgentState, Target
    <2>2. \A e \in Calls : Busy(e, a)' => e = c
      BY <1>5, <2>1
    <2>3. \A step \in {"initialize", "stop"} : Working(c, a, step)' => step = s
      BY <1>0, <1>11, AdvanceFrame DEF Working, InFlight
    <2> QED BY <1>11, <2>2, <2>3
  <1>12. CASE a = k.agent
    <2>1. ASSUME NEW s \in {"initialize", "stop"}, call'[c].at = "await" => Head(call'[c].todo) # s
          PROVE  ~Working(c, a, s)'
      BY <2>1 DEF Working
    <2> QED BY <1>3, <1>4, <1>9, <1>10, <1>11, <1>12, <2>1, AdvanceExclusive
  <1> QED BY <1>8, <1>12

LEMMA NextXInv == XInv /\ [LifecycleNext]_agentVars => XInv'
  <1> SUFFICES ASSUME XInv, [LifecycleNext]_agentVars PROVE XInv'
    OBVIOUS
  <1>0. LifecycleInv /\ ShutdownOnly /\ Exclusive /\ LifecycleInv'
    BY NextLifecycle DEF XInv
  <1>1. CASE UNCHANGED lifecycleVars
    BY <1>0, <1>1 DEF lifecycleVars, XInv, ShutdownOnly, Exclusive, Working
  <1>2. ASSUME NEW c \in Calls, NEW a \in Agents, NEW op \in Operations, Begin(c, a, op)
        PROVE  XInv'
    <2>1. /\ call[c] = Idle
          /\ call' = [call EXCEPT ![c] = [at |-> "find", op |-> op, agent |-> a, todo |-> StepsOf(a, op)]]
          /\ call \in [Calls -> InFlight \cup {Idle}]
          /\ UNCHANGED agentStates
          /\ disturbed \subseteq disturbed' /\ (op = "shutdown" => a \in disturbed')
      BY <1>0, <1>2 DEF Begin, LifecycleInv, LifecycleTypeOK
    <2>2. op # "shutdown" => \A i \in 1..Len(StepsOf(a, op)) :
                                StepsOf(a, op)[i] \notin {"agentShutdown", "shutdown"}
      <3>1. CASE op = "restart" /\ Live(a)
        BY <3>1 DEF StepsOf
      <3>2. CASE op = "restart" /\ ~Live(a)
        BY <3>2 DEF StepsOf
      <3>3. CASE op = "resume"
        BY <3>3 DEF StepsOf
      <3>4. CASE op \notin {"restart", "resume", "shutdown"}
        BY <3>4 DEF StepsOf
      <3> QED BY <3>1, <3>2, <3>3, <3>4
    <2>3. ShutdownOnly'
      BY <1>0, <2>1, <2>2 DEF ShutdownOnly
    <2>4. \A d \in Calls, b \in Agents, step \in {"initialize", "stop"} :
             Working(d, b, step)' <=> Working(d, b, step)
      BY <2>1 DEF Working, Idle
    <2>5. Exclusive'
      <3>1. \A d \in Calls : d # c => call'[d] = call[d]
        BY <2>1
      <3>2. call'[c].agent = a /\ call'[c].op = op
        BY <2>1
      <3> QED BY <1>0, <2>1, <2>4, <3>1, <3>2 DEF Exclusive
    <2> QED BY <1>0, <2>3, <2>5 DEF XInv
  <1> QED BY <1>1, <1>2, AdvanceXInv DEF LifecycleNext, agentVars, lifecycleVars

LEMMA NextFollowsTable ==
    ASSUME XInv, [LifecycleNext]_agentVars, NEW a \in Agents, agentStates'[a] # agentStates[a],
           a \notin disturbed'
    PROVE  agentStates'[a] \in ValidTransitions[GetAgentState(a)]
  <1>0. LifecycleInv /\ Exclusive
    BY DEF XInv
  <1>1. PICK c \in Calls : Advance(c)
    BY DEF LifecycleNext, agentVars, lifecycleVars, Begin
  <1>2. a = call[c].agent
    BY <1>0, <1>1, AdvanceFrame
  <1>3. a \notin disturbed
    BY <1>0, <1>1, AdvanceFrame
  <1>4. CASE Working(c, a, "initialize") /\ agentStates'[a] \in {"READY", "FAILED"}
    BY <1>0, <1>3, <1>4 DEF Exclusive, Target, ValidTransitions, GetAgentState
  <1>5. CASE Working(c, a, "stop") /\ agentStates'[a] \in {"STOPPED", "FAILED"}
    BY <1>0, <1>3, <1>5 DEF Exclusive, Target, ValidTransitions, GetAgentState
  <1> QED BY <1>1, <1>2, <1>4, <1>5, AdvanceExclusive

\* Any overlap of lifecycle calls moves an agent along validTransitions only, as
\* long as it is not shut down and no start or pause of it fails late.
THEOREM FollowsTable == LifecycleSpec => TransitionsFollowTable
  <1>1. LifecycleInit => XInv
    BY InitLifecycle DEF XInv, LifecycleInit, ShutdownOnly, Exclusive, Working, Idle
  <1>2. XInv /\ [LifecycleNext]_agentVars =>
           [\A a \in Agents : agentStates'[a] # agentStates[a] =>
               \/ a \in disturbed'
               \/ agentStates'[a] \in ValidTransitions[GetAgentState(a)]]_agentVars
    BY NextFollowsTable
  <1> QED BY <1>1, <1>2, NextXInv, PTL DEF LifecycleSpec, TransitionsFollowTable
=============================================================================
