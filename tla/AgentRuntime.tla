---------------------------- MODULE AgentRuntime ----------------------------
(***************************************************************************)
(* The agent runtime (agents/runtime/agent-runtime.ts), its execution      *)
(* registry (execution-registry.ts) and the executor it drives             *)
(* (agents/executor/agent-executor.ts).  A request is a process: one call  *)
(* of executeAgent, made by executeBatch behind the batch's semaphore.     *)
(* (Requests that the semaphore admits at once run as direct calls of      *)
(* executeAgent do.)  Each action runs from one await to the next.         *)
(***************************************************************************)
EXTENDS Naturals, Sequences, FiniteSets, SequencesExt

CONSTANTS
    BatchRequests,  \* the requests of the batch, in order
    Limit,          \* its maxConcurrency (0 is replaced by 5 in the code)
    FailFast,       \* its failFast flag
    Timed,          \* requests with a timeout
    Cancellers      \* concurrent calls of cancelExecution

Requests == ToSet(BatchRequests)

ASSUME RuntimeAssumption ==
    /\ Limit \in Nat \ {0}
    /\ BatchRequests \in Seq(Requests)
    /\ \A i, j \in DOMAIN BatchRequests : BatchRequests[i] = BatchRequests[j] => i = j
    /\ FailFast \in BOOLEAN
    /\ "none" \notin Requests

VARIABLES
    at,                 \* where each request is
    executions,         \* the execution registry: status per execution, or "none"
    activeExecutions,   \* the registry's set of active executions
    aborted,            \* executions whose abort controller has fired
    result,             \* the status executor.execute returned
    count, waitQueue,   \* the batch's semaphore
    results, errors,    \* the batch's requests that returned, and those in error
    batchResult,        \* "none", then what executeBatch returned
    cancelling          \* per call of cancelExecution: the execution, or "none"

registryVars == <<executions, activeExecutions>>
batchVars == <<count, waitQueue, results, errors, batchResult>>
runtimeVars == <<at, registryVars, aborted, result, batchVars, cancelling>>

ExecutionStatus == {"PENDING", "RUNNING", "COMPLETED", "FAILED", "CANCELLED", "TIMEOUT"}
ActiveStatus == {"PENDING", "RUNNING"}
Places == {"idle", "queued", "admitted", "registered", "validating", "executing",
           "finishing", "failing", "returned", "rejected", "done"}

RuntimeTypeOK ==
    /\ at \in [Requests -> Places]
    /\ executions \in [Requests -> ExecutionStatus \cup {"none"}]
    /\ activeExecutions \in SUBSET Requests
    /\ aborted \in SUBSET Requests
    /\ result \in [Requests -> ExecutionStatus \cup {"none"}]
    /\ count \in 0..Limit
    /\ waitQueue \in Seq(Requests)
    /\ results \in SUBSET Requests
    /\ errors \in SUBSET Requests
    /\ batchResult \in {"none", "success", "failure"}
    /\ cancelling \in [Cancellers -> Requests \cup {"none"}]

-----------------------------------------------------------------------------
(* The execution registry.                                                 *)

\* register, and update of an execution that is present.
UpdateExecution(e, status) ==
    /\ executions' = [executions EXCEPT ![e] = status]
    /\ activeExecutions' = IF status \in ActiveStatus
                           THEN activeExecutions \cup {e} ELSE activeExecutions \ {e}

Known(e) == executions[e] # "none"

\* cleanup(maxAge): the inactive executions that finished before the cutoff.
\* Times are not modelled: any of them may have.
Cleanup(old) ==
    /\ old \subseteq {e \in Requests : Known(e)} \ activeExecutions
    /\ executions' = [e \in Requests |-> IF e \in old THEN "none" ELSE executions[e]]
    /\ UNCHANGED <<at, activeExecutions, aborted, result, batchVars, cancelling>>

-----------------------------------------------------------------------------
(* The semaphore.  A release hands its slot to the first waiter, whose     *)
(* acquire then resolves; the count changes only when nobody waits.        *)

MoveTo(e, place) == at' = [at EXCEPT ![e] = place]

\* Mutant: the limit itself is let through.
Admitted_OffByOne == IF Len(BatchRequests) < Limit THEN Len(BatchRequests) ELSE Limit + 1

\* How many of the requests acquire finds a slot for.
Admitted == IF Len(BatchRequests) < Limit THEN Len(BatchRequests) ELSE Limit

\* The requests are mapped to promises in order, each running up to its acquire.
StartBatch ==
    /\ batchResult = "none"
    /\ \A e \in Requests : at[e] = "idle"
    /\ at' = [e \in Requests |->
                IF e \in ToSet(SubSeq(BatchRequests, 1, Admitted)) THEN "admitted" ELSE "queued"]
    /\ count' = Admitted
    /\ waitQueue' = SubSeq(BatchRequests, Admitted + 1, Len(BatchRequests))
    /\ UNCHANGED <<registryVars, aborted, result, results, errors, batchResult, cancelling>>

\* Mutant: the slot goes back without a look at the queue; mutant: the slot is
\* handed over and given back as well.
ReleaseSlot_NoHandOver(e) ==
    at' = [at EXCEPT ![e] = "done"] /\ count' = count - 1 /\ UNCHANGED waitQueue
ReleaseSlot_Both(e) ==
    /\ count' = count - 1
    /\ IF waitQueue = <<>>
       THEN at' = [at EXCEPT ![e] = "done"] /\ UNCHANGED waitQueue
       ELSE /\ at' = [at EXCEPT ![e] = "done", ![Head(waitQueue)] = "admitted"]
            /\ waitQueue' = Tail(waitQueue)

ReleaseSlot(e) ==
    IF waitQueue = <<>>
    THEN at' = [at EXCEPT ![e] = "done"] /\ count' = count - 1 /\ UNCHANGED waitQueue
    ELSE /\ at' = [at EXCEPT ![e] = "done", ![Head(waitQueue)] = "admitted"]
         /\ waitQueue' = Tail(waitQueue)
         /\ UNCHANGED count

\* Is this request's outcome pushed to the batch's errors?
InError(e) == at[e] = "rejected" \/ (FailFast /\ result[e] # "COMPLETED")

\* The rest of executeRequest: the outcome is recorded and the slot released.
\* With failFast the error is thrown on, but only into Promise.allSettled.
Settle(e) ==
    /\ at[e] \in {"returned", "rejected"}
    /\ results' = IF at[e] = "returned" THEN results \cup {e} ELSE results
    /\ errors' = IF InError(e) THEN errors \cup {e} ELSE errors
    /\ ReleaseSlot(e)
    /\ UNCHANGED <<registryVars, aborted, result, batchResult, cancelling>>

\* Mutant: results that came back without success are not looked at.
BatchSucceeded_NoErrors == errors = {}

BatchSucceeded == errors = {} /\ \A e \in results : result[e] = "COMPLETED"

EndBatch ==
    /\ batchResult = "none"
    /\ \A e \in Requests : at[e] = "done"
    /\ batchResult' = IF BatchSucceeded THEN "success" ELSE "failure"
    /\ UNCHANGED <<at, registryVars, aborted, result, count, waitQueue, results, errors,
                   cancelling>>

-----------------------------------------------------------------------------
(* executeAgent and executor.execute.                                      *)

RegisterExecution(e) ==
    /\ at[e] = "admitted"
    /\ UpdateExecution(e, "PENDING")
    /\ MoveTo(e, "registered")
    /\ UNCHANGED <<aborted, result, batchVars, cancelling>>

\* The agent was looked up; found, the status becomes RUNNING.  update throws
\* when a cancelled execution has been cleaned up meanwhile.
FindAgent(e) ==
    /\ at[e] = "registered"
    /\ \/ MoveTo(e, "failing") /\ UNCHANGED registryVars         \* no such agent
       \/ ~Known(e) /\ MoveTo(e, "failing") /\ UNCHANGED registryVars
       \/ Known(e) /\ UpdateExecution(e, "RUNNING") /\ MoveTo(e, "validating")
    /\ UNCHANGED <<aborted, result, batchVars, cancelling>>

\* executor.validate, then the caller's cancellation token is looked at once.
Validate(e) ==
    /\ at[e] = "validating"
    /\ \/ MoveTo(e, "failing") /\ UNCHANGED result               \* gone or unhealthy
       \/ MoveTo(e, "finishing") /\ result' = [result EXCEPT ![e] = "CANCELLED"]
       \/ MoveTo(e, "executing") /\ UNCHANGED result
    /\ UNCHANGED <<registryVars, aborted, batchVars, cancelling>>

\* The executor's timer.
TimeoutFires(e) ==
    /\ at[e] = "executing"
    /\ e \in Timed
    /\ aborted' = aborted \cup {e}
    /\ UNCHANGED <<at, registryVars, result, batchVars, cancelling>>

\* The agent's work is over; an abort seen now is a cancellation, whoever
\* caused it.
AgentReturns(e) ==
    /\ at[e] = "executing"
    /\ result' = [result EXCEPT ![e] = IF e \in aborted THEN "CANCELLED" ELSE "COMPLETED"]
    /\ MoveTo(e, "finishing")
    /\ UNCHANGED <<registryVars, aborted, batchVars, cancelling>>

\* The final status is stored over whatever a cancellation has written.
Finish(e) ==
    /\ at[e] = "finishing"
    /\ IF Known(e)
       THEN UpdateExecution(e, result[e]) /\ MoveTo(e, "returned")
       ELSE MoveTo(e, "failing") /\ UNCHANGED registryVars
    /\ UNCHANGED <<aborted, result, batchVars, cancelling>>

\* Mutant: the error path does not record the failure.
Fail_NoUpdate(e) ==
    /\ at[e] = "failing"
    /\ MoveTo(e, "rejected")
    /\ UNCHANGED <<registryVars, aborted, result, batchVars, cancelling>>

\* The catch block: FAILED is recorded if the execution is still known, and the
\* call rejects in both cases.
Fail(e) ==
    /\ at[e] = "failing"
    /\ IF Known(e) THEN UpdateExecution(e, "FAILED") ELSE UNCHANGED registryVars
    /\ MoveTo(e, "rejected")
    /\ UNCHANGED <<aborted, result, batchVars, cancelling>>

-----------------------------------------------------------------------------
(* cancelExecution: the status is read before two awaits and the record    *)
(* written after them.                                                     *)

\* The executor files its abort controllers under ids it makes up itself.
ExecutorId(e) == <<"executor", e>>
ExecutorActive == {ExecutorId(e) : e \in {r \in Requests : at[r] = "executing"}}

\* executor.cancel(id): nothing happens when no controller is filed under id.
ExecutorCancel(id) ==
    aborted' = aborted \cup {e \in Requests : ExecutorId(e) = id /\ id \in ExecutorActive}

CancelBegin(c, e) ==
    /\ cancelling[c] = "none"
    /\ executions[e] \in ActiveStatus
    /\ ExecutorCancel(e)
    /\ cancelling' = [cancelling EXCEPT ![c] = e]
    /\ UNCHANGED <<at, registryVars, result, batchVars>>

CancelEnd(c) ==
    LET e == cancelling[c]
    IN  /\ e # "none"
        /\ cancelling' = [cancelling EXCEPT ![c] = "none"]
        /\ IF Known(e) THEN UpdateExecution(e, "CANCELLED") ELSE UNCHANGED registryVars
        /\ UNCHANGED <<at, aborted, result, batchVars>>

-----------------------------------------------------------------------------
RuntimeInit ==
    /\ at = [e \in Requests |-> "idle"]
    /\ executions = [e \in Requests |-> "none"]
    /\ activeExecutions = {}
    /\ aborted = {}
    /\ result = [e \in Requests |-> "none"]
    /\ count = 0
    /\ waitQueue = <<>>
    /\ results = {}
    /\ errors = {}
    /\ batchResult = "none"
    /\ cancelling = [c \in Cancellers |-> "none"]

Progress(e) ==
    \/ RegisterExecution(e) \/ FindAgent(e) \/ Validate(e) \/ AgentReturns(e)
    \/ Finish(e) \/ Fail(e) \/ Settle(e)

RuntimeNext ==
    \/ StartBatch
    \/ EndBatch
    \/ \E e \in Requests : Progress(e) \/ TimeoutFires(e)
    \/ \E old \in SUBSET Requests : Cleanup(old)
    \/ \E c \in Cancellers, e \in Requests : CancelBegin(c, e)
    \/ \E c \in Cancellers : CancelEnd(c)

RuntimeSpec == RuntimeInit /\ [][RuntimeNext]_runtimeVars

\* Every promise of the chain resolves: the executor's own wait is a timer.
RuntimeFairSpec ==
    /\ RuntimeSpec
    /\ \A e \in Requests : WF_runtimeVars(Progress(e))
    /\ WF_runtimeVars(EndBatch)

-----------------------------------------------------------------------------
(* Properties.                                                             *)

\* Requests of the batch that hold a slot of the semaphore.
Holders == {e \in Requests : at[e] \notin {"idle", "queued", "done"}}

\* The semaphore never over-admits and never loses a slot: at most Limit requests
\* of a batch execute at once, and a request waits only while all slots are taken,
\* across hand-overs from a releasing request to a queued one.
SlotsConserved ==
    /\ Cardinality(Holders) = count
    /\ count =< Limit
    /\ waitQueue # <<>> => count = Limit

\* A request whose call has ended leaves no record that still says PENDING or
\* RUNNING, and none in the registry's active set: whatever mix of cancellation,
\* cleanup, timeout and failure it met, cleanup can remove it.
SettledIsInactive ==
    \A e \in Requests :
       at[e] \in {"returned", "rejected", "done"} =>
          executions[e] \notin ActiveStatus /\ e \notin activeExecutions

\* executeBatch reports success only when every request ran to completion.
BatchSuccessSound ==
    batchResult = "success" => \A e \in Requests : result[e] = "COMPLETED"

\* executeBatch returns: no request waits for a slot for ever, whatever fails.
BatchSettles == (\E e \in Requests : at[e] # "idle") ~> batchResult # "none"

\* A cancellation that went through has aborted the agent it cancelled, if that
\* is still executing.
CancelReachesAgent ==
    \A e \in Requests : at[e] = "executing" /\ executions[e] = "CANCELLED" => e \in aborted
=============================================================================
