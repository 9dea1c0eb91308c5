---------------------------- MODULE BuiltinAgent ----------------------------
(***************************************************************************)
(* What the ten built-in agents (agents/builtin/) share: status, health,   *)
(* the counts of each operation and the life of one call of execute(),     *)
(* which the operations of an agent's own module plug into.  The agents'   *)
(* classes repeat this code; the lines mapped here are SchedulerAgent's.   *)
(* An operation is told by its effect: how it ends and what it adds to the *)
(* agent's own statistics.  Time, wording and identifiers are left out.    *)
(***************************************************************************)
EXTENDS Integers, FiniteSets, TLC

CONSTANTS
    Calls,          \* calls of execute
    MaxLatencies,   \* latencies kept per operation
    NoOperation     \* the operation of an input that names none

ASSUME BuiltinAssumption == MaxLatencies \in Nat \ {0}

VARIABLES
    agent,              \* which agent this is
    available,          \* was it given the components it needs?
    agentStatus, agentHealth,
    failed,             \* errors.length > 0; nothing ever empties errors
    operationCounts, successCounts, errorCounts,
    latencies,          \* how many are kept, per operation
    stats,              \* the agent's own statistics
    calls               \* what each call of execute is doing

recordVars == <<operationCounts, successCounts, errorCounts, latencies>>
builtinVars == <<agent, available, agentStatus, agentHealth, failed, recordVars, stats, calls>>

Idle == [at |-> "idle"]
\* A request: its operation, the fields it lacks, how many items it carries, and
\* what else tells two requests of one operation apart.
Request(operation, lacks, n, tag) ==
    [operation |-> operation, lacks |-> lacks, n |-> n, tag |-> tag]
\* What the lifecycle manager sets: it resumes, stops and pauses.
Statuses == {"idle", "stopped", "paused"}
\* The answers of a component, where the agent has it.
Outcomes == IF available THEN {"yes", "no", "throws"} ELSE {"throws"}
Lacking(r, table) == r.operation \in DOMAIN table /\ r.lacks \cap table[r.operation] # {}

\* The effects of an operation: success, a result with success: false, an exception.
Nothing == [s \in {} |-> 0]
One(s) == s :> 1
Each(S) == [s \in S |-> 1]
Returns(add) == [ends |-> "returns", add |-> add]
Declines(add) == [ends |-> "declines", add |-> add]
Throws(add) == [ends |-> "throws", add |-> add]
\* The commonest: what the component throws is thrown on, and success is counted.
Counting(o, add) == IF o = "throws" THEN Throws(Nothing) ELSE Returns(add)
CountingIf(o, add) == Counting(o, IF o = "yes" THEN add ELSE Nothing)

\* The constructor, with initializeMetrics().
Construct(operations, fields) ==
    /\ available \in BOOLEAN
    /\ agentStatus = "idle"
    /\ agentHealth = "healthy"
    /\ failed = FALSE
    /\ operationCounts = [op \in operations |-> 0]
    /\ successCounts = [op \in operations |-> 0]
    /\ errorCounts = [op \in operations |-> 0]
    /\ latencies = [op \in operations |-> 0]
    /\ stats = [s \in fields |-> 0]
    /\ calls = [c \in Calls |-> Idle]

Initialize ==
    /\ agentStatus' = IF available THEN "idle" ELSE "error"
    /\ failed' = (failed \/ ~available)
    /\ UNCHANGED <<agent, available, agentHealth, recordVars, stats, calls>>

Shutdown ==
    /\ agentStatus' = "stopped"
    /\ UNCHANGED <<agent, available, agentHealth, failed, recordVars, stats, calls>>

UpdateStatus(status) ==
    /\ agentStatus' = status
    /\ UNCHANGED <<agent, available, agentHealth, failed, recordVars, stats, calls>>

\* getHealth(): what the components say of themselves, then its own errors.  A
\* component that throws leaves the health as it was.
GetHealth(components) ==
    /\ failed' = (failed \/ components = "throws")
    /\ agentHealth' = CASE components = "throws" -> agentHealth
                        [] failed \/ ~available \/ components = "unhealthy" -> "unhealthy"
                        [] OTHER -> components
    /\ UNCHANGED <<agent, available, agentStatus, recordVars, stats, calls>>

\* What an agent's own health report (getXAgentHealth()) says of its status at this
\* moment.  It is computed again each time and not kept, unlike agentHealth.
OwnStatus == IF failed \/ ~available THEN "unhealthy" ELSE "healthy"
\* With the status of the components it asks.
StatusWith(components) == IF OwnStatus = "unhealthy" THEN OwnStatus ELSE components

Increment(counts, op) == [counts EXCEPT ![op] = @ + 1]

AddLatency(op) == latencies' = [latencies EXCEPT ![op] = IF @ = MaxLatencies THEN @ ELSE @ + 1]

RecordOperationAttempt(op) == operationCounts' = Increment(operationCounts, op)

RecordOperationSuccess(op) ==
    /\ successCounts' = Increment(successCounts, op)
    /\ AddLatency(op)

\* Mutant: an error is counted among the successes too.
RecordOperationError_Both(op) ==
    /\ errorCounts' = Increment(errorCounts, op)
    /\ successCounts' = Increment(successCounts, op)
    /\ AddLatency(op)

RecordOperationError(op) ==
    /\ errorCounts' = Increment(errorCounts, op)
    /\ successCounts' = successCounts
    /\ AddLatency(op)

NotBegun(c) == calls[c].at = "idle"
Waiting(c) == calls[c].at = "waiting"
SetCall(c, call) == calls' = [calls EXCEPT ![c] = call]

\* execute(): an input without an operation fails, and that is all that is noted.
ExecuteNothing(c) ==
    /\ NotBegun(c)
    /\ SetCall(c, [at |-> "done", request |-> Request(NoOperation, {}, 0, ""), ends |-> "throws"])
    /\ failed' = TRUE
    /\ UNCHANGED <<agent, available, agentStatus, agentHealth, recordVars, stats>>

\* An operation the agent does not know: counting the error throws in turn, so the
\* call is rejected and the error is not kept.
ExecuteUnknown(c) ==
    /\ NotBegun(c)
    /\ SetCall(c, [at |-> "rejected"])
    /\ UNCHANGED <<agent, available, agentStatus, agentHealth, failed, recordVars, stats>>

\* A request its operation cannot do with is an error that was no attempt.
ExecuteMalformed(c, r) ==
    /\ NotBegun(c)
    /\ RecordOperationError(r.operation)
    /\ failed' = TRUE
    /\ SetCall(c, [at |-> "done", request |-> r, ends |-> "malformed"])
    /\ UNCHANGED <<agent, available, agentStatus, agentHealth, operationCounts, stats>>

\* Otherwise the operation begins; the agent's status is not looked at.
ExecuteBegin(c, r) ==
    /\ NotBegun(c)
    /\ RecordOperationAttempt(r.operation)
    /\ SetCall(c, [at |-> "waiting", request |-> r])
    /\ UNCHANGED <<agent, available, agentStatus, agentHealth, failed, successCounts, errorCounts,
                   latencies, stats>>

\* What an operation adds to the statistics; none goes below zero.
Adding(add) ==
    stats' = [s \in DOMAIN stats |->
                IF s \notin DOMAIN add THEN stats[s]
                ELSE IF stats[s] + add[s] < 0 THEN 0 ELSE stats[s] + add[s]]

\* The operation comes to its end.
Answer(c, effect) ==
    /\ Adding(effect.add)
    /\ SetCall(c, [at |-> "answered", request |-> calls[c].request, ends |-> effect.ends])
    /\ UNCHANGED <<agent, available, agentStatus, agentHealth, failed, recordVars>>

\* execute() goes on: a result is a success, whatever it says of itself.
ExecuteReturns(c) ==
    /\ calls[c].at = "answered"
    /\ calls[c].ends # "throws"
    /\ RecordOperationSuccess(calls[c].request.operation)
    /\ SetCall(c, [calls[c] EXCEPT !.at = "done"])
    /\ UNCHANGED <<agent, available, agentStatus, agentHealth, failed, operationCounts, errorCounts,
                   stats>>

ExecuteFails(c) ==
    /\ calls[c].at = "answered"
    /\ calls[c].ends = "throws"
    /\ RecordOperationError(calls[c].request.operation)
    /\ failed' = TRUE
    /\ SetCall(c, [calls[c] EXCEPT !.at = "done"])
    /\ UNCHANGED <<agent, available, agentStatus, agentHealth, operationCounts, stats>>

\* The calls of an operation that got as far as one of these places.
CallsAt(places, op) ==
    {c \in Calls : calls[c].at \in places /\ calls[c].request.operation = op}
\* Those whose operation ended this way, recorded yet or not.
Ended(ends, ops) ==
    Cardinality({c \in Calls : /\ calls[c].at \in {"answered", "done"}
                               /\ calls[c].request.operation \in ops
                               /\ calls[c].ends \in ends})
Succeeded(op) == Ended({"returns", "declines"}, {op})
=============================================================================
