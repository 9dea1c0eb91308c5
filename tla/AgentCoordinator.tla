-------------------------- MODULE AgentCoordinator --------------------------
(***************************************************************************)
(* AgentCoordinator (agents/coordinator/agent-coordinator.ts): assign()    *)
(* gives one task to several agents under a strategy, handoff() to one     *)
(* agent in the place of another.  Each await is a point where other calls *)
(* run; the agents' executions are those of the runtime, which a delegate  *)
(* awaits: they succeed, end without success (a timeout or an abort) or    *)
(* throw (the agent is gone or unhealthy when the executor looks).         *)
(* Left out: the request's payload, the timings and the counters of        *)
(* health(), which no operation reads.                                     *)
(***************************************************************************)
EXTENDS Naturals, Sequences, FiniteSetsExt

CONSTANTS
    Agents,         \* the agents a request may name
    Calls,          \* calls of assign
    Requests,       \* the coordination requests made
    Ids,            \* coordination ids
    Handoffs,       \* calls of handoff
    NoId            \* no coordination id, and no coordination

Strategies == {"PARALLEL", "SEQUENTIAL", "FIRST_SUCCESS", "ALL_SUCCESS", "MAJORITY_VOTING",
               "QUORUM"}
VotingMethods == {"SIMPLE_MAJORITY", "SUPER_MAJORITY", "UNANIMOUS", "WEIGHTED_MAJORITY"}

\* 0 stands for a number the request does not give, "" for a voting method.
ASSUME CoordinatorAssumption ==
    /\ Requests \subseteq [id : Ids, agents : Seq(Agents), strategy : Strategies, parallel : Nat,
                           quorum : Nat, voting : VotingMethods \cup {""}, failFast : BOOLEAN,
                           weight : [Agents -> Nat \ {0}], timeout : BOOLEAN]
    /\ NoId \notin Calls

VARIABLES
    registered, unhealthy,  \* the registry's agents; the agents whose health says so
    pc,             \* how far each assign has got
    request,        \* its request
    checked, lacking,   \* how many agents it has looked at, and was one unavailable?
    delegation,     \* what each of its agents is doing
    winner,         \* the first agent to succeed (FIRST_SUCCESS), 0 for none
    result,         \* the status it returned
    coordinations,  \* the map of coordinations: whose task an id holds, with its status
    handoff         \* what each handoff is doing

assignVars == <<pc, request, checked, lacking, delegation, winner, result>>
coordinatorVars == <<registered, unhealthy, assignVars, coordinations, handoff>>

NoRequest == [agents |-> <<>>]
Available(a) == a \in registered /\ a \notin unhealthy
AgentsOf(c) == request[c].agents
Indices(c) == DOMAIN AgentsOf(c)
Which(c, states) == {i \in Indices(c) : delegation[c][i] \in states}
Settled == {"succeeded", "failed", "rejected"}
Fulfilled == {"succeeded", "failed"}

CoordinatorInit ==
    /\ registered = Agents
    /\ unhealthy = {}
    /\ pc = [c \in Calls |-> "idle"]
    /\ request = [c \in Calls |-> NoRequest]
    /\ checked = [c \in Calls |-> 0]
    /\ lacking = [c \in Calls |-> FALSE]
    /\ delegation = [c \in Calls |-> <<>>]
    /\ winner = [c \in Calls |-> 0]
    /\ result = [c \in Calls |-> "none"]
    /\ coordinations = [id \in Ids |-> [owner |-> NoId, status |-> "NONE"]]
    /\ handoff = [h \in Handoffs |-> [at |-> "idle", to |-> NoId, success |-> FALSE]]

(***************************************************************************)
(* assign()                                                                *)
(***************************************************************************)
\* The validation throws before the call is entered anywhere.
ValidateCoordinationRequest(r) ==
    /\ r.agents # <<>>
    /\ r.strategy = "QUORUM" => r.quorum # 0
    /\ r.strategy = "MAJORITY_VOTING" => r.voting # ""
    /\ r.quorum <= Len(r.agents)

Assign(c, r) ==
    /\ pc[c] = "idle"
    /\ pc' = [pc EXCEPT ![c] = IF ValidateCoordinationRequest(r) THEN "checking" ELSE "threw"]
    /\ request' = [request EXCEPT ![c] = r]
    /\ delegation' = [delegation EXCEPT ![c] = [i \in DOMAIN r.agents |-> "none"]]
    /\ UNCHANGED <<registered, unhealthy, checked, lacking, winner, result, coordinations,
                   handoff>>

\* The agents are looked at one after the other, all of them whatever is found.
ValidateAgentAvailability(c) ==
    /\ pc[c] = "checking"
    /\ checked[c] < Len(AgentsOf(c))
    /\ checked' = [checked EXCEPT ![c] = @ + 1]
    /\ lacking' = [lacking EXCEPT ![c] = @ \/ ~Available(AgentsOf(c)[checked[c] + 1])]
    /\ UNCHANGED <<registered, unhealthy, pc, request, delegation, winner, result,
                   coordinations, handoff>>

\* Mutant: nothing is cleaned up.
Forget_Leak(id) == UNCHANGED coordinations

\* The finally block deletes the id, whoever's task it holds by then.
Forget(id) == coordinations' = [coordinations EXCEPT ![id] = [owner |-> NoId, status |-> "NONE"]]

InsufficientAgents(c) ==
    /\ pc[c] = "checking"
    /\ checked[c] = Len(AgentsOf(c))
    /\ lacking[c]
    /\ pc' = [pc EXCEPT ![c] = "threw"]
    /\ Forget(request[c].id)
    /\ UNCHANGED <<registered, unhealthy, request, checked, lacking, delegation, winner, result,
                   handoff>>

\* How many of the agents are started: sequentially one, in parallel up to
\* maxParallelism (the agents beyond it are never started at all).
Started(r) ==
    LET n == Len(r.agents)
    IN  CASE r.strategy = "SEQUENTIAL" -> 1
          [] r.strategy = "FIRST_SUCCESS" -> n
          [] OTHER -> IF r.parallel = 0 THEN n ELSE Min({r.parallel, n})

ExecuteCoordination(c) ==
    /\ pc[c] = "checking"
    /\ checked[c] = Len(AgentsOf(c))
    /\ ~lacking[c]
    /\ pc' = [pc EXCEPT ![c] = "executing"]
    /\ coordinations' = [coordinations EXCEPT ![request[c].id] =
                            [owner |-> c, status |-> "RUNNING"]]
    /\ delegation' = [delegation EXCEPT ![c] =
                        [i \in Indices(c) |-> IF i <= Started(request[c]) THEN "finding"
                                              ELSE "none"]]
    /\ UNCHANGED <<registered, unhealthy, request, checked, lacking, winner, result, handoff>>

(***************************************************************************)
(* delegate()                                                              *)
(***************************************************************************)
Delegation(c, i, state) == delegation' = [delegation EXCEPT ![c][i] = state]

\* Found and healthy, for the coordinator and again for the executor.
Delegate(c, i) ==
    /\ delegation[c][i] = "finding"
    /\ Delegation(c, i, IF Available(AgentsOf(c)[i]) THEN "running" ELSE "rejected")
    /\ UNCHANGED <<registered, unhealthy, pc, request, checked, lacking, winner, result,
                   coordinations, handoff>>

\* Mutant: the last result wins, whatever it is.
DelegateReturns_Last(c, i, success) ==
    /\ delegation[c][i] = "running"
    /\ success \/ request[c].timeout
    /\ Delegation(c, i, IF success THEN "succeeded" ELSE "failed")
    /\ winner' = [winner EXCEPT ![c] = IF request[c].strategy = "FIRST_SUCCESS" THEN i ELSE @]
    /\ UNCHANGED <<registered, unhealthy, pc, request, checked, lacking, result, coordinations,
                   handoff>>

\* The result comes in.  FIRST_SUCCESS keeps the first success.
DelegateReturns(c, i, success) ==
    /\ delegation[c][i] = "running"
    /\ success \/ request[c].timeout
    /\ Delegation(c, i, IF success THEN "succeeded" ELSE "failed")
    /\ winner' = [winner EXCEPT ![c] =
                    IF success /\ @ = 0 /\ request[c].strategy = "FIRST_SUCCESS" THEN i ELSE @]
    /\ UNCHANGED <<registered, unhealthy, pc, request, checked, lacking, result, coordinations,
                   handoff>>

(***************************************************************************)
(* The strategies                                                          *)
(***************************************************************************)
Running(c) == Which(c, {"finding", "running"})
Ended(c) == pc[c] = "executing" /\ Running(c) = {}

Return(c, status) ==
    /\ pc' = [pc EXCEPT ![c] = "returned"]
    /\ result' = [result EXCEPT ![c] = status]
    /\ Forget(request[c].id)
    /\ UNCHANGED <<registered, unhealthy, request, checked, lacking, delegation, winner, handoff>>

Throw(c) ==
    /\ pc' = [pc EXCEPT ![c] = "threw"]
    /\ Forget(request[c].id)
    /\ UNCHANGED <<registered, unhealthy, request, checked, lacking, delegation, winner, result,
                   handoff>>

StatusIf(ok) == IF ok THEN "SUCCESS" ELSE "FAILED"

\* A promise that is fulfilled counts as a success, whether the execution
\* succeeded or not.
ExecuteParallel(c) ==
    /\ Ended(c)
    /\ request[c].strategy \in {"PARALLEL", "ALL_SUCCESS"}
    /\ Return(c, StatusIf(Which(c, {"rejected"}) = {}))

\* The next agent of a sequence, unless the last one failed and failFast is set.
FailedFast(c) ==
    /\ request[c].failFast
    /\ Which(c, {"failed", "rejected"}) # {}

ExecuteNext(c) ==
    /\ Ended(c)
    /\ request[c].strategy = "SEQUENTIAL"
    /\ ~FailedFast(c)
    /\ Which(c, {"none"}) # {}
    /\ Delegation(c, Min(Which(c, {"none"})), "finding")
    /\ UNCHANGED <<registered, unhealthy, pc, request, checked, lacking, winner, result,
                   coordinations, handoff>>

ExecuteSequential(c) ==
    /\ Ended(c)
    /\ request[c].strategy = "SEQUENTIAL"
    /\ FailedFast(c) \/ Which(c, {"none"}) = {}
    /\ Return(c, StatusIf(Which(c, {"rejected"}) = {} /\ ~FailedFast(c)))

\* Mutant: the answer of an ended race is lost.
ExecuteFirstSuccess_Hang(c) ==
    /\ pc[c] = "executing"
    /\ request[c].strategy = "FIRST_SUCCESS"
    /\ winner[c] # 0
    /\ Return(c, "SUCCESS")

\* It resolves with the first success while the other agents go on, or without
\* one when all have ended.
ExecuteFirstSuccess(c) ==
    /\ pc[c] = "executing"
    /\ request[c].strategy = "FIRST_SUCCESS"
    /\ winner[c] # 0 \/ Running(c) = {}
    /\ Return(c, StatusIf(winner[c] # 0))

ExecuteQuorum(c) ==
    /\ Ended(c)
    /\ request[c].strategy = "QUORUM"
    /\ IF Cardinality(Which(c, Fulfilled)) < request[c].quorum THEN Throw(c)
       ELSE Return(c, "SUCCESS")

\* An output names its agent, so no two successes cast the same vote; the
\* results without output all cast the vote "undefined".  A vote counts with the
\* agent's weight, and equal votes stand in the order they came up in.
Weight(c, voters) ==
    SumFunctionOnSet([i \in Indices(c) |-> request[c].weight[AgentsOf(c)[i]]], voters)
Ballots(c) ==
    {[voters |-> {i}, parses |-> TRUE] : i \in Which(c, {"succeeded"})}
        \cup IF Which(c, {"failed"}) = {} THEN {}
             ELSE {[voters |-> Which(c, {"failed"}), parses |-> FALSE]}

Leads(c, a, b) ==
    \/ Weight(c, a.voters) > Weight(c, b.voters)
    \/ /\ Weight(c, a.voters) = Weight(c, b.voters)
       /\ Min(a.voters) <= Min(b.voters)

\* The weight of the leading vote against the number of voters.
Carries(method, weight, total) ==
    CASE method \in {"SIMPLE_MAJORITY", "WEIGHTED_MAJORITY"} -> 2 * weight > total
      [] method = "SUPER_MAJORITY" -> 100 * weight >= 67 * total
      [] method = "UNANIMOUS" -> weight = total

\* The winning vote is parsed back, which throws for "undefined".
ExecuteMajorityVoting(c) ==
    /\ Ended(c)
    /\ request[c].strategy = "MAJORITY_VOTING"
    /\ IF Ballots(c) = {} THEN Return(c, "FAILED")
       ELSE LET lead == CHOOSE b \in Ballots(c) : \A other \in Ballots(c) : Leads(c, b, other)
                carried == Carries(request[c].voting, Weight(c, lead.voters),
                                   Cardinality(Which(c, Fulfilled)))
            IN  IF carried /\ ~lead.parses THEN Throw(c) ELSE Return(c, StatusIf(carried))

Conclude(c) ==
    \/ ExecuteParallel(c)
    \/ ExecuteSequential(c)
    \/ ExecuteFirstSuccess(c)
    \/ ExecuteQuorum(c)
    \/ ExecuteMajorityVoting(c)

(***************************************************************************)
(* collect(), timeout(), cancel(): they write the task's status, which     *)
(* nothing reads; cancel() asks the runtime for executions under ids it    *)
(* never gave out, and every refusal is only a warning.                    *)
(***************************************************************************)
SetStatus(id, status) ==
    /\ coordinations[id].owner # NoId
    /\ coordinations' = [coordinations EXCEPT ![id].status = status]
    /\ UNCHANGED <<registered, unhealthy, assignVars, handoff>>

Collect(id) == SetStatus(id, "SUCCESS")
Timeout(id) == SetStatus(id, "TIMEOUT")
Cancel(id) == SetStatus(id, "CANCELLED")

(***************************************************************************)
(* handoff(): from one agent to another; a failure is an answer too        *)
(***************************************************************************)
HandoffBegin(h, to) ==
    /\ handoff[h].at = "idle"
    /\ handoff' = [handoff EXCEPT ![h] = [@ EXCEPT !.at = "finding", !.to = to]]
    /\ UNCHANGED <<registered, unhealthy, assignVars, coordinations>>

HandoffFinds(h, from) ==
    /\ handoff[h].at = "finding"
    /\ handoff' = [handoff EXCEPT ![h].at = IF from \in registered /\ Available(handoff[h].to)
                                            THEN "running" ELSE "done"]
    /\ UNCHANGED <<registered, unhealthy, assignVars, coordinations>>

HandoffReturns(h, success) ==
    /\ handoff[h].at = "running"
    /\ handoff' = [handoff EXCEPT ![h] = [@ EXCEPT !.at = "done", !.success = success]]
    /\ UNCHANGED <<registered, unhealthy, assignVars, coordinations>>

(***************************************************************************)
(* The registry and the agents, as the coordinator sees them               *)
(***************************************************************************)
AgentLeaves(a) ==
    /\ a \in registered
    /\ registered' = registered \ {a}
    /\ UNCHANGED <<unhealthy, assignVars, coordinations, handoff>>

AgentErrs(a) ==
    /\ a \notin unhealthy
    /\ unhealthy' = unhealthy \cup {a}
    /\ UNCHANGED <<registered, assignVars, coordinations, handoff>>

AssignStep(c) ==
    \/ ValidateAgentAvailability(c)
    \/ InsufficientAgents(c)
    \/ ExecuteCoordination(c)
    \/ ExecuteNext(c)
    \/ Conclude(c)

DelegateStep(c) ==
    \E i \in Indices(c) :
        \/ Delegate(c, i)
        \/ \E success \in BOOLEAN : DelegateReturns(c, i, success)

HandoffStep(h) ==
    \/ \E from \in Agents : HandoffFinds(h, from)
    \/ \E success \in BOOLEAN : HandoffReturns(h, success)

(***************************************************************************)
(* Properties                                                              *)
(***************************************************************************)
\* What a returned SUCCESS says of the delegates' promises, under each strategy.  It
\* is less than that the agents succeeded: a promise is fulfilled by an execution
\* that ended without success as well.  No delegate of those started threw; with
\* failFast none of a sequence failed either; the first success is a success; a
\* quorum of promises was fulfilled; the votes were carried by an answer that exists,
\* and under unit weights by the answer of a single voter who succeeded, since no
\* two agents ever agree.
SuccessFollowsPromises ==
    \A c \in Calls : result[c] = "SUCCESS" =>
        LET r == request[c]
        IN  /\ r.strategy \in {"PARALLEL", "ALL_SUCCESS"} =>
                \A i \in 1..Started(r) : delegation[c][i] \in Fulfilled
            /\ r.strategy = "SEQUENTIAL" =>
                \A i \in Indices(c) : delegation[c][i] \in
                    (IF r.failFast THEN {"succeeded"} ELSE Fulfilled)
            /\ r.strategy = "FIRST_SUCCESS" => delegation[c][winner[c]] = "succeeded"
            /\ r.strategy = "QUORUM" => Cardinality(Which(c, Fulfilled)) >= r.quorum
            /\ r.strategy = "MAJORITY_VOTING" /\ (\A a \in Agents : r.weight[a] = 1) =>
                /\ Cardinality(Which(c, {"succeeded"})) = 1
                /\ Which(c, {"failed"}) = {}

\* "Similar to parallel execution, but requires ALL to succeed": under ALL_SUCCESS
\* a SUCCESS means that every agent of the request succeeded.  It is violated: an
\* execution that ends without success fulfils its promise and is counted as one
\* that succeeded, and an agent beyond maxParallelism is never started.
AllSuccessSucceeds ==
    \A c \in Calls : result[c] = "SUCCESS" /\ request[c].strategy = "ALL_SUCCESS" =>
        \A i \in Indices(c) : delegation[c][i] = "succeeded"

\* A coordination in the map is that of a call still executing, so none outlives
\* its call; and a call whose id no other call uses can be found while it
\* executes.  (Of two calls with one id, the first to end takes the entry with it.)
CoordinationsTracked ==
    /\ \A id \in Ids : LET owner == coordinations[id].owner
                       IN  owner # NoId => pc[owner] = "executing" /\ request[owner].id = id
    /\ \A c \in Calls :
        /\ pc[c] = "executing"
        /\ \A other \in Calls \ {c} : request[other] # NoRequest => request[other].id # request[c].id
        => coordinations[request[c].id].owner = c
=============================================================================
