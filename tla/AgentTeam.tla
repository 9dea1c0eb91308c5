------------------------------ MODULE AgentTeam ------------------------------
(***************************************************************************)
(* The coordinator and the communication manager together: broadcast()     *)
(* (agents/coordinator/agent-coordinator.ts) looks its agents up in the    *)
(* registry and sends over the bus, in the name of "coordinator", which    *)
(* nothing registers on the bus but a client of its own accord.            *)
(***************************************************************************)
EXTENDS AgentCoordinator, AgentMessaging

CONSTANTS
    Coordinator,    \* the sender of the coordinator's broadcasts
    Broadcasts,     \* calls of broadcast
    Workloads       \* what is asked of the team

\* A workload names the requests each call of assign may make, the handoffs, the
\* broadcasts, the messages and what is done with them, who is on the bus at first
\* or joins it, who is unregistered by whom, and which agents may leave or err.
ASSUME TeamAssumption ==
    /\ Agents \subseteq Parties
    /\ Coordinator \in Parties \ Agents
    /\ Workloads \subseteq [assign : [Calls -> SUBSET Requests], statuses : BOOLEAN,
                            handoffs : SUBSET Handoffs, broadcasts : SUBSET Broadcasts,
                            mail : SUBSET Mail,
                            operations : SUBSET {"send", "pop", "outbox", "channel"},
                            present : SUBSET Parties, joining : SUBSET Parties,
                            unregister : [Unregistrations -> SUBSET Parties],
                            leaving : SUBSET Agents, ailing : SUBSET Agents]

VARIABLES
    workload,       \* the one of this behaviour
    broadcasts      \* what each call of broadcast is doing

teamVars == <<workload, broadcasts>>
vars == <<coordinatorVars, messagingVars, teamVars>>

TeamInit ==
    /\ CoordinatorInit
    /\ workload \in Workloads
    /\ MessagingInit(workload.present)
    /\ broadcasts = [b \in Broadcasts |-> Idle]

\* broadcast(): the calls are for all the agents there are.
Broadcast(b) ==
    /\ broadcasts[b].at = "idle"
    /\ broadcasts' = [broadcasts EXCEPT ![b] =
                        [at |-> "sending", left |-> Agents, acknowledged |-> {}]]
    /\ UNCHANGED <<coordinatorVars, messagingVars, workload>>

\* One agent: found in the registry, the message goes to the bus as a broadcast,
\* which takes it to everyone there, this agent or not; the agent is acknowledged
\* when anyone's inbox took it.
BroadcastTo(b, a, m) ==
    LET sent == a \in registered /\ Coordinator \in onBus
    IN  /\ broadcasts[b].at = "sending"
        /\ a \in broadcasts[b].left
        /\ m.from = Coordinator /\ m.to = Everyone
        /\ IF sent THEN BusBroadcast(m) ELSE UNCHANGED inbox
        /\ broadcasts' = [broadcasts EXCEPT ![b] =
                [@ EXCEPT !.left = @ \ {a},
                          !.acknowledged = IF sent /\ Reached(m) # {} THEN @ \cup {a} ELSE @]]
        /\ UNCHANGED <<coordinatorVars, onBus, registrations, outbox, failedMessages, sends,
                       channels, subscription, heard, unregistration, workload>>

\* It throws when it reached no one at all.
BroadcastEnds(b) ==
    /\ broadcasts[b].at = "sending"
    /\ broadcasts[b].left = {}
    /\ broadcasts' = [broadcasts EXCEPT ![b] =
            [@ EXCEPT !.at = IF broadcasts[b].acknowledged = {} THEN "threw" ELSE "returned"]]
    /\ UNCHANGED <<coordinatorVars, messagingVars, workload>>

BroadcastStep(b) ==
    \/ \E a \in Agents, m \in Mail : BroadcastTo(b, a, m)
    \/ BroadcastEnds(b)

CoordinatorCalls ==
    \/ \E c \in Calls : \E r \in workload.assign[c] : Assign(c, r)
    \/ \E h \in workload.handoffs, to \in Agents : HandoffBegin(h, to)
    \/ workload.statuses /\ \E id \in Ids : Collect(id) \/ Timeout(id) \/ Cancel(id)
    \/ \E a \in workload.leaving : AgentLeaves(a)
    \/ \E a \in workload.ailing : AgentErrs(a)

CoordinatorSteps ==
    \/ \E c \in Calls : AssignStep(c) \/ DelegateStep(c)
    \/ \E h \in Handoffs : HandoffStep(h)

MessagingSteps ==
    \/ "send" \in workload.operations /\ \E m \in workload.mail : Send(m)
    \/ "pop" \in workload.operations /\ \E p \in Parties : Pop(p)
    \/ "outbox" \in workload.operations /\ OutboxStep(workload.mail)
    \/ \E p \in workload.joining : RegisterAgent(p)
    \/ "channel" \in workload.operations /\ ChannelStep(workload.mail)
    \/ \E u \in Unregistrations : \E p \in workload.unregister[u] : UnregisterAgent(u, p)
    \/ \E u \in Unregistrations : UnregisterStep(u)

TeamNext ==
    \/ (CoordinatorCalls \/ CoordinatorSteps) /\ UNCHANGED <<messagingVars, teamVars>>
    \/ MessagingSteps /\ UNCHANGED <<coordinatorVars, teamVars>>
    \/ \E b \in workload.broadcasts : Broadcast(b)
    \/ \E b \in Broadcasts : BroadcastStep(b)

TeamSpec == TeamInit /\ [][TeamNext]_vars

\* Calls go on once begun, and the runtime settles every execution.
TeamFairness ==
    /\ \A c \in Calls : /\ WF_vars(AssignStep(c) /\ UNCHANGED <<messagingVars, teamVars>>)
                        /\ WF_vars(DelegateStep(c) /\ UNCHANGED <<messagingVars, teamVars>>)
    /\ \A h \in Handoffs : WF_vars(HandoffStep(h) /\ UNCHANGED <<messagingVars, teamVars>>)
    /\ \A u \in Unregistrations :
        WF_vars(UnregisterStep(u) /\ UNCHANGED <<coordinatorVars, teamVars>>)
    /\ \A b \in Broadcasts : WF_vars(BroadcastStep(b))

TeamFairSpec == TeamSpec /\ TeamFairness

\* Every call begun ends: a coordination under any strategy returns or throws,
\* whatever its agents do, a handoff answers, a broadcast and an unregistration
\* come to their end.
TeamCallsSettle ==
    /\ \A c \in Calls : pc[c] # "idle" ~> pc[c] \in {"returned", "threw"}
    /\ \A h \in Handoffs : handoff[h].at # "idle" ~> handoff[h].at = "done"
    /\ \A b \in Broadcasts :
        broadcasts[b].at # "idle" ~> broadcasts[b].at \in {"returned", "threw"}
    /\ \A u \in Unregistrations :
        unregistration[u].at # "idle" ~> unregistration[u].at = "done"
=============================================================================
