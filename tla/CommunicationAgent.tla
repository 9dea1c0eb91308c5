-------------------------- MODULE CommunicationAgent --------------------------
(* The communication agent (agents/builtin/communication-agent/): the           *)
(* communication manager's bus and channels behind execute(), for one channel.  *)
EXTENDS BuiltinAgent

CONSTANT MaxOpened      \* bound: how often another client opens the channel

VARIABLES
    channel,    \* does the manager have the channel?
    opened      \* history: how often it was opened, by this agent or another client

CommunicationOperations == {"send", "receive", "broadcast", "subscribe", "unsubscribe"}
CommunicationFields ==
    {"totalMessages", "totalSends", "totalReceives", "totalBroadcasts", "totalSubscriptions",
     "totalUnsubscriptions", "directMessages", "broadcastMessages", "failedMessages",
     "broadcastRecipients", "messagesByType", "subscriptionCount"}

CommunicationRequests ==
    {Request(op, {}, 2, "") : op \in CommunicationOperations}
        \cup {Request("send", {f}, 1, "") : f \in {"message", "senderAgentId"}}
        \cup {Request("receive", {"agentId"}, 1, ""), Request("receive", {}, 1, "contended"),
              Request("subscribe", {"channelId"}, 1, "")}

CommunicationParses(r) ==
    ~Lacking(r, [send |-> {"message"}, broadcast |-> {"message"}, receive |-> {"agentId"},
                 subscribe |-> {"agentId", "channelId"}, unsubscribe |-> {"agentId", "channelId"}])

ValidMessage(r) ==
    r.lacks \cap {"messageId", "senderAgentId", "workspaceId", "requestId", "traceId", "timestamp",
                  "priority", "type", "status", "payload"} = {}

\* What the bus throws, and what it is not asked for, is a failed message; what it
\* could not deliver is a sent one.
SendMessage(r, o) ==
    IF ~ValidMessage(r) \/ o = "throws" THEN Throws(One("failedMessages"))
    ELSE Returns(Each({"totalMessages", "totalSends", "directMessages", "messagesByType"}))
\* The inbox is asked for its size, then for a message: a contended one has been
\* emptied by another reader in between, and nothing counts as received.
ReceiveMessage(r, o) ==
    CountingIf(o, IF r.tag = "contended" THEN One("totalReceives")
                  ELSE Each({"totalReceives", "messagesByType"}))
BroadcastMessage(r, o) ==
    IF ~ValidMessage(r) \/ o = "throws" THEN Throws(One("failedMessages"))
    ELSE Returns(Each({"totalMessages", "totalBroadcasts", "broadcastMessages", "messagesByType"})
                    @@ ("broadcastRecipients" :> IF o = "yes" THEN r.n ELSE 0))

CommunicationEffect(r, o) ==
    CASE r.operation = "send" -> SendMessage(r, o)
      [] r.operation = "receive" -> ReceiveMessage(r, o)
      [] r.operation = "broadcast" -> BroadcastMessage(r, o)

NoChannelStep == UNCHANGED <<channel, opened>>
\* The manager's createChannel() as this agent uses it: it throws for a channel there is.
OpenChannel == ~channel /\ channel' = TRUE /\ opened' = opened + 1

\* "Create or get": the channel is created, or that fails the call.
SubscribeToChannel(c) ==
    /\ calls[c].request.operation = "subscribe"
    /\ \/ /\ available /\ OpenChannel
          /\ Answer(c, Returns(Each({"totalSubscriptions", "subscriptionCount"})))
       \/ /\ channel \/ ~available
          /\ Answer(c, Throws(Nothing))
          /\ NoChannelStep

\* The channels are listed first; one that is not there fails the call.
ListForUnsubscribe(c) ==
    /\ calls[c].request.operation = "unsubscribe"
    /\ IF channel /\ available
       THEN /\ SetCall(c, [calls[c] EXCEPT !.at = "listed"])
            /\ UNCHANGED <<agent, available, agentStatus, agentHealth, failed, recordVars, stats>>
       ELSE Answer(c, Throws(Nothing))
    /\ NoChannelStep

\* Then it is created: that fails while it is there, and a new one has no subscriber.
UnsubscribeFromChannel(c) ==
    \/ /\ channel
       /\ Answer(c, Throws(Nothing))
       /\ NoChannelStep
    \/ /\ OpenChannel
       /\ Answer(c, Returns(Nothing))

\* Other clients of the manager.
OtherOpens ==
    /\ opened < MaxOpened
    /\ OpenChannel
    /\ UNCHANGED builtinVars
OtherRemoves ==
    /\ channel
    /\ channel' = FALSE
    /\ opened' = opened
    /\ UNCHANGED builtinVars

NewCommunicationAgent == Construct(CommunicationOperations, CommunicationFields)

CommunicationExecute(c) ==
    \/ /\ NotBegun(c)
       /\ \E r \in CommunicationRequests :
            IF CommunicationParses(r) THEN ExecuteBegin(c, r) ELSE ExecuteMalformed(c, r)
       /\ NoChannelStep
    \/ /\ Waiting(c)
       /\ calls[c].request.operation \in {"send", "receive", "broadcast"}
       /\ \E o \in Outcomes : Answer(c, CommunicationEffect(calls[c].request, o))
       /\ NoChannelStep
    \/ Waiting(c) /\ (SubscribeToChannel(c) \/ ListForUnsubscribe(c))
    \/ calls[c].at = "listed" /\ UnsubscribeFromChannel(c)

CommunicationLifecycle ==
    /\ \/ Initialize
       \/ Shutdown
       \/ GetHealth("healthy")
       \/ \E status \in Statuses : UpdateStatus(status)
    /\ NoChannelStep

\* getCommunicationAgentHealth(); a manager that sent nothing has the agent's own
\* total stand in for its own.
CommunicationAgentHealth(theirs) ==
    [status |-> OwnStatus, failed |-> stats["failedMessages"],
     messages |-> IF theirs > 0 THEN theirs ELSE stats["totalMessages"]]

\* getMetrics(), messageStats and communicationStats
CommunicationStats ==
    [messages |-> stats["totalMessages"],
     ways |-> stats["totalSends"] + stats["totalBroadcasts"],
     kinds |-> stats["directMessages"] + stats["broadcastMessages"],
     byType |-> stats["messagesByType"], failed |-> stats["failedMessages"],
     receives |-> stats["totalReceives"],
     subscriptions |-> stats["totalSubscriptions"],
     unsubscriptions |-> stats["totalUnsubscriptions"]]

\* Messages are sent or broadcast; a failed one is neither.  Each subscription opened
\* the channel, so there is one at most each time it is opened; none is ever undone.
CommunicationStatsAgree ==
    /\ CommunicationStats.messages = CommunicationStats.ways
    /\ CommunicationStats.messages = CommunicationStats.kinds
    /\ CommunicationStats.byType \in CommunicationStats.messages ..
                                        CommunicationStats.messages + CommunicationStats.receives
    /\ CommunicationStats.failed = Ended({"throws"}, {"send", "broadcast"})
    /\ CommunicationStats.subscriptions <= opened
    /\ CommunicationStats.unsubscriptions = 0
    /\ CommunicationAgentHealth(0).messages = CommunicationStats.ways
    /\ errorCounts["send"] > 0 => CommunicationAgentHealth(0).status = "unhealthy"
=============================================================================
