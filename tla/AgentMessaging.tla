--------------------------- MODULE AgentMessaging ---------------------------
(***************************************************************************)
(* The agents' messages (agents/communication/): the bus with an inbox and *)
(* an outbox per registered agent, the channels, and the manager over      *)
(* them.  bus.send() and bus.broadcast() deliver before their first await, *)
(* so each is one step; unregisterAgent() awaits between its parts.        *)
(* Left out: the payloads, the logs and histories, which are only listed.  *)
(***************************************************************************)
EXTENDS Naturals, Sequences, FiniteSetsExt, SequencesExt

CONSTANTS
    Parties,        \* who may be on the bus
    Mail,           \* the messages: from, to (or Everyone), prio, time
    Everyone,
    MaxSize,        \* how many messages an inbox or an outbox takes
    MaxAttempts,    \* an outbox's maxRetryAttempts
    Channels, Subscriptions, Unregistrations,
    MaxRegistrations, MaxSends  \* bounds on the registrations and on the sends

\* prio is the index of critical, high, normal, low.
ASSUME MessagingAssumption ==
    /\ Mail \subseteq [id : Nat, from : Parties, to : Parties \cup {Everyone}, prio : 0..3,
                       time : Nat]
    /\ MaxSize \in Nat \ {0}
    /\ MaxAttempts \in Nat \ {0}

VARIABLES
    onBus,          \* who is registered on the bus
    registrations,  \* how often each has been: names the inbox and outbox it has now
    inbox, outbox, failedMessages,
    sends,          \* messages handed to the bus so far
    channels,       \* the manager's channels
    subscription,   \* who has which subscription to which channel
    heard,          \* history: the messages each party's handlers were called with
    unregistration  \* what each call of unregisterAgent is doing

mailVars == <<inbox, outbox, failedMessages, sends>>
messagingVars == <<onBus, registrations, mailVars, channels, subscription, heard, unregistration>>

Idle == [at |-> "idle"]
NoSubscription == [channel |-> "none"]

MessagingInit(present) ==
    /\ onBus = present
    /\ registrations = [p \in Parties |-> IF p \in present THEN 1 ELSE 0]
    /\ inbox = [p \in Parties |-> <<>>]
    /\ outbox = [p \in Parties |-> <<>>]
    /\ failedMessages = [p \in Parties |-> <<>>]
    /\ sends = 0
    /\ channels = {}
    /\ subscription = [s \in Subscriptions |-> NoSubscription]
    /\ heard = [p \in Parties |-> {}]
    /\ unregistration = [u \in Unregistrations |-> Idle]

(***************************************************************************)
(* The queues                                                              *)
(***************************************************************************)
\* Urgent ones first, then older ones.
Before(m, n) == m.prio < n.prio \/ (m.prio = n.prio /\ m.time < n.time)

\* The insertion index: before the first one the message precedes.
InsertIndex(queue, m) ==
    Min({i \in DOMAIN queue : Before(m, queue[i])} \cup {Len(queue) + 1})

InsertByPriority(queue, m) == InsertAt(queue, InsertIndex(queue, m), m)

Messages(entries) == [i \in DOMAIN entries |-> entries[i].message]
InsertEntry(entries, e) == InsertAt(entries, InsertIndex(Messages(entries), e.message), e)

InboxFull(p) == Len(inbox[p]) >= MaxSize

\* Mutant: no limit.
Push_Unbounded(p, m) == InsertByPriority(inbox[p], m)

\* What the inbox holds after a push; a full one throws and keeps what it has.
Push(p, m) == IF InboxFull(p) THEN inbox[p] ELSE InsertByPriority(inbox[p], m)

Pop(p) ==
    /\ p \in onBus
    /\ inbox[p] # <<>>
    /\ inbox' = [inbox EXCEPT ![p] = Tail(@)]
    /\ UNCHANGED <<onBus, registrations, outbox, failedMessages, sends, channels, subscription,
                   heard, unregistration>>

Enqueue(m) ==
    /\ m.from \in onBus
    /\ Len(outbox[m.from]) < MaxSize
    /\ \A p \in Parties : \A i \in DOMAIN outbox[p] : outbox[p][i].message # m
    /\ outbox' = [outbox EXCEPT ![m.from] =
                    InsertEntry(@, [message |-> m, attempts |-> 0, delay |-> 0])]
    /\ UNCHANGED <<onBus, registrations, inbox, failedMessages, sends, channels, subscription,
                   heard, unregistration>>

\* Mutant: the entry stays queued with its attempt, until it is acknowledged.
Dequeue_Keep(p) ==
    /\ p \in onBus
    /\ outbox[p] # <<>>
    /\ outbox[p][1].attempts < MaxAttempts
    /\ outbox' = [outbox EXCEPT ![p] = [@ EXCEPT ![1] = [@ EXCEPT !.attempts = @ + 1]]]
    /\ UNCHANGED <<onBus, registrations, inbox, failedMessages, sends, channels, subscription,
                   heard, unregistration>>

\* The first entry whose delay is over leaves the outbox, and the attempt is
\* counted in the entry that has left.
Dequeue(p) ==
    /\ p \in onBus
    /\ \E waiting \in SUBSET {i \in DOMAIN outbox[p] : outbox[p][i].delay > 0} :
        /\ DOMAIN outbox[p] \ waiting # {}
        /\ outbox' = [outbox EXCEPT ![p] = RemoveAt(@, Min(DOMAIN outbox[p] \ waiting))]
    /\ UNCHANGED <<onBus, registrations, inbox, failedMessages, sends, channels, subscription,
                   heard, unregistration>>

\* A failed message that is retried goes back to the outbox, however full.
Retry(p, i) ==
    /\ p \in onBus
    /\ i \in DOMAIN failedMessages[p]
    /\ LET e == failedMessages[p][i]
       IN  IF e.attempts >= MaxAttempts
           THEN /\ failedMessages' = [failedMessages EXCEPT ![p] = Append(RemoveAt(@, i), e)]
                /\ UNCHANGED outbox
           ELSE /\ failedMessages' = [failedMessages EXCEPT ![p] = RemoveAt(@, i)]
                /\ outbox' = [outbox EXCEPT ![p] = InsertEntry(@, [e EXCEPT !.delay = e.attempts])]
    /\ UNCHANGED <<onBus, registrations, inbox, sends, channels, subscription, heard,
                   unregistration>>

(***************************************************************************)
(* The bus                                                                 *)
(***************************************************************************)
\* A send that fails marks the message as failed, if it still stands in the
\* sender's outbox; one that was dequeued before it was sent is gone.
MarkAsFailed(p, m) ==
    LET at == {i \in DOMAIN outbox[p] : outbox[p][i].message = m}
    IN  IF at = {} THEN UNCHANGED <<outbox, failedMessages>>
        ELSE /\ outbox' = [outbox EXCEPT ![p] = RemoveAt(@, Min(at))]
             /\ failedMessages' = [failedMessages EXCEPT ![p] = Append(@, outbox[p][Min(at)])]

\* Everyone else on the bus whose inbox takes it; the number delivered to decides.
BusBroadcast(m) ==
    inbox' = [p \in Parties |-> IF p \in onBus \ {m.from} THEN Push(p, m) ELSE inbox[p]]
Reached(m) == {p \in onBus \ {m.from} : ~InboxFull(p)}

SendDirect(m) ==
    IF m.to \in onBus /\ ~InboxFull(m.to)
    THEN /\ inbox' = [inbox EXCEPT ![m.to] = Push(m.to, m)]
         /\ UNCHANGED <<outbox, failedMessages>>
    ELSE /\ MarkAsFailed(m.from, m)
         /\ UNCHANGED inbox

\* send(): an unregistered sender is refused, with no outbox to mark.
Send(m) ==
    /\ sends < MaxSends
    /\ sends' = sends + 1
    /\ CASE m.from \notin onBus -> UNCHANGED <<inbox, outbox, failedMessages>>
         [] m.from \in onBus /\ m.to = Everyone ->
                BusBroadcast(m) /\ UNCHANGED <<outbox, failedMessages>>
         [] m.from \in onBus /\ m.to # Everyone -> SendDirect(m)
    /\ UNCHANGED <<onBus, registrations, channels, subscription, heard, unregistration>>

\* register(): a new inbox and a new outbox; a second one is refused.
RegisterAgent(p) ==
    /\ p \notin onBus
    /\ registrations[p] < MaxRegistrations
    /\ onBus' = onBus \cup {p}
    /\ registrations' = [registrations EXCEPT ![p] = @ + 1]
    /\ UNCHANGED <<mailVars, channels, subscription, heard, unregistration>>

(***************************************************************************)
(* Channels                                                                *)
(***************************************************************************)
CreateChannel(ch) ==
    /\ ch \notin channels
    /\ channels' = channels \cup {ch}
    /\ UNCHANGED <<onBus, registrations, mailVars, subscription, heard, unregistration>>

\* removeChannel(): the subscriptions go with the channel.
RemoveChannel(ch) ==
    /\ ch \in channels
    /\ channels' = channels \ {ch}
    /\ subscription' = [s \in Subscriptions |-> IF subscription[s].channel = ch
                                                THEN NoSubscription ELSE subscription[s]]
    /\ UNCHANGED <<onBus, registrations, mailVars, heard, unregistration>>

\* Nothing asks whether the agent is on the bus.
Subscribe(s, ch, p) ==
    /\ subscription[s] = NoSubscription
    /\ ch \in channels
    /\ subscription' = [subscription EXCEPT ![s] = [channel |-> ch, agent |-> p]]
    /\ UNCHANGED <<onBus, registrations, mailVars, channels, heard, unregistration>>

Unsubscribe(s) ==
    /\ subscription[s] # NoSubscription
    /\ subscription' = [subscription EXCEPT ![s] = NoSubscription]
    /\ UNCHANGED <<onBus, registrations, mailVars, channels, heard, unregistration>>

\* publish() calls the addressee's handlers, or those of all but the sender.
Publish(ch, m) ==
    /\ ch \in channels
    /\ heard' = [p \in Parties |->
                    IF /\ \E s \in Subscriptions : subscription[s] = [channel |-> ch, agent |-> p]
                       /\ IF m.to = Everyone THEN p # m.from ELSE p = m.to
                    THEN heard[p] \cup {m} ELSE heard[p]]
    /\ UNCHANGED <<onBus, registrations, mailVars, channels, subscription, unregistration>>

(***************************************************************************)
(* unregisterAgent(): channel by channel, then the inbox, the outbox and   *)
(* the registration, which need not be the one it began with               *)
(***************************************************************************)
UnregisterAgent(u, p) ==
    /\ unregistration[u].at = "idle"
    /\ unregistration' = [unregistration EXCEPT ![u] =
            [at |-> "unsubscribing", agent |-> p, left |-> {}, of |-> 0]]
    /\ UNCHANGED <<onBus, registrations, mailVars, channels, subscription, heard>>

UnsubscribeAgent(u, ch) ==
    /\ unregistration[u].at = "unsubscribing"
    /\ ch \in channels \ unregistration[u].left
    /\ subscription' = [s \in Subscriptions |->
            IF subscription[s] = [channel |-> ch, agent |-> unregistration[u].agent]
            THEN NoSubscription ELSE subscription[s]]
    /\ unregistration' = [unregistration EXCEPT ![u] = [@ EXCEPT !.left = @ \cup {ch}]]
    /\ UNCHANGED <<onBus, registrations, mailVars, channels, heard>>

BusUnregister(u) ==
    LET p == unregistration[u].agent
    IN  /\ unregistration[u].at = "unsubscribing"
        /\ channels \subseteq unregistration[u].left
        /\ unregistration' = [unregistration EXCEPT ![u] =
                [@ EXCEPT !.at = IF p \in onBus THEN "outbox" ELSE "done", !.of = registrations[p]]]
        /\ inbox' = [inbox EXCEPT ![p] = <<>>]
        /\ UNCHANGED <<onBus, registrations, outbox, failedMessages, sends, channels,
                       subscription, heard>>

\* The outbox of the registration found, not of one made since.
ClearOutbox(u) ==
    LET p == unregistration[u].agent
        mine == p \in onBus /\ unregistration[u].of = registrations[p]
    IN  /\ unregistration[u].at = "outbox"
        /\ unregistration' = [unregistration EXCEPT ![u] = [@ EXCEPT !.at = "deleting"]]
        /\ outbox' = [outbox EXCEPT ![p] = IF mine THEN <<>> ELSE @]
        /\ failedMessages' = [failedMessages EXCEPT ![p] = IF mine THEN <<>> ELSE @]
        /\ UNCHANGED <<onBus, registrations, inbox, sends, channels, subscription, heard>>

\* The map's entry goes, with whatever has been delivered to it meanwhile.
DeleteRegistration(u) ==
    LET p == unregistration[u].agent
    IN  /\ unregistration[u].at = "deleting"
        /\ unregistration' = [unregistration EXCEPT ![u] = [@ EXCEPT !.at = "done"]]
        /\ onBus' = onBus \ {p}
        /\ inbox' = [inbox EXCEPT ![p] = <<>>]
        /\ outbox' = [outbox EXCEPT ![p] = <<>>]
        /\ failedMessages' = [failedMessages EXCEPT ![p] = <<>>]
        /\ UNCHANGED <<registrations, sends, channels, subscription, heard>>

UnregisterStep(u) ==
    \/ \E ch \in Channels : UnsubscribeAgent(u, ch)
    \/ BusUnregister(u)
    \/ ClearOutbox(u)
    \/ DeleteRegistration(u)

OutboxStep(mail) ==
    \/ \E p \in Parties : Dequeue(p)
    \/ \E m \in mail : Enqueue(m)
    \/ \E p \in Parties : \E i \in DOMAIN failedMessages[p] : Retry(p, i)

ChannelStep(mail) ==
    \/ \E ch \in Channels : CreateChannel(ch) \/ RemoveChannel(ch)
    \/ \E ch \in Channels, s \in Subscriptions, p \in Parties : Subscribe(s, ch, p)
    \/ \E s \in Subscriptions : Unsubscribe(s)
    \/ \E ch \in Channels, m \in mail : Publish(ch, m)

(***************************************************************************)
(* Properties                                                              *)
(***************************************************************************)
Ordered(queue) == \A i, j \in DOMAIN queue : i < j => ~Before(queue[j], queue[i])

\* Whatever is sent, retried, read and cleared in between, what is read next is
\* the most urgent message and among equals the oldest, an inbox never takes more
\* than its limit, and holds nothing addressed to someone else.  The limit on
\* retries never bites: an attempt is counted in an entry that has left the
\* outbox, so every entry that can fail and be retried has made none, and its
\* retry waits for nothing.
MailboxesSound ==
    \A p \in Parties :
        /\ Ordered(inbox[p])
        /\ Ordered(Messages(outbox[p]))
        /\ Len(inbox[p]) <= MaxSize
        /\ \A i \in DOMAIN inbox[p] : inbox[p][i].to \in {p, Everyone}
        /\ \A i \in DOMAIN outbox[p] : outbox[p][i].attempts = 0 /\ outbox[p][i].delay = 0
        /\ \A i \in DOMAIN failedMessages[p] : failedMessages[p][i].attempts = 0
=============================================================================
