-------------------------- MODULE AgentTeamProofs --------------------------
(***************************************************************************)
(* Theorems about the coordinator and the communication manager, for any   *)
(* agents, calls, requests and messages, and any interleaving of them.     *)
(***************************************************************************)
EXTENDS AgentTeam, CollectionLemmas

-----------------------------------------------------------------------------
(* The mailboxes.                                                          *)

\* What may be in an outbox and among the failed messages: nothing was ever retried.
Entry == [message : Mail, attempts : {0}, delay : {0}]

OrderedEntries(entries) ==
    \A i, j \in 1..Len(entries) : i < j => ~Before(entries[j].message, entries[i].message)

\* A mailbox in order, within its limit, and of messages meant for its owner.
InboxOK(p, queue) ==
    /\ queue \in Seq(Mail)
    /\ Ordered(queue)
    /\ Len(queue) <= MaxSize
    /\ \A i \in 1..Len(queue) : queue[i].to \in {p, Everyone}
OutboxOK(entries) == entries \in Seq(Entry) /\ OrderedEntries(entries)

InboxesOK(boxes) ==
    boxes \in [Parties -> Seq(Mail)] /\ \A p \in Parties : InboxOK(p, boxes[p])
OutboxesOK(boxes) ==
    boxes \in [Parties -> Seq(Entry)] /\ \A p \in Parties : OutboxOK(boxes[p])

MailInv ==
    /\ workload \in Workloads
    /\ InboxesOK(inbox)
    /\ OutboxesOK(outbox)
    /\ failedMessages \in [Parties -> Seq(Entry)]

\* Before orders the messages: it is transitive where it is not told apart.
LEMMA BeforeOrders ==
    ASSUME NEW m \in Mail, NEW n \in Mail, NEW o \in Mail
    PROVE  /\ Before(m, n) => ~Before(n, m)
           /\ Before(m, n) /\ ~Before(o, n) => ~Before(o, m)
  <1>1. /\ m.prio \in 0..3 /\ n.prio \in 0..3 /\ o.prio \in 0..3
        /\ m.time \in Nat /\ n.time \in Nat /\ o.time \in Nat
    BY MessagingAssumption
  <1> QED BY <1>1 DEF Before

\* The place a message is inserted at keeps the urgent ones before it and the others
\* behind it.
LEMMA InsertIndexIn ==
    ASSUME NEW q \in Seq(Mail), NEW m \in Mail, Ordered(q)
    PROVE  /\ InsertIndex(q, m) \in 1..(Len(q) + 1)
           /\ \A i \in 1..Len(q) : IF i < InsertIndex(q, m) THEN ~Before(m, q[i])
                                   ELSE ~Before(q[i], m)
  <1> DEFINE S == {i \in DOMAIN q : Before(m, q[i])} \cup {Len(q) + 1}
             x == InsertIndex(q, m)
  <1>1. S \in SUBSET Nat /\ S # {} /\ Len(q) \in Nat /\ DOMAIN q = 1..Len(q)
    OBVIOUS
  <1>2. x \in S /\ \A i \in S : x =< i
    <2>1. x = Min(S)
      BY DEF InsertIndex
    <2> HIDE DEF S, x
    <2> QED BY <1>1, <2>1, MinIn
  <1>3. x \in 1..(Len(q) + 1)
    BY <1>1, <1>2
  <1>4. ASSUME NEW i \in 1..Len(q), i < x
        PROVE  ~Before(m, q[i])
    <2>1. Before(m, q[i]) => i \in S
      BY <1>1
    <2> HIDE DEF S, x
    <2> QED BY <1>2, <1>3, <1>4, <2>1
  <1>5. ASSUME NEW i \in 1..Len(q), ~(i < x)
        PROVE  ~Before(q[i], m)
    <2>1. x \in 1..Len(q) /\ Before(m, q[x])
      BY <1>1, <1>2, <1>3, <1>5
    <2> HIDE DEF S, x
    <2>2. q[i] \in Mail /\ q[x] \in Mail
      BY <2>1
    <2>3. ~Before(q[i], q[x])
      <3>1. CASE i = x
        BY <2>1, <2>2, <3>1, BeforeOrders
      <3>2. CASE x < i
        BY <1>1, <2>1, <3>2 DEF Ordered
      <3> QED BY <1>3, <1>5, <3>1, <3>2
    <2> QED BY <2>1, <2>2, <2>3, BeforeOrders
  <1> HIDE DEF x
  <1> QED BY <1>3, <1>4, <1>5 DEF x

\* A sequence of messages with one more at that place is in order.
LEMMA InsertedOrder ==
    ASSUME NEW q \in Seq(Mail), NEW m \in Mail, Ordered(q), NEW r \in Seq(Mail),
           Len(r) = Len(q) + 1,
           \A j \in 1..(Len(q) + 1) :
                r[j] = IF j < InsertIndex(q, m) THEN q[j]
                       ELSE IF j = InsertIndex(q, m) THEN m ELSE q[j-1]
    PROVE  Ordered(r)
  <1> DEFINE x == InsertIndex(q, m)
  <1>1. /\ x \in 1..(Len(q) + 1) /\ Len(q) \in Nat
        /\ \A i \in 1..Len(q) : IF i < x THEN ~Before(m, q[i]) ELSE ~Before(q[i], m)
    BY InsertIndexIn
  <1>2. /\ Len(r) = Len(q) + 1
        /\ \A j \in 1..(Len(q) + 1) : r[j] = IF j < x THEN q[j] ELSE IF j = x THEN m ELSE q[j-1]
    OBVIOUS
  <1> HIDE DEF x
  <1>3. ASSUME NEW i \in 1..Len(r), NEW j \in 1..Len(r), i < j
        PROVE  ~Before(r[j], r[i])
    <2>1. CASE j < x
      BY <1>1, <1>2, <1>3, <2>1 DEF Ordered
    <2>2. CASE j = x
      BY <1>1, <1>2, <1>3, <2>2
    <2>3. CASE j > x /\ i = x
      <3>1. r[j] = q[j-1] /\ r[i] = m /\ j - 1 \in 1..Len(q) /\ ~(j - 1 < x)
        BY <1>1, <1>2, <1>3, <2>3
      <3> QED BY <1>1, <3>1
    <2>4. CASE j > x /\ i < x
      <3>1. i < j - 1 \/ i = j - 1
        BY <1>1, <1>2, <1>3, <2>4
      <3>2. r[j] = q[j-1] /\ r[i] = q[i] /\ j - 1 \in 1..Len(q) /\ i \in 1..Len(q)
        BY <1>1, <1>2, <1>3, <2>4
      <3>3. q[j-1] \in Mail /\ q[i] \in Mail
        BY <3>2
      <3>4. ~Before(m, q[i]) /\ ~Before(q[j-1], m)
        BY <1>1, <1>3, <2>4, <3>2
      <3> QED BY <1>1, <3>1, <3>2, <3>3, <3>4, BeforeOrders DEF Ordered
    <2>5. CASE j > x /\ i > x
      <3>1. /\ r[j] = q[j-1] /\ r[i] = q[i-1] /\ i - 1 < j - 1
            /\ j - 1 \in 1..Len(q) /\ i - 1 \in 1..Len(q)
        BY <1>1, <1>2, <1>3, <2>5
      <3> QED BY <3>1 DEF Ordered
    <2> QED BY <1>1, <1>2, <1>3, <2>1, <2>2, <2>3, <2>4, <2>5
  <1> QED BY <1>2, <1>3 DEF Ordered

\* So an inbox stays in order.
LEMMA InsertKeepsOrder ==
    ASSUME NEW q \in Seq(Mail), NEW m \in Mail, Ordered(q)
    PROVE  /\ InsertByPriority(q, m) \in Seq(Mail)
           /\ Ordered(InsertByPriority(q, m))
           /\ Len(InsertByPriority(q, m)) = Len(q) + 1
           /\ \A i \in 1..(Len(q) + 1) :
                InsertByPriority(q, m)[i] = m \/ \E j \in 1..Len(q) : InsertByPriority(q, m)[i] = q[j]
  <1> DEFINE x == InsertIndex(q, m)
             r == InsertByPriority(q, m)
  <1>1. x \in 1..(Len(q) + 1) /\ Len(q) \in Nat
    BY InsertIndexIn
  <1> HIDE DEF x
  <1>2. /\ r \in Seq(Mail) /\ Len(r) = Len(q) + 1
        /\ \A j \in 1..(Len(q) + 1) : r[j] = IF j < x THEN q[j] ELSE IF j = x THEN m ELSE q[j-1]
    <2>1. r = InsertAt(q, x, m)
      BY DEF InsertByPriority, x
    <2>2. InsertAt(q, x, m) \in Seq(Mail)
      BY <1>1, InsertAtSeq
    <2>3. /\ Len(InsertAt(q, x, m)) = Len(q) + 1
          /\ \A j \in 1..(Len(q) + 1) :
                InsertAt(q, x, m)[j] = IF j < x THEN q[j] ELSE IF j = x THEN m ELSE q[j-1]
      BY <1>1, InsertAtElements
    <2> HIDE DEF r
    <2> QED BY <2>1, <2>2, <2>3
  <1> HIDE DEF r
  <1>4. Ordered(r)
    BY <1>2, InsertedOrder DEF x
  <1>5. ASSUME NEW i \in 1..(Len(q) + 1)
        PROVE  r[i] = m \/ \E j \in 1..Len(q) : r[i] = q[j]
    <2>1. CASE i < x
      BY <1>1, <1>2, <2>1
    <2>2. CASE i > x
      <3>1. i - 1 \in 1..Len(q) /\ r[i] = q[i-1]
        BY <1>1, <1>2, <2>2
      <3> QED BY <3>1
    <2> QED BY <1>1, <1>2, <2>1, <2>2
  <1> QED BY <1>2, <1>4, <1>5 DEF r

\* The order of an outbox is that of its messages.
LEMMA EntriesOrder ==
    ASSUME NEW s \in Seq(Entry)
    PROVE  /\ Messages(s) \in Seq(Mail) /\ Len(Messages(s)) = Len(s)
           /\ \A i \in 1..Len(s) : Messages(s)[i] = s[i].message
           /\ Ordered(Messages(s)) <=> OrderedEntries(s)
  <1>1. ASSUME NEW i \in 1..Len(s)
        PROVE  s[i].message \in Mail
    <2>1. s[i] \in Entry
      OBVIOUS
    <2> QED BY <2>1 DEF Entry
  <1>2. /\ Messages(s) \in Seq(Mail) /\ Len(Messages(s)) = Len(s)
        /\ \A i \in 1..Len(s) : Messages(s)[i] = s[i].message
    <2>1. DOMAIN s = 1..Len(s) /\ Len(s) \in Nat
      OBVIOUS
    <2>2. Messages(s) = [i \in 1..Len(s) |-> s[i].message]
      BY <2>1 DEF Messages
    <2>3. [i \in 1..Len(s) |-> s[i].message] \in [1..Len(s) -> Mail]
      BY <1>1
    <2>4. Messages(s) \in Seq(Mail) /\ DOMAIN Messages(s) = 1..Len(s)
      BY <2>1, <2>2, <2>3, SeqDef
    <2> QED BY <2>1, <2>2, <2>4, LenProperties
  <1> QED BY <1>2 DEF Ordered, OrderedEntries

LEMMA InsertEntryKeepsOrder ==
    ASSUME NEW s \in Seq(Entry), NEW e \in Entry, OrderedEntries(s)
    PROVE  InsertEntry(s, e) \in Seq(Entry) /\ OrderedEntries(InsertEntry(s, e))
  <1> DEFINE q == Messages(s)
             m == e.message
             x == InsertIndex(q, m)
             r == InsertAt(s, x, e)
  <1>1. /\ q \in Seq(Mail) /\ Len(q) = Len(s) /\ Ordered(q) /\ m \in Mail
        /\ \A i \in 1..Len(s) : q[i] = s[i].message
    BY EntriesOrder DEF Entry
  <1> HIDE DEF q, m
  <1>2. x \in 1..(Len(s) + 1) /\ Len(s) \in Nat
    BY <1>1, InsertIndexIn
  <1> HIDE DEF x
  <1>3. r \in Seq(Entry)
    BY <1>2, InsertAtSeq
  <1>4. /\ Len(r) = Len(s) + 1
        /\ \A j \in 1..(Len(s) + 1) : r[j] = IF j < x THEN s[j] ELSE IF j = x THEN e ELSE s[j-1]
    BY <1>2, InsertAtElements
  <1> HIDE DEF r
  <1>5. /\ Messages(r) \in Seq(Mail) /\ Len(Messages(r)) = Len(r)
        /\ \A i \in 1..Len(r) : Messages(r)[i] = r[i].message
        /\ Ordered(Messages(r)) <=> OrderedEntries(r)
    BY <1>3, EntriesOrder
  <1>6. ASSUME NEW j \in 1..(Len(q) + 1)
        PROVE  Messages(r)[j] = IF j < x THEN q[j] ELSE IF j = x THEN m ELSE q[j-1]
    <2>1. CASE j < x
      BY <1>1, <1>2, <1>4, <1>5, <2>1
    <2>2. CASE j = x
      BY <1>1, <1>2, <1>4, <1>5, <2>2 DEF m
    <2>3. CASE j > x
      <3>1. j - 1 \in 1..Len(s) /\ r[j] = s[j-1] /\ j \in 1..Len(r)
        BY <1>1, <1>2, <1>4, <2>3
      <3>2. Messages(r)[j] = q[j-1]
        BY <1>1, <1>5, <3>1
      <3> QED BY <1>2, <2>3, <3>2
    <2> QED BY <1>1, <1>2, <2>1, <2>2, <2>3
  <1>7. Ordered(Messages(r))
    BY <1>1, <1>4, <1>5, <1>6, InsertedOrder DEF x
  <1> QED BY <1>3, <1>5, <1>7 DEF InsertEntry, r, x, q, m

LEMMA RemoveKeepsOrder ==
    ASSUME NEW s \in Seq(Entry), NEW i \in 1..Len(s)
    PROVE  /\ RemoveAt(s, i) \in Seq(Entry)
           /\ OrderedEntries(s) => OrderedEntries(RemoveAt(s, i))
  <1> DEFINE r == RemoveAt(s, i)
  <1>1. r \in Seq(Entry)
    BY RemoveAtSeq
  <1>2. /\ Len(r) = Len(s) - 1
        /\ \A j \in 1..(Len(s) - 1) : r[j] = IF j < i THEN s[j] ELSE s[j+1]
    BY RemoveAtElements
  <1> HIDE DEF r
  <1>3. ASSUME OrderedEntries(s), NEW j \in 1..Len(r), NEW k \in 1..Len(r), j < k
        PROVE  ~Before(r[k].message, r[j].message)
    <2>1. PICK j1 \in 1..Len(s), k1 \in 1..Len(s) : r[j] = s[j1] /\ r[k] = s[k1] /\ j1 < k1
      <3>1. CASE k < i
        BY <1>2, <1>3, <3>1
      <3>2. CASE j < i /\ ~(k < i)
        <4>1. r[j] = s[j] /\ r[k] = s[k+1] /\ j \in 1..Len(s) /\ k + 1 \in 1..Len(s) /\ j < k + 1
          BY <1>2, <1>3, <3>2
        <4> QED BY <4>1
      <3>3. CASE ~(j < i)
        <4>1. /\ r[j] = s[j+1] /\ r[k] = s[k+1] /\ j + 1 < k + 1
              /\ j + 1 \in 1..Len(s) /\ k + 1 \in 1..Len(s)
          BY <1>2, <1>3, <3>3
        <4> QED BY <4>1
      <3> QED BY <1>2, <1>3, <3>1, <3>2, <3>3
    <2> QED BY <1>3, <2>1 DEF OrderedEntries
  <1>4. OrderedEntries(s) => OrderedEntries(r)
    BY <1>3 DEF OrderedEntries
  <1> QED BY <1>1, <1>4 DEF r

\* What Push() makes of an inbox.
LEMMA PushSound ==
    ASSUME MailInv, NEW p \in Parties, NEW m \in Mail, m.to \in {p, Everyone}
    PROVE  InboxOK(p, Push(p, m))
  <1> DEFINE q == inbox[p]
             r == InsertByPriority(q, m)
  <1>1. InboxOK(p, q)
    BY DEF MailInv, InboxesOK
  <1>2. CASE InboxFull(p)
    BY <1>1, <1>2 DEF Push
  <1>3. CASE ~InboxFull(p)
    <2>1. /\ q \in Seq(Mail) /\ Ordered(q) /\ Len(q) <= MaxSize /\ Len(q) \in Nat
          /\ MaxSize \in Nat
          /\ \A i \in 1..Len(q) : q[i].to \in {p, Everyone}
      BY <1>1, MessagingAssumption DEF InboxOK
    <2>2. /\ r \in Seq(Mail) /\ Ordered(r) /\ Len(r) = Len(q) + 1
          /\ \A i \in 1..(Len(q) + 1) : r[i] = m \/ \E j \in 1..Len(q) : r[i] = q[j]
      BY <2>1, InsertKeepsOrder
    <2>3. Len(q) < MaxSize /\ Push(p, m) = r
      BY <1>3, <2>1 DEF InboxFull, Push
    <2> HIDE DEF r, q
    <2> QED BY <2>1, <2>2, <2>3 DEF InboxOK
  <1> QED BY <1>2, <1>3

LEMMA PopSound ==
    ASSUME NEW p, NEW q, InboxOK(p, q), q # <<>>
    PROVE  InboxOK(p, Tail(q))
  <1>1. q \in Seq(Mail) /\ Len(q) \in Nat /\ Len(q) <= MaxSize /\ MaxSize \in Nat
    BY MessagingAssumption DEF InboxOK
  <1>2. Tail(q) \in Seq(Mail) /\ Len(Tail(q)) = Len(q) - 1
    BY <1>1
  <1>3. \A i \in 1..Len(Tail(q)) : Tail(q)[i] = q[i+1] /\ i + 1 \in 1..Len(q)
    BY <1>1, <1>2
  <1> HIDE DEF InboxOK
  <1>4. ASSUME NEW i \in 1..Len(Tail(q)), NEW j \in 1..Len(Tail(q)), i < j
        PROVE  ~Before(Tail(q)[j], Tail(q)[i])
    <2>1. i + 1 < j + 1
      BY <1>2, <1>4
    <2> QED BY <1>1, <1>3, <2>1 DEF InboxOK, Ordered
  <1>5. Ordered(Tail(q))
    BY <1>2, <1>4 DEF Ordered
  <1> QED BY <1>1, <1>2, <1>3, <1>5 DEF InboxOK

LEMMA EmptyBoxes ==
    /\ \A p : InboxOK(p, <<>>)
    /\ OutboxOK(<<>>)
    /\ <<>> \in Seq(Entry)
  <1>1. Len(<<>>) = 0 /\ <<>> \in Seq(Mail) /\ <<>> \in Seq(Entry) /\ DOMAIN <<>> = {}
    OBVIOUS
  <1> QED BY <1>1, MessagingAssumption DEF InboxOK, OutboxOK, Ordered, OrderedEntries

\* A step that changes one mailbox.
LEMMA OneInbox ==
    ASSUME NEW boxes, InboxesOK(boxes), NEW p, NEW q, InboxOK(p, q)
    PROVE  InboxesOK([boxes EXCEPT ![p] = q])
  BY DEF InboxesOK, InboxOK

LEMMA OneOutbox ==
    ASSUME NEW boxes, OutboxesOK(boxes), NEW p, NEW s, OutboxOK(s)
    PROVE  OutboxesOK([boxes EXCEPT ![p] = s])
  BY DEF OutboxesOK, OutboxOK

-----------------------------------------------------------------------------
(* Every step keeps the mailboxes sound.                                   *)

LEMMA PopKeeps ==
    ASSUME MailInv, workload' = workload, NEW p \in Parties, Pop(p)
    PROVE  MailInv'
  <1>1. InboxOK(p, inbox[p]) /\ InboxesOK(inbox)
    BY DEF MailInv, InboxesOK
  <1>2. InboxOK(p, Tail(inbox[p]))
    BY <1>1, PopSound DEF Pop
  <1>3. InboxesOK([inbox EXCEPT ![p] = Tail(inbox[p])])
    BY <1>1, <1>2, OneInbox
  <1>4. /\ inbox' = [inbox EXCEPT ![p] = Tail(inbox[p])]
        /\ outbox' = outbox /\ failedMessages' = failedMessages
    BY DEF Pop
  <1> QED BY <1>3, <1>4 DEF MailInv

LEMMA EnqueueKeeps ==
    ASSUME MailInv, workload' = workload, NEW m \in Mail, Enqueue(m)
    PROVE  MailInv'
  <1> DEFINE p == m.from
             e == [message |-> m, attempts |-> 0, delay |-> 0]
  <1>1. p \in Parties
    BY MessagingAssumption
  <1>2. e \in Entry
    BY DEF Entry
  <1>3. OutboxesOK(outbox) /\ OutboxOK(outbox[p])
    BY <1>1 DEF MailInv, OutboxesOK
  <1>4. /\ outbox' = [outbox EXCEPT ![p] = InsertEntry(outbox[p], e)]
        /\ inbox' = inbox /\ failedMessages' = failedMessages
    BY DEF Enqueue
  <1> HIDE DEF e, p
  <1>5. OutboxOK(InsertEntry(outbox[p], e))
    BY <1>2, <1>3, InsertEntryKeepsOrder DEF OutboxOK
  <1> QED BY <1>3, <1>4, <1>5, OneOutbox DEF MailInv

LEMMA DequeueKeeps ==
    ASSUME MailInv, workload' = workload, NEW p \in Parties, Dequeue(p)
    PROVE  MailInv'
  <1>1. OutboxesOK(outbox) /\ OutboxOK(outbox[p])
    BY DEF MailInv, OutboxesOK
  <1>2. PICK waiting \in SUBSET {i \in DOMAIN outbox[p] : outbox[p][i].delay > 0} :
            /\ DOMAIN outbox[p] \ waiting # {}
            /\ outbox' = [outbox EXCEPT ![p] = RemoveAt(@, Min(DOMAIN outbox[p] \ waiting))]
    BY DEF Dequeue
  <1> DEFINE ready == DOMAIN outbox[p] \ waiting
  <1>3. ready \in SUBSET Nat /\ ready # {} /\ ready \subseteq 1..Len(outbox[p])
    BY <1>1, <1>2 DEF OutboxOK
  <1> HIDE DEF ready
  <1>4. Min(ready) \in 1..Len(outbox[p])
    BY <1>3, MinIn
  <1>5. OutboxOK(RemoveAt(outbox[p], Min(ready)))
    BY <1>1, <1>4, RemoveKeepsOrder DEF OutboxOK
  <1>6. /\ outbox' = [outbox EXCEPT ![p] = RemoveAt(outbox[p], Min(ready))]
        /\ inbox' = inbox /\ failedMessages' = failedMessages
    BY <1>2 DEF Dequeue, ready
  <1> QED BY <1>1, <1>5, <1>6, OneOutbox DEF MailInv

LEMMA RetryKeeps ==
    ASSUME MailInv, workload' = workload, NEW p \in Parties, NEW i \in DOMAIN failedMessages[p],
           Retry(p, i)
    PROVE  MailInv'
  <1> DEFINE f == failedMessages[p]
             e == f[i]
             back == [e EXCEPT !.delay = e.attempts]
  <1>1. f \in Seq(Entry) /\ OutboxesOK(outbox) /\ OutboxOK(outbox[p])
    BY DEF MailInv, OutboxesOK
  <1>2. i \in 1..Len(f) /\ e \in Entry
    BY <1>1
  <1> HIDE DEF f, e
  <1>3. e.attempts = 0 /\ ~(e.attempts >= MaxAttempts) /\ back \in Entry
    <2>1. e.attempts = 0
      BY <1>2 DEF Entry
    <2>2. back \in Entry
      BY <1>2, <2>1 DEF Entry
    <2> QED BY <2>1, <2>2, MessagingAssumption
  <1>4. /\ failedMessages' = [failedMessages EXCEPT ![p] = RemoveAt(f, i)]
        /\ outbox' = [outbox EXCEPT ![p] = InsertEntry(outbox[p], back)]
        /\ inbox' = inbox
    BY <1>3 DEF Retry, f, e
  <1> HIDE DEF back
  <1>5. OutboxOK(InsertEntry(outbox[p], back))
    BY <1>1, <1>3, InsertEntryKeepsOrder DEF OutboxOK
  <1>6. OutboxesOK(outbox')
    BY <1>1, <1>4, <1>5, OneOutbox
  <1>7. RemoveAt(f, i) \in Seq(Entry)
    BY <1>1, <1>2, RemoveAtSeq
  <1>8. failedMessages' \in [Parties -> Seq(Entry)]
    BY <1>4, <1>7 DEF MailInv
  <1> QED BY <1>4, <1>6, <1>8 DEF MailInv

\* Everyone else's inbox takes a broadcast, or is full.
LEMMA BroadcastKeeps ==
    ASSUME MailInv, NEW m \in Mail, m.to = Everyone, BusBroadcast(m)
    PROVE  InboxesOK(inbox')
  <1>1. ASSUME NEW p \in Parties
        PROVE  InboxOK(p, IF p \in onBus \ {m.from} THEN Push(p, m) ELSE inbox[p])
    BY PushSound DEF MailInv, InboxesOK
  <1> QED BY <1>1 DEF BusBroadcast, InboxesOK, InboxOK

\* The entry that failed goes from the outbox to the failed messages.
LEMMA MarkAsFailedKeeps ==
    ASSUME MailInv, workload' = workload, inbox' = inbox,
           NEW p \in Parties, NEW m \in Mail, MarkAsFailed(p, m)
    PROVE  MailInv'
  <1> DEFINE at == {i \in DOMAIN outbox[p] : outbox[p][i].message = m}
  <1>1. OutboxesOK(outbox) /\ OutboxOK(outbox[p]) /\ outbox[p] \in Seq(Entry)
    BY DEF MailInv, OutboxesOK, OutboxOK
  <1>2. at \in SUBSET Nat /\ at \subseteq 1..Len(outbox[p])
    BY <1>1
  <1>3. IF at = {} THEN UNCHANGED <<outbox, failedMessages>>
        ELSE /\ outbox' = [outbox EXCEPT ![p] = RemoveAt(outbox[p], Min(at))]
             /\ failedMessages' = [failedMessages EXCEPT ![p] =
                                    Append(failedMessages[p], outbox[p][Min(at)])]
    BY DEF MarkAsFailed, MailInv
  <1> HIDE DEF at
  <1>4. CASE at = {}
    BY <1>3, <1>4 DEF MailInv
  <1>5. CASE at # {}
    <2>1. Min(at) \in 1..Len(outbox[p])
      BY <1>2, <1>5, MinIn
    <2>2. OutboxOK(RemoveAt(outbox[p], Min(at))) /\ outbox[p][Min(at)] \in Entry
      BY <1>1, <2>1, RemoveKeepsOrder DEF OutboxOK
    <2> DEFINE rest == RemoveAt(outbox[p], Min(at))
               more == Append(failedMessages[p], outbox[p][Min(at)])
    <2>3. /\ outbox' = [outbox EXCEPT ![p] = rest]
          /\ failedMessages' = [failedMessages EXCEPT ![p] = more]
      BY <1>3, <1>5
    <2>4. failedMessages \in [Parties -> Seq(Entry)] /\ more \in Seq(Entry)
      BY <2>2 DEF MailInv
    <2> HIDE DEF rest, more
    <2>5. OutboxesOK([outbox EXCEPT ![p] = rest])
      BY <1>1, <2>2, OneOutbox DEF rest
    <2>6. failedMessages' \in [Parties -> Seq(Entry)]
      BY <2>3, <2>4
    <2> QED BY <2>3, <2>5, <2>6 DEF MailInv
  <1> QED BY <1>4, <1>5

LEMMA SendKeeps ==
    ASSUME MailInv, workload' = workload, NEW m \in Mail, Send(m)
    PROVE  MailInv'
  <1>1. m.from \in Parties /\ m.to \in Parties \cup {Everyone}
    BY MessagingAssumption
  <1>2. CASE m.from \notin onBus
    BY <1>2 DEF Send, MailInv
  <1>3. CASE m.from \in onBus /\ m.to = Everyone
    <2>1. BusBroadcast(m) /\ outbox' = outbox /\ failedMessages' = failedMessages
      BY <1>3 DEF Send
    <2> QED BY <1>3, <2>1, BroadcastKeeps DEF MailInv
  <1>4. CASE m.from \in onBus /\ m.to # Everyone
    <2>1. SendDirect(m)
      BY <1>4 DEF Send
    <2>2. CASE m.to \in onBus /\ ~InboxFull(m.to)
      <3>1. /\ inbox' = [inbox EXCEPT ![m.to] = Push(m.to, m)]
            /\ outbox' = outbox /\ failedMessages' = failedMessages
        BY <2>1, <2>2 DEF SendDirect
      <3>2. InboxOK(m.to, Push(m.to, m))
        BY <1>1, <1>4, PushSound
      <3>3. InboxesOK(inbox')
        BY <3>1, <3>2, OneInbox DEF MailInv
      <3> QED BY <3>1, <3>3 DEF MailInv
    <2>3. CASE ~(m.to \in onBus /\ ~InboxFull(m.to))
      <3>1. MarkAsFailed(m.from, m) /\ inbox' = inbox
        BY <2>1, <2>3 DEF SendDirect
      <3> QED BY <1>1, <3>1, MarkAsFailedKeeps
    <2> QED BY <2>2, <2>3
  <1> QED BY <1>2, <1>3, <1>4

\* The parts of unregisterAgent() that touch the mailboxes empty them.
LEMMA UnregisterKeeps ==
    ASSUME MailInv, workload' = workload, NEW u, UnregisterStep(u)
    PROVE  MailInv'
  <1> DEFINE p == unregistration[u].agent
  <1>1. InboxesOK([inbox EXCEPT ![p] = <<>>]) /\ OutboxesOK([outbox EXCEPT ![p] = <<>>])
    BY EmptyBoxes, OneInbox, OneOutbox DEF MailInv
  <1>2. [failedMessages EXCEPT ![p] = <<>>] \in [Parties -> Seq(Entry)]
    BY EmptyBoxes DEF MailInv
  <1>3. ASSUME NEW ch, UnsubscribeAgent(u, ch)
        PROVE  MailInv'
    BY <1>3 DEF UnsubscribeAgent, mailVars, MailInv
  <1>4. ASSUME BusUnregister(u)
        PROVE  MailInv'
    <2>1. /\ inbox' = [inbox EXCEPT ![p] = <<>>]
          /\ outbox' = outbox /\ failedMessages' = failedMessages
      BY <1>4 DEF BusUnregister
    <2> HIDE DEF p
    <2> QED BY <1>1, <2>1 DEF MailInv
  <1>5. ASSUME ClearOutbox(u)
        PROVE  MailInv'
    <2> DEFINE mine == p \in onBus /\ unregistration[u].of = registrations[p]
    <2>1. /\ inbox' = inbox
          /\ outbox' = [outbox EXCEPT ![p] = IF mine THEN <<>> ELSE @]
          /\ failedMessages' = [failedMessages EXCEPT ![p] = IF mine THEN <<>> ELSE @]
      BY <1>5 DEF ClearOutbox
    <2> HIDE DEF p, mine
    <2>2. CASE mine
      <3>1. /\ outbox' = [outbox EXCEPT ![p] = <<>>]
            /\ failedMessages' = [failedMessages EXCEPT ![p] = <<>>]
        BY <2>1, <2>2
      <3> QED BY <1>1, <1>2, <2>1, <3>1 DEF MailInv
    <2>3. CASE ~mine
      <3>1. outbox' = outbox /\ failedMessages' = failedMessages
        BY <2>1, <2>3 DEF MailInv, OutboxesOK
      <3> QED BY <2>1, <3>1 DEF MailInv
    <2> QED BY <2>2, <2>3
  <1>6. ASSUME DeleteRegistration(u)
        PROVE  MailInv'
    <2>1. /\ inbox' = [inbox EXCEPT ![p] = <<>>]
          /\ outbox' = [outbox EXCEPT ![p] = <<>>]
          /\ failedMessages' = [failedMessages EXCEPT ![p] = <<>>]
      BY <1>6 DEF DeleteRegistration
    <2> HIDE DEF p
    <2> QED BY <1>1, <1>2, <2>1 DEF MailInv
  <1> QED BY <1>3, <1>4, <1>5, <1>6 DEF UnregisterStep

\* The steps that are not the mailboxes' own.
LEMMA OthersKeepMail ==
    ASSUME MailInv, workload' = workload, UNCHANGED <<inbox, outbox, failedMessages>>
    PROVE  MailInv'
  BY DEF MailInv

LEMMA MessagingKeepsMail ==
    ASSUME MailInv, workload' = workload, MessagingSteps
    PROVE  MailInv'
  <1>1. workload.mail \subseteq Mail /\ workload.joining \subseteq Parties
    BY TeamAssumption DEF MailInv
  <1>2. ASSUME NEW m \in workload.mail, Send(m) PROVE MailInv'
    BY <1>1, <1>2, SendKeeps
  <1>3. ASSUME NEW p \in Parties, Pop(p) PROVE MailInv'
    BY <1>3, PopKeeps
  <1>4. ASSUME OutboxStep(workload.mail) PROVE MailInv'
    BY <1>1, <1>4, DequeueKeeps, EnqueueKeeps, RetryKeeps DEF OutboxStep
  <1>5. ASSUME NEW p \in workload.joining, RegisterAgent(p) PROVE MailInv'
    BY <1>5, OthersKeepMail DEF RegisterAgent, mailVars
  <1>6. ASSUME ChannelStep(workload.mail) PROVE MailInv'
    BY <1>6, OthersKeepMail
       DEF ChannelStep, CreateChannel, RemoveChannel, Subscribe, Unsubscribe, Publish, mailVars
  <1>7. ASSUME NEW u \in Unregistrations, NEW p \in workload.unregister[u], UnregisterAgent(u, p)
        PROVE  MailInv'
    BY <1>7, OthersKeepMail DEF UnregisterAgent, mailVars
  <1>8. ASSUME NEW u \in Unregistrations, UnregisterStep(u) PROVE MailInv'
    BY <1>8, UnregisterKeeps
  <1> QED BY <1>2, <1>3, <1>4, <1>5, <1>6, <1>7, <1>8 DEF MessagingSteps

LEMMA TeamKeepsMail ==
    ASSUME MailInv, [TeamNext]_vars
    PROVE  MailInv'
  <1>1. CASE (CoordinatorCalls \/ CoordinatorSteps) /\ UNCHANGED <<messagingVars, teamVars>>
    BY <1>1, OthersKeepMail DEF messagingVars, teamVars, mailVars
  <1>2. CASE MessagingSteps /\ UNCHANGED <<coordinatorVars, teamVars>>
    BY <1>2, MessagingKeepsMail DEF teamVars
  <1>3. ASSUME NEW b, Broadcast(b)
        PROVE  MailInv'
    BY <1>3, OthersKeepMail DEF Broadcast, messagingVars, mailVars
  <1>4. ASSUME NEW b, BroadcastEnds(b)
        PROVE  MailInv'
    BY <1>4, OthersKeepMail DEF BroadcastEnds, messagingVars, mailVars
  <1>5. ASSUME NEW b, NEW a, NEW m \in Mail, BroadcastTo(b, a, m)
        PROVE  MailInv'
    <2>1. /\ (m.to = Everyone /\ BusBroadcast(m)) \/ inbox' = inbox
          /\ workload' = workload /\ outbox' = outbox /\ failedMessages' = failedMessages
      BY <1>5 DEF BroadcastTo
    <2> QED BY <1>5, <2>1, BroadcastKeeps DEF MailInv
  <1>6. CASE UNCHANGED vars
    BY <1>6, OthersKeepMail DEF vars, messagingVars, teamVars, mailVars
  <1> QED BY <1>1, <1>2, <1>3, <1>4, <1>5, <1>6 DEF TeamNext, BroadcastStep

LEMMA MailInitially == TeamInit => MailInv
  <1> SUFFICES ASSUME TeamInit PROVE MailInv
    OBVIOUS
  <1>1. /\ workload \in Workloads
        /\ inbox = [p \in Parties |-> <<>>]
        /\ outbox = [p \in Parties |-> <<>>]
        /\ failedMessages = [p \in Parties |-> <<>>]
    BY DEF TeamInit, MessagingInit
  <1> QED BY <1>1, EmptyBoxes DEF MailInv, InboxesOK, OutboxesOK, InboxOK, OutboxOK

LEMMA MailInvariant == TeamSpec => []MailInv
  <1>1. MailInv /\ [TeamNext]_vars => MailInv'
    BY TeamKeepsMail
  <1> QED BY <1>1, MailInitially, PTL DEF TeamSpec

\* Whatever is sent, retried, read and cleared in between, what an agent reads next
\* is the most urgent message and among equals the oldest, no inbox takes more than
\* its limit or a message for someone else, and the limit on retries never bites.
THEOREM MailInOrder == TeamSpec => []MailboxesSound
  <1>1. MailInv => MailboxesSound
    <2> SUFFICES ASSUME MailInv, NEW p \in Parties
                 PROVE  /\ Ordered(inbox[p])
                        /\ Ordered(Messages(outbox[p]))
                        /\ Len(inbox[p]) <= MaxSize
                        /\ \A i \in DOMAIN inbox[p] : inbox[p][i].to \in {p, Everyone}
                        /\ \A i \in DOMAIN outbox[p] :
                                outbox[p][i].attempts = 0 /\ outbox[p][i].delay = 0
                        /\ \A i \in DOMAIN failedMessages[p] : failedMessages[p][i].attempts = 0
      BY DEF MailboxesSound
    <2>1. InboxOK(p, inbox[p]) /\ OutboxOK(outbox[p])
      BY DEF MailInv, InboxesOK, OutboxesOK
    <2>2. outbox[p] \in Seq(Entry) /\ failedMessages[p] \in Seq(Entry)
      BY <2>1 DEF MailInv, OutboxOK
    <2>3. Ordered(Messages(outbox[p]))
      BY <2>1, EntriesOrder DEF OutboxOK
    <2>4. ASSUME NEW s \in Seq(Entry), NEW i \in DOMAIN s
          PROVE  s[i].attempts = 0 /\ s[i].delay = 0
      <3>1. s[i] \in Entry
        OBVIOUS
      <3> QED BY <3>1 DEF Entry
    <2>5. DOMAIN inbox[p] = 1..Len(inbox[p])
      BY <2>1 DEF InboxOK
    <2> QED BY <2>1, <2>2, <2>3, <2>4, <2>5 DEF InboxOK
  <1> QED BY <1>1, MailInvariant, PTL

-----------------------------------------------------------------------------
(* The calls of assign().                                                  *)

PcStates == {"idle", "checking", "executing", "returned", "threw"}
DelegateStates == {"none", "finding", "running", "succeeded", "failed", "rejected"}

\* Which(c, states), of a request and what its agents are doing.
Those(r, d, states) == {i \in DOMAIN r.agents : d[i] \in states}

\* What a success under request r rests on.
Backing(r, d, w) ==
    /\ r.strategy \in {"PARALLEL", "ALL_SUCCESS"} => \A i \in 1..Started(r) : d[i] \in Fulfilled
    /\ r.strategy = "SEQUENTIAL" =>
        \A i \in DOMAIN r.agents : d[i] \in (IF r.failFast THEN {"succeeded"} ELSE Fulfilled)
    /\ r.strategy = "FIRST_SUCCESS" => d[w] = "succeeded"
    /\ r.strategy = "QUORUM" => Cardinality(Those(r, d, Fulfilled)) >= r.quorum
    /\ r.strategy = "MAJORITY_VOTING" /\ (\A a \in Agents : r.weight[a] = 1) =>
        /\ Cardinality(Those(r, d, {"succeeded"})) = 1
        /\ Those(r, d, {"failed"}) = {}

\* A call at p, of request r, with delegates d, first success w and result s.  The
\* delegates of one that has returned are settled, unless it was a race; so what its
\* success rests on does not change any more.
CallOK(p, r, d, w, s) ==
    /\ p \in PcStates
    /\ r \in Requests \cup {NoRequest}
    /\ p = "idle" => r = NoRequest
    /\ p \in {"checking", "executing", "returned"} =>
            r \in Requests /\ ValidateCoordinationRequest(r)
    /\ d \in [DOMAIN r.agents -> DelegateStates]
    /\ p \in {"idle", "checking"} => w = 0 /\ Those(r, d, {"finding", "running"}) = {}
    /\ w # 0 => w \in DOMAIN r.agents /\ d[w] = "succeeded"
    /\ p = "executing" /\ r.strategy \in {"PARALLEL", "ALL_SUCCESS"} =>
            \A i \in 1..Started(r) : i \in DOMAIN r.agents /\ d[i] # "none"
    /\ p = "returned" /\ r.strategy # "FIRST_SUCCESS" => Those(r, d, {"finding", "running"}) = {}
    /\ p # "returned" => s # "SUCCESS"
    /\ s = "SUCCESS" => Backing(r, d, w) /\ (r.strategy = "FIRST_SUCCESS" => w # 0)

CallsInv ==
    /\ DOMAIN pc = Calls /\ DOMAIN request = Calls /\ DOMAIN delegation = Calls
    /\ DOMAIN winner = Calls /\ DOMAIN result = Calls
    /\ \A c \in Calls : CallOK(pc[c], request[c], delegation[c], winner[c], result[c])

LEMMA RequestTypes ==
    ASSUME NEW r \in Requests
    PROVE  /\ r.id \in Ids /\ r.agents \in Seq(Agents) /\ r.strategy \in Strategies
           /\ r.parallel \in Nat /\ r.quorum \in Nat /\ r.voting \in VotingMethods \cup {""}
           /\ r.failFast \in BOOLEAN /\ r.weight \in [Agents -> Nat \ {0}]
           /\ DOMAIN r.agents = 1..Len(r.agents) /\ Len(r.agents) \in Nat
  <1>1. r \in [id : Ids, agents : Seq(Agents), strategy : Strategies, parallel : Nat,
               quorum : Nat, voting : VotingMethods \cup {""}, failFast : BOOLEAN,
               weight : [Agents -> Nat \ {0}], timeout : BOOLEAN]
    BY CoordinatorAssumption
  <1>2. /\ r.id \in Ids /\ r.agents \in Seq(Agents) /\ r.strategy \in Strategies
        /\ r.parallel \in Nat /\ r.quorum \in Nat
    BY <1>1
  <1>4. r.voting \in VotingMethods \cup {""}
    BY <1>1
  <1>5. r.failFast \in BOOLEAN
    BY <1>1
  <1>6. r.weight \in [Agents -> Nat \ {0}]
    BY <1>1
  <1>3. DOMAIN r.agents = 1..Len(r.agents) /\ Len(r.agents) \in Nat
    BY <1>2
  <1> QED BY <1>2, <1>3, <1>4, <1>5, <1>6

LEMMA StartedAgents ==
    ASSUME NEW r \in Requests, r.strategy # "SEQUENTIAL"
    PROVE  Started(r) \in Nat /\ Started(r) <= Len(r.agents)
  <1> DEFINE n == Len(r.agents)
  <1>1. n \in Nat /\ r.parallel \in Nat
    BY RequestTypes
  <1>2. Min({r.parallel, n}) \in {r.parallel, n} /\ Min({r.parallel, n}) <= n
    BY <1>1, MinIn
  <1> QED BY <1>1, <1>2 DEF Started

\* A step of one call leaves the others as they are.
Moves(c) ==
    /\ DOMAIN pc' = Calls /\ DOMAIN request' = Calls /\ DOMAIN delegation' = Calls
    /\ DOMAIN winner' = Calls /\ DOMAIN result' = Calls
    /\ \A e \in Calls \ {c} :
        /\ pc'[e] = pc[e] /\ request'[e] = request[e] /\ delegation'[e] = delegation[e]
        /\ winner'[e] = winner[e] /\ result'[e] = result[e]

LEMMA OneCall ==
    ASSUME CallsInv, NEW c \in Calls, Moves(c),
           CallOK(pc'[c], request'[c], delegation'[c], winner'[c], result'[c])
    PROVE  CallsInv'
  <1>1. ASSUME NEW e \in Calls
        PROVE  CallOK(pc'[e], request'[e], delegation'[e], winner'[e], result'[e])
    <2>1. CASE e = c
      BY <2>1
    <2>2. CASE e # c
      <3>1. /\ pc'[e] = pc[e] /\ request'[e] = request[e] /\ delegation'[e] = delegation[e]
            /\ winner'[e] = winner[e] /\ result'[e] = result[e]
        BY <2>2 DEF Moves
      <3> QED BY <3>1 DEF CallsInv
    <2> QED BY <2>1, <2>2
  <1> QED BY <1>1 DEF CallsInv, Moves

LEMMA SameCalls ==
    ASSUME CallsInv, UNCHANGED assignVars
    PROVE  CallsInv'
  BY DEF CallsInv, assignVars

LEMMA AssignKeeps ==
    ASSUME CallsInv, NEW c \in Calls, NEW r \in Requests, Assign(c, r)
    PROVE  CallsInv'
  <1> DEFINE p == IF ValidateCoordinationRequest(r) THEN "checking" ELSE "threw"
             d == [i \in DOMAIN r.agents |-> "none"]
  <1>1. /\ pc[c] = "idle"
        /\ pc' = [pc EXCEPT ![c] = p]
        /\ request' = [request EXCEPT ![c] = r]
        /\ delegation' = [delegation EXCEPT ![c] = d]
        /\ winner' = winner /\ result' = result
    BY DEF Assign
  <1>2. CallOK(pc[c], request[c], delegation[c], winner[c], result[c])
    BY DEF CallsInv
  <1>3. d \in [DOMAIN r.agents -> DelegateStates]
    BY DEF DelegateStates
  <1>4. p \in {"checking", "threw"} /\ (p = "checking" => ValidateCoordinationRequest(r))
    OBVIOUS
  <1>8. Those(r, d, {"finding", "running"}) = {}
    BY DEF Those
  <1> HIDE DEF p, d
  <1>5. CallOK(p, r, d, winner[c], result[c])
    BY <1>1, <1>2, <1>3, <1>4, <1>8 DEF CallOK, PcStates
  <1>6. Moves(c)
    BY <1>1 DEF CallsInv, Moves
  <1>7. /\ pc'[c] = p /\ request'[c] = r /\ delegation'[c] = d
        /\ winner'[c] = winner[c] /\ result'[c] = result[c]
    BY <1>1 DEF CallsInv
  <1> QED BY <1>5, <1>6, <1>7, OneCall

LEMMA CheckingKeeps ==
    ASSUME CallsInv, NEW c \in Calls, ValidateAgentAvailability(c) \/ InsufficientAgents(c)
    PROVE  CallsInv'
  <1>1. CASE ValidateAgentAvailability(c)
    BY <1>1 DEF ValidateAgentAvailability, CallsInv
  <1>2. CASE InsufficientAgents(c)
    <2>1. /\ pc[c] = "checking" /\ pc' = [pc EXCEPT ![c] = "threw"]
          /\ UNCHANGED <<request, delegation, winner, result>>
      BY <1>2 DEF InsufficientAgents
    <2>2. CallOK("threw", request[c], delegation[c], winner[c], result[c])
      BY <2>1 DEF CallsInv, CallOK, PcStates
    <2>3. Moves(c) /\ pc'[c] = "threw"
      BY <2>1 DEF CallsInv, Moves
    <2> QED BY <2>1, <2>2, <2>3, OneCall
  <1> QED BY <1>1, <1>2

LEMMA ExecuteCoordinationKeeps ==
    ASSUME CallsInv, NEW c \in Calls, ExecuteCoordination(c)
    PROVE  CallsInv'
  <1> DEFINE r == request[c]
             d == [i \in DOMAIN r.agents |-> IF i <= Started(r) THEN "finding" ELSE "none"]
  <1>1. /\ pc[c] = "checking" /\ pc' = [pc EXCEPT ![c] = "executing"]
        /\ delegation' = [delegation EXCEPT ![c] = d]
        /\ UNCHANGED <<request, winner, result>>
    BY DEF ExecuteCoordination, Indices, AgentsOf
  <1>2. CallOK("checking", r, delegation[c], winner[c], result[c])
    BY <1>1 DEF CallsInv
  <1>3. d \in [DOMAIN r.agents -> DelegateStates]
    BY DEF DelegateStates
  <1>4. r \in Requests
    BY <1>2 DEF CallOK
  <1>5. ASSUME r.strategy \in {"PARALLEL", "ALL_SUCCESS"}, NEW i \in 1..Started(r)
        PROVE  i \in DOMAIN r.agents /\ d[i] # "none"
    <2>1. /\ DOMAIN r.agents = 1..Len(r.agents) /\ Len(r.agents) \in Nat
          /\ Started(r) \in Nat /\ Started(r) <= Len(r.agents)
      BY <1>4, <1>5, RequestTypes, StartedAgents
    <2>2. i \in 1..Len(r.agents) /\ i <= Started(r)
      BY <2>1
    <2> QED BY <2>1, <2>2
  <1> HIDE DEF r, d
  <1>6. CallOK("executing", r, d, winner[c], result[c])
    BY <1>2, <1>3, <1>4, <1>5 DEF CallOK, PcStates
  <1>7. Moves(c)
    BY <1>1 DEF CallsInv, Moves
  <1>8. /\ pc'[c] = "executing" /\ request'[c] = r /\ delegation'[c] = d
        /\ winner'[c] = winner[c] /\ result'[c] = result[c]
    BY <1>1 DEF CallsInv, r
  <1> QED BY <1>6, <1>7, <1>8, OneCall

\* A delegate that is not settled gets on: the call is not one whose success rests on
\* it, and nothing goes back to "none".
LEMMA DelegateMoves ==
    ASSUME NEW p, NEW r, NEW d, NEW w, NEW s, CallOK(p, r, d, w, s),
           NEW i \in DOMAIN r.agents, d[i] \in {"finding", "running"},
           NEW state \in DelegateStates \ {"none"},
           NEW v, v = w \/ (v = i /\ w = 0 /\ state = "succeeded"),
           p \notin {"idle", "checking"}
    PROVE  CallOK(p, r, [d EXCEPT ![i] = state], v, s)
  <1> DEFINE e == [d EXCEPT ![i] = state]
  <1>1. d \in [DOMAIN r.agents -> DelegateStates] /\ e \in [DOMAIN r.agents -> DelegateStates]
    <2>1. d \in [DOMAIN r.agents -> DelegateStates]
      BY DEF CallOK
    <2> QED BY <2>1
  <1>2. e[i] = state /\ \A j \in DOMAIN r.agents : j # i => e[j] = d[j]
    BY <1>1
  <1> HIDE DEF e
  <1>3. ~(p = "returned" /\ r.strategy # "FIRST_SUCCESS")
    BY DEF CallOK, Those
  <1>4. v # 0 => v \in DOMAIN r.agents /\ e[v] = "succeeded"
    BY <1>1, <1>2 DEF CallOK
  <1>5. p = "executing" /\ r.strategy \in {"PARALLEL", "ALL_SUCCESS"} =>
            \A j \in 1..Started(r) : j \in DOMAIN r.agents /\ e[j] # "none"
    BY <1>1, <1>2 DEF CallOK
  <1>6. s = "SUCCESS" => Backing(r, e, v) /\ (r.strategy = "FIRST_SUCCESS" => v # 0)
    <2> SUFFICES ASSUME s = "SUCCESS"
                 PROVE  Backing(r, e, v) /\ (r.strategy = "FIRST_SUCCESS" => v # 0)
      OBVIOUS
    <2>1. p = "returned" /\ r.strategy = "FIRST_SUCCESS" /\ w # 0
      BY <1>3 DEF CallOK
    <2>2. v = w
      BY <2>1
    <2> QED BY <1>4, <2>1, <2>2 DEF Backing
  <1>7. /\ p \in PcStates /\ r \in Requests \cup {NoRequest}
        /\ p = "idle" => r = NoRequest
        /\ p \in {"checking", "executing", "returned"} =>
                r \in Requests /\ ValidateCoordinationRequest(r)
        /\ p # "returned" => s # "SUCCESS"
    BY DEF CallOK
  <1>8. CallOK(p, r, e, v, s)
    BY <1>1, <1>3, <1>4, <1>5, <1>6, <1>7 DEF CallOK
  <1> QED BY <1>8 DEF e

LEMMA DelegateKeeps ==
    ASSUME CallsInv, NEW c \in Calls, NEW i \in Indices(c),
           Delegate(c, i) \/ \E success \in BOOLEAN : DelegateReturns(c, i, success)
    PROVE  CallsInv'
  <1> DEFINE r == request[c]
             d == delegation[c]
  <1>1. CallOK(pc[c], r, d, winner[c], result[c]) /\ i \in DOMAIN r.agents
    BY DEF CallsInv, Indices, AgentsOf
  <1>2. PICK state \in DelegateStates \ {"none"} :
            /\ d[i] \in {"finding", "running"}
            /\ delegation' = [delegation EXCEPT ![c][i] = state]
            /\ pc' = pc /\ request' = request /\ result' = result
            /\ DOMAIN winner' = Calls /\ \A e \in Calls \ {c} : winner'[e] = winner[e]
            /\ winner'[c] = winner[c] \/ (winner'[c] = i /\ winner[c] = 0 /\ state = "succeeded")
    <2>1. CASE Delegate(c, i)
      <3>1. PICK state \in {"running", "rejected"} : Delegation(c, i, state)
        BY <2>1 DEF Delegate
      <3>2. state \in DelegateStates \ {"none"}
        BY DEF DelegateStates
      <3> QED BY <2>1, <3>1, <3>2 DEF Delegate, Delegation, CallsInv
    <2>2. ASSUME NEW success \in BOOLEAN, DelegateReturns(c, i, success)
          PROVE  \E state \in DelegateStates \ {"none"} :
                    /\ d[i] \in {"finding", "running"}
                    /\ delegation' = [delegation EXCEPT ![c][i] = state]
                    /\ pc' = pc /\ request' = request /\ result' = result
                    /\ DOMAIN winner' = Calls /\ \A e \in Calls \ {c} : winner'[e] = winner[e]
                    /\ \/ winner'[c] = winner[c]
                       \/ winner'[c] = i /\ winner[c] = 0 /\ state = "succeeded"
      <3> DEFINE state == IF success THEN "succeeded" ELSE "failed"
                 first == success /\ winner[c] = 0 /\ r.strategy = "FIRST_SUCCESS"
      <3>1. /\ d[i] = "running" /\ Delegation(c, i, state)
            /\ winner' = [winner EXCEPT ![c] = IF first THEN i ELSE winner[c]]
            /\ pc' = pc /\ request' = request /\ result' = result
        BY <2>2 DEF DelegateReturns
      <3>2. state \in DelegateStates \ {"none"}
        BY DEF DelegateStates
      <3>3. DOMAIN winner' = Calls /\ \A e \in Calls \ {c} : winner'[e] = winner[e]
        BY <3>1 DEF CallsInv
      <3>4. winner'[c] = IF first THEN i ELSE winner[c]
        BY <3>1 DEF CallsInv
      <3>5. winner'[c] = winner[c] \/ (winner'[c] = i /\ winner[c] = 0 /\ state = "succeeded")
        BY <3>4
      <3> QED BY <3>1, <3>2, <3>3, <3>5 DEF Delegation
    <2> QED BY <2>1, <2>2
  <1>3. pc[c] \notin {"idle", "checking"}
    BY <1>1, <1>2 DEF CallOK, Those
  <1>4. /\ delegation'[c] = [d EXCEPT ![i] = state]
        /\ pc'[c] = pc[c] /\ request'[c] = r /\ result'[c] = result[c]
        /\ winner'[c] = winner[c] \/ (winner'[c] = i /\ winner[c] = 0 /\ state = "succeeded")
    BY <1>2 DEF CallsInv
  <1>5. Moves(c)
    BY <1>2 DEF CallsInv, Moves
  <1> HIDE DEF r, d
  <1>6. CallOK(pc[c], r, [d EXCEPT ![i] = state], winner'[c], result[c])
    BY <1>1, <1>2, <1>3, <1>4, DelegateMoves
  <1> QED BY <1>4, <1>5, <1>6, OneCall DEF r

LEMMA ExecuteNextKeeps ==
    ASSUME CallsInv, NEW c \in Calls, ExecuteNext(c)
    PROVE  CallsInv'
  <1> DEFINE r == request[c]
             d == delegation[c]
             w == winner[c]
             S == Which(c, {"none"})
             i == Min(S)
             e == [d EXCEPT ![i] = "finding"]
  <1>1. /\ pc[c] = "executing" /\ r.strategy = "SEQUENTIAL" /\ S # {}
        /\ delegation' = [delegation EXCEPT ![c][i] = "finding"]
        /\ pc' = pc /\ request' = request /\ winner' = winner /\ result' = result
    BY DEF ExecuteNext, Ended, Delegation
  <1>2. CallOK("executing", r, d, w, result[c])
    BY <1>1 DEF CallsInv
  <1>3. r \in Requests
    BY <1>2 DEF CallOK
  <1>4. S \in SUBSET Nat
    <2> HIDE DEF r
    <2>1. DOMAIN r.agents = 1..Len(r.agents) /\ Len(r.agents) \in Nat
      BY <1>3, RequestTypes
    <2>2. S \subseteq DOMAIN r.agents
      BY DEF Which, Indices, AgentsOf, r
    <2> QED BY <2>1, <2>2
  <1>5. i \in DOMAIN r.agents /\ d[i] = "none"
    <2>1. i \in S
      BY <1>1, <1>4, MinIn
    <2> QED BY <2>1 DEF Which, Indices, AgentsOf
  <1>6. delegation'[c] = e /\ Moves(c)
    BY <1>1 DEF CallsInv, Moves
  <1> HIDE DEF i, S, d, r, w
  <1>7. d \in [DOMAIN r.agents -> DelegateStates] /\ (w # 0 => w \in DOMAIN r.agents /\ d[w] = "succeeded")
    BY <1>2 DEF CallOK
  <1>8. e \in [DOMAIN r.agents -> DelegateStates] /\ (w # 0 => w \in DOMAIN r.agents /\ e[w] = "succeeded")
    BY <1>5, <1>7 DEF DelegateStates
  <1> HIDE DEF e
  <1>9. CallOK("executing", r, e, w, result[c])
    BY <1>1, <1>2, <1>8 DEF CallOK
  <1> QED BY <1>1, <1>6, <1>9, OneCall DEF r, w

LEMMA ReturnKeeps ==
    ASSUME CallsInv, NEW c \in Calls, NEW status, Return(c, status), pc[c] = "executing",
           request[c].strategy # "FIRST_SUCCESS" => Running(c) = {},
           status = "SUCCESS" => /\ Backing(request[c], delegation[c], winner[c])
                                 /\ request[c].strategy = "FIRST_SUCCESS" => winner[c] # 0
    PROVE  CallsInv'
  <1>1. /\ pc' = [pc EXCEPT ![c] = "returned"] /\ result' = [result EXCEPT ![c] = status]
        /\ request' = request /\ delegation' = delegation /\ winner' = winner
    BY DEF Return
  <1>2. CallOK("executing", request[c], delegation[c], winner[c], result[c])
    BY DEF CallsInv
  <1>3. Running(c) = Those(request[c], delegation[c], {"finding", "running"})
    BY DEF Running, Which, Indices, AgentsOf, Those
  <1>4. CallOK("returned", request[c], delegation[c], winner[c], status)
    BY <1>2, <1>3 DEF CallOK, PcStates
  <1>5. Moves(c) /\ pc'[c] = "returned" /\ result'[c] = status
    BY <1>1 DEF CallsInv, Moves
  <1> QED BY <1>1, <1>4, <1>5, OneCall

LEMMA ThrowKeeps ==
    ASSUME CallsInv, NEW c \in Calls, Throw(c), pc[c] = "executing"
    PROVE  CallsInv'
  <1>1. /\ pc' = [pc EXCEPT ![c] = "threw"] /\ result' = result
        /\ request' = request /\ delegation' = delegation /\ winner' = winner
    BY DEF Throw
  <1>2. CallOK("executing", request[c], delegation[c], winner[c], result[c])
    BY DEF CallsInv
  <1>3. CallOK("threw", request[c], delegation[c], winner[c], result[c])
    BY <1>2 DEF CallOK, PcStates
  <1>4. Moves(c) /\ pc'[c] = "threw"
    BY <1>1 DEF CallsInv, Moves
  <1> QED BY <1>1, <1>3, <1>4, OneCall

\* The results that count, when every delegate has ended.
LEMMA EndedSound ==
    ASSUME CallsInv, NEW c \in Calls, Ended(c)
    PROVE  LET r == request[c]
               d == delegation[c]
           IN  /\ pc[c] = "executing" /\ CallOK("executing", r, d, winner[c], result[c])
               /\ r \in Requests /\ ValidateCoordinationRequest(r)
               /\ \A states : Which(c, states) = Those(r, d, states)
               /\ \A i \in DOMAIN r.agents : d[i] \in {"none", "succeeded", "failed", "rejected"}
  <1>1. pc[c] = "executing" /\ Running(c) = {}
    BY DEF Ended
  <1>2. CallOK("executing", request[c], delegation[c], winner[c], result[c])
    BY <1>1 DEF CallsInv
  <1>3. \A states : Which(c, states) = Those(request[c], delegation[c], states)
    BY DEF Which, Indices, AgentsOf, Those
  <1>4. request[c] \in Requests /\ ValidateCoordinationRequest(request[c])
    BY <1>2 DEF CallOK
  <1>5. delegation[c] \in [DOMAIN request[c].agents -> DelegateStates]
    BY <1>2 DEF CallOK
  <1>6. \A i \in DOMAIN request[c].agents : delegation[c][i] \notin {"finding", "running"}
    BY <1>1, <1>3 DEF Running, Those
  <1> QED BY <1>1, <1>2, <1>3, <1>4, <1>5, <1>6 DEF DelegateStates

LEMMA ExecuteParallelKeeps ==
    ASSUME CallsInv, NEW c \in Calls, ExecuteParallel(c)
    PROVE  CallsInv'
  <1> DEFINE r == request[c]
             d == delegation[c]
             status == StatusIf(Which(c, {"rejected"}) = {})
  <1>1. Ended(c) /\ r.strategy \in {"PARALLEL", "ALL_SUCCESS"} /\ Return(c, status)
    BY DEF ExecuteParallel
  <1>2. /\ pc[c] = "executing" /\ CallOK("executing", r, d, winner[c], result[c])
        /\ \A states : Which(c, states) = Those(r, d, states)
        /\ \A i \in DOMAIN r.agents : d[i] \in {"none", "succeeded", "failed", "rejected"}
    BY <1>1, EndedSound
  <1>3. ASSUME status = "SUCCESS"
        PROVE  Backing(r, d, winner[c])
    <2>1. Those(r, d, {"rejected"}) = {}
      BY <1>2, <1>3 DEF StatusIf
    <2>2. \A i \in 1..Started(r) : i \in DOMAIN r.agents /\ d[i] # "none"
      BY <1>1, <1>2 DEF CallOK
    <2>3. \A i \in 1..Started(r) : d[i] \in Fulfilled
      BY <1>2, <2>1, <2>2 DEF Those, Fulfilled
    <2> QED BY <1>1, <2>3 DEF Backing
  <1>4. Running(c) = {}
    BY <1>1 DEF Ended
  <1> HIDE DEF status
  <1> QED BY <1>1, <1>2, <1>3, <1>4, ReturnKeeps

LEMMA ExecuteSequentialKeeps ==
    ASSUME CallsInv, NEW c \in Calls, ExecuteSequential(c)
    PROVE  CallsInv'
  <1> DEFINE r == request[c]
             d == delegation[c]
             status == StatusIf(Which(c, {"rejected"}) = {} /\ ~FailedFast(c))
  <1>1. /\ Ended(c) /\ r.strategy = "SEQUENTIAL" /\ Return(c, status)
        /\ FailedFast(c) \/ Which(c, {"none"}) = {}
    BY DEF ExecuteSequential
  <1>2. /\ pc[c] = "executing" /\ \A states : Which(c, states) = Those(r, d, states)
        /\ \A i \in DOMAIN r.agents : d[i] \in {"none", "succeeded", "failed", "rejected"}
    BY <1>1, EndedSound
  <1>3. ASSUME status = "SUCCESS"
        PROVE  Backing(r, d, winner[c])
    <2>1. Those(r, d, {"rejected"}) = {} /\ ~FailedFast(c) /\ Those(r, d, {"none"}) = {}
      BY <1>1, <1>2, <1>3 DEF StatusIf
    <2>2. r.failFast => Those(r, d, {"failed", "rejected"}) = {}
      BY <1>2, <2>1 DEF FailedFast
    <2>3. ASSUME NEW i \in DOMAIN r.agents
          PROVE  /\ d[i] \in Fulfilled
                 /\ r.failFast => d[i] \in {"succeeded"}
      BY <1>2, <2>1, <2>2 DEF Those, Fulfilled
    <2> QED BY <1>1, <2>3 DEF Backing
  <1>4. Running(c) = {}
    BY <1>1 DEF Ended
  <1> HIDE DEF status
  <1> QED BY <1>1, <1>2, <1>3, <1>4, ReturnKeeps

LEMMA ExecuteFirstSuccessKeeps ==
    ASSUME CallsInv, NEW c \in Calls, ExecuteFirstSuccess(c)
    PROVE  CallsInv'
  <1> DEFINE r == request[c]
             d == delegation[c]
             status == StatusIf(winner[c] # 0)
  <1>1. pc[c] = "executing" /\ r.strategy = "FIRST_SUCCESS" /\ Return(c, status)
    BY DEF ExecuteFirstSuccess
  <1>2. CallOK("executing", r, d, winner[c], result[c])
    BY <1>1 DEF CallsInv
  <1>3. ASSUME status = "SUCCESS"
        PROVE  Backing(r, d, winner[c]) /\ winner[c] # 0
    <2>1. winner[c] # 0
      BY <1>3 DEF StatusIf
    <2> QED BY <1>1, <1>2, <2>1 DEF CallOK, Backing
  <1> HIDE DEF status
  <1> QED BY <1>1, <1>3, ReturnKeeps

LEMMA ExecuteQuorumKeeps ==
    ASSUME CallsInv, NEW c \in Calls, ExecuteQuorum(c)
    PROVE  CallsInv'
  <1> DEFINE r == request[c]
             d == delegation[c]
             F == Those(r, d, Fulfilled)
  <1>1. Ended(c) /\ r.strategy = "QUORUM"
    BY DEF ExecuteQuorum
  <1>2. /\ pc[c] = "executing" /\ r \in Requests /\ Which(c, Fulfilled) = F
    BY <1>1, EndedSound
  <1>3. Running(c) = {}
    BY <1>1 DEF Ended
  <1>4. Cardinality(F) \in Nat /\ r.quorum \in Nat
    <2>1. r.quorum \in Nat /\ F \subseteq 1..Len(r.agents) /\ Len(r.agents) \in Nat
      BY <1>2, RequestTypes DEF Those
    <2>2. IsFiniteSet(1..Len(r.agents))
      BY <2>1, FS_Interval
    <2> QED BY <2>1, <2>2, FS_Subset, FS_CardinalityType
  <1>5. CASE Cardinality(F) < r.quorum
    <2>1. Throw(c)
      BY <1>2, <1>5 DEF ExecuteQuorum
    <2> QED BY <1>2, <2>1, ThrowKeeps
  <1>6. CASE ~(Cardinality(F) < r.quorum)
    <2>1. Return(c, "SUCCESS")
      BY <1>2, <1>6 DEF ExecuteQuorum
    <2>2. Cardinality(F) >= r.quorum
      BY <1>4, <1>6
    <2>3. Backing(r, d, winner[c])
      BY <1>1, <2>2 DEF Backing
    <2> QED BY <1>1, <1>2, <1>3, <2>1, <2>3, ReturnKeeps
  <1> QED BY <1>5, <1>6

\* Under unit weights a vote weighs as many as cast it.
LEMMA UnitWeights ==
    ASSUME NEW c \in Calls, request[c] \in Requests, \A a \in Agents : request[c].weight[a] = 1,
           NEW voters \in SUBSET Indices(c)
    PROVE  /\ IsFiniteSet(voters) /\ Cardinality(voters) \in Nat
           /\ Weight(c, voters) = Cardinality(voters)
  <1> DEFINE w == [i \in Indices(c) |-> request[c].weight[AgentsOf(c)[i]]]
             kind == [i \in voters |-> i]
  <1>1. /\ Indices(c) = 1..Len(AgentsOf(c)) /\ Len(AgentsOf(c)) \in Nat
        /\ AgentsOf(c) \in Seq(Agents)
    BY RequestTypes DEF Indices, AgentsOf
  <1>2. IsFiniteSet(voters) /\ Cardinality(voters) \in Nat
    <2>1. IsFiniteSet(Indices(c))
      BY <1>1, FS_Interval
    <2>2. IsFiniteSet(voters)
      BY <2>1, FS_Subset
    <2> QED BY <2>2, FS_CardinalityType
  <1>3. ASSUME NEW i \in voters
        PROVE  w[i] = Cardinality(OfKind(voters, kind, {i}))
    <2>1. OfKind(voters, kind, {i}) = {i}
      BY DEF OfKind
    <2>2. Cardinality({i}) = 1
      BY FS_Singleton
    <2>3. AgentsOf(c)[i] \in Agents
      BY <1>1
    <2>4. w[i] = 1
      BY <2>3
    <2> HIDE DEF w, kind
    <2> QED BY <2>1, <2>2, <2>4
  <1>4. OfKind(voters, kind, voters) = voters
    BY DEF OfKind
  <1> HIDE DEF w, kind
  <1>5. SumFunctionOnSet(w, voters) = Cardinality(OfKind(voters, kind, voters))
    BY <1>2, <1>3, SumCounts
  <1>6. Weight(c, voters) = SumFunctionOnSet(w, voters)
    BY DEF Weight, w
  <1> QED BY <1>2, <1>4, <1>5, <1>6

\* So there is a vote that leads: that of the failed ones when they are several, else
\* that of the first agent to have answered.
LEMMA SomeoneLeads ==
    ASSUME NEW c \in Calls, request[c] \in Requests, \A a \in Agents : request[c].weight[a] = 1,
           Ballots(c) # {}
    PROVE  \E b \in Ballots(c) : \A other \in Ballots(c) : Leads(c, b, other)
  <1> DEFINE F == Which(c, {"failed"})
             S == Which(c, {"succeeded"})
             B == Ballots(c)
  <1>1. /\ Indices(c) \in SUBSET Nat
        /\ F \in SUBSET Indices(c) /\ S \in SUBSET Indices(c)
    <2>1. Indices(c) = 1..Len(AgentsOf(c)) /\ Len(AgentsOf(c)) \in Nat
      BY RequestTypes DEF Indices, AgentsOf
    <2> QED BY <2>1 DEF Which
  <1>2. ASSUME NEW b \in B
        PROVE  \/ \E i \in S : b.voters = {i}
               \/ b.voters = F /\ F # {}
    BY DEF Ballots
  <1>3. ASSUME NEW i \in S
        PROVE  \E b \in B : b.voters = {i}
    <2> DEFINE b == [voters |-> {i}, parses |-> TRUE]
    <2>1. b \in B
      BY DEF Ballots
    <2>2. b.voters = {i}
      OBVIOUS
    <2> QED BY <2>1, <2>2
  <1>4. ASSUME F # {}
        PROVE  \E b \in B : b.voters = F
    <2> DEFINE b == [voters |-> F, parses |-> FALSE]
    <2>1. b \in B
      BY <1>4 DEF Ballots
    <2>2. b.voters = F
      OBVIOUS
    <2> QED BY <2>1, <2>2
  <1>5. ASSUME NEW v \in SUBSET Indices(c)
        PROVE  Weight(c, v) = Cardinality(v) /\ Cardinality(v) \in Nat /\ IsFiniteSet(v)
    BY UnitWeights
  <1>6. ASSUME NEW i \in S
        PROVE  Weight(c, {i}) = 1 /\ Min({i}) = i
    <2>1. Weight(c, {i}) = Cardinality({i}) /\ Cardinality({i}) = 1
      BY <1>1, <1>5, FS_Singleton
    <2>2. Min({i}) \in {i}
      BY <1>1, MinIn
    <2> QED BY <2>1, <2>2
  <1>7. F # {} => /\ Weight(c, F) \in Nat /\ Weight(c, F) >= 1
                  /\ Min(F) \in F /\ Min(F) \in Nat
    <2> SUFFICES ASSUME F # {} PROVE /\ Weight(c, F) \in Nat /\ Weight(c, F) >= 1
                                     /\ Min(F) \in F /\ Min(F) \in Nat
      OBVIOUS
    <2>1. Weight(c, F) = Cardinality(F) /\ Cardinality(F) \in Nat /\ Cardinality(F) # 0
      BY <1>1, <1>5, FS_EmptySet
    <2>2. F \in SUBSET Nat
      BY <1>1
    <2>3. Min(F) \in F
      BY <2>2, MinIn
    <2> HIDE DEF F
    <2> QED BY <2>1, <2>2, <2>3
  <1> HIDE DEF F, S, B
  <1>8. CASE F # {} /\ Weight(c, F) > 1
    <2>1. PICK b \in B : b.voters = F
      BY <1>4, <1>8
    <2>2. ASSUME NEW other \in B
          PROVE  Leads(c, b, other)
      <3>1. CASE other.voters = F
        BY <1>7, <1>8, <2>1, <3>1 DEF Leads
      <3>2. ASSUME NEW i \in S, other.voters = {i}
            PROVE  Leads(c, b, other)
        BY <1>6, <1>8, <2>1, <3>2 DEF Leads
      <3> QED BY <1>2, <3>1, <3>2
    <2> QED BY <2>2 DEF B
  <1>9. CASE ~(F # {} /\ Weight(c, F) > 1)
    <2> DEFINE T == S \cup F
               m == Min(T)
    <2>1. T # {} /\ T \in SUBSET Nat
      BY <1>1, <1>2 DEF B
    <2>2. m \in T /\ \A i \in T : m <= i
      BY <2>1, MinIn
    <2>3. F # {} => Weight(c, F) = 1
      BY <1>7, <1>9
    <2>4. ASSUME NEW b \in B
          PROVE  Weight(c, b.voters) = 1 /\ Min(b.voters) \in T
      BY <1>2, <1>6, <1>7, <2>3
    <2>5. PICK b \in B : Min(b.voters) = m
      <3>1. CASE m \in S
        BY <1>3, <1>6, <3>1
      <3>2. CASE m \in F
        <4>1. Min(F) <= m /\ m <= Min(F) /\ Min(F) \in Nat /\ m \in Nat
          <5>1. F \in SUBSET Nat /\ F # {}
            BY <1>1, <3>2
          <5>2. Min(F) <= m /\ Min(F) \in F
            BY <3>2, <5>1, MinIn
          <5> QED BY <2>1, <2>2, <5>1, <5>2
        <4>2. Min(F) = m
          BY <4>1
        <4> QED BY <1>4, <3>2, <4>2
      <3> QED BY <2>2, <3>1, <3>2
    <2> HIDE DEF m, T
    <2>6. ASSUME NEW other \in B
          PROVE  Leads(c, b, other)
      BY <2>2, <2>4, <2>5 DEF Leads
    <2> QED BY <2>6 DEF B
  <1> QED BY <1>8, <1>9

\* A vote of one agent that is carried is the only answer there is.
LEMMA OneVoteCarries ==
    ASSUME NEW method \in VotingMethods, NEW total \in Nat, Carries(method, 1, total)
    PROVE  total <= 1
  <1>1. CASE method \in {"SIMPLE_MAJORITY", "WEIGHTED_MAJORITY"}
    <2>1. 2 * 1 > total
      BY <1>1 DEF Carries
    <2> QED BY <2>1
  <1>2. CASE method = "SUPER_MAJORITY"
    <2>1. 100 * 1 >= 67 * total
      BY <1>2 DEF Carries
    <2> QED BY <2>1
  <1>3. CASE method = "UNANIMOUS"
    BY <1>3 DEF Carries
  <1> QED BY <1>1, <1>2, <1>3 DEF VotingMethods

LEMMA ExecuteMajorityVotingKeeps ==
    ASSUME CallsInv, NEW c \in Calls, ExecuteMajorityVoting(c)
    PROVE  CallsInv'
  <1> DEFINE r == request[c]
             d == delegation[c]
             S == Which(c, {"succeeded"})
             F == Which(c, {"failed"})
             T == Which(c, Fulfilled)
             lead == CHOOSE b \in Ballots(c) : \A other \in Ballots(c) : Leads(c, b, other)
             carried == Carries(r.voting, Weight(c, lead.voters), Cardinality(T))
  <1>1. /\ Ended(c) /\ r.strategy = "MAJORITY_VOTING"
        /\ IF Ballots(c) = {} THEN Return(c, "FAILED")
           ELSE IF carried /\ ~lead.parses THEN Throw(c) ELSE Return(c, StatusIf(carried))
    BY DEF ExecuteMajorityVoting
  <1>2. /\ pc[c] = "executing" /\ r \in Requests /\ ValidateCoordinationRequest(r)
        /\ S = Those(r, d, {"succeeded"}) /\ F = Those(r, d, {"failed"})
    BY <1>1, EndedSound
  <1>3. Running(c) = {}
    BY <1>1 DEF Ended
  <1> HIDE DEF lead
  <1>4. CASE Ballots(c) = {}
    BY <1>1, <1>2, <1>3, <1>4, ReturnKeeps
  <1>5. CASE Ballots(c) # {} /\ carried /\ ~lead.parses
    BY <1>1, <1>2, <1>5, ThrowKeeps
  <1>6. CASE Ballots(c) # {} /\ ~(carried /\ ~lead.parses)
    <2>1. Return(c, StatusIf(carried))
      BY <1>1, <1>6
    <2>2. ASSUME StatusIf(carried) = "SUCCESS", \A a \in Agents : r.weight[a] = 1
          PROVE  Cardinality(S) = 1 /\ F = {}
      <3>1. carried /\ lead.parses
        BY <1>6, <2>2 DEF StatusIf
      <3>2. lead \in Ballots(c)
        BY <1>2, <1>6, <2>2, SomeoneLeads DEF lead
      <3>3. PICK i \in S : lead.voters = {i}
        BY <3>1, <3>2 DEF Ballots
      <3>4. T \in SUBSET Indices(c) /\ {i} \in SUBSET T /\ F \subseteq T /\ S \subseteq T
        BY DEF Which, Fulfilled
      <3>5. /\ Weight(c, {i}) = Cardinality({i}) /\ Cardinality({i}) = 1
            /\ IsFiniteSet(T) /\ Cardinality(T) \in Nat
        BY <1>2, <2>2, <3>4, UnitWeights, FS_Singleton
      <3>6. r.voting \in VotingMethods
        <4>1. r.voting \in VotingMethods \cup {""} /\ r.voting # ""
          BY <1>1, <1>2, RequestTypes DEF ValidateCoordinationRequest
        <4> QED BY <4>1
      <3>7. Cardinality(T) <= 1
        BY <3>1, <3>3, <3>5, <3>6, OneVoteCarries
      <3>8. T = {i}
        BY <3>4, <3>5, <3>7, FS_Subset
      <3>9. S = {i}
        BY <3>4, <3>8
      <3>10. F = {}
        <4>1. i \notin F
          BY DEF Which
        <4> QED BY <3>4, <3>8, <4>1
      <3> QED BY <3>5, <3>9, <3>10
    <2>3. StatusIf(carried) = "SUCCESS" => Backing(r, d, winner[c])
      BY <1>1, <1>2, <2>2 DEF Backing
    <2> HIDE DEF carried, r, d
    <2> QED BY <1>1, <1>2, <1>3, <2>1, <2>3, ReturnKeeps DEF r, d
  <1> QED BY <1>4, <1>5, <1>6

\* Every step of the coordinator keeps its calls sound.
LEMMA ConcludeKeeps ==
    ASSUME CallsInv, NEW c \in Calls, Conclude(c)
    PROVE  CallsInv'
  BY ExecuteParallelKeeps, ExecuteSequentialKeeps, ExecuteFirstSuccessKeeps, ExecuteQuorumKeeps,
     ExecuteMajorityVotingKeeps DEF Conclude

LEMMA TeamKeepsCalls ==
    ASSUME MailInv, CallsInv, [TeamNext]_vars
    PROVE  CallsInv'
  <1>1. ASSUME NEW c \in Calls, NEW r \in workload.assign[c], Assign(c, r)
        PROVE  CallsInv'
    <2>1. r \in Requests
      BY TeamAssumption DEF MailInv
    <2> QED BY <1>1, <2>1, AssignKeeps
  <1>2. ASSUME NEW h, NEW to, HandoffBegin(h, to) PROVE CallsInv'
    BY <1>2, SameCalls DEF HandoffBegin
  <1>3. ASSUME NEW id, Collect(id) \/ Timeout(id) \/ Cancel(id) PROVE CallsInv'
    BY <1>3, SameCalls DEF Collect, Timeout, Cancel, SetStatus
  <1>4. ASSUME NEW a, AgentLeaves(a) \/ AgentErrs(a) PROVE CallsInv'
    BY <1>4, SameCalls DEF AgentLeaves, AgentErrs
  <1>5. ASSUME NEW c \in Calls, AssignStep(c) PROVE CallsInv'
    BY <1>5, CheckingKeeps, ExecuteCoordinationKeeps, ExecuteNextKeeps, ConcludeKeeps
       DEF AssignStep
  <1>6. ASSUME NEW c \in Calls, DelegateStep(c) PROVE CallsInv'
    BY <1>6, DelegateKeeps DEF DelegateStep
  <1>7. ASSUME NEW h, HandoffStep(h) PROVE CallsInv'
    BY <1>7, SameCalls DEF HandoffStep, HandoffFinds, HandoffReturns
  <1>8. CASE CoordinatorCalls
    BY <1>1, <1>2, <1>3, <1>4, <1>8 DEF CoordinatorCalls
  <1>9. CASE CoordinatorSteps
    BY <1>5, <1>6, <1>7, <1>9 DEF CoordinatorSteps
  <1>10. ASSUME UNCHANGED coordinatorVars PROVE CallsInv'
    BY <1>10, SameCalls DEF coordinatorVars
  <1>11. \A b : Broadcast(b) \/ BroadcastStep(b) => UNCHANGED coordinatorVars
    BY DEF Broadcast, BroadcastStep, BroadcastTo, BroadcastEnds
  <1>12. UNCHANGED vars => UNCHANGED coordinatorVars
    BY DEF vars
  <1> QED BY <1>8, <1>9, <1>10, <1>11, <1>12 DEF TeamNext

LEMMA CallsInitially == TeamInit => CallsInv
  <1> SUFFICES ASSUME TeamInit PROVE CallsInv
    OBVIOUS
  <1>1. /\ pc = [c \in Calls |-> "idle"] /\ request = [c \in Calls |-> NoRequest]
        /\ delegation = [c \in Calls |-> <<>>] /\ winner = [c \in Calls |-> 0]
        /\ result = [c \in Calls |-> "none"]
    BY DEF TeamInit, CoordinatorInit
  <1>2. NoRequest.agents = <<>> /\ DOMAIN <<>> = {} /\ <<>> \in [{} -> DelegateStates]
    <2>1. <<>> \in Seq(DelegateStates) /\ Len(<<>>) = 0
      OBVIOUS
    <2>2. <<>> \in [1..0 -> DelegateStates] /\ 1..0 = {}
      BY <2>1, LenProperties
    <2> QED BY <2>2 DEF NoRequest
  <1>3. CallOK("idle", NoRequest, <<>>, 0, "none")
    BY <1>2 DEF CallOK, PcStates, Those
  <1> QED BY <1>1, <1>3 DEF CallsInv

LEMMA CallsInvariant == TeamSpec => []CallsInv
  <1>1. MailInv /\ CallsInv /\ [TeamNext]_vars => CallsInv'
    BY TeamKeepsCalls
  <1> QED BY <1>1, MailInvariant, CallsInitially, PTL DEF TeamSpec

\* Whatever the agents do, and in whatever order their results come in, the SUCCESS
\* a coordination returns says what the code makes of its delegates' promises under
\* its strategy, and goes on to.  That the agents succeeded does not follow.
THEOREM SuccessIsFulfilled == TeamSpec => []SuccessFollowsPromises
  <1>1. CallsInv => SuccessFollowsPromises
    <2> SUFFICES ASSUME CallsInv, NEW c \in Calls, result[c] = "SUCCESS"
                 PROVE  LET r == request[c]
                        IN  /\ r.strategy \in {"PARALLEL", "ALL_SUCCESS"} =>
                                \A i \in 1..Started(r) : delegation[c][i] \in Fulfilled
                            /\ r.strategy = "SEQUENTIAL" =>
                                \A i \in Indices(c) : delegation[c][i] \in
                                    (IF r.failFast THEN {"succeeded"} ELSE Fulfilled)
                            /\ r.strategy = "FIRST_SUCCESS" =>
                                delegation[c][winner[c]] = "succeeded"
                            /\ r.strategy = "QUORUM" =>
                                Cardinality(Which(c, Fulfilled)) >= r.quorum
                            /\ r.strategy = "MAJORITY_VOTING" /\ (\A a \in Agents : r.weight[a] = 1) =>
                                /\ Cardinality(Which(c, {"succeeded"})) = 1
                                /\ Which(c, {"failed"}) = {}
      BY DEF SuccessFollowsPromises
    <2>1. Backing(request[c], delegation[c], winner[c])
      BY DEF CallsInv, CallOK
    <2>2. \A states : Which(c, states) = Those(request[c], delegation[c], states)
      BY DEF Which, Indices, AgentsOf, Those
    <2>3. Indices(c) = DOMAIN request[c].agents
      BY DEF Indices, AgentsOf
    <2> QED BY <2>1, <2>2, <2>3 DEF Backing
  <1> QED BY <1>1, CallsInvariant, PTL

-----------------------------------------------------------------------------
(* The map of coordinations.                                               *)

Coordination ==
    [owner : Calls \cup {NoId}, status : {"NONE", "RUNNING", "SUCCESS", "TIMEOUT", "CANCELLED"}]

Tracked(c) ==
    /\ pc[c] = "executing"
    /\ \A other \in Calls \ {c} : request[other] # NoRequest => request[other].id # request[c].id
    => coordinations[request[c].id].owner = c

TrackInv ==
    /\ DOMAIN coordinations = Ids
    /\ \A id \in Ids : coordinations[id] \in Coordination
    /\ \A id \in Ids : LET owner == coordinations[id].owner
                       IN  owner # NoId => pc[owner] = "executing" /\ request[owner].id = id
    /\ \A c \in Calls : Tracked(c)

\* The calls under way have a request of their own.
LEMMA UnderWay ==
    ASSUME CallsInv, NEW c \in Calls
    PROVE  /\ pc[c] \in {"checking", "executing"} =>
                request[c] \in Requests /\ request[c] # NoRequest /\ request[c].id \in Ids
           /\ pc[c] = "idle" => request[c] = NoRequest
  <1>1. CallOK(pc[c], request[c], delegation[c], winner[c], result[c])
    BY DEF CallsInv
  <1>2. ASSUME pc[c] \in {"checking", "executing"}
        PROVE  request[c] \in Requests /\ request[c] # NoRequest /\ request[c].id \in Ids
    <2>1. request[c] \in Requests /\ request[c].agents # <<>>
      BY <1>1, <1>2 DEF CallOK, ValidateCoordinationRequest
    <2>2. NoRequest.agents = <<>>
      BY DEF NoRequest
    <2>3. request[c].id \in Ids
      BY <2>1, RequestTypes
    <2> QED BY <2>1, <2>2, <2>3
  <1> QED BY <1>1, <1>2 DEF CallOK

\* A call that ends takes the entry of its id with it, whosever it is.
LEMMA ForgetKeeps ==
    ASSUME CallsInv, TrackInv, NEW c \in Calls, pc[c] \in {"checking", "executing"},
           Forget(request[c].id), NEW p \in {"returned", "threw"}, pc' = [pc EXCEPT ![c] = p],
           request' = request
    PROVE  TrackInv'
  <1> DEFINE here == request[c].id
             gone == [owner |-> NoId, status |-> "NONE"]
  <1>1. here \in Ids /\ request[c] # NoRequest
    BY UnderWay
  <1>2. /\ coordinations' = [coordinations EXCEPT ![here] = gone]
        /\ DOMAIN coordinations' = Ids
    BY DEF Forget, TrackInv
  <1>3. /\ coordinations'[here] = gone
        /\ \A id \in Ids \ {here} : coordinations'[id] = coordinations[id]
    BY <1>1, <1>2 DEF TrackInv
  <1>4. pc'[c] = p /\ \A e \in Calls \ {c} : pc'[e] = pc[e]
    BY DEF CallsInv
  <1> HIDE DEF here
  <1>5. ASSUME NEW id \in Ids
        PROVE  /\ coordinations'[id] \in Coordination
               /\ LET owner == coordinations'[id].owner
                  IN  owner # NoId => pc'[owner] = "executing" /\ request'[owner].id = id
    <2>1. CASE id = here
      BY <1>3, <2>1 DEF Coordination
    <2>2. CASE id # here
      <3>1. coordinations'[id] = coordinations[id]
        BY <1>3, <2>2
      <3> DEFINE owner == coordinations[id].owner
      <3>2. /\ coordinations[id] \in Coordination
            /\ owner # NoId => pc[owner] = "executing" /\ request[owner].id = id
        BY DEF TrackInv
      <3>3. owner \in Calls \cup {NoId}
        BY <3>2 DEF Coordination
      <3>4. owner # NoId => owner \in Calls \ {c}
        BY <2>2, <3>2, <3>3 DEF here
      <3> HIDE DEF owner
      <3>5. owner # NoId => pc'[owner] = "executing" /\ request'[owner].id = id
        BY <1>4, <3>2, <3>4
      <3> QED BY <3>1, <3>2, <3>5 DEF owner
    <2> QED BY <2>1, <2>2
  <1>6. ASSUME NEW e \in Calls
        PROVE  Tracked(e)'
    <2> SUFFICES ASSUME pc'[e] = "executing",
                        \A other \in Calls \ {e} :
                            request'[other] # NoRequest => request'[other].id # request'[e].id
                 PROVE  coordinations'[request'[e].id].owner = e
      BY DEF Tracked
    <2>1. e # c
      BY <1>4
    <2>2. pc[e] = "executing" /\ request[e].id # here
      BY <1>1, <1>4, <2>1 DEF here
    <2>3. coordinations[request[e].id].owner = e
      BY <2>2 DEF TrackInv, Tracked
    <2>4. request[e].id \in Ids
      BY <2>2, UnderWay
    <2> QED BY <1>3, <2>2, <2>3, <2>4
  <1> QED BY <1>2, <1>5, <1>6 DEF TrackInv

\* A call that gets under way or on enters no other's id unless they share it.
LEMMA ExecuteCoordinationTracks ==
    ASSUME CallsInv, TrackInv, NEW c \in Calls, ExecuteCoordination(c)
    PROVE  TrackInv'
  <1> DEFINE here == request[c].id
             mine == [owner |-> c, status |-> "RUNNING"]
  <1>1. /\ pc[c] = "checking" /\ pc' = [pc EXCEPT ![c] = "executing"] /\ request' = request
        /\ coordinations' = [coordinations EXCEPT ![here] = mine]
    BY DEF ExecuteCoordination
  <1>2. here \in Ids /\ request[c] # NoRequest
    BY <1>1, UnderWay
  <1>3. /\ coordinations'[here] = mine /\ DOMAIN coordinations' = Ids
        /\ \A id \in Ids \ {here} : coordinations'[id] = coordinations[id]
    BY <1>1, <1>2 DEF TrackInv
  <1>4. pc'[c] = "executing" /\ \A e \in Calls \ {c} : pc'[e] = pc[e]
    BY <1>1 DEF CallsInv
  <1> HIDE DEF here
  <1>5. ASSUME NEW id \in Ids
        PROVE  /\ coordinations'[id] \in Coordination
               /\ LET owner == coordinations'[id].owner
                  IN  owner # NoId => pc'[owner] = "executing" /\ request'[owner].id = id
    <2>1. CASE id = here
      BY <1>1, <1>3, <1>4, <2>1 DEF here, Coordination
    <2>2. CASE id # here
      <3>1. coordinations'[id] = coordinations[id]
        BY <1>3, <2>2
      <3> DEFINE owner == coordinations[id].owner
      <3>2. /\ coordinations[id] \in Coordination
            /\ owner # NoId => pc[owner] = "executing" /\ request[owner].id = id
        BY DEF TrackInv
      <3>3. owner \in Calls \cup {NoId}
        BY <3>2 DEF Coordination
      <3> HIDE DEF owner
      <3>4. owner # NoId => pc'[owner] = "executing" /\ request'[owner].id = id
        BY <1>1, <1>4, <3>2, <3>3
      <3> QED BY <3>1, <3>2, <3>4 DEF owner
    <2> QED BY <2>1, <2>2
  <1>6. ASSUME NEW e \in Calls
        PROVE  Tracked(e)'
    <2> SUFFICES ASSUME pc'[e] = "executing",
                        \A other \in Calls \ {e} :
                            request'[other] # NoRequest => request'[other].id # request'[e].id
                 PROVE  coordinations'[request'[e].id].owner = e
      BY DEF Tracked
    <2>1. CASE e = c
      BY <1>1, <1>3, <2>1 DEF here
    <2>2. CASE e # c
      <3>1. pc[e] = "executing" /\ request[e].id # here
        BY <1>1, <1>2, <1>4, <2>2 DEF here
      <3>2. coordinations[request[e].id].owner = e
        BY <1>1, <3>1 DEF TrackInv, Tracked
      <3>3. request[e].id \in Ids
        BY <3>1, UnderWay
      <3> QED BY <1>1, <1>3, <3>1, <3>2, <3>3
    <2> QED BY <2>1, <2>2
  <1> QED BY <1>3, <1>5, <1>6 DEF TrackInv

\* A call that begins takes its id from no one.
LEMMA AssignTracks ==
    ASSUME CallsInv, TrackInv, NEW c \in Calls, NEW r \in Requests, Assign(c, r)
    PROVE  TrackInv'
  <1>1. /\ pc[c] = "idle" /\ pc'[c] # "executing" /\ coordinations' = coordinations
        /\ \A e \in Calls \ {c} : pc'[e] = pc[e] /\ request'[e] = request[e]
    BY DEF Assign, CallsInv
  <1>2. request[c] = NoRequest
    BY <1>1, UnderWay
  <1>3. ASSUME NEW id \in Ids, coordinations'[id].owner # NoId
        PROVE  /\ pc'[coordinations'[id].owner] = "executing"
               /\ request'[coordinations'[id].owner].id = id
    <2> DEFINE owner == coordinations[id].owner
    <2>1. coordinations[id] \in Coordination
      BY DEF TrackInv
    <2>2. owner \in Calls /\ pc[owner] = "executing" /\ request[owner].id = id
      BY <1>1, <1>3, <2>1 DEF TrackInv, Coordination
    <2> HIDE DEF owner
    <2>3. owner # c
      BY <1>1, <2>2
    <2> QED BY <1>1, <2>2, <2>3 DEF owner
  <1>4. ASSUME NEW e \in Calls
        PROVE  Tracked(e)'
    <2> SUFFICES ASSUME pc'[e] = "executing",
                        \A other \in Calls \ {e} :
                            request'[other] # NoRequest => request'[other].id # request'[e].id
                 PROVE  coordinations'[request'[e].id].owner = e
      BY DEF Tracked
    <2>1. e # c /\ pc[e] = "executing" /\ request'[e] = request[e]
      BY <1>1
    <2>2. \A other \in Calls \ {e} :
                request[other] # NoRequest => request[other].id # request[e].id
      BY <1>1, <1>2, <2>1
    <2> QED BY <1>1, <2>1, <2>2 DEF TrackInv, Tracked
  <1> QED BY <1>1, <1>3, <1>4 DEF TrackInv

\* Reports and cancellations write the status only.
LEMMA StatusTracks ==
    ASSUME CallsInv, TrackInv, NEW id \in Ids, Collect(id) \/ Timeout(id) \/ Cancel(id)
    PROVE  TrackInv'
  <1>1. PICK status \in {"SUCCESS", "TIMEOUT", "CANCELLED"} : SetStatus(id, status)
    BY DEF Collect, Timeout, Cancel
  <1>2. /\ coordinations' = [coordinations EXCEPT ![id].status = status]
        /\ pc' = pc /\ request' = request
    BY <1>1 DEF SetStatus, assignVars
  <1>3. /\ DOMAIN coordinations' = Ids
        /\ \A other \in Ids :
            /\ coordinations'[other] \in Coordination
            /\ coordinations'[other].owner = coordinations[other].owner
    BY <1>2 DEF TrackInv, Coordination
  <1>4. ASSUME NEW e \in Calls
        PROVE  Tracked(e)'
    <2>1. pc[e] = "executing" => request[e].id \in Ids
      BY UnderWay
    <2> QED BY <1>2, <1>3, <2>1 DEF TrackInv, Tracked
  <1> QED BY <1>2, <1>3, <1>4 DEF TrackInv

LEMMA SameTracks ==
    ASSUME TrackInv, UNCHANGED <<pc, request, coordinations>>
    PROVE  TrackInv'
  BY DEF TrackInv, Tracked

LEMMA AssignStepTracks ==
    ASSUME CallsInv, TrackInv, NEW c \in Calls, AssignStep(c)
    PROVE  TrackInv'
  <1>1. CASE ValidateAgentAvailability(c)
    BY <1>1, SameTracks DEF ValidateAgentAvailability
  <1>2. CASE InsufficientAgents(c)
    BY <1>2, ForgetKeeps DEF InsufficientAgents
  <1>3. CASE ExecuteCoordination(c)
    BY <1>3, ExecuteCoordinationTracks
  <1>4. CASE ExecuteNext(c)
    BY <1>4, SameTracks DEF ExecuteNext
  <1>5. ASSUME NEW status, pc[c] = "executing", Return(c, status) \/ Throw(c)
        PROVE  TrackInv'
    BY <1>5, ForgetKeeps DEF Return, Throw
  <1>6. Conclude(c) => pc[c] = "executing" /\ \E status : Return(c, status) \/ Throw(c)
    BY DEF Conclude, ExecuteParallel, ExecuteSequential, ExecuteFirstSuccess, ExecuteQuorum,
           ExecuteMajorityVoting, Ended
  <1> QED BY <1>1, <1>2, <1>3, <1>4, <1>5, <1>6 DEF AssignStep

LEMMA TeamTracks ==
    ASSUME MailInv, CallsInv, TrackInv, [TeamNext]_vars
    PROVE  TrackInv'
  <1>1. ASSUME NEW c \in Calls, NEW r \in workload.assign[c], Assign(c, r)
        PROVE  TrackInv'
    <2>1. r \in Requests
      BY TeamAssumption DEF MailInv
    <2> QED BY <1>1, <2>1, AssignTracks
  <1>2. ASSUME NEW h, NEW to, HandoffBegin(h, to) PROVE TrackInv'
    BY <1>2, SameTracks DEF HandoffBegin, assignVars
  <1>3. ASSUME NEW id \in Ids, Collect(id) \/ Timeout(id) \/ Cancel(id) PROVE TrackInv'
    BY <1>3, StatusTracks
  <1>4. ASSUME NEW a, AgentLeaves(a) \/ AgentErrs(a) PROVE TrackInv'
    BY <1>4, SameTracks DEF AgentLeaves, AgentErrs, assignVars
  <1>5. ASSUME NEW c \in Calls, AssignStep(c) PROVE TrackInv'
    BY <1>5, AssignStepTracks
  <1>6. ASSUME NEW c \in Calls, DelegateStep(c) PROVE TrackInv'
    BY <1>6, SameTracks DEF DelegateStep, Delegate, DelegateReturns
  <1>7. ASSUME NEW h, HandoffStep(h) PROVE TrackInv'
    BY <1>7, SameTracks DEF HandoffStep, HandoffFinds, HandoffReturns, assignVars
  <1>8. CASE CoordinatorCalls
    BY <1>1, <1>2, <1>3, <1>4, <1>8 DEF CoordinatorCalls
  <1>9. CASE CoordinatorSteps
    BY <1>5, <1>6, <1>7, <1>9 DEF CoordinatorSteps
  <1>10. ASSUME UNCHANGED coordinatorVars PROVE TrackInv'
    BY <1>10, SameTracks DEF coordinatorVars, assignVars
  <1>11. \A b : Broadcast(b) \/ BroadcastStep(b) => UNCHANGED coordinatorVars
    BY DEF Broadcast, BroadcastStep, BroadcastTo, BroadcastEnds
  <1>12. UNCHANGED vars => UNCHANGED coordinatorVars
    BY DEF vars
  <1> QED BY <1>8, <1>9, <1>10, <1>11, <1>12 DEF TeamNext

LEMMA TrackInitially == TeamInit => TrackInv
  <1> SUFFICES ASSUME TeamInit PROVE TrackInv
    OBVIOUS
  <1>1. /\ pc = [c \in Calls |-> "idle"]
        /\ coordinations = [id \in Ids |-> [owner |-> NoId, status |-> "NONE"]]
    BY DEF TeamInit, CoordinatorInit
  <1> QED BY <1>1 DEF TrackInv, Tracked, Coordination

\* Calls of assign() with one id or several, ending in any order and reported on or
\* cancelled meanwhile: no coordination outlives its call, and one whose id no other
\* call uses can be found as long as it executes.
THEOREM CoordinationsFound == TeamSpec => []CoordinationsTracked
  <1>1. TrackInv => CoordinationsTracked
    BY DEF TrackInv, Tracked, CoordinationsTracked
  <1>2. MailInv /\ CallsInv /\ TrackInv /\ [TeamNext]_vars => TrackInv'
    BY TeamTracks
  <1> QED BY <1>1, <1>2, MailInvariant, CallsInvariant, TrackInitially, PTL DEF TeamSpec
=============================================================================
